----------------------------- MODULE MCBranchGC -----------------------------
(* Two branches, a helper of the broker and one run by hand.               *)
EXTENDS BranchGC
=============================================================================
