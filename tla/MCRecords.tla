----------------------------- MODULE MCRecords -----------------------------
(* One execution of either tier, three processes, two boots, two failures. *)
EXTENDS RecordsExecution
=============================================================================
