--------------------------- MODULE MCPaseoService ---------------------------
(* Two services, as Shepherd and a user may start them, and two directories.*)
EXTENDS PaseoService
=============================================================================
