--------------------------- MODULE MCExportTasks ---------------------------
(* Instances of ExportTasks for TLC.  No symmetry: liveness is checked.     *)
EXTENDS ExportTasks
=============================================================================
