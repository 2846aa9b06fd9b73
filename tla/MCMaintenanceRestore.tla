----------------------- MODULE MCMaintenanceRestore -----------------------
(* Instances of MaintenanceRestore for TLC.                                 *)
EXTENDS MaintenanceRestore
=============================================================================
