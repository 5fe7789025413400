----------------------------- MODULE MCOfflineSync -----------------------------
(* TLC instance of OfflineSync: the constants are in MCOfflineSync.cfg. *)
EXTENDS OfflineSync
===============================================================================
