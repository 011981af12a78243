----------------------------- MODULE MCOfflineRunner -----------------------------
(* TLC instance of OfflineRunner: two launches of one run.                     *)
EXTENDS OfflineRunner
==================================================================================
