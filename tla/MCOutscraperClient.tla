------------------------- MODULE MCOutscraperClient -------------------------
(***************************************************************************)
(* The TLC instance of OutscraperClient: the constants are in its cfg.     *)
(***************************************************************************)
EXTENDS OutscraperClient
=============================================================================
