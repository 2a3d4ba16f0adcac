------------------------------ MODULE MCSetup ------------------------------
(* Model checking of Setup: the values are in MCSetup.cfg.                  *)
EXTENDS Setup
=============================================================================
