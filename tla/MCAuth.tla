------------------------------- MODULE MCAuth -------------------------------
(***************************************************************************)
(* Model checking of Auth.  A clock of 4 ticks holds a verification of one *)
(* tick, a cached verdict that expires and another verification.           *)
(*   MCAuthOverlap.cfg   two callers whose verifications overlap           *)
(*   MCAuthRevoked.cfg   the same, for the promise that an overlap breaks  *)
(***************************************************************************)
EXTENDS Auth, TLC

CallerSymmetry == Permutations(Callers)
=============================================================================
