----------------------------- MODULE MCVerifier ------------------------------
(* TLC instances of Verifier: MCVerifierReplay.cfg has many counters and     *)
(* little time, MCVerifierClock.cfg has two counters, one of them 0, and     *)
(* much time.                                                                *)
EXTENDS Verifier
=============================================================================
