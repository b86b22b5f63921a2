----------------------------- MODULE MCLifecycle -----------------------------
(* TLC instance of Lifecycle: two clients making four calls.                 *)
EXTENDS Lifecycle
=============================================================================
