---------------------------- MODULE MCSessionLock ----------------------------
(* TLC instance of SessionLock: two senders with any methods, the listener.   *)
EXTENDS SessionLock
=============================================================================
