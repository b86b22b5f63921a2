--------------------------- MODULE MCSecureChannel ---------------------------
(* TLC instances of SecureChannel.  MCChannelTime.cfg: two requests and       *)
(* moving clocks.  MCChannelResync.cfg: three requests, a reboot, a restart   *)
(* and a second of time.                                                      *)
EXTENDS SecureChannel
=============================================================================
