----------------------------- MODULE MCHandshake -----------------------------
(* TLC instance of Handshake: two domains, one with two attempts and good     *)
(* replies, the other with one attempt and bad ones (its transport may fail   *)
(* as well).                                                                  *)
EXTENDS Handshake
CONSTANTS vcsec, infotainment
MCTries == [d \in {vcsec, infotainment} |-> IF d = vcsec THEN 2 ELSE 1]
MCKinds == [d \in {vcsec, infotainment} |->
              IF d = vcsec THEN {"info"} ELSE {"useless", "refused"}]
=============================================================================
