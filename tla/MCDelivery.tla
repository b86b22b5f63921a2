----------------------------- MODULE MCDelivery ------------------------------
(* TLC instances of Delivery: every link and kind of command, up to three    *)
(* attempts and transmissions and two repeated replies.                      *)
EXTENDS Delivery
=============================================================================
