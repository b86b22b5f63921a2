------------------------------- MODULE MCBle ---------------------------------
(* TLC instance of Ble: three messages of one, two or (too long) three bytes, *)
(* whose bytes are lengths, too; fragments of up to four bytes, of which two  *)
(* may be late or lost; an inbox for two messages.                            *)
EXTENDS Ble
MCPayloads == {<<1>>, <<0, 2>>, <<0, 0, 0>>}
=============================================================================
