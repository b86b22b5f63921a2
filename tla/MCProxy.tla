------------------------------ MODULE MCProxy --------------------------------
(* TLC instance of Proxy: three requests for one vehicle, the first with any  *)
(* command, which may be signed twice; a second vehicle competes for a cache  *)
(* with room for one.                                                         *)
EXTENDS Proxy
CONSTANTS r1, r2, r3, vinA, vinB
MCVinOf == [r \in {r1, r2, r3} |-> vinA]
MCKinds == [r \in {r1, r2, r3} |-> IF r = r1 THEN Kinds ELSE {"signed"}]
MCMaxSigned == [r \in {r1, r2, r3} |-> IF r = r1 THEN 2 ELSE 1]
=============================================================================
