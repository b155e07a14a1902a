---------------------------- MODULE MCQueryServices ----------------------------
(* Small instances of QueryServices for TLC.                               *)
EXTENDS QueryServices

CONSTANTS r1, r2, r3, o1, o2

OwnerOfDef == [r \in Row |-> IF r = r3 THEN o2 ELSE o1]
PriceOfDef == [r \in Row |-> IF r = r1 THEN 2 ELSE 1]
=============================================================================
