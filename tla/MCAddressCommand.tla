--------------------------- MODULE MCAddressCommand ---------------------------
(* Small instances of AddressCommand for TLC.                              *)
EXTENDS AddressCommand

CONSTANTS u1, u2, a1, a2, a3, r1, r2, r3

OneUser == {u1}
TwoUsers == {u1, u2}
OneUserRows == [a \in Row |-> u1]
TwoUserRows == [a \in Row |-> IF a = a3 THEN u2 ELSE u1]

AllCommands == Commands
NoDelete == Commands \ {"delete"}
=============================================================================
