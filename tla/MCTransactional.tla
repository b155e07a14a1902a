---------------------------- MODULE MCTransactional ----------------------------
(* Small instances of Transactional for TLC.                               *)
EXTENDS Transactional

AllKinds == {"command", "findAll", "findOne"}
=============================================================================
