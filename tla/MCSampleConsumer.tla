---------------------------- MODULE MCSampleConsumer ----------------------------
(* Small instances of SampleConsumer for TLC.                              *)
EXTENDS SampleConsumer

CONSTANTS t1, t2, m1, m2

(* Next to a message of t1: one of another tenant, of none, or invalid.    *)
DeliveriesDef ==
    {[m \in Message |-> IF m = m1 THEN t1 ELSE other] : other \in {t2, NoTenant, Invalid}}
=============================================================================
