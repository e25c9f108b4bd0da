------------------------------ MODULE MCDriver ------------------------------
(* Instances of Driver: how much of each thing may happen. *)
EXTENDS Driver

LimitsMC == [ask |-> 2, request |-> 1, fail |-> 2, fault |-> 1, early |-> 1]
LimitsPutOff == [ask |-> 2, request |-> 0, fail |-> 1, fault |-> 0, early |-> 0]
=============================================================================
