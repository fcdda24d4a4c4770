------------------------------- MODULE MCStore -------------------------------
(***************************************************************************)
(* The store with two payloads, one of them longer than the other's whole  *)
(* record is short of: a torn long record can swallow a short one.         *)
(***************************************************************************)
EXTENDS Store

CONSTANTS short, long

Payloads == {short, long}

BodyUnits == [p \in Payloads |-> IF p = short THEN 1 ELSE 5]
==============================================================================
