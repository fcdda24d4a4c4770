------------------------------ MODULE DurableLog ------------------------------
(***************************************************************************)
(* What the store promises its client: a log of records that only grows,   *)
(* one record past what was acknowledged, and never loses, reorders or     *)
(* replaces a record that was acknowledged.  Crashes, restarts, torn tails *)
(* and compaction are invisible.                                           *)
(***************************************************************************)
EXTENDS Sequences

CONSTANT Payload

VARIABLES
    log,    \* the records a recovery would return
    acked   \* the records whose append was reported as done

vars == <<log, acked>>

Init == log = <<>> /\ acked = <<>>

\* A record reaches stable storage before its append is acknowledged.
Write(p) ==
    /\ log = acked
    /\ log' = Append(log, p)
    /\ UNCHANGED acked

\* The append returns, or a recovery adopts the record it found.
Acknowledge ==
    /\ acked' = log
    /\ UNCHANGED log

Next == Acknowledge \/ \E p \in Payload : Write(p)

Spec == Init /\ [][Next]_vars
==============================================================================
