---------------------------------- MODULE Rpc ---------------------------------
(***************************************************************************)
(* What the client library and the server together promise a caller:       *)
(* operations that are carried out at most once, only after they were      *)
(* called, and before they are reported as done.  A call that fails says   *)
(* nothing: its operation may have been carried out, may never be, and may *)
(* be carried out later, even after later calls.                           *)
(***************************************************************************)
EXTENDS Naturals, Sequences

VARIABLES
    calls,  \* the calls made so far, with what the caller was told
    done    \* the operations carried out, in order: a call, or 0 for one that
            \* somebody else asked for

vars == <<calls, done>>

IsDone(k) == \E i \in DOMAIN done : done[i] = k

Init == calls = <<>> /\ done = <<>>

\* One caller, one call at a time.
Make(outcome) ==
    /\ \A k \in DOMAIN calls : calls[k] # "open"
    /\ calls' = Append(calls, outcome)
    /\ UNCHANGED done

\* Never a second time, and never after the caller was answered.
Do(k) ==
    /\ k \in DOMAIN calls
    /\ ~IsDone(k)
    /\ calls[k] \in {"open", "failed"}
    /\ done' = Append(done, k)
    /\ UNCHANGED calls

DoForOthers ==
    /\ done' = Append(done, 0)
    /\ UNCHANGED calls

Tell(k, outcome) ==
    /\ k \in DOMAIN calls
    /\ calls[k] = "open"
    /\ outcome = "ok" => IsDone(k)
    /\ calls' = [calls EXCEPT ![k] = outcome]
    /\ UNCHANGED done

Next ==
    \/ \E outcome \in {"open", "failed"} : Make(outcome)
    \/ \E k \in DOMAIN calls : Do(k)
    \/ DoForOthers
    \/ \E k \in DOMAIN calls, outcome \in {"ok", "refused", "failed"} : Tell(k, outcome)

Spec == Init /\ [][Next]_vars
==============================================================================
