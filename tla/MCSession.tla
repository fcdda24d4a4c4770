------------------------------- MODULE MCSession -------------------------------
(***************************************************************************)
(* Bounds for Session.  Each budget is there for some cases: a connection  *)
(* that fails or a server that dies under two calls; a call after a failed *)
(* one, to the end of the session's request budget; another peer beside a  *)
(* call of the library; another peer across a restart.                     *)
(***************************************************************************)
EXTENDS Session

MCBudgets ==
    {[conns |-> 2, calls |-> 2, frames |-> 0, faults |-> 1, crashes |-> 1],
     [conns |-> 2, calls |-> 3, frames |-> 0, faults |-> 1, crashes |-> 0],
     [conns |-> 1, calls |-> 1, frames |-> 2, faults |-> 0, crashes |-> 0],
     [conns |-> 0, calls |-> 0, frames |-> 3, faults |-> 0, crashes |-> 1]}
==============================================================================
