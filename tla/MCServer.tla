------------------------------- MODULE MCServer -------------------------------
(***************************************************************************)
(* Three servers: one that a second session overfills; one with two        *)
(* sessions at a time under failing accepts and threads; and one whose     *)
(* sessions pipeline and may not stop it.                                  *)
(***************************************************************************)
EXTENDS Server

MCSetups ==
    {[max_sessions |-> 1, max_frames |-> 2, allow_shutdown |-> TRUE, thread_faults |-> FALSE],
     [max_sessions |-> 2, max_frames |-> 1, allow_shutdown |-> TRUE, thread_faults |-> TRUE],
     [max_sessions |-> 2, max_frames |-> 2, allow_shutdown |-> FALSE, thread_faults |-> FALSE]}
==============================================================================
