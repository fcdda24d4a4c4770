------------------------------ MODULE Authority ------------------------------
(***************************************************************************)
(* Authority vectors and their classification (src/src/authority.cpp,      *)
(* src/include/pff/authority.hpp).                                         *)
(*                                                                         *)
(* A vector names the generations a claim belongs to.  Every identifier is *)
(* a 64-bit value in which 0 means "absent"; it is a natural number here.  *)
(* Only the overall class is kept: which field blocked (the reason) is     *)
(* wording.                                                                *)
(***************************************************************************)
EXTENDS Naturals

\* A vector carries four generations, the coordinator epoch and the boot
\* identity of the incarnation.
AuthorityVector ==
    [topology : Nat, path_authority : Nat, policy : Nat, obligations : Nat,
     epoch : Nat, boot : Nat]

\* The vector of a fabric that was never told anything.
NoAuthority ==
    [topology |-> 0, path_authority |-> 0, policy |-> 0, obligations |-> 0,
     epoch |-> 0, boot |-> 0]

AuthorityClass == {"current", "stale", "unknown", "conflict"}

\* Generations and the epoch are ordered: behind is stale, ahead means that
\* supplier and runtime disagree about what exists.
ClassifyGeneration(supplied, current) ==
    IF supplied = 0 \/ current = 0 THEN "unknown"
    ELSE IF supplied = current THEN "current"
    ELSE IF supplied < current THEN "stale" ELSE "conflict"

\* A boot identity is random: a different one is never newer, only stale.
ClassifyBoot(supplied, current) ==
    IF supplied = 0 \/ current = 0 THEN "unknown"
    ELSE IF supplied = current THEN "current" ELSE "stale"

FieldClasses(supplied, current) ==
    {ClassifyGeneration(supplied.topology, current.topology),
     ClassifyGeneration(supplied.path_authority, current.path_authority),
     ClassifyGeneration(supplied.policy, current.policy),
     ClassifyGeneration(supplied.obligations, current.obligations),
     ClassifyGeneration(supplied.epoch, current.epoch),
     ClassifyBoot(supplied.boot, current.boot)}

\* The overall class is the most severe field class.
Classify(supplied, current) ==
    LET classes == FieldClasses(supplied, current)
    IN  IF "conflict" \in classes THEN "conflict"
        ELSE IF "unknown" \in classes THEN "unknown"
        ELSE IF "stale" \in classes THEN "stale" ELSE "current"
==============================================================================
