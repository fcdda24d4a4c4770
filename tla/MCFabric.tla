------------------------------ MODULE MCFabric ------------------------------
(***************************************************************************)
(* Instances of Fabric for TLC.  Paths are interchangeable: no definition  *)
(* orders them and no other constant mentions one.                         *)
(*                                                                         *)
(* A run starts from images that earlier incarnations leave on disk, and   *)
(* that the program reaches from an empty one, rather than walk there      *)
(* again.                                                                  *)
(***************************************************************************)
EXTENDS Fabric, TLC

PathSymmetry == Permutations(Paths)

\* An image on disk, with its attempts in the order in which they are listed.
Left(image, ids) ==
    /\ up = FALSE
    /\ state = EmptyState
    /\ mem = EmptyMemory
    /\ disk = image
    /\ arrival = [i \in AttemptIds |->
                    IF \E k \in DOMAIN ids : ids[k] = i
                    THEN CHOOSE k \in DOMAIN ids : ids[k] = i ELSE 0]

\* The last incarnation was given every definition, the set last.
Given(v) ==
    [EmptyState EXCEPT
        !.authority = v,
        !.policy = [generation |-> v.policy, max_revalidations |-> MaxBudget],
        !.obligations = v.obligations,
        !.sets = [i \in SetIds |-> [generation |-> v.epoch, members |-> Paths, declared |-> v]]]

FirstVector == [f \in DOMAIN NoAuthority |-> 1]

ConfiguredSpec == Left(Given(FirstVector), <<>>) /\ [][Next]_vars

-----------------------------------------------------------------------------
(* Images with attempts.  Where a generation is 2 it cannot move again, so    *)
(* that each image leaves some of the handlers that move the vector to use.   *)
(* No incarnation compacted, so the second one recovered counters of 0 and    *)
(* gave out identity 1 again.                                                 *)

Promotion(p, q, v, how) ==
    [incumbent |-> p, selected |-> q, basis |-> v, state |-> how, revalidations |-> 0]

\* One incarnation, whose attempt was fenced.
Fenced(p, q) ==
    LET v == [FirstVector EXCEPT !.topology = 2, !.policy = 2, !.obligations = 2]
    IN  [Given(v) EXCEPT
            !.attempts[1] = Promotion(p, q, v, "fenced"),
            !.fences = {[id |-> 1, epoch |-> 1, attempt |-> 1, path |-> NoPath]}]

\* Two incarnations, the second of which died with an attempt in flight.
InFlight(p, q) ==
    LET v == [FirstVector EXCEPT !.epoch = 2, !.boot = 2, !.policy = 2]
    IN  [Given(v) EXCEPT !.attempts[1] = Promotion(p, q, v, "authorized")]

\* Two incarnations.  The first one had three promotions refused, with identities
\* 1, 3 and 5 (each moves the counter twice), the second one had its attempt
\* committed.  Of a table of two the records of 5 and 1 are left, in this order,
\* and of a history of one the last entry.
Worn(p, q) ==
    LET v == [FirstVector EXCEPT !.epoch = 2, !.boot = 2, !.obligations = 2]
    IN  [Given(v) EXCEPT
            !.attempts[5] = Promotion(p, NoPath, FirstVector, "refused"),
            !.attempts[1] = Promotion(p, q, v, "committed"),
            !.lineage = <<Entry(Given(v), 1, 1, "promoted", q)>>]

RestartedInit ==
    \E p, q \in Paths :
        /\ p # q
        /\ \/ Left(Fenced(p, q), <<1>>)
           \/ Left(InFlight(p, q), <<1>>)
           \/ Left(Worn(p, q), <<5, 1>>)

RestartedSpec == RestartedInit /\ [][Next]_vars
=============================================================================
