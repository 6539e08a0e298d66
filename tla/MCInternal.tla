------------------------------- MODULE MCInternal -------------------------------
(* Limits of one or two attempts and windows of a few ticks, so that each
   is reached and passes within the run. *)
EXTENDS InternalRoutes, TLC

CONSTANT i1
Requests == {<<"dispatch", i1>>, <<"event", i1>>}

Limits == {"dispatch-replay", "event-replay", "event-request"}

SmallMax    == [l \in Limits |-> 1]
SmallWindow == [l \in Limits |-> 3]

Symmetry == Permutations(Slots)
=============================================================================
