----------------------------- MODULE ModeLocks -----------------------------
(* What nocow_locking.h promises: for each device bucket a lock with two      *)
(* shared modes, held by any number of threads in one and by nobody in the    *)
(* other.                                                                     *)
EXTENDS Integers

CONSTANTS Threads, Locks

VARIABLE holds      \* [Threads -> the lock and mode it holds, at most one]

Modes == {1, -1}

Init == holds = [t \in Threads |-> {}]

Take(t, k, m) ==
    /\ holds[t] = {}
    /\ \A u \in Threads : <<k, -m>> \notin holds[u]
    /\ holds' = [holds EXCEPT ![t] = {<<k, m>>}]

Drop(t) ==
    /\ holds[t] # {}
    /\ holds' = [holds EXCEPT ![t] = {}]

Next == \E t \in Threads : Drop(t) \/ \E k \in Locks, m \in Modes : Take(t, k, m)

Spec == Init /\ [][Next]_holds
=============================================================================
