----------------------------- MODULE MCSixLock -----------------------------
(* SixLock with three threads: writers, readers and threads that wait for    *)
(* them, with or without threads that give up.                               *)
EXTENDS SixLock

CONSTANTS t1, t2, t3

ThreeThreads == {t1, t2, t3}

\* One thread can read, take intent and write, one take intent and write.
Staggered == [t \in ThreeThreads |-> IF t = t1 THEN 3 ELSE IF t = t2 THEN 2 ELSE 1]

\* One thread can write, one waits and comes back, one waits once.
OneOnce == [t \in ThreeThreads |-> IF t = t3 THEN 1 ELSE 2]

=============================================================================
