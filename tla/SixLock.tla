------------------------------ MODULE SixLock ------------------------------
(***************************************************************************)
(* The six lock (six.c): a read/intent/write lock whose state is one       *)
(* atomic word.  A read lock excludes write, intent excludes intent, and a *)
(* write lock is taken by a task that holds intent, so that only readers   *)
(* have to drain.  Taking and dropping a lock touches the word only; the   *)
(* list of waiters is under wait_lock, and who drops a lock hands it over  *)
(* to the waiters it finds there.  should_sleep_fn, the deadlock detector  *)
(* of the btree code, can make a waiter give up at any time, also when the *)
(* lock has just been handed to it.                                        *)
(*                                                                         *)
(* One action is one access to the word or one step under wait_lock; a     *)
(* compare-and-swap loop is one step, because what it decides depends on   *)
(* nothing but the word. owner is written only by who has intent or hands  *)
(* it over, and changes with the word. lock->readers is NULL: percpu       *)
(* readers exist only in the kernel (__six_lock_init), as does optimistic  *)
(* spinning, without which SIX_LOCK_NOSPIN is never set.                   *)
(***************************************************************************)
EXTENDS Integers, Sequences, SequencesExt, FiniteSetsExt

CONSTANTS
    Threads,
    NoThread,
    Calls,          \* what is done besides locking and unlocking
    MaxOps          \* bound: [Threads -> lock operations it starts]

ASSUME SixLockAssumption ==
    /\ NoThread \notin Threads
    /\ Calls \subseteq {"trylock", "relock", "increment", "upgrade", "nested", "abort"}
    /\ MaxOps \in [Threads -> Nat]

VARIABLES
    lock,       \* the word, owner, seq, intent_lock_recurse and write_lock_recurse
    wait_list,  \* the tasks of lock->wait_list
    wait_lock,  \* who holds the spinlock
    acquired,   \* the waiters whose lock_acquired is set
    pc,         \* [Threads -> control state]
    req,        \* [Threads -> type of the lock the thread is taking]
    wk,         \* [Threads -> locals of __six_lock_wakeup]
    holds,      \* [Threads -> how often it holds the lock, for each type]
    sub,        \* [Threads -> read locks taken off the count meanwhile]
    saved,      \* [Threads -> seq, and the data, when it last held the lock]
    data,       \* how often the data under the lock may have changed
    ops

vars == <<lock, wait_list, wait_lock, acquired, pc, req, wk, holds, sub, saved, data, ops>>

Types    == {"read", "intent", "write"}
Unlocked == [type \in Types |-> 0]
Pcs == {"idle", "lock", "slow", "enlist", "retry", "sleep", "abort", "undo", "clear",
        "checkwake", "unlock", "wake", "scan", "readd", "relock", "relocked"}
Waiting == {"sleep", "abort"}
NoWake  == [type |-> "read", i |-> 1, saw |-> "none"]

\* The type invariant: no count of struct six_lock is ever taken below zero.
TypeOK ==
    /\ lock \in [read : Nat, held : SUBSET {"intent", "write"}, waiting : SUBSET Types,
                 owner : Threads \cup {NoThread}, seq : Nat, intent_recurse : Nat,
                 write_recurse : Nat]
    /\ wait_list \in Seq(Threads)
    /\ wait_lock \in Threads \cup {NoThread}
    /\ acquired \in SUBSET Threads
    /\ pc \in [Threads -> Pcs]
    /\ req \in [Threads -> Types]
    /\ wk \in [Threads -> [type : Types, i : Nat, saw : {"none", "one"}]]
    /\ holds \in [Threads -> [Types -> Nat]]
    /\ sub \in [Threads -> Nat]
    /\ saved \in [Threads -> [seq : Nat, data : Nat]]
    /\ data \in Nat
    /\ ops \in [Threads -> Nat]
    /\ \A t \in Threads : ops[t] <= MaxOps[t]

Init ==
    /\ lock = [read |-> 0, held |-> {}, waiting |-> {}, owner |-> NoThread, seq |-> 0,
               intent_recurse |-> 0, write_recurse |-> 0]
    /\ wait_list = <<>>
    /\ wait_lock = NoThread
    /\ acquired = {}
    /\ pc = [t \in Threads |-> "idle"]
    /\ req = [t \in Threads |-> "read"]
    /\ wk = [t \in Threads |-> NoWake]
    /\ holds = [t \in Threads |-> Unlocked]
    /\ sub = [t \in Threads |-> 0]
    /\ saved = [t \in Threads |-> [seq |-> 0, data |-> 0]]
    /\ data = 0
    /\ ops = [t \in Threads |-> 0]

-----------------------------------------------------------------------------
(* The table l[] and what is done with it. *)

LockFailMutant(type) ==
    \/ type = "read"   /\ "write" \in lock.held
    \/ type = "intent" /\ "intent" \in lock.held
    \/ type = "write"  /\ lock.read > 0 /\ "write" \notin lock.held

\* lock_fail
LockFail(type) ==
    \/ type = "read"   /\ "write" \in lock.held
    \/ type = "intent" /\ "intent" \in lock.held
    \/ type = "write"  /\ lock.read > 0

\* unlock_wakeup
UnlockWakeup(type) ==
    CASE type = "read" -> "write" [] type = "intent" -> "intent" [] type = "write" -> "read"

AddLockVal(type, task) ==
    IF type = "read"
    THEN [lock EXCEPT !.read = @ + 1]
    ELSE [lock EXCEPT !.held = @ \cup {type},
                      !.owner = IF type = "intent" THEN task ELSE @]

SubLockVal(type) ==
    IF type = "read"
    THEN [lock EXCEPT !.read = @ - 1]
    ELSE [lock EXCEPT !.held = @ \ {type},
                      !.owner = IF type = "intent" THEN NoThread ELSE @]

\* __do_six_trylock(lock, type, task) succeeds.
Trylocked(type, task) ==
    /\ ~LockFail(type)
    /\ lock' = AddLockVal(type, task)
    /\ holds' = [holds EXCEPT ![task][type] = @ + 1]

\* The writer changes the data as soon as it knows that it has the lock.
Got(type) == data' = IF type = "write" THEN data + 1 ELSE data

Go(t, l) == pc' = [pc EXCEPT ![t] = l]

\* Where a call that took or failed to take a lock returns to.
AfterLock(t) == IF sub[t] > 0 THEN "readd" ELSE "idle"

\* The early returns of six_lock_wakeup.
MustWake(L, type) == ~(type = "write" /\ L.read > 0) /\ type \in L.waiting

\* six_lock_wakeup on the value the word has now, then the caller returns.
Wakeup(t, L, type) ==
    /\ Go(t, IF MustWake(L, type) THEN "wake" ELSE AfterLock(t))
    /\ wk' = IF MustWake(L, type)
             THEN [wk EXCEPT ![t] = [type |-> type, i |-> 1, saw |-> "none"]] ELSE wk

\* do_six_unlock_type
DoUnlock(t, type) ==
    /\ lock' = SubLockVal(type)
    /\ holds' = [holds EXCEPT ![t][type] = @ - 1]
    /\ saved' = [saved EXCEPT ![t] = [seq |-> lock.seq, data |-> data]]
    /\ Wakeup(t, lock', UnlockWakeup(type))

-----------------------------------------------------------------------------
(* Taking a lock. *)

Count(t) == ops[t] < MaxOps[t] /\ ops' = [ops EXCEPT ![t] = @ + 1]

\* What btree_node_lock and its like take: write by who holds intent, read by who
\* holds nothing; for what is held already they call six_lock_increment.
MayTake(t, type) ==
    IF type = "write" THEN holds[t].intent > 0 /\ holds[t].write = 0
                      ELSE holds[t].intent = 0 /\ holds[t][type] = 0

\* six_trylock_ip; when it fails nothing happens.
Trylock(t, type) ==
    /\ "trylock" \in Calls
    /\ pc[t] = "idle" /\ MayTake(t, type) /\ Count(t)
    /\ Trylocked(type, t)
    /\ Got(type)
    /\ UNCHANGED <<wait_list, wait_lock, acquired, pc, req, wk, sub, saved>>

\* six_lock_ip_waiter is called; for a write lock __bch2_btree_node_lock_write
\* first takes the task's own read locks off the count.  "nested": a task waits
\* for intent while it holds read, which only the deadlock detector resolves.
Lock(t, type) ==
    /\ pc[t] = "idle" /\ MayTake(t, type) /\ Count(t)
    /\ type = "intent" /\ "nested" \notin Calls => holds[t].read = 0
    /\ req' = [req EXCEPT ![t] = type]
    /\ sub' = [sub EXCEPT ![t] = IF type = "write" THEN holds[t].read ELSE 0]
    /\ lock' = [lock EXCEPT !.read = @ - sub'[t]]
    /\ Go(t, "lock")
    /\ UNCHANGED <<wait_list, wait_lock, acquired, wk, holds, saved, data>>

LockFast(t) ==
    /\ pc[t] = "lock"
    /\ \/ /\ Trylocked(req[t], t)
          /\ Got(req[t])
          /\ Go(t, AfterLock(t))
       \/ /\ LockFail(req[t])
          /\ Go(t, IF req[t] = "write" THEN "slow" ELSE "enlist")
          /\ UNCHANGED <<lock, holds, data>>
    /\ UNCHANGED <<wait_list, wait_lock, acquired, req, wk, sub, saved, ops>>

\* six_lock_slowpath: a writer announces itself, so that no new readers get in.
SlowPend(t) ==
    /\ pc[t] = "slow"
    /\ lock' = [lock EXCEPT !.held = @ \cup {"write"}]
    /\ Go(t, "enlist")
    /\ UNCHANGED <<wait_list, wait_lock, acquired, req, wk, holds, sub, saved, data, ops>>

SlowEnlist(t) ==
    /\ pc[t] = "enlist" /\ wait_lock = NoThread
    /\ wait_lock' = t
    /\ acquired' = acquired \ {t}
    /\ lock' = [lock EXCEPT !.waiting = @ \cup {req[t]}]
    /\ Go(t, "retry")
    /\ UNCHANGED <<wait_list, req, wk, holds, sub, saved, data, ops>>

RetryMutant(t) ==
    /\ wait_list' = Append(wait_list, t)
    /\ Go(t, "sleep")
    /\ UNCHANGED <<lock, holds, data>>

\* The trylock after the waiting bit is set, and the unlock of wait_lock.
Retry(t) ==
    \/ /\ Trylocked(req[t], t)
       /\ Got(req[t])
       /\ Go(t, AfterLock(t))
       /\ UNCHANGED wait_list
    \/ /\ LockFail(req[t])
       /\ wait_list' = Append(wait_list, t)
       /\ Go(t, "sleep")
       /\ UNCHANGED <<lock, holds, data>>

SlowRetry(t) ==
    /\ pc[t] = "retry"
    /\ wait_lock' = NoThread
    /\ Retry(t)
    /\ UNCHANGED <<acquired, req, wk, sub, saved, ops>>

\* The waiter sees lock_acquired and returns; its six_lock_waiter is gone.
SleepDone(t) ==
    /\ pc[t] = "sleep" /\ t \in acquired
    /\ acquired' = acquired \ {t}
    /\ Got(req[t])
    /\ Go(t, AfterLock(t))
    /\ UNCHANGED <<lock, wait_list, wait_lock, req, wk, holds, sub, saved, ops>>

\* lock_acquired was not set, and should_sleep_fn returns an error.
ShouldNotSleep(t) ==
    /\ "abort" \in Calls
    /\ pc[t] = "sleep" /\ t \notin acquired
    /\ Go(t, "abort")
    /\ UNCHANGED <<lock, wait_list, wait_lock, acquired, req, wk, holds, sub, saved, data, ops>>

AfterAbortMutant(t) == IF req[t] = "write" THEN "clear" ELSE AfterLock(t)

AfterAbortNoCheck(t) == "undo"

AfterAbort(t) ==
    IF t \in acquired THEN "undo" ELSE IF req[t] = "write" THEN "clear" ELSE AfterLock(t)

Abort(t) ==
    /\ pc[t] = "abort" /\ wait_lock = NoThread
    /\ wait_list' = SelectSeq(wait_list, LAMBDA w : w # t)
    /\ Go(t, AfterAbort(t))
    /\ UNCHANGED <<lock, wait_lock, acquired, req, wk, holds, sub, saved, data, ops>>

\* The lock was acquired all the same and is dropped.
AbortUndo(t) ==
    /\ pc[t] = "undo"
    /\ DoUnlock(t, req[t])
    /\ UNCHANGED <<wait_list, wait_lock, acquired, req, sub, data, ops>>

AbortClear(t) ==
    /\ pc[t] = "clear"
    /\ lock' = [lock EXCEPT !.held = @ \ {"write"}]
    /\ Go(t, "checkwake")
    /\ UNCHANGED <<wait_list, wait_lock, acquired, req, wk, holds, sub, saved, data, ops>>

AbortWake(t) ==
    /\ pc[t] = "checkwake"
    /\ Wakeup(t, lock, "read")
    /\ UNCHANGED <<lock, wait_list, wait_lock, acquired, req, holds, sub, saved, data, ops>>

\* six_lock_readers_add(lock, readers), after the write lock was taken or not.
Readd(t) ==
    /\ pc[t] = "readd"
    /\ lock' = [lock EXCEPT !.read = @ + sub[t]]
    /\ sub' = [sub EXCEPT ![t] = 0]
    /\ Go(t, "idle")
    /\ UNCHANGED <<wait_list, wait_lock, acquired, req, wk, holds, saved, data, ops>>

-----------------------------------------------------------------------------
(* Dropping a lock, and the wakeups it owes. *)

\* six_unlock_ip; for each write lock there is an intent lock to be dropped after it.
Unlock(t, type) ==
    /\ pc[t] = "idle" /\ holds[t][type] > 0
    /\ type = "intent" => holds[t].write < holds[t].intent
    /\ \/ /\ type = "intent" /\ lock.intent_recurse > 0
          /\ lock' = [lock EXCEPT !.intent_recurse = @ - 1]
          /\ holds' = [holds EXCEPT ![t].intent = @ - 1]
          /\ UNCHANGED <<pc, req, wk, saved>>
       \/ /\ type = "write" /\ lock.write_recurse > 0
          /\ lock' = [lock EXCEPT !.write_recurse = @ - 1]
          /\ holds' = [holds EXCEPT ![t].write = @ - 1]
          /\ UNCHANGED <<pc, req, wk, saved>>
       \/ /\ type = "read" \/ (type = "intent" /\ lock.intent_recurse = 0)
          /\ DoUnlock(t, type)
          /\ UNCHANGED req
       \/ /\ type = "write" /\ lock.write_recurse = 0
          /\ lock' = [lock EXCEPT !.seq = @ + 1]
          /\ req' = [req EXCEPT ![t] = "write"]
          /\ Go(t, "unlock")
          /\ UNCHANGED <<holds, wk, saved>>
    /\ UNCHANGED <<wait_list, wait_lock, acquired, sub, data, ops>>

\* six_unlock_ip of a write lock, from do_six_unlock_type on.
UnlockWrite(t) ==
    /\ pc[t] = "unlock"
    /\ DoUnlock(t, "write")
    /\ UNCHANGED <<wait_list, wait_lock, acquired, req, sub, data, ops>>

\* __six_lock_wakeup
WakeStart(t) ==
    /\ pc[t] = "wake" /\ wait_lock = NoThread
    /\ wait_lock' = t
    /\ Go(t, "scan")
    /\ UNCHANGED <<lock, wait_list, acquired, req, wk, holds, sub, saved, data, ops>>

\* The waiters not yet looked at that want the type.
Candidates(t) ==
    {i \in wk[t].i .. Len(wait_list) : req[wait_list[i]] = wk[t].type}

\* Only the first waiter gets a lock other than read.
EnoughWoken(t) == wk[t].saw = "one" /\ wk[t].type # "read"

WakeOne(t) ==
    /\ pc[t] = "scan" /\ Candidates(t) # {} /\ ~EnoughWoken(t)
    /\ LET i == Min(Candidates(t))
       IN  /\ Trylocked(wk[t].type, wait_list[i])
           /\ acquired' = acquired \cup {wait_list[i]}
           /\ wait_list' = RemoveAt(wait_list, i)
           /\ wk' = [wk EXCEPT ![t].i = i, ![t].saw = "one"]
    /\ UNCHANGED <<wait_lock, pc, req, sub, saved, data, ops>>

\* six_clear_bitmask, when the whole list was looked at.
ClearWaiting(t) ==
    IF Candidates(t) = {} THEN [lock EXCEPT !.waiting = @ \ {wk[t].type}] ELSE lock

WakeEnd(t) ==
    /\ pc[t] = "scan"
    /\ Candidates(t) = {} \/ EnoughWoken(t) \/ LockFail(wk[t].type)
    /\ lock' = ClearWaiting(t)
    /\ wait_lock' = NoThread
    /\ wk' = [wk EXCEPT ![t] = NoWake]
    /\ Go(t, AfterLock(t))
    /\ UNCHANGED <<wait_list, acquired, req, holds, sub, saved, data, ops>>

-----------------------------------------------------------------------------
(* Other operations on a lock that is, or was, held. *)

\* six_lock_increment.  six.h calls an increment of a write lock illegal, but the
\* function has a case for it and btree_path_copy increments whatever type the
\* path holds: it counts an intent lock too, for the path to drop after the write
\* lock.  six_lock_downgrade is Increment(t, "read"), then Unlock(t, "intent").
Increment(t, type) ==
    /\ "increment" \in Calls
    /\ pc[t] = "idle" /\ Count(t)
    /\ \/ type = "read" /\ holds[t].read + holds[t].intent > 0
          /\ lock' = [lock EXCEPT !.read = @ + 1]
          /\ holds' = [holds EXCEPT ![t].read = @ + 1]
       \/ type = "intent" /\ holds[t].intent > 0
          /\ lock' = [lock EXCEPT !.intent_recurse = @ + 1]
          /\ holds' = [holds EXCEPT ![t].intent = @ + 1]
       \/ type = "write" /\ holds[t].write > 0
          /\ lock' = [lock EXCEPT !.write_recurse = @ + 1, !.intent_recurse = @ + 1]
          /\ holds' = [holds EXCEPT ![t].write = @ + 1, ![t].intent = @ + 1]
    /\ UNCHANGED <<wait_list, wait_lock, acquired, pc, req, wk, sub, saved, data>>

\* six_lock_tryupgrade; when it fails nothing happens.
Tryupgrade(t) ==
    /\ "upgrade" \in Calls
    /\ pc[t] = "idle" /\ Count(t)
    /\ holds[t].read > 0 /\ holds[t].intent = 0
    /\ "intent" \notin lock.held
    /\ lock' = [lock EXCEPT !.read = @ - 1, !.held = @ \cup {"intent"}, !.owner = t]
    /\ holds' = [holds EXCEPT ![t].read = @ - 1, ![t].intent = @ + 1]
    /\ UNCHANGED <<wait_list, wait_lock, acquired, pc, req, wk, sub, saved, data>>

\* six_relock_ip: the sequence number is compared before and after the trylock.
Relock(t, type) ==
    /\ "relock" \in Calls
    /\ pc[t] = "idle" /\ holds[t] = Unlocked /\ Count(t)
    /\ type # "write"
    /\ lock.seq = saved[t].seq
    /\ req' = [req EXCEPT ![t] = type]
    /\ Go(t, "relock")
    /\ UNCHANGED <<lock, wait_list, wait_lock, acquired, wk, holds, sub, saved, data>>

RelockTry(t) ==
    /\ pc[t] = "relock"
    /\ \/ Trylocked(req[t], t) /\ Go(t, "relocked")
       \/ LockFail(req[t]) /\ Go(t, "idle") /\ UNCHANGED <<lock, holds>>
    /\ UNCHANGED <<wait_list, wait_lock, acquired, req, wk, sub, saved, data, ops>>

SameSeqMutant(t) == TRUE

SameSeq(t) == lock.seq = saved[t].seq

RelockCheck(t) ==
    /\ pc[t] = "relocked"
    /\ \/ SameSeq(t) /\ Go(t, "idle") /\ UNCHANGED <<lock, holds, saved, wk>>
       \/ ~SameSeq(t) /\ DoUnlock(t, req[t])
    /\ UNCHANGED <<wait_list, wait_lock, acquired, req, sub, data, ops>>

-----------------------------------------------------------------------------
\* The steps of a call in progress.
Step(t) ==
    \/ LockFast(t) \/ SlowPend(t) \/ SlowRetry(t) \/ SleepDone(t)
    \/ AbortUndo(t) \/ AbortClear(t) \/ AbortWake(t) \/ Readd(t)
    \/ UnlockWrite(t) \/ WakeOne(t) \/ WakeEnd(t) \/ RelockTry(t) \/ RelockCheck(t)

\* Its steps that wait for wait_lock.
SpinStep(t) == SlowEnlist(t) \/ Abort(t) \/ WakeStart(t)

UnlockStep(t) == \E type \in Types : Unlock(t, type)

Next ==
    \E t \in Threads :
        \/ Step(t) \/ SpinStep(t) \/ UnlockStep(t) \/ ShouldNotSleep(t) \/ Tryupgrade(t)
        \/ \E type \in Types :
              Trylock(t, type) \/ Lock(t, type) \/ Relock(t, type) \/ Increment(t, type)

Spec == Init /\ [][Next]_vars

(* A task in a call is scheduled, and gets a spinlock that is free again and
   again; a lock that is held is dropped.  Nobody has to take a lock, and
   should_sleep_fn need not fail. *)
Fairness ==
    \A t \in Threads : WF_vars(Step(t)) /\ SF_vars(SpinStep(t)) /\ WF_vars(UnlockStep(t))

FairSpec == Spec /\ Fairness

-----------------------------------------------------------------------------
(* A task that has the write lock, also one that does not know it yet, keeps
   all other tasks from holding any lock, and intent is held by one task: the
   promise of six.h for handed over, upgraded and relocked locks alike. *)
Exclusion ==
    \A t, u \in Threads :
        t # u => /\ holds[t].write > 0 => holds[u] = Unlocked
                 /\ holds[t].intent > 0 => holds[u].intent = 0

(* The word and the recursion counts are exactly the locks held, through aborted
   waits, handoffs and increments of any type: no lock is leaked or dropped
   twice.  The write bit may be set by a task that is still waiting for readers. *)
CountsMatch ==
    /\ lock.read = MapThenSumSet(LAMBDA t : holds[t].read - sub[t], Threads)
    /\ MapThenSumSet(LAMBDA t : holds[t].intent, Threads)
         = lock.intent_recurse + (IF "intent" \in lock.held THEN 1 ELSE 0)
    /\ \A t \in Threads : holds[t].write > 0 => holds[t].write = lock.write_recurse + 1
    /\ (\A t \in Threads : holds[t].write = 0) => lock.write_recurse = 0
    /\ "write" \in lock.held <=>
         \E t \in Threads : \/ holds[t].write > 0
                            \/ req[t] = "write" /\ pc[t] \in {"enlist", "retry", "clear"}
                            \/ req[t] = "write" /\ pc[t] \in Waiting /\ t \notin acquired
    /\ \A t \in Threads : lock.owner = t <=> holds[t].intent > 0

(* A relock that finds the sequence number it remembers finds the data as it
   left it: six_relock_ip never misses a write. *)
RelockUnchanged ==
    [][\A t \in Threads :
         pc[t] = "relocked" /\ pc'[t] = "idle" /\ holds'[t] = holds[t] =>
             data' = saved[t].data]_vars

(* A lock call returns although nobody but the tasks that drop the lock wakes
   it up: handoff loses no waiter, also when other waiters give up. *)
LockReturns == \A t \in Threads : pc[t] = "lock" ~> pc[t] = "idle"

=============================================================================
