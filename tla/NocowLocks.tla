----------------------------- MODULE NocowLocks -----------------------------
(***************************************************************************)
(* The nocow bucket locks (libbcachefs/nocow_locking.c): one hash bucket   *)
(* of bucket_nocow_lock_table, shared by every device bucket that hashes   *)
(* to it.  The hash bucket has a few slots; slot i holds lock l[i] of      *)
(* device bucket b[i].  l[i] > 0 counts UPDATE holders (nocow writes in    *)
(* flight), l[i] < 0 counts COPY holders (data being moved away).          *)
(*                                                                         *)
(* Locking runs under the spinlock `lock'; unlocking does not, so the      *)
(* decrement and the wakeup of an unlock interleave with the scan of a     *)
(* lock.  The wait list is a closure_waitlist: a thread puts its closure   *)
(* on the list, tries again, and only then sleeps.                         *)
(***************************************************************************)
EXTENDS Integers, FiniteSets

CONSTANTS
    Threads,        \* the lockers
    Buckets,        \* device buckets of this hash bucket (bucket_to_u64)
    NSlots,         \* ARRAY_SIZE(l->b), 4 in the code
    IntMax,         \* largest value of an atomic_t
    MaxOps,         \* bound: lock operations a thread starts
    NoThread        \* the spinlock is free

Slots == 1..NSlots

ASSUME NocowAssumption ==
    /\ IsFiniteSet(Threads) /\ IsFiniteSet(Buckets)
    /\ 0 \in Buckets            \* b[] starts zeroed: all slots name bucket 0
    /\ NSlots \in Nat \ {0}
    /\ IntMax \in Nat \ {0}
    /\ MaxOps \in Nat
    /\ NoThread \notin Threads

VARIABLES
    b,              \* l->b
    l,              \* l->l
    lock,           \* l->lock: its holder, or NoThread
    wait,           \* l->wait: threads whose closure is on the list
    pc,             \* where each thread is
    slot,           \* the loop index i of a thread inside trylock
    req,            \* [bucket, val, call]: arguments of the current call
    ops             \* lock operations started so far

vars == <<b, l, lock, wait, pc, slot, req, ops>>

(* lock_val = flags ? 1 : -1                                                *)
LockVals == {1, -1}

(* two's complement addition on an int                                      *)
IntAdd(x, y) ==
    LET s == x + y
    IN  CASE s > IntMax       -> s - 2 * (IntMax + 1)
          [] s < -IntMax - 1  -> s + 2 * (IntMax + 1)
          [] OTHER            -> s

sign(v) == IF v < 0 THEN -1 ELSE IF v > 0 THEN 1 ELSE 0

(* The type invariant.  A scan of __bch2_bucket_nocow_trylock() stays within  *)
(* the slots; that counts are in range is no news, since IntAdd wraps.      *)
TypeOK ==
    /\ b \in [Slots -> Buckets]
    /\ l \in [Slots -> (-IntMax - 1)..IntMax]
    /\ lock \in Threads \cup {NoThread}
    /\ wait \subseteq Threads
    /\ pc \in [Threads -> {"idle", "try", "got", "scan", "take", "enlist",
                           "sync", "wake_locked", "held", "wake", "BUG"}]
    /\ slot \in [Threads -> Slots]
    /\ req \in [Threads -> [bucket : Buckets, val : LockVals,
                            call : {"trylock", "lock", "wait"}]]
    /\ ops \in [Threads -> 0..MaxOps]

(* the arguments of a thread that is in no call                             *)
NoRequest == [bucket |-> 0, val |-> 1, call |-> "trylock"]

Init ==
    /\ b = [i \in Slots |-> 0]
    /\ l = [i \in Slots |-> 0]
    /\ lock = NoThread
    /\ wait = {}
    /\ pc = [t \in Threads |-> "idle"]
    /\ slot = [t \in Threads |-> 1]
    /\ req = [t \in Threads |-> NoRequest]
    /\ ops = [t \in Threads |-> 0]

(* the other kind of lock is held: lock_val > 0 ? v < 0 : v > 0             *)
ConflictsMutant(v, val) == val < 0 /\ v > 0
Conflicts(v, val) == IF val > 0 THEN v < 0 ELSE v > 0

(* one more holder would wrap the count                                     *)
OverflowsMutant(v, val) == FALSE
Overflows(v, val) == v # 0 /\ sign(IntAdd(v, val)) # sign(v)

(* where the second trylock of __closure_wait_event() starts                *)
AfterEnlistMutant == "sync"
AfterEnlist == "try"

(* a slot the scan may claim                                                *)
SlotFreeMutant(i) == i = NSlots \/ l[i] = 0
SlotFree(i) == l[i] = 0

(* the scan has another slot to look at                                     *)
MoreSlotsMutant(i) == i <= NSlots
MoreSlots(i) == i < NSlots

(* the slot a loop over b[] stops at                                        *)
IsFirst(i, bucket) ==
    b[i] = bucket /\ \A j \in Slots : b[j] = bucket => i <= j

NoEntry(bucket) == \A i \in Slots : b[i] # bucket

(* bch2_bucket_nocow_lock() and bch2_bucket_nocow_trylock()                 *)
Begin(t, bucket, val, call) ==
    /\ pc[t] = "idle" /\ ops[t] < MaxOps
    /\ ops' = [ops EXCEPT ![t] = @ + 1]
    /\ req' = [req EXCEPT ![t] = [bucket |-> bucket, val |-> val,
                                  call |-> call]]
    /\ pc' = [pc EXCEPT ![t] = "try"]
    /\ UNCHANGED <<b, l, lock, wait, slot>>

(* __bch2_bucket_nocow_trylock(): take the spinlock, look for our entry     *)
TrylockLookup(t) ==
    /\ pc[t] = "try" /\ lock = NoThread
    /\ lock' = t
    /\ \/ /\ NoEntry(req[t].bucket)
          /\ pc' = [pc EXCEPT ![t] = "scan"]
          /\ slot' = [slot EXCEPT ![t] = 1]
       \/ \E i \in Slots :
             /\ IsFirst(i, req[t].bucket)
             /\ pc' = [pc EXCEPT ![t] = "got"]
             /\ slot' = [slot EXCEPT ![t] = i]
    /\ UNCHANGED <<b, l, wait, req, ops>>

(* fail: a trylock returns false; a blocking lock enters, or stays in,      *)
(* __closure_wait_event()                                                   *)
TrylockFail(t) ==
    /\ lock' = NoThread
    /\ pc' = [pc EXCEPT ![t] = CASE req[t].call = "trylock" -> "idle"
                                 [] req[t].call = "lock"    -> "enlist"
                                 [] req[t].call = "wait"    -> "sync"]
    /\ slot' = [slot EXCEPT ![t] = 1]
    /\ req' = [req EXCEPT ![t] = IF @.call = "trylock" THEN NoRequest ELSE @]
    /\ UNCHANGED <<b, l, wait, ops>>

(* no entry: claim the first slot whose lock is free, one atomic_read()     *)
(* a step                                                                   *)
TrylockScan(t) ==
    /\ pc[t] = "scan"
    /\ \/ /\ SlotFree(slot[t])
          /\ b' = [b EXCEPT ![slot[t]] = req[t].bucket]
          /\ pc' = [pc EXCEPT ![t] = "take"]
          /\ UNCHANGED <<l, lock, wait, slot, req, ops>>
       \/ /\ ~SlotFree(slot[t]) /\ MoreSlots(slot[t])
          /\ slot' = [slot EXCEPT ![t] = @ + 1]
          /\ UNCHANGED <<b, l, lock, wait, pc, req, ops>>
       \/ /\ ~SlotFree(slot[t]) /\ ~MoreSlots(slot[t])
          /\ TrylockFail(t)

(* got_entry: fail if the other kind of lock is held                        *)
TrylockGot(t) ==
    /\ pc[t] = "got"
    /\ IF Conflicts(l[slot[t]], req[t].val)
       THEN TrylockFail(t)
       ELSE /\ pc' = [pc EXCEPT ![t] = "take"]
            /\ UNCHANGED <<b, l, lock, wait, slot, req, ops>>

(* take_lock: fail on overflow, else count ourselves.  Only unlocks can     *)
(* run between the read and the add, and they move l[i] towards zero.       *)
TrylockTake(t) ==
    /\ pc[t] = "take"
    /\ LET i == slot[t]
           v == l[i]
       IN  IF Overflows(v, req[t].val)
           THEN TrylockFail(t)
           ELSE /\ l' = [l EXCEPT ![i] = IntAdd(v, req[t].val)]
                /\ lock' = NoThread
                /\ pc' = [pc EXCEPT ![t] = IF req[t].call = "wait"
                                             THEN "wake_locked" ELSE "held"]
                /\ slot' = [slot EXCEPT ![t] = 1]
                /\ UNCHANGED <<b, wait, req, ops>>

(* __closure_wait_event(): closure_wait() puts the closure on the list      *)
Enlist(t) ==
    /\ pc[t] = "enlist"
    /\ wait' = wait \cup {t}
    /\ req' = [req EXCEPT ![t].call = "wait"]
    /\ pc' = [pc EXCEPT ![t] = AfterEnlist]
    /\ UNCHANGED <<b, l, lock, slot, ops>>

(* closure_sync(): sleep until someone has taken our closure off the list   *)
Sync(t) ==
    /\ pc[t] = "sync" /\ t \notin wait
    /\ pc' = [pc EXCEPT ![t] = "enlist"]
    /\ UNCHANGED <<b, l, lock, wait, slot, req, ops>>

(* after the wait loop: closure_wake_up() empties the list, ours included   *)
WakeLocked(t) ==
    /\ pc[t] = "wake_locked"
    /\ wait' = {}
    /\ pc' = [pc EXCEPT ![t] = "held"]
    /\ UNCHANGED <<b, l, lock, slot, req, ops>>

(* bch2_bucket_nocow_unlock(): no spinlock.  Both BUG_ON()s go to "BUG".    *)
Unlock(t) ==
    /\ pc[t] = "held"
    /\ \/ /\ NoEntry(req[t].bucket)
          /\ pc' = [pc EXCEPT ![t] = "BUG"]
          /\ UNCHANGED l
       \/ \E i \in Slots :
             LET v == IntAdd(l[i], -req[t].val)
             IN  /\ IsFirst(i, req[t].bucket)
                 /\ l' = [l EXCEPT ![i] = v]
                 /\ pc' = [pc EXCEPT ![t] =
                             IF v # 0 /\ sign(v) # req[t].val THEN "BUG"
                             ELSE IF v = 0 THEN "wake" ELSE "idle"]
    /\ req' = [req EXCEPT ![t] = NoRequest]
    /\ UNCHANGED <<b, lock, wait, slot, ops>>

(* ... and the wakeup, when the count dropped to zero                       *)
UnlockWake(t) ==
    /\ pc[t] = "wake"
    /\ wait' = {}
    /\ pc' = [pc EXCEPT ![t] = "idle"]
    /\ UNCHANGED <<b, l, lock, slot, req, ops>>

Step(t) ==
    \/ TrylockLookup(t) \/ TrylockScan(t) \/ TrylockGot(t) \/ TrylockTake(t)
    \/ Enlist(t) \/ Sync(t) \/ WakeLocked(t) \/ Unlock(t) \/ UnlockWake(t)

Next ==
    \E t \in Threads :
        \/ \E bucket \in Buckets, val \in LockVals, call \in {"trylock", "lock"} :
              Begin(t, bucket, val, call)
        \/ Step(t)

Fairness == \A t \in Threads : WF_vars(Step(t))

Spec == Init /\ [][Next]_vars /\ Fairness
-----------------------------------------------------------------------------
Holders(bucket, val) ==
    {t \in Threads : /\ pc[t] \in {"held", "wake_locked"}
                     /\ req[t].bucket = bucket /\ req[t].val = val}

(* A bucket is never locked for UPDATE and for COPY at once: a nocow write  *)
(* never lands in a bucket whose data is being moved away.                  *)
UpdateExcludesCopy ==
    \A bucket \in Buckets :
        Holders(bucket, 1) = {} \/ Holders(bucket, -1) = {}

(* Every holder is counted in the one slot an unlock of its bucket will     *)
(* find, and a slot counts nobody else: a slot is never taken over, and an  *)
(* unlock never decrements a count it does not own.                         *)
CountsAreHolders ==
    \A i \in Slots :
        l[i] = IF IsFirst(i, b[i])
               THEN Cardinality(Holders(b[i], 1))
                    - Cardinality(Holders(b[i], -1))
               ELSE 0

(* The BUG() and the BUG_ON() of bch2_bucket_nocow_unlock() are             *)
(* unreachable.                                                             *)
NoBug == \A t \in Threads : pc[t] # "BUG"

(* No lost wakeup: once threads stop asking for new locks, every blocking   *)
(* lock is granted, though unlock does not take the spinlock.               *)
LockGranted ==
    \A t \in Threads :
        (pc[t] = "try" /\ req[t].call # "trylock") ~> (pc[t] = "held")

(* what a thread holds, as ModeLocks sees it                                *)
Held == [t \in Threads |-> IF pc[t] \in {"held", "wake_locked"}
                           THEN {<<req[t].bucket, req[t].val>>} ELSE {}]

A == INSTANCE ModeLocks WITH Locks <- Buckets, holds <- Held

(* The table is a lock with two shared modes for each device bucket, though *)
(* buckets share slots, slots change buckets and unlock takes no spinlock.  *)
ImplementsModeLocks == A!Spec
=============================================================================
