-------------------------- MODULE NocowLocksProofs --------------------------
(* Proofs about the nocow bucket locks.                                     *)
EXTENDS NocowLocks, FiniteSetTheorems, TLAPS

(* Counting one holder more or less, with the wrap-around of an int, stays  *)
(* in the range of an atomic_t.                                             *)
LEMMA IntAddType ==
  ASSUME NEW x \in (-IntMax - 1)..IntMax, NEW y \in LockVals
  PROVE  /\ IntAdd(x, y) \in (-IntMax - 1)..IntMax
         /\ IntAdd(x, -y) \in (-IntMax - 1)..IntMax
  BY NocowAssumption DEF IntAdd, LockVals

(* One step keeps every variable in its type.                               *)
LEMMA TypeStep == TypeOK /\ [Next]_vars => TypeOK'
<1> SUFFICES ASSUME TypeOK, [Next]_vars PROVE TypeOK'
  OBVIOUS
<1> USE NocowAssumption DEF TypeOK, Slots
<1>1. CASE UNCHANGED vars
  BY <1>1 DEF vars
<1>2. ASSUME NEW t \in Threads, TrylockFail(t) PROVE TypeOK'
  BY <1>2 DEF TrylockFail, NoRequest, LockVals
<1>3. ASSUME NEW t \in Threads, NEW bucket \in Buckets, NEW val \in LockVals,
             NEW call \in {"trylock", "lock"}, Begin(t, bucket, val, call)
      PROVE  TypeOK'
  <2>1. req' \in [Threads -> [bucket : Buckets, val : LockVals,
                              call : {"trylock", "lock", "wait"}]]
    BY <1>3 DEF Begin
  <2>2. ops' \in [Threads -> 0..MaxOps]
    BY <1>3 DEF Begin
  <2> QED
    BY Zenon, <1>3, <2>1, <2>2 DEF Begin
<1>4. ASSUME NEW t \in Threads, TrylockLookup(t) PROVE TypeOK'
  <2>1. PICK i \in Slots : slot' = [slot EXCEPT ![t] = i]
    BY <1>4 DEF TrylockLookup
  <2> QED
    BY Zenon, <1>4, <2>1 DEF TrylockLookup
<1>5. ASSUME NEW t \in Threads, TrylockScan(t) PROVE TypeOK'
  <2>1. CASE SlotFree(slot[t])
    BY Zenon, <1>5, <2>1 DEF TrylockScan
  <2>2. CASE ~SlotFree(slot[t]) /\ MoreSlots(slot[t])
    <3>1. slot' = [slot EXCEPT ![t] = slot[t] + 1] /\ UNCHANGED <<b, l, lock, wait, pc, req, ops>>
      BY <1>5, <2>2 DEF TrylockScan
    <3>2. slot[t] + 1 \in Slots
      BY <2>2 DEF MoreSlots
    <3>3. slot' \in [Threads -> Slots]
      BY <3>1, <3>2
    <3> QED BY <3>1, <3>3
  <2>3. CASE TrylockFail(t)
    BY Zenon, <1>2, <2>3
  <2> QED
    BY Zenon, <1>5, <2>1, <2>2, <2>3 DEF TrylockScan
<1>6. ASSUME NEW t \in Threads, TrylockGot(t) PROVE TypeOK'
  BY Zenon, <1>6, <1>2 DEF TrylockGot
<1>7. ASSUME NEW t \in Threads, TrylockTake(t) PROVE TypeOK'
  <2>1. CASE TrylockFail(t)
    BY Zenon, <1>2, <2>1
  <2>2. CASE ~TrylockFail(t)
    <3>1. l' = [l EXCEPT ![slot[t]] = IntAdd(l[slot[t]], req[t].val)]
      BY <1>7, <2>2 DEF TrylockTake
    <3>2. l' \in [Slots -> (-IntMax - 1)..IntMax]
      BY <3>1, IntAddType
    <3> QED
      <4>1. /\ slot' = [slot EXCEPT ![t] = 1] /\ lock' = NoThread
            /\ UNCHANGED <<b, wait, req, ops>>
        BY <1>7, <2>2 DEF TrylockTake
      <4>2. \E p \in {"held", "wake_locked"} : pc' = [pc EXCEPT ![t] = p]
        BY <1>7, <2>2 DEF TrylockTake
      <4> QED
        BY <3>2, <4>1, <4>2, SMTT(60)
  <2> QED
    BY Zenon, <2>1, <2>2
<1>8. ASSUME NEW t \in Threads, Enlist(t) \/ Sync(t) \/ WakeLocked(t) \/ UnlockWake(t)
      PROVE  TypeOK'
  <2>1. CASE Enlist(t)
     BY Zenon, <2>1 DEF Enlist, AfterEnlist
  <2>2. CASE Sync(t)
     BY <2>2 DEF Sync
  <2>3. CASE WakeLocked(t)
     BY <2>3 DEF WakeLocked
  <2>4. CASE UnlockWake(t)
     BY <2>4 DEF UnlockWake
  <2> QED BY Zenon, <1>8, <2>1, <2>2, <2>3, <2>4
<1>9. ASSUME NEW t \in Threads, Unlock(t) PROVE TypeOK'
  <2>1. l' \in [Slots -> (-IntMax - 1)..IntMax]
    <3>1. CASE UNCHANGED l
      BY <3>1
    <3>2. ASSUME NEW i \in Slots, l' = [l EXCEPT ![i] = IntAdd(l[i], -req[t].val)]
          PROVE  l' \in [Slots -> (-IntMax - 1)..IntMax]
      BY Zenon, <3>2, IntAddType
    <3> QED
      BY Zenon, <1>9, <3>1, <3>2 DEF Unlock
  <2>2. pc' \in [Threads -> {"idle", "try", "got", "scan", "take", "enlist",
                         "sync", "wake_locked", "held", "wake", "BUG"}]
    BY <1>9 DEF Unlock
  <2>3. req' = [req EXCEPT ![t] = NoRequest] /\ UNCHANGED <<b, lock, wait, slot, ops>>
    BY <1>9 DEF Unlock
  <2> QED
    BY Zenon, <2>1, <2>2, <2>3 DEF NoRequest, LockVals
<1> HIDE DEF TypeOK, Slots
<1> QED
  BY <1>1, <1>3, <1>4, <1>5, <1>6, <1>7, <1>8, <1>9 DEF Next, Step

----------------------------------------------------------------------------
(* What the table counts.  The strengthening: who is inside trylock has the  *)
(* spinlock, knows whether its bucket has an entry and where, and has seen   *)
(* no conflict that an unlock could have created; and the bucket of every    *)
(* holder has an entry, which nobody can take over because it is not free.   *)
Holding(t) == pc[t] \in {"held", "wake_locked"}

Inside(t) ==
    /\ pc[t] \in {"scan", "got", "take"} => lock = t
    /\ pc[t] = "scan" => NoEntry(req[t].bucket)
    /\ pc[t] \in {"got", "take"} => IsFirst(slot[t], req[t].bucket)
    /\ pc[t] = "take" => ~Conflicts(l[slot[t]], req[t].val)

Found(t) == Holding(t) => \E i \in Slots : IsFirst(i, req[t].bucket)

Counts == CountsAreHolders /\ UpdateExcludesCopy /\ \A t \in Threads : Found(t)

IInv == TypeOK /\ NoBug /\ Counts /\ \A t \in Threads : Inside(t)

(* Holders are finitely many, and a count of zero means there are none.      *)
LEMMA HoldersFinite ==
  ASSUME NEW bucket, NEW val
  PROVE  /\ IsFiniteSet(Holders(bucket, val)) /\ Cardinality(Holders(bucket, val)) \in Nat
         /\ Cardinality(Holders(bucket, val)) = 0 <=> Holders(bucket, val) = {}
  <1>1. IsFiniteSet(Holders(bucket, val))
    BY NocowAssumption, FS_Subset DEF Holders
  <1> QED
    BY <1>1, FS_CardinalityType, FS_EmptySet

(* A slot that counts nobody is no bucket's lock: the scan of trylock may    *)
(* claim it.                                                                 *)
LEMMA ZeroIsFree ==
  ASSUME TypeOK, CountsAreHolders, UpdateExcludesCopy, NEW i \in Slots, IsFirst(i, b[i]), l[i] = 0
  PROVE  Holders(b[i], 1) = {} /\ Holders(b[i], -1) = {}
  <1>1. Cardinality(Holders(b[i], 1)) - Cardinality(Holders(b[i], -1)) = 0
    BY DEF CountsAreHolders
  <1>2. Holders(b[i], 1) = {} \/ Holders(b[i], -1) = {}
    BY DEF UpdateExcludesCopy, TypeOK
  <1> QED
    BY <1>1, <1>2, HoldersFinite

(* The lock a thread holds is counted with its sign.                         *)
LEMMA HeldIsCounted ==
  ASSUME IInv, NEW t \in Threads, Holding(t), NEW i \in Slots, IsFirst(i, req[t].bucket)
  PROVE  /\ req[t].val = 1 => l[i] = Cardinality(Holders(req[t].bucket, 1)) /\ l[i] > 0
         /\ req[t].val = -1 => l[i] = -Cardinality(Holders(req[t].bucket, -1)) /\ l[i] < 0
  <1> DEFINE B == req[t].bucket
  <1>1. B \in Buckets /\ req[t].val \in {1, -1} /\ b[i] = B
    BY DEF IInv, TypeOK, LockVals, IsFirst
  <1>2. l[i] = Cardinality(Holders(B, 1)) - Cardinality(Holders(B, -1))
    BY <1>1 DEF IInv, Counts, CountsAreHolders
  <1>3. Holders(B, 1) = {} \/ Holders(B, -1) = {}
    BY <1>1 DEF IInv, Counts, UpdateExcludesCopy
  <1>4. t \in Holders(B, req[t].val)
    BY DEF Holders, Holding
  <1>5. CASE req[t].val = 1
    <2>1. Holders(B, -1) = {} /\ Holders(B, 1) # {}
      BY <1>3, <1>4, <1>5
    <2> HIDE DEF B
    <2>2. Cardinality(Holders(B, -1)) = 0 /\ Cardinality(Holders(B, 1)) # 0
      BY <2>1, HoldersFinite
    <2> QED BY <1>2, <1>5, <2>2, HoldersFinite DEF B
  <1>6. CASE req[t].val = -1
    <2>1. Holders(B, 1) = {} /\ Holders(B, -1) # {}
      BY <1>3, <1>4, <1>6
    <2> HIDE DEF B
    <2>2. Cardinality(Holders(B, 1)) = 0 /\ Cardinality(Holders(B, -1)) # 0
      BY <2>1, HoldersFinite
    <2> QED BY <1>2, <1>6, <2>2, HoldersFinite DEF B
  <1> QED BY <1>1, <1>5, <1>6

(* Steps that change neither the table nor who holds what.                   *)
LEMMA Frame ==
  ASSUME IInv, UNCHANGED <<b, l>>,
         \A u \in Threads : /\ Holding(u)' <=> Holding(u)
                            /\ Holding(u) => req'[u] = req[u]
  PROVE  Counts'
  <1>1. \A bucket \in Buckets, val \in LockVals : Holders(bucket, val)' = Holders(bucket, val)
    BY DEF Holders, Holding
  <1>2. \A i \in Slots : IsFirst(i, b[i])' <=> IsFirst(i, b[i])
    BY DEF IsFirst
  <1>3. CountsAreHolders'
    BY <1>1, <1>2 DEF IInv, Counts, CountsAreHolders, TypeOK, LockVals
  <1>4. UpdateExcludesCopy'
    BY <1>1 DEF IInv, Counts, UpdateExcludesCopy, LockVals
  <1>5. \A t \in Threads : Found(t)'
    BY DEF IInv, Counts, Found, IsFirst, Holding
  <1> QED BY <1>3, <1>4, <1>5 DEF Counts

(* Only the holder of the spinlock is inside trylock.                        *)
LEMMA Alone ==
  ASSUME IInv, NEW t \in Threads, pc[t] \in {"scan", "got", "take"},
         NEW u \in Threads, u # t
  PROVE  pc[u] \notin {"scan", "got", "take"}
  BY DEF IInv, Inside

(* Leaving trylock without the lock.                                         *)
LEMMA FailStep ==
  ASSUME IInv, NEW t \in Threads, pc[t] \in {"scan", "got", "take"}, TrylockFail(t)
  PROVE  NoBug' /\ Counts' /\ \A u \in Threads : Inside(u)'
  <1>1. /\ UNCHANGED <<b, l>>
        /\ \A u \in Threads : u # t => pc'[u] = pc[u] /\ req'[u] = req[u]
        /\ pc'[t] \in {"idle", "enlist", "sync"}
    <2>1. req[t].call \in {"trylock", "lock", "wait"}
      BY DEF IInv, TypeOK
    <2> QED
      BY <2>1 DEF TrylockFail, IInv, TypeOK
  <1>2. Counts'
    <2>1. \A u \in Threads : /\ Holding(u)' <=> Holding(u)
                             /\ Holding(u) => req'[u] = req[u]
      BY <1>1 DEF Holding
    <2> QED BY <1>1, <2>1, Frame
  <1>3. NoBug'
    BY <1>1 DEF NoBug, IInv
  <1>4. \A u \in Threads : pc'[u] \notin {"scan", "got", "take"}
    BY <1>1, Alone
  <1>5. \A u \in Threads : Inside(u)'
    BY <1>4 DEF Inside
  <1> QED BY <1>2, <1>3, <1>5

(* Claiming a free slot for a bucket that has none: no other bucket loses    *)
(* the slot its holders are counted in.                                      *)
LEMMA ClaimStep ==
  ASSUME IInv, NEW t \in Threads, pc[t] = "scan", l[slot[t]] = 0,
         b' = [b EXCEPT ![slot[t]] = req[t].bucket],
         pc' = [pc EXCEPT ![t] = "take"],
         UNCHANGED <<l, lock, wait, slot, req, ops>>
  PROVE  NoBug' /\ Counts' /\ \A u \in Threads : Inside(u)'
  <1> DEFINE k == slot[t]
             C == req[t].bucket
  <1>1. /\ k \in Slots /\ C \in Buckets /\ NoEntry(C) /\ l[k] = 0
        /\ b'[k] = C /\ \A j \in Slots : j # k => b'[j] = b[j] /\ b[j] # C
        /\ pc'[t] = "take" /\ \A u \in Threads : u # t => pc'[u] = pc[u]
        /\ b \in [Slots -> Buckets] /\ l \in [Slots -> Int] /\ Slots \subseteq Int
        /\ CountsAreHolders /\ UpdateExcludesCopy /\ TypeOK
    BY NocowAssumption DEF IInv, TypeOK, Inside, NoEntry, Counts, Slots
  <1>2. \A bucket, val : Holders(bucket, val)' = Holders(bucket, val)
    BY <1>1 DEF Holders
  <1>3. IsFirst(k, C)'
    BY <1>1 DEF IsFirst, NoEntry
  <1>4. \A val : Holders(C, val) = {}
    BY <1>1 DEF IInv, Counts, Found, Holding, Holders, IsFirst, NoEntry
  <1>5. \A j \in Slots : j # k /\ IsFirst(j, b[j]) => IsFirst(j, b[j])'
    BY <1>1 DEF IsFirst
  <1>6. CountsAreHolders'
    <2> SUFFICES ASSUME NEW j \in Slots
                 PROVE  l[j] = IF IsFirst(j, b[j])'
                               THEN Cardinality(Holders(b'[j], 1)) - Cardinality(Holders(b'[j], -1))
                               ELSE 0
      BY <1>2 DEF CountsAreHolders
    <2>1. CASE j = k
      <3>1. Cardinality(Holders(C, 1)) = 0 /\ Cardinality(Holders(C, -1)) = 0
        BY <1>4, HoldersFinite
      <3> QED BY <1>1, <1>3, <3>1, <2>1
    <2>2. CASE j # k /\ IsFirst(j, b[j])
      BY <1>1, <1>5, <2>2 DEF CountsAreHolders
    <2>3. CASE j # k /\ ~IsFirst(j, b[j]) /\ IsFirst(j, b[j])'
      <3>1. b[k] = b[j] /\ IsFirst(k, b[k])
        BY <1>1, <2>3 DEF IsFirst
      <3>2. Holders(b[k], 1) = {} /\ Holders(b[k], -1) = {}
        BY <1>1, <3>1, ZeroIsFree
      <3>3. Cardinality(Holders(b[j], 1)) = 0 /\ Cardinality(Holders(b[j], -1)) = 0
        BY <3>1, <3>2, HoldersFinite
      <3>4. l[j] = 0
        BY <1>1, <2>3 DEF CountsAreHolders
      <3> QED BY <1>1, <2>3, <3>3, <3>4
    <2>4. CASE j # k /\ ~IsFirst(j, b[j]) /\ ~IsFirst(j, b[j])'
      BY <1>1, <2>4 DEF CountsAreHolders
    <2> QED BY <2>1, <2>2, <2>3, <2>4
  <1>7. UpdateExcludesCopy'
    BY <1>1, <1>2 DEF UpdateExcludesCopy
  <1>8. \A u \in Threads : Found(u)'
    <2> SUFFICES ASSUME NEW u \in Threads, Holding(u)'
                 PROVE  \E i \in Slots : IsFirst(i, req[u].bucket)'
      BY DEF Found
    <2>1. Holding(u) /\ u # t
      BY <1>1 DEF Holding
    <2>2. PICK i \in Slots : IsFirst(i, req[u].bucket)
      BY <2>1 DEF IInv, Counts, Found
    <2>3. i # k
      BY <2>1, <2>2, <1>1, HeldIsCounted DEF IInv, TypeOK, LockVals
    <2>4. b[i] = req[u].bucket
      BY <2>2 DEF IsFirst
    <2> QED BY <1>1, <1>5, <2>2, <2>3, <2>4 DEF IsFirst
  <1>9. \A u \in Threads : Inside(u)'
    <2> SUFFICES ASSUME NEW u \in Threads PROVE Inside(u)'
      OBVIOUS
    <2>1. CASE u = t
      <3>1. lock = t /\ req[t].val \in {1, -1}
        BY <1>1 DEF IInv, Inside, TypeOK, LockVals
      <3> QED BY <1>1, <1>3, <2>1, <3>1 DEF Inside, Conflicts
    <2>2. CASE u # t
      BY <1>1, <2>2, Alone DEF Inside
    <2> QED BY <2>1, <2>2
  <1>10. NoBug'
    BY <1>1 DEF IInv, NoBug
  <1> QED BY <1>6, <1>7, <1>8, <1>9, <1>10 DEF Counts

(* Counting a new holder: the slot of its bucket has no holder of the other  *)
(* kind, because a holder is counted with its sign.                          *)
LEMMA TakeStep ==
  ASSUME IInv, NEW t \in Threads, pc[t] = "take",
         ~Overflows(l[slot[t]], req[t].val),
         l' = [l EXCEPT ![slot[t]] = IntAdd(l[slot[t]], req[t].val)],
         lock' = NoThread, NEW p \in {"held", "wake_locked"},
         pc' = [pc EXCEPT ![t] = p], UNCHANGED <<b, wait, req, ops>>
  PROVE  /\ NoBug' /\ Counts' /\ \A u \in Threads : Inside(u)'
         /\ Holders(req[t].bucket, -req[t].val) = {}
  <1>0. PICK k \in Slots, C \in Buckets, w \in {1, -1} :
          k = slot[t] /\ C = req[t].bucket /\ w = req[t].val
    BY DEF IInv, TypeOK, LockVals
  <1>1. /\ k \in Slots /\ C \in Buckets /\ w \in {1, -1} /\ b[k] = C /\ IsFirst(k, C)
        /\ ~Conflicts(l[k], w) /\ l \in [Slots -> (-IntMax - 1)..IntMax] /\ IntMax \in Nat
        /\ pc'[t] = p /\ \A u \in Threads : u # t => pc'[u] = pc[u]
        /\ TypeOK /\ CountsAreHolders /\ UpdateExcludesCopy
    BY <1>0, NocowAssumption DEF IInv, TypeOK, Inside, Counts, LockVals, IsFirst
  <1>2. l'[k] = l[k] + w /\ \A j \in Slots : j # k => l'[j] = l[j]
    <2>1. IntAdd(l[k], w) = l[k] + w
      <3>1. l[k] \in (-IntMax - 1)..IntMax /\ ~Conflicts(l[k], w) /\ ~Overflows(l[k], w)
        BY <1>0, <1>1
      <3>2. CASE w = 1
        BY NocowAssumption, <1>1, <3>1, <3>2 DEF IntAdd, Overflows, Conflicts, sign
      <3>3. CASE w = -1
        BY <1>1, <3>1, <3>3 DEF IntAdd, Overflows, Conflicts, sign
      <3> QED BY <3>2, <3>3
    <2> QED BY <1>0, <1>1, <2>1
  <1>3. l[k] = Cardinality(Holders(C, 1)) - Cardinality(Holders(C, -1))
    BY <1>0, <1>1 DEF CountsAreHolders
  <1>4. Holders(C, -w) = {}
    <2>1. Holders(C, 1) = {} \/ Holders(C, -1) = {}
      BY <1>0, <1>1 DEF UpdateExcludesCopy
    <2>2. CASE w = 1
      <3>1. l[k] >= 0
        BY <1>0, <1>1, <2>2 DEF Conflicts
      <3> QED BY <1>0, <1>3, <2>1, <2>2, <3>1, HoldersFinite
    <2>3. CASE w = -1
      <3>1. l[k] <= 0
        BY <1>0, <1>1, <2>3 DEF Conflicts
      <3> QED BY <1>0, <1>3, <2>1, <2>3, <3>1, HoldersFinite
    <2> QED BY <1>0, <1>1, <2>2, <2>3
  <1>5. /\ t \notin Holders(C, w) /\ Holders(C, w)' = Holders(C, w) \cup {t}
        /\ \A bucket, val : bucket # C \/ val # w => Holders(bucket, val)' = Holders(bucket, val)
    BY <1>0, <1>1 DEF Holders
  <1>6. Cardinality(Holders(C, w)') = Cardinality(Holders(C, w)) + 1
    <2>1. IsFiniteSet(Holders(C, w))
      BY HoldersFinite
    <2> QED BY Zenon, <1>5, <2>1, FS_AddElement
  <1>7. \A i \in Slots : \A bucket : IsFirst(i, bucket)' <=> IsFirst(i, bucket)
    BY <1>0 DEF IsFirst
  <1>8. CountsAreHolders'
    <2> SUFFICES ASSUME NEW j \in Slots
                 PROVE  l'[j] = IF IsFirst(j, b[j])
                                THEN Cardinality(Holders(b[j], 1)') - Cardinality(Holders(b[j], -1)')
                                ELSE 0
      BY <1>0, <1>7 DEF CountsAreHolders
    <2>1. CASE j = k
      <3>1. CASE w = 1
        <4>1. Holders(C, -1)' = Holders(C, -1)
          BY <1>0, <1>5, <3>1
        <4>2. Cardinality(Holders(C, 1)') = Cardinality(Holders(C, 1)) + 1
          BY <1>0, <1>6, <3>1
        <4> QED BY <1>0, <1>1, <1>2, <1>3, <2>1, <3>1, <4>1, <4>2, HoldersFinite
      <3>2. CASE w = -1
        <4>1. Holders(C, 1)' = Holders(C, 1)
          BY <1>0, <1>5, <3>2
        <4>2. Cardinality(Holders(C, -1)') = Cardinality(Holders(C, -1)) + 1
          BY <1>0, <1>6, <3>2
        <4> QED BY <1>0, <1>1, <1>2, <1>3, <2>1, <3>2, <4>1, <4>2, HoldersFinite
      <3> QED BY <1>0, <1>1, <3>1, <3>2
    <2>2. CASE j # k
      <3>1. IsFirst(j, b[j]) => b[j] # C
        BY <1>0, <1>1, <2>2 DEF IsFirst, Slots
      <3> QED BY <1>0, <1>1, <1>2, <1>5, <2>2, <3>1 DEF CountsAreHolders
    <2> QED BY <2>1, <2>2
  <1>9. UpdateExcludesCopy'
    <2> SUFFICES ASSUME NEW bucket \in Buckets
                 PROVE  Holders(bucket, 1)' = {} \/ Holders(bucket, -1)' = {}
      BY <1>0 DEF UpdateExcludesCopy
    <2>1. CASE bucket = C
      BY <1>0, <1>1, <1>4, <1>5, <2>1
    <2>2. CASE bucket # C
      BY <1>0, <1>1, <1>5, <2>2 DEF UpdateExcludesCopy
    <2> QED BY <2>1, <2>2
  <1>10. \A u \in Threads : Found(u)'
    BY <1>0, <1>1, <1>7 DEF IInv, Counts, Found, Holding
  <1>11. \A u \in Threads : Inside(u)'
    BY <1>0, <1>1, Alone DEF Inside
  <1>12. NoBug'
    BY <1>0, <1>1 DEF IInv, NoBug
  <1> QED BY <1>0, <1>4, <1>8, <1>9, <1>10, <1>11, <1>12 DEF Counts

(* An unlock finds the slot that counts it, moves that count towards zero,   *)
(* and spoils nothing a trylock has seen.                                    *)
LEMMA UnlockStep ==
  ASSUME IInv, NEW t \in Threads, Unlock(t)
  PROVE  NoBug' /\ Counts' /\ \A u \in Threads : Inside(u)'
  <1>0. PICK C \in Buckets, w \in {1, -1} : C = req[t].bucket /\ w = req[t].val
    BY DEF IInv, TypeOK, LockVals
  <1>1. PICK f \in Slots : IsFirst(f, C)
    BY <1>0 DEF IInv, Counts, Found, Holding, Unlock
  <1>2. PICK k \in Slots :
          /\ IsFirst(k, C) /\ l' = [l EXCEPT ![k] = IntAdd(l[k], -w)]
          /\ pc' = [pc EXCEPT ![t] =
                       IF IntAdd(l[k], -w) # 0 /\ sign(IntAdd(l[k], -w)) # w THEN "BUG"
                       ELSE IF IntAdd(l[k], -w) = 0 THEN "wake" ELSE "idle"]
    BY <1>0, <1>1 DEF Unlock, NoEntry, IsFirst
  <1>3. /\ C \in Buckets /\ w \in {1, -1} /\ b[k] = C /\ Holding(t)
        /\ l \in [Slots -> (-IntMax - 1)..IntMax] /\ IntMax \in Nat
        /\ TypeOK /\ CountsAreHolders /\ UpdateExcludesCopy
        /\ UNCHANGED <<b, lock, slot>>
        /\ \A u \in Threads : u # t => pc'[u] = pc[u] /\ req'[u] = req[u]
    BY <1>0, <1>2, NocowAssumption DEF IInv, TypeOK, Counts, LockVals, IsFirst, Holding, Unlock
  <1>4. /\ w = 1 => l[k] = Cardinality(Holders(C, 1)) /\ l[k] > 0
        /\ w = -1 => l[k] = -Cardinality(Holders(C, -1)) /\ l[k] < 0
    BY <1>0, <1>2, <1>3, HeldIsCounted
  <1>5. /\ IntAdd(l[k], -w) = l[k] - w
        /\ w = 1 => l[k] - w >= 0
        /\ w = -1 => l[k] - w <= 0
    <2> QED BY <1>0, <1>3, <1>4 DEF IntAdd
  <1>6. l'[k] = l[k] - w /\ \A j \in Slots : j # k => l'[j] = l[j]
    BY <1>0, <1>2, <1>3, <1>5
  <1>7. pc'[t] \in {"wake", "idle"}
    <2>1. l[k] - w # 0 => sign(l[k] - w) = w
      <3> QED BY <1>0, <1>3, <1>4, <1>5 DEF sign
    <2> QED BY <1>0, <1>2, <1>5, <2>1 DEF IInv, TypeOK
  <1>8. /\ t \in Holders(C, w) /\ Holders(C, w)' = Holders(C, w) \ {t}
        /\ \A bucket, val : bucket # C \/ val # w => Holders(bucket, val)' = Holders(bucket, val)
    BY <1>0, <1>3, <1>7 DEF Holders, Holding
  <1>9. Cardinality(Holders(C, w)') = Cardinality(Holders(C, w)) - 1
    <2>1. IsFiniteSet(Holders(C, w))
      BY HoldersFinite
    <2> QED BY Zenon, <1>8, <2>1, FS_RemoveElement
  <1>10. \A i \in Slots : \A bucket : IsFirst(i, bucket)' <=> IsFirst(i, bucket)
    BY <1>0, <1>3 DEF IsFirst
  <1>11. CountsAreHolders'
    <2> SUFFICES ASSUME NEW j \in Slots
                 PROVE  l'[j] = IF IsFirst(j, b[j])
                                THEN Cardinality(Holders(b[j], 1)') - Cardinality(Holders(b[j], -1)')
                                ELSE 0
      BY <1>0, <1>3, <1>10 DEF CountsAreHolders
    <2>1. CASE j = k
      <3>0. l[k] = Cardinality(Holders(C, 1)) - Cardinality(Holders(C, -1))
        BY <1>0, <1>2, <1>3 DEF CountsAreHolders
      <3>1. CASE w = 1
        <4>1. Holders(C, -1)' = Holders(C, -1)
          BY <1>0, <1>8, <3>1
        <4>2. Cardinality(Holders(C, 1)') = Cardinality(Holders(C, 1)) - 1
          BY <1>0, <1>9, <3>1
        <4> QED BY <1>0, <1>2, <1>3, <1>6, <2>1, <3>0, <3>1, <4>1, <4>2, HoldersFinite
      <3>2. CASE w = -1
        <4>1. Holders(C, 1)' = Holders(C, 1)
          BY <1>0, <1>8, <3>2
        <4>2. Cardinality(Holders(C, -1)') = Cardinality(Holders(C, -1)) - 1
          BY Zenon, <1>0, <1>9, <3>2
        <4> QED BY <1>0, <1>2, <1>3, <1>6, <2>1, <3>0, <3>2, <4>1, <4>2, HoldersFinite
      <3> QED BY <1>0, <1>3, <3>1, <3>2
    <2>2. CASE j # k
      <3>1. IsFirst(j, b[j]) => b[j] # C
        BY <1>0, <1>2, <1>3, <2>2 DEF IsFirst, Slots
      <3> QED BY <1>0, <1>3, <1>6, <1>8, <2>2, <3>1 DEF CountsAreHolders
    <2> QED BY <2>1, <2>2
  <1>12. UpdateExcludesCopy'
    BY <1>0, <1>3, <1>8 DEF UpdateExcludesCopy
  <1>13. \A u \in Threads : Found(u)'
    BY <1>0, <1>3, <1>7, <1>10 DEF IInv, Counts, Found, Holding
  <1>14. \A u \in Threads : Inside(u)'
    <2> SUFFICES ASSUME NEW u \in Threads, u # t PROVE Inside(u)'
      BY <1>0, <1>7 DEF Inside
    <2>1. Inside(u) /\ slot[u] \in Slots /\ req[u].val \in {1, -1}
      BY <1>0 DEF IInv, TypeOK, LockVals
    <2>2. ~Conflicts(l[slot[u]], req[u].val) => ~Conflicts(l'[slot[u]], req[u].val)
      <3>1. CASE slot[u] # k
        BY Zenon, <1>0, <1>6, <2>1, <3>1
      <3>2. CASE slot[u] = k
        <4> QED BY <1>0, <1>3, <1>4, <1>5, <1>6, <2>1, <3>2 DEF Conflicts
      <3> QED BY <3>1, <3>2
    <2>3. NoEntry(req[u].bucket)' <=> NoEntry(req[u].bucket)
      BY <1>0, <1>3 DEF NoEntry
    <2> QED BY <1>0, <1>3, <1>10, <2>1, <2>2, <2>3 DEF Inside
  <1>15. NoBug'
    BY <1>0, <1>3, <1>7 DEF IInv, NoBug
  <1> QED BY <1>0, <1>11, <1>12, <1>13, <1>14, <1>15 DEF Counts

(* The strengthened invariant is inductive.                                  *)
LEMMA Inductive == IInv /\ [Next]_vars => IInv'
<1> SUFFICES ASSUME IInv, [Next]_vars PROVE IInv'
  OBVIOUS
<1>0. TypeOK'
  BY TypeStep DEF IInv
<1> DEFINE Rest == NoBug /\ Counts /\ \A u \in Threads : Inside(u)
<1>1. CASE UNCHANGED vars
  <2>1. \A u \in Threads : (Holding(u)' <=> Holding(u)) /\ req'[u] = req[u]
    BY <1>1 DEF vars, Holding
  <2>2. Counts'
    BY <1>1, <2>1, Frame DEF vars
  <2>3. NoBug' /\ \A u \in Threads : Inside(u)'
    BY <1>1 DEF vars, IInv, NoBug, Inside, NoEntry, IsFirst
  <2> QED BY <1>0, <2>2, <2>3 DEF IInv
<1>2. ASSUME NEW t \in Threads, NEW q \in {"idle", "try", "enlist", "sync", "held"},
             pc' = [pc EXCEPT ![t] = q], q = "held" <=> Holding(t),
             UNCHANGED <<b, l, lock, slot>>,
             \A u \in Threads : u # t => req'[u] = req[u],
             Holding(t) => req'[t] = req[t]
      PROVE  Rest'
  <2>1. pc'[t] = q /\ \A u \in Threads : u # t => pc'[u] = pc[u]
    BY <1>2 DEF IInv, TypeOK
  <2>2. \A u \in Threads : /\ Holding(u)' <=> Holding(u)
                           /\ Holding(u) => req'[u] = req[u]
    BY <1>2, <2>1 DEF Holding
  <2>3. Counts'
    BY <1>2, <2>2, Frame
  <2>4. NoBug'
    BY <2>1 DEF IInv, NoBug
  <2>5. \A u \in Threads : Inside(u)'
    BY <1>2, <2>1 DEF IInv, Inside, NoEntry, IsFirst
  <2> QED BY <2>3, <2>4, <2>5
<1>3. ASSUME NEW t \in Threads, NEW bucket \in Buckets, NEW val \in LockVals,
             NEW call \in {"trylock", "lock"}, Begin(t, bucket, val, call)
      PROVE  Rest'
  BY Zenon, <1>2, <1>3 DEF Begin, Holding, IInv, TypeOK
<1>4. ASSUME NEW t \in Threads, TrylockLookup(t) PROVE Rest'
  <2>1. /\ lock' = t /\ UNCHANGED <<b, l, wait, req, ops>> /\ pc[t] = "try" /\ lock = NoThread
        /\ pc'[t] \in {"scan", "got"} /\ \A u \in Threads : u # t => pc'[u] = pc[u]
        /\ pc'[t] = "scan" => NoEntry(req[t].bucket)
        /\ pc'[t] = "got" => IsFirst(slot'[t], req[t].bucket)
    BY Zenon, <1>4 DEF TrylockLookup, IInv, TypeOK
  <2>2. \A u \in Threads : pc[u] \notin {"scan", "got", "take"}
    BY Zenon, <2>1, NocowAssumption DEF IInv, Inside
  <2>3. \A u \in Threads : (Holding(u)' <=> Holding(u)) /\ req'[u] = req[u]
    BY <2>1 DEF Holding
  <2>4. Counts'
    BY Zenon, <2>1, <2>3, Frame
  <2>5. NoBug'
    BY Zenon, <2>1 DEF IInv, NoBug
  <2>6. \A u \in Threads : Inside(u)'
    BY Zenon, <2>1, <2>2 DEF Inside, NoEntry, IsFirst
  <2> QED BY <2>4, <2>5, <2>6
<1>5. ASSUME NEW t \in Threads, TrylockScan(t) PROVE Rest'
  <2>1. CASE SlotFree(slot[t])
    BY <1>5, <2>1, ClaimStep DEF TrylockScan, SlotFree
  <2>2. CASE ~SlotFree(slot[t]) /\ MoreSlots(slot[t])
    <3>1. /\ UNCHANGED <<b, l, lock, wait, pc, req, ops>> /\ pc[t] = "scan"
          /\ \A u \in Threads : u # t => slot'[u] = slot[u]
      BY <1>5, <2>2 DEF TrylockScan, IInv, TypeOK
    <3>2. \A u \in Threads : (Holding(u)' <=> Holding(u)) /\ req'[u] = req[u]
      BY <3>1 DEF Holding
    <3>3. Counts'
      BY <3>1, <3>2, Frame
    <3>4. NoBug'
      BY <3>1 DEF IInv, NoBug
    <3>5. \A u \in Threads : Inside(u)'
      BY <3>1 DEF IInv, Inside, NoEntry, IsFirst
    <3> QED BY <3>3, <3>4, <3>5
  <2>3. CASE TrylockFail(t)
    BY <1>5, <2>3, FailStep DEF TrylockScan
  <2> QED BY <1>5, <2>1, <2>2, <2>3 DEF TrylockScan
<1>6. ASSUME NEW t \in Threads, TrylockGot(t) PROVE Rest'
  <2>1. CASE TrylockFail(t)
    BY <1>6, <2>1, FailStep DEF TrylockGot
  <2>2. CASE ~Conflicts(l[slot[t]], req[t].val)
    <3>1. /\ UNCHANGED <<b, l, lock, wait, slot, req, ops>> /\ pc[t] = "got" /\ pc'[t] = "take"
          /\ \A u \in Threads : u # t => pc'[u] = pc[u]
      BY <1>6, <2>2 DEF TrylockGot, IInv, TypeOK
    <3>2. \A u \in Threads : (Holding(u)' <=> Holding(u)) /\ req'[u] = req[u]
      BY <3>1 DEF Holding
    <3>3. Counts'
      BY <3>1, <3>2, Frame
    <3>4. NoBug'
      BY <3>1 DEF IInv, NoBug
    <3>5. \A u \in Threads : Inside(u)'
      BY <3>1, <2>2 DEF IInv, Inside, NoEntry, IsFirst
    <3> QED BY <3>3, <3>4, <3>5
  <2> QED BY <1>6, <2>1, <2>2 DEF TrylockGot
<1>7. ASSUME NEW t \in Threads, TrylockTake(t) PROVE Rest'
  <2>1. CASE Overflows(l[slot[t]], req[t].val)
    BY <1>7, <2>1, FailStep DEF TrylockTake
  <2>2. CASE ~Overflows(l[slot[t]], req[t].val)
    BY <1>7, <2>2, TakeStep DEF TrylockTake
  <2> QED BY <2>1, <2>2
<1>8. ASSUME NEW t \in Threads, Enlist(t) \/ Sync(t) \/ WakeLocked(t) \/ UnlockWake(t)
      PROVE  Rest'
  <2>1. CASE Enlist(t)
    BY Zenon, <1>2, <2>1 DEF Enlist, AfterEnlist, Holding, IInv, TypeOK
  <2>2. CASE Sync(t)
    BY Zenon, <1>2, <2>2 DEF Sync, Holding
  <2>3. CASE WakeLocked(t)
    BY Zenon, <1>2, <2>3 DEF WakeLocked, Holding
  <2>4. CASE UnlockWake(t)
    BY Zenon, <1>2, <2>4 DEF UnlockWake, Holding
  <2> QED BY <1>8, <2>1, <2>2, <2>3, <2>4
<1>9. ASSUME NEW t \in Threads, Unlock(t) PROVE Rest'
  BY <1>9, UnlockStep
<1> QED
  BY <1>0, <1>1, <1>3, <1>4, <1>5, <1>6, <1>7, <1>8, <1>9 DEF Next, Step, IInv

(* Nobody holds anything in the initial state.                               *)
LEMMA InitInv == Init => IInv
<1> SUFFICES ASSUME Init PROVE IInv
  OBVIOUS
<1>1. TypeOK
  BY NocowAssumption DEF Init, TypeOK, Slots, LockVals, NoRequest
<1>2. \A bucket, val : Holders(bucket, val) = {} /\ Cardinality(Holders(bucket, val)) = 0
  <2>1. \A bucket, val : Holders(bucket, val) = {}
    BY DEF Init, Holders
  <2> QED BY <2>1, FS_EmptySet
<1>3. Counts
  BY <1>2 DEF Init, Counts, CountsAreHolders, UpdateExcludesCopy, Found, Holding
<1>4. NoBug /\ \A t \in Threads : Inside(t)
  BY DEF Init, NoBug, Inside
<1> QED BY <1>1, <1>3, <1>4 DEF IInv

(* A bucket is never locked for UPDATE and for COPY at once, for any number  *)
(* of threads, buckets and slots, although unlock takes no spinlock and      *)
(* slots move from bucket to bucket.                                         *)
THEOREM Exclusion == Spec => []UpdateExcludesCopy
<1>1. IInv => UpdateExcludesCopy
  BY DEF IInv, Counts
<1> QED BY <1>1, InitInv, Inductive, PTL DEF Spec

(* Every count is the number of holders of the bucket that finds it, so the  *)
(* overflow check before the add in __bch2_bucket_nocow_trylock() keeps a    *)
(* full count from wrapping to the other kind, for any width of the count.   *)
THEOREM CountsExact == Spec => []CountsAreHolders
<1>1. IInv => CountsAreHolders
  BY DEF IInv, Counts
<1> QED BY <1>1, InitInv, Inductive, PTL DEF Spec

(* The BUG() and the BUG_ON() of bch2_bucket_nocow_unlock() cannot fire.     *)
THEOREM NoBugReached == Spec => []NoBug
<1>1. IInv => NoBug
  BY DEF IInv
<1> QED BY <1>1, InitInv, Inductive, PTL DEF Spec

(* Every step of the table is a step of the abstract lock, or stutters: the  *)
(* add in trylock takes it, the subtraction in unlock drops it.              *)
LEMMA StepImplements == IInv /\ [Next]_vars => [A!Next]_Held
<1> SUFFICES ASSUME IInv, [Next]_vars PROVE A!Next \/ Held' = Held
  OBVIOUS
<1>1. ASSUME \A u \in Threads : /\ Holding(u)' <=> Holding(u)
                                /\ Holding(u) => req'[u] = req[u]
      PROVE  Held' = Held
  BY <1>1 DEF Held, Holding
<1>2. CASE UNCHANGED vars
  BY <1>2, <1>1 DEF vars, Holding
<1>3. ASSUME NEW t \in Threads, ~Holding(t), pc'[t] \notin {"held", "wake_locked"},
             \A u \in Threads : u # t => pc'[u] = pc[u] /\ req'[u] = req[u]
      PROVE  Held' = Held
  BY <1>3, <1>1 DEF Holding
<1>4. ASSUME NEW t \in Threads, ~Holding(t), TrylockFail(t) PROVE Held' = Held
  <2>1. req[t].call \in {"trylock", "lock", "wait"}
    BY DEF IInv, TypeOK
  <2>2. /\ pc'[t] \notin {"held", "wake_locked"}
        /\ \A u \in Threads : u # t => pc'[u] = pc[u] /\ req'[u] = req[u]
    BY <1>4, <2>1 DEF TrylockFail, IInv, TypeOK
  <2> QED BY <1>3, <1>4, <2>2
<1>5. ASSUME NEW t \in Threads, NEW bucket \in Buckets, NEW val \in LockVals,
             NEW call \in {"trylock", "lock"}, Begin(t, bucket, val, call)
      PROVE  Held' = Held
  <2>1. /\ ~Holding(t) /\ pc'[t] = "try"
        /\ \A u \in Threads : u # t => pc'[u] = pc[u] /\ req'[u] = req[u]
    BY <1>5 DEF Begin, Holding, IInv, TypeOK
  <2> QED BY <1>3, <2>1
<1>6. ASSUME NEW t \in Threads, TrylockLookup(t) \/ TrylockScan(t) \/ TrylockGot(t)
      PROVE  Held' = Held
  <2>1. ~Holding(t)
    BY <1>6 DEF TrylockLookup, TrylockScan, TrylockGot, Holding
  <2>2. CASE TrylockFail(t)
    BY <1>4, <2>1, <2>2
  <2>3. CASE ~TrylockFail(t)
    <3>1. /\ pc'[t] \notin {"held", "wake_locked"}
          /\ \A u \in Threads : u # t => pc'[u] = pc[u] /\ req'[u] = req[u]
      BY <1>6, <2>3 DEF TrylockLookup, TrylockScan, TrylockGot, IInv, TypeOK
    <3> QED BY <1>3, <2>1, <3>1
  <2> QED BY Zenon, <2>2, <2>3
<1>7. ASSUME NEW t \in Threads, Enlist(t) \/ Sync(t) \/ WakeLocked(t) \/ UnlockWake(t)
      PROVE  Held' = Held
  <2>1. CASE WakeLocked(t)
    BY <1>1, <2>1 DEF WakeLocked, Holding, IInv, TypeOK
  <2>2. CASE Enlist(t)
    BY <1>3, <2>2 DEF Enlist, AfterEnlist, Holding, IInv, TypeOK
  <2>3. CASE Sync(t) \/ UnlockWake(t)
    BY <1>3, <2>3 DEF Sync, UnlockWake, Holding, IInv, TypeOK
  <2> QED BY <1>7, <2>1, <2>2, <2>3
<1>8. ASSUME NEW t \in Threads, TrylockTake(t) PROVE A!Next \/ Held' = Held
  <2>1. ~Holding(t)
    BY <1>8 DEF TrylockTake, Holding
  <2>2. CASE Overflows(l[slot[t]], req[t].val)
    BY <1>4, <1>8, <2>1, <2>2 DEF TrylockTake
  <2>3. CASE ~Overflows(l[slot[t]], req[t].val)
    <3>1. PICK C \in Buckets, w \in {1, -1} : C = req[t].bucket /\ w = req[t].val
      BY Zenon DEF IInv, TypeOK, LockVals
    <3>2. Holders(C, -w) = {}
      BY <1>8, <2>3, <3>1, TakeStep DEF TrylockTake
    <3>3. /\ pc'[t] \in {"held", "wake_locked"} /\ req' = req
          /\ \A u \in Threads : u # t => pc'[u] = pc[u]
      BY <1>8, <2>3 DEF TrylockTake, IInv, TypeOK
    <3>4. \A u \in Threads : <<C, -w>> \notin Held[u]
      BY <3>2 DEF Held, Holders
    <3>5. Held[t] = {} /\ Held' = [Held EXCEPT ![t] = {<<C, w>>}]
      BY Zenon, <2>1, <3>1, <3>3 DEF Held, Holding
    <3>6. A!Take(t, C, w)
      BY <3>4, <3>5 DEF A!Take
    <3> QED BY <3>1, <3>6 DEF A!Next, A!Modes
  <2> QED BY <2>2, <2>3
<1>9. ASSUME NEW t \in Threads, Unlock(t) PROVE A!Next
  <2>1. pc[t] = "held" /\ \A u \in Threads : u # t => pc'[u] = pc[u] /\ req'[u] = req[u]
    BY <1>9 DEF Unlock, IInv, TypeOK
  <2>2. pc'[t] \notin {"held", "wake_locked"}
    BY <1>9 DEF Unlock, IInv, TypeOK
  <2>3. Held[t] # {} /\ Held' = [Held EXCEPT ![t] = {}]
    BY Zenon, <2>1, <2>2 DEF Held
  <2> QED BY Zenon, <2>3 DEF A!Next, A!Drop
<1> QED
  BY <1>2, <1>5, <1>6, <1>7, <1>8, <1>9 DEF Next, Step

(* The hash table of nocow_locking.c implements one lock with two shared     *)
(* modes per device bucket, whatever buckets share a hash bucket.            *)
THEOREM Implements == Spec => ImplementsModeLocks
<1>1. Init => A!Init
  BY DEF Init, A!Init, Held
<1> QED BY <1>1, InitInv, Inductive, StepImplements, PTL DEF Spec, ImplementsModeLocks, A!Spec
=============================================================================
