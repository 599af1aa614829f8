------------------------ MODULE RecoveryPassesProofs ------------------------
(* Proofs about the recovery passes: the order in which passes are complete, *)
(* the point of no return at set_may_go_rw, what the superblock requires and *)
(* the requests that were accepted, for every table of passes, every set of  *)
(* requests and every number of mounts.                                      *)
EXTENDS RecoveryPasses, TLAPS

(* After a run of p, p comes after every pass that ran, and what came after  *)
(* the others does so still.                                                 *)
LEMMA RunLastPairs ==
  ASSUME ran \in SUBSET (Passes \X Passes), NEW p \in Passes
  PROVE  /\ RunLast(p) \in SUBSET (Passes \X Passes)
         /\ \A q, r \in Passes :
               <<q, r>> \in RunLast(p) <=>
                 (q # p /\ <<q, r>> \in ran) \/ (r = p /\ (q = p \/ <<q, q>> \in ran))
<1> DEFINE Old == {e \in ran : e[1] # p}
           New == {<<q, p>> : q \in {x \in Passes : x = p \/ <<x, x>> \in ran}}
<1>1. RunLast(p) = Old \cup New
  BY DEF RunLast
<1>2. \A e \in New : e \in Passes \X Passes
  <2> SUFFICES ASSUME NEW q \in Passes PROVE <<q, p>> \in Passes \X Passes
    BY Zenon
  <2> QED OBVIOUS
<1>3. \A e \in Old : e \in Passes \X Passes
  OBVIOUS
<1>4. ASSUME NEW q \in Passes, NEW r \in Passes
      PROVE  <<q, r>> \in New <=> r = p /\ (q = p \/ <<q, q>> \in ran)
  BY Zenon
<1>5. ASSUME NEW q \in Passes, NEW r \in Passes
      PROVE  <<q, r>> \in Old <=> q # p /\ <<q, r>> \in ran
  OBVIOUS
<1> HIDE DEF Old, New
<1>6. RunLast(p) \in SUBSET (Passes \X Passes)
  BY Zenon, <1>1, <1>2, <1>3
<1>7. ASSUME NEW q \in Passes, NEW r \in Passes
      PROVE  <<q, r>> \in RunLast(p) <=>
                 (q # p /\ <<q, r>> \in ran) \/ (r = p /\ (q = p \/ <<q, q>> \in ran))
  <2>1. <<q, r>> \in RunLast(p) <=> <<q, r>> \in Old \/ <<q, r>> \in New
    BY <1>1
  <2>2. <<q, r>> \in New <=> r = p /\ (q = p \/ <<q, q>> \in ran)
    BY <1>4
  <2>3. <<q, r>> \in Old <=> q # p /\ <<q, r>> \in ran
    BY <1>5
  <2> QED BY <2>1, <2>2, <2>3
<1> QED BY <1>6, <1>7

(* The fields of struct bch_fs that recovery uses.                           *)
FsFields ==
    [curr : 0 .. NR, next : 0 .. NR, complete : SUBSET Passes, done : Passes,
     passes : SUBSET Passes, exclude : SUBSET Passes, last : Passes, fsck : YesNo,
     clean : YesNo, error : YesNo, may_go_rw : YesNo]

Superblocks == [required : SUBSET Passes, alloc_info : YesNo]

(* What a mount makes of the superblock, and how recovery starts.            *)
LEMMA MountEffect ==
  ASSUME NEW C, NEW SB, NEW sb \in Superblocks, Mount(C, SB, sb)
  PROVE  /\ C \in FsFields /\ C.curr = 0 /\ C.complete = {}
         /\ SB \in Superblocks /\ SB.alloc_info = sb.alloc_info
         /\ sb.required \subseteq SB.required
<1> USE RecoveryPassesAssumption
<1>1. PICK opts \in Options, fsck \in YesNo, clean \in YesNo :
        /\ SB = [sb EXCEPT !.required = @ \cup opts.upgrade \cup opts.extra]
        /\ C = [curr |-> 0, next |-> 0, complete |-> {}, done |-> 0,
                passes |-> sb.required \cup opts.upgrade,
                exclude |-> Unexcluded(opts.exclude), last |-> opts.last,
                fsck |-> fsck, clean |-> clean, error |-> "no", may_go_rw |-> "no"]
  BY Zenon DEF Mount
<1>2. /\ opts.upgrade \in SUBSET Passes /\ opts.extra \in SUBSET Passes
      /\ opts.exclude \in SUBSET Passes /\ opts.last \in Passes
  OBVIOUS
<1>3. Unexcluded(opts.exclude) \in SUBSET Passes
  BY <1>2 DEF Unexcluded
<1>4. 0 \in Passes /\ 0 \in 0 .. NR
  BY DEF Passes
<1>5. SB \in Superblocks /\ SB.alloc_info = sb.alloc_info /\ sb.required \subseteq SB.required
  BY <1>1, <1>2 DEF Superblocks
<1>6. sb.required \cup opts.upgrade \in SUBSET Passes
  BY <1>2 DEF Superblocks
<1>7. C \in FsFields
  BY <1>1, <1>2, <1>3, <1>4, <1>6 DEF FsFields, YesNo
<1> QED BY <1>1, <1>5, <1>7

(* A turn of the loop of bch2_run_recovery_passes is under way.              *)
InTurn == pc \in {"running", "flushed", "after"}

(* One step keeps every variable in its type.                                *)
LEMMA TypeStep == TypeOK /\ (InTurn => c.curr < NR) /\ [Next]_vars => TypeOK'
<1> SUFFICES ASSUME TypeOK, InTurn => c.curr < NR, [Next]_vars PROVE TypeOK'
  OBVIOUS
<1> USE RecoveryPassesAssumption DEF TypeOK
<1>1. CASE UNCHANGED vars
  BY <1>1 DEF vars
<1>2. ASSUME NEW p \in Passes, RunExplicit(p)
      PROVE  /\ c' \in FsFields
             /\ owed' \in SUBSET Passes /\ forgot' \in SUBSET Passes
  <2>1. p \in 0 .. NR
    BY DEF Passes
  <2>6. StillComplete(p) \in SUBSET Passes
    BY DEF StillComplete
  <2>7. Overwritten(p) \in SUBSET Passes
    BY DEF Overwritten
  <2>2. owed' \in SUBSET Passes /\ forgot' \in SUBSET Passes
    BY <1>2, <2>7 DEF RunExplicit
  <2>3. CASE c' = c
    BY <2>2, <2>3 DEF FsFields
  <2>4. CASE c' = [c EXCEPT !.passes = @ \cup {p}]
    BY Zenon, <2>2, <2>4 DEF FsFields
  <2>5. CASE c' = [c EXCEPT !.passes = @ \cup {p}, !.next = p, !.complete = StillComplete(p)]
    BY Zenon, <2>1, <2>6, <2>2, <2>5 DEF FsFields
  <2> QED BY <1>2, <2>3, <2>4, <2>5 DEF RunExplicit
<1>3. ASSUME NEW p \in Explicit, Request(p) PROVE TypeOK'
  BY <1>2, <1>3 DEF Request, FsFields
<1>4. ASSUME NEW p \in Persistent, RequestPersistent(p) PROVE TypeOK'
  BY <1>2, <1>4 DEF RequestPersistent, RunExplicitPersistent, FsFields
<1>5. ASSUME NEW seq \in Lost, LostStart(seq) PROVE TypeOK'
  BY <1>5 DEF LostStart
<1>6. CASE LostRequest
  <2>1. Head(lost) \in Passes /\ Tail(lost) \in Seq(Passes)
    BY <1>6 DEF LostRequest
  <2> QED BY Zenon, <1>2, <1>6, <2>1 DEF LostRequest, RunExplicitPersistent, FsFields
<1>7. CASE LostEnd
  BY <1>7 DEF LostEnd
<1>8. CASE LoopExit
  <2>1. CASE UNCHANGED c
    BY <1>8, <2>1 DEF LoopExit
  <2>2. CASE c.curr < NR /\ c' = [c EXCEPT !.next = c.curr + 1]
    <3>1. c.curr + 1 \in 0 .. NR
      BY <2>2
    <3> QED BY Zenon, <1>8, <2>2, <3>1 DEF LoopExit
  <2> QED BY <1>8, <2>1, <2>2 DEF LoopExit
<1>9. CASE Loop
  <2>1. c.curr \in Passes /\ c.curr + 1 \in 0 .. NR
    BY <1>9 DEF Loop, Passes
  <2>2. RunLast(c.curr) \in SUBSET (Passes \X Passes)
    BY <2>1, RunLastPairs
  <2> QED BY <1>9, <2>1, <2>2, ZenonT(30) DEF Loop
<1>10. ASSUME NEW done, RunPass(done)
       PROVE  /\ c' \in FsFields
              /\ ext' \in [required : SUBSET Passes, alloc_info : YesNo]
              /\ disk' \in [required : SUBSET Passes, alloc_info : YesNo]
              /\ need' \in SUBSET Passes
  <2>1. CASE ReconstructAlloc(done)
    BY Zenon, <2>1 DEF ReconstructAlloc, FsFields, YesNo
  <2>2. CASE c' = [c EXCEPT !.may_go_rw = "yes"] /\ need' = need \ done /\ UNCHANGED <<ext, disk>>
    BY Zenon, <2>2 DEF FsFields, YesNo
  <2>3. CASE need' = need \ done /\ UNCHANGED <<c, ext, disk>>
    BY <2>3 DEF FsFields
  <2> QED BY <1>10, <2>1, <2>2, <2>3 DEF RunPass, SetMayGoRw
<1>11. CASE PassErr
  BY <1>10, <1>11 DEF PassErr, AfterErr, FsFields
<1>12. CASE PassFindsError
  BY Zenon, <1>12 DEF PassFindsError, YesNo
<1>13. CASE ClearRequired
  BY <1>13 DEF ClearRequired
<1>14. CASE WriteSuper
  BY <1>14 DEF WriteSuper
<1>15. CASE Remount
  <2>1. Mount(c', disk', disk) /\ disk \in Superblocks
    BY <1>15 DEF Remount, Superblocks
  <2>2. c' \in FsFields /\ disk' \in Superblocks
    BY <2>1, MountEffect
  <2>3. owed' \in SUBSET Passes /\ need' \in SUBSET Passes /\ ran' \in SUBSET (Passes \X Passes)
    BY <1>15, <2>2 DEF Remount, FsFields, Superblocks
  <2>4. lost' \in Seq(Passes) /\ mounts' \in 1 .. MaxMounts
    BY <1>15 DEF Remount
  <2> QED BY <1>15, <2>2, <2>3, <2>4, Zenon DEF Remount, FsFields, Superblocks
<1>16. CASE PassOk
  BY <1>10, <1>16 DEF PassOk, FsFields
<1>17. CASE After
  <2>1. CASE c' = Rewound /\ ret' = "ok"
    BY Zenon, <1>17, <2>1 DEF After, Rewound
  <2>2. CASE c' = Advanced /\ UNCHANGED ret
    <3>1. c.curr \in Passes /\ Furthest(c.done, c.curr) \in Passes
      BY <1>17 DEF After, InTurn, Passes, Furthest
    <3> QED BY Zenon, <1>17, <2>2, <3>1 DEF After, Advanced
  <2> QED BY <1>17, <2>1, <2>2 DEF After
<1> QED
  BY <1>1, <1>3, <1>4, <1>5, <1>6, <1>7, <1>8, <1>9, <1>11, <1>12, <1>13, <1>14, <1>15, <1>16, <1>17
  DEF Next, RecoveryStep, LostStep

-----------------------------------------------------------------------------
(* What a turn of the loop knows of its rewinds: while the turn lasts, the   *)
(* next pass is the following one or an earlier one, and then nothing but    *)
(* the pass before it counts as complete.                                    *)
Turn ==
    /\ InTurn => /\ c.curr < NR
                 /\ c.next = c.curr + 1 \/ c.next < c.curr
                 /\ c.next < c.curr => c.complete \subseteq {c.next - 1}
                 /\ c.curr >= set_may_go_rw => c.next >= set_may_go_rw
    /\ pc \in {"running", "flushed"} => ret = "ok"
    /\ \A p \in c.complete : p < c.curr

(* The pass of this turn ran after every other one.                          *)
Order ==
    /\ CompleteInOrder
    /\ InTurn => \A p \in Passes : p = c.curr \/ <<p, p>> \in ran => <<p, c.curr>> \in ran

(* The superblock in memory requires what the one on disk does, and a pass   *)
(* whose requirement is about to be dropped is not needed.                   *)
Kept ==
    /\ disk.required \subseteq ext.required
    /\ disk.alloc_info = ext.alloc_info
    /\ pc = "flushed" => c.curr \notin need

(* The accepted requests are still ahead of recovery.                        *)
Ahead ==
    /\ \A p \in owed : ~NoAllocInfo(p) /\ p \in c.passes
    /\ \A p \in owed \ c.exclude :
          /\ pc = "loop" /\ ret = "ok" => p >= c.curr
          /\ InTurn => p >= c.curr \/ p >= c.next
          /\ pc = "flushed" \/ (pc = "after" /\ ret = "ok") => p >= c.next
    /\ pc = "returned" /\ ret = "ok" /\ c.last = 0 => c.curr = NR /\ owed \subseteq c.exclude

(* The inductive invariant.                                                  *)
IInv == TypeOK /\ Turn /\ Order /\ Kept /\ Ahead

(* What __bch2_run_explicit_recovery_pass changes of struct bch_fs.          *)
LEMMA RequestEffect ==
  ASSUME TypeOK, NEW p \in Passes, RunExplicit(p)
  PROVE  /\ c'.curr = c.curr /\ c'.exclude = c.exclude /\ c'.last = c.last
         /\ \/ UNCHANGED <<c, owed, forgot>>
            \/ /\ ~Declined(p)
               /\ c'.passes = c.passes \cup {p}
               /\ owed' = (owed \ Overwritten(p))
                            \cup (IF Late(p) \/ NoAllocInfo(p) THEN {} ELSE {p})
               /\ \/ c.curr > p /\ c'.next = p /\ c'.complete = StillComplete(p)
                  \/ c.curr <= p /\ c'.next = c.next /\ c'.complete = c.complete
<1> USE DEF TypeOK
<1>1. CASE UNCHANGED <<c, owed, forgot>>
  BY <1>1
<1>2. CASE c.curr > p /\ ~Declined(p)
  <2>1. /\ c' = [c EXCEPT !.passes = @ \cup {p}, !.next = p, !.complete = StillComplete(p)]
        /\ owed' = (owed \ Overwritten(p))
                     \cup (IF Late(p) \/ NoAllocInfo(p) THEN {} ELSE {p})
    BY <1>1, <1>2 DEF RunExplicit
  <2> QED BY <1>2, <2>1
<1>3. CASE c.curr <= p /\ ~Declined(p)
  <2>1. /\ c' = [c EXCEPT !.passes = @ \cup {p}]
        /\ owed' = (owed \ Overwritten(p))
                     \cup (IF Late(p) \/ NoAllocInfo(p) THEN {} ELSE {p})
    BY <1>3 DEF RunExplicit, Passes
  <2> QED BY <1>3, <2>1
<1> QED BY <1>1, <1>2, <1>3, RecoveryPassesAssumption DEF RunExplicit, Passes

(* What a pass changes of it, and of the superblock.                         *)
LEMMA PassEffect ==
  ASSUME TypeOK, disk.required \subseteq ext.required, NEW done, RunPass(done)
  PROVE  /\ c'.curr = c.curr /\ c'.next = c.next /\ c'.complete = c.complete
         /\ c'.exclude = c.exclude /\ c'.last = c.last /\ c.passes \subseteq c'.passes
         /\ done \cap need' = {}
         /\ disk.required \subseteq disk'.required
         /\ \/ UNCHANGED <<ext, disk>>
            \/ ext' = disk' /\ disk'.alloc_info = "yes"
<1> USE DEF TypeOK
<1>1. CASE ReconstructAlloc(done)
  BY <1>1 DEF ReconstructAlloc
<1>2. CASE c' = [c EXCEPT !.may_go_rw = "yes"] /\ need' = need \ done /\ UNCHANGED <<ext, disk>>
  BY <1>2
<1>3. CASE need' = need \ done /\ UNCHANGED <<c, ext, disk>>
  BY <1>3
<1> QED BY <1>1, <1>2, <1>3 DEF RunPass, SetMayGoRw

(* A request leaves the facts about the turn true.                           *)
LEMMA RequestStep ==
  ASSUME IInv, NEW p \in Passes, RunExplicit(p), UNCHANGED <<disk, pc, ret, ran>>
  PROVE  Turn' /\ Order' /\ Ahead'
<1> USE RecoveryPassesAssumption DEF IInv
<1>1. CASE UNCHANGED <<c, owed, forgot>>
  BY <1>1 DEF Turn, Order, Ahead, InTurn, CompleteInOrder, NoAllocInfo
<1>2. CASE /\ ~Declined(p)
           /\ c'.passes = c.passes \cup {p}
           /\ owed' = (owed \ Overwritten(p))
                        \cup (IF Late(p) \/ NoAllocInfo(p) THEN {} ELSE {p})
           /\ c.curr > p /\ c'.next = p /\ c'.complete = StillComplete(p)
  <2>1. c'.curr = c.curr /\ c'.exclude = c.exclude /\ c'.last = c.last
    BY RequestEffect
  <2>2. c.curr \in Nat /\ c.next \in Nat /\ p \in Nat /\ NR \in Nat /\ set_may_go_rw \in Nat
    BY DEF TypeOK, Passes
  <2>3. Turn'
    BY <1>2, <2>1, <2>2 DEF Turn, InTurn, StillComplete, Declined, CannotRewind
  <2>4. Order'
    BY <1>2, <2>1 DEF Order, InTurn, CompleteInOrder, StillComplete
  <2>5. Ahead'
    <3>1. \A q \in owed' : ~NoAllocInfo(q)' /\ q \in c'.passes
      BY <1>2 DEF Ahead, NoAllocInfo
    <3>2. ASSUME NEW q \in owed' \ c'.exclude, InTurn PROVE q >= p
      <4>1. CASE q \in owed
        BY <1>2, <2>1, <2>2, <3>2, <4>1 DEF Ahead, Overwritten, Turn, TypeOK, Passes
      <4> QED BY <1>2, <2>2, <3>2, <4>1
    <3> QED BY <1>2, <2>1, <3>1, <3>2 DEF Ahead, InTurn, RunExplicit, Declined
  <2> QED BY <2>3, <2>4, <2>5
<1>3. CASE /\ ~Declined(p)
           /\ c'.passes = c.passes \cup {p}
           /\ owed' = (owed \ Overwritten(p))
                        \cup (IF Late(p) \/ NoAllocInfo(p) THEN {} ELSE {p})
           /\ c.curr <= p /\ c'.next = c.next /\ c'.complete = c.complete
  <2>1. c'.curr = c.curr /\ c'.exclude = c.exclude /\ c'.last = c.last
    BY RequestEffect
  <2>2. c.curr \in Nat /\ c.next \in Nat /\ p \in Nat /\ NR \in Nat /\ set_may_go_rw \in Nat
    BY DEF TypeOK, Passes
  <2>3. Turn'
    BY <1>3, <2>1, <2>2 DEF Turn, InTurn
  <2>4. Order'
    BY <1>3, <2>1 DEF Order, InTurn, CompleteInOrder
  <2>5. Ahead'
    <3>1. \A q \in owed' : ~NoAllocInfo(q)' /\ q \in c'.passes
      BY <1>3 DEF Ahead, NoAllocInfo
    <3>2. pc # "loop" /\ (pc = "returned" => ~(ret = "ok" /\ c.last = 0))
      BY <1>3 DEF RunExplicit, Ahead, Declined
    <3>3. \A q \in owed' : q \in owed \/ (q = p /\ ~Late(p))
      BY <1>3
    <3>4. ASSUME pc = "flushed" \/ pc = "after", ~Late(p) PROVE p >= c.next
      BY <1>3, <2>2, <3>4 DEF Late, Turn, InTurn
    <3> QED BY <1>3, <2>1, <3>1, <3>2, <3>3, <3>4 DEF Ahead, InTurn
  <2> QED BY <2>3, <2>4, <2>5
<1> QED BY <1>1, <1>2, <1>3, RequestEffect

(* A step that leaves recovery and its requests alone.                       *)
LEMMA Frame ==
  ASSUME IInv, UNCHANGED <<c, pc, ret, owed, ran>>, disk'.alloc_info = disk.alloc_info
  PROVE  Turn' /\ Order' /\ Ahead'
  BY DEF IInv, Turn, Order, Ahead, InTurn, CompleteInOrder, NoAllocInfo

(* The start of a turn: the pass to run is after all that are complete, and  *)
(* a pass is skipped only if no accepted request is for it.                  *)
LEMMA LoopStep == IInv /\ Loop => Turn' /\ Order' /\ Kept' /\ Ahead'
<1> SUFFICES ASSUME IInv, Loop PROVE Turn' /\ Order' /\ Kept' /\ Ahead'
  OBVIOUS
<1> USE RecoveryPassesAssumption DEF IInv
<1>1. /\ c.curr \in Nat /\ set_may_go_rw \in Nat /\ NR \in Nat /\ c.curr < NR /\ c.curr \in Passes
      /\ \A p \in Passes : p \in Nat
  BY DEF Loop, TypeOK, Passes
<1>2. Kept'
  BY DEF Loop, Kept
<1>3. CASE should_run_recovery_pass(c.curr)
  <2>1. /\ c'.curr = c.curr /\ c'.next = c.curr + 1 /\ c'.complete = c.complete
        /\ c'.exclude = c.exclude /\ c'.passes = c.passes /\ ran' = RunLast(c.curr)
        /\ pc' = "running" /\ UNCHANGED <<owed, ret, disk>> /\ pc = "loop" /\ ret = "ok"
    BY <1>3 DEF Loop, TypeOK
  <2>2. Turn'
    BY <1>1, <2>1 DEF Turn, InTurn
  <2>3. Order'
    <3>1. \A q, r \in Passes : <<q, r>> \in ran' <=>
            (q # c.curr /\ <<q, r>> \in ran) \/ (r = c.curr /\ (q = c.curr \/ <<q, q>> \in ran))
      BY <1>1, <2>1, RunLastPairs DEF TypeOK
    <3>2. c.complete \subseteq Passes /\ c.curr \notin c.complete
      BY <1>1 DEF TypeOK, Turn
    <3>3. CompleteInOrder'
      BY Zenon, <2>1, <3>1, <3>2 DEF Order, CompleteInOrder
    <3> QED BY <1>1, <2>1, <3>1, <3>3 DEF Order
  <2>4. Ahead'
    BY <1>1, <2>1 DEF Ahead, InTurn, NoAllocInfo
  <2> QED BY <1>2, <2>2, <2>3, <2>4
<1>4. CASE ~should_run_recovery_pass(c.curr)
  <2>1. /\ c'.curr = c.curr + 1 /\ c'.next = c.curr + 1 /\ c'.complete = c.complete
        /\ c'.exclude = c.exclude /\ c'.passes = c.passes /\ ran' = ran
        /\ pc' = "loop" /\ UNCHANGED <<owed, ret, disk>> /\ pc = "loop" /\ ret = "ok"
    BY Zenon, <1>4 DEF Loop, TypeOK
  <2>2. Turn'
    <3>1. \A p \in c.complete : p \in Nat /\ p < c.curr
      BY <1>1 DEF TypeOK, Turn
    <3> QED BY <1>1, <2>1, <3>1 DEF Turn, InTurn
  <2>3. Order'
    BY <2>1 DEF Order, CompleteInOrder, InTurn
  <2>4. c.curr \notin owed \ c.exclude
    BY <1>4 DEF Ahead, should_run_recovery_pass
  <2>5. Ahead'
    BY <1>1, <2>1, <2>4 DEF Ahead, InTurn, NoAllocInfo, TypeOK
  <2> QED BY <1>2, <2>2, <2>3, <2>5
<1> QED BY <1>3, <1>4

(* The end of a turn, by a rewind or by going on to the following pass.      *)
LEMMA AfterStep == IInv /\ After => Turn' /\ Order' /\ Kept' /\ Ahead'
<1> SUFFICES ASSUME IInv, After PROVE Turn' /\ Order' /\ Kept' /\ Ahead'
  OBVIOUS
<1> USE RecoveryPassesAssumption DEF IInv
<1>1. /\ c.curr \in Nat /\ c.next \in Nat /\ set_may_go_rw \in Nat /\ NR \in Nat
      /\ c.curr \in Passes /\ c.complete \subseteq Passes
      /\ \A p \in Passes : p \in Nat
  BY DEF After, Turn, InTurn, TypeOK, Passes
<1>2. /\ c'.curr = c.next /\ c'.exclude = c.exclude /\ c'.passes = c.passes
      /\ pc = "after" /\ pc' = "loop" /\ UNCHANGED <<owed, disk, ext, ran>>
      /\ \/ /\ c.next < c.curr /\ ret' = "ok"
            /\ c'.complete = c.complete \cap 0 .. c.curr - 1
         \/ /\ c.next >= c.curr /\ ret' = ret
            /\ c'.complete = c.complete \cup {c.curr}
  <2>1. CASE c.next < c.curr
    <3>1. c' = Rewound /\ ret' = "ok"
      BY <2>1 DEF After
    <3> QED BY <2>1, <3>1 DEF After, Rewound, TypeOK
  <2>2. CASE ~(c.next < c.curr)
    <3> DEFINE m == Furthest(c.done, c.curr)
    <3>1. /\ c' = [c EXCEPT !.complete = @ \cup {c.curr}, !.done = m, !.curr = c.next]
          /\ ret' = ret
      BY <2>2 DEF After, Advanced
    <3> HIDE DEF m
    <3> QED BY <1>1, <2>2, <3>1 DEF After, TypeOK
  <2> QED BY <2>1, <2>2
<1>3. Kept'
  BY <1>2 DEF Kept
<1>4. Ahead'
  BY <1>1, <1>2 DEF Ahead, Turn, InTurn, NoAllocInfo, TypeOK
<1>5. \A p \in c.complete : p \in Nat /\ p < c.curr
  BY Zenon, <1>1 DEF Turn
<1>6. CASE c.next < c.curr
  <2>1. c'.complete = c.complete \cap 0 .. c.curr - 1 /\ c.complete \subseteq {c.next - 1}
    BY <1>1, <1>2, <1>6 DEF Turn, InTurn
  <2>2. Turn'
    BY <1>1, <1>2, <1>5, <2>1 DEF Turn, InTurn
  <2>3. Order'
    BY <1>2, <2>1 DEF Order, InTurn, CompleteInOrder
  <2> QED BY <1>3, <1>4, <2>2, <2>3
<1>7. CASE c.next >= c.curr
  <2>1. c'.complete = c.complete \cup {c.curr} /\ c.next = c.curr + 1
    BY <1>1, <1>2, <1>7 DEF Turn, InTurn
  <2>2. Turn'
    BY <1>1, <1>2, <1>5, <2>1 DEF Turn, InTurn
  <2>3. Order'
    <3>1. \A p \in c.complete \cup {c.curr} : <<p, c.curr>> \in ran
      <4>1. \A p \in c.complete : p <= p
        BY <1>5
      <4>2. \A p \in c.complete : <<p, p>> \in ran
        BY <4>1 DEF Order, CompleteInOrder
      <4> QED BY Zenon, <1>1, <1>2, <4>2 DEF Order, InTurn
    <3>2. \A p \in c.complete : ~(c.curr <= p)
      BY <1>1, <1>5
    <3> QED BY <1>2, <2>1, <3>1, <3>2 DEF Order, InTurn, CompleteInOrder
  <2> QED BY <1>3, <1>4, <2>2, <2>3
<1> QED BY <1>1, <1>6, <1>7

(* The end of a pass, with an error or without, moves no position and leaves *)
(* the superblock on disk and in memory the same.                            *)
LEMMA PassKeeps ==
  ASSUME IInv, c'.curr = c.curr, c'.next = c.next, c'.complete = c.complete,
         UNCHANGED <<ext, disk>> \/ ext' = disk',
         pc = "running", pc' \in {"flushed", "after"},
         pc' = "flushed" => ret' = "ok" /\ c.curr \notin need', ran' = ran
  PROVE  Turn' /\ Order' /\ Kept'
<1>1. Turn'
  BY DEF IInv, Turn, InTurn
<1>2. Order'
  BY DEF IInv, Order, InTurn, CompleteInOrder
<1>3. Kept'
  BY DEF IInv, Kept
<1> QED BY <1>1, <1>2, <1>3

(* The invariant is inductive.                                               *)
LEMMA Inductive == IInv /\ [Next]_vars => IInv'
<1> SUFFICES ASSUME IInv, [Next]_vars PROVE IInv'
  OBVIOUS
<1> USE RecoveryPassesAssumption
<1>0. TypeOK'
  BY TypeStep DEF IInv, Turn
<1> SUFFICES Turn' /\ Order' /\ Kept' /\ Ahead'
  BY <1>0 DEF IInv
<1>1. CASE UNCHANGED vars
  BY <1>1, Frame DEF vars, Kept, IInv
<1>2. ASSUME NEW p \in Explicit, Request(p) PROVE Turn' /\ Order' /\ Kept' /\ Ahead'
  <2>1. p \in Passes /\ c'.curr = c.curr
    BY <1>2, RequestEffect DEF Request, IInv
  <2> QED BY <1>2, <2>1, RequestStep DEF Request, Kept, IInv
<1>3. ASSUME NEW p \in Passes, RunExplicitPersistent(p), UNCHANGED <<disk, pc, ret, ran>>
      PROVE  Turn' /\ Order' /\ Kept' /\ Ahead'
  <2>1. c'.curr = c.curr
    BY <1>3, RequestEffect DEF RunExplicitPersistent, IInv
  <2>2. Kept'
    BY <1>3, <2>1 DEF RunExplicitPersistent, Late, Kept, IInv, TypeOK
  <2> QED BY <1>3, <2>2, RequestStep DEF RunExplicitPersistent
<1>4. ASSUME NEW p \in Persistent, RequestPersistent(p)
      PROVE  Turn' /\ Order' /\ Kept' /\ Ahead'
  BY <1>3, <1>4 DEF RequestPersistent
<1>5. CASE LostRequest
  <2>1. Head(lost) \in Passes
    BY <1>5 DEF LostRequest, IInv, TypeOK
  <2> QED BY <1>3, <1>5, <2>1 DEF LostRequest
<1>6. ASSUME NEW seq \in Lost, LostStart(seq) PROVE Turn' /\ Order' /\ Kept' /\ Ahead'
  BY <1>6, Frame DEF LostStart, Kept, IInv
<1>7. CASE LostEnd \/ WriteSuper
  BY <1>7, Frame DEF LostEnd, WriteSuper, Kept, IInv
<1>8. CASE LoopExit
  <2>1. /\ c'.curr = c.curr /\ c'.complete = c.complete /\ c'.exclude = c.exclude
        /\ c'.passes = c.passes /\ c'.last = c.last
    BY <1>8 DEF LoopExit, IInv, TypeOK
  <2>2. pc = "loop" /\ pc' = "returned" /\ UNCHANGED <<ext, disk, ret, owed, need, ran>>
    BY <1>8 DEF LoopExit
  <2>3. ret = "ok" /\ c.last = 0 => c.curr = NR
    BY <1>8 DEF LoopExit
  <2>4. c.curr = NR /\ ret = "ok" => owed \subseteq c.exclude
    BY <2>2 DEF Ahead, IInv, TypeOK, Passes
  <2>5. Turn' /\ Order' /\ Kept'
    BY <2>1, <2>2 DEF IInv, Turn, Order, Kept, InTurn, CompleteInOrder
  <2> QED BY <2>1, <2>2, <2>3, <2>4, <2>5 DEF IInv, Ahead, InTurn, NoAllocInfo
<1>9. CASE Loop \/ After
  BY <1>9, LoopStep, AfterStep
<1>10. CASE PassOk
  <2>1. /\ c'.curr = c.curr /\ c'.next = c.next /\ c'.complete = c.complete
        /\ c'.exclude = c.exclude /\ c'.last = c.last /\ c.passes \subseteq c'.passes
        /\ c.curr \notin need'
        /\ UNCHANGED <<ext, disk>> \/ (ext' = disk' /\ disk'.alloc_info = "yes")
    BY <1>10, PassEffect DEF PassOk, IInv, Kept
  <2>2. /\ pc = "running" /\ pc' \in {"flushed", "after"} /\ ret' = "ok" /\ ran' = ran
        /\ owed' = owed \ {c.curr}
    BY <1>10 DEF PassOk
  <2>3. Turn' /\ Order' /\ Kept'
    BY <2>1, <2>2, PassKeeps
  <2>4. Ahead'
    <3>1. \A p \in owed' \ c'.exclude : p >= c.next
      BY <2>1, <2>2 DEF IInv, Ahead, Turn, InTurn, TypeOK, Passes
    <3> QED BY <2>1, <2>2, <3>1 DEF IInv, Ahead, InTurn, NoAllocInfo
  <2> QED BY <2>3, <2>4
<1>11. CASE PassErr
  <2>1. /\ c'.curr = c.curr /\ c'.next = c.next /\ c'.complete = c.complete
        /\ c'.exclude = c.exclude /\ c'.last = c.last /\ c.passes \subseteq c'.passes
        /\ UNCHANGED <<ext, disk>> \/ (ext' = disk' /\ disk'.alloc_info = "yes")
    BY <1>11, PassEffect DEF PassErr, IInv, Kept
  <2>2. /\ pc = "running" /\ pc' = "after" /\ ret' = "error" /\ ran' = ran /\ owed' = owed
    BY <1>11 DEF PassErr, AfterErr
  <2>3. Turn' /\ Order' /\ Kept'
    BY <2>1, <2>2, PassKeeps
  <2>4. Ahead'
    BY <2>1, <2>2 DEF IInv, Ahead, InTurn, NoAllocInfo
  <2> QED BY <2>3, <2>4
<1>12. CASE PassFindsError
  <2>1. /\ c'.curr = c.curr /\ c'.next = c.next /\ c'.complete = c.complete
        /\ c'.exclude = c.exclude /\ c'.last = c.last /\ c'.passes = c.passes
    BY <1>12 DEF PassFindsError, IInv, TypeOK
  <2>2. UNCHANGED <<ext, disk, pc, ret, owed, need, ran>>
    BY <1>12 DEF PassFindsError
  <2>3. Turn' /\ Order' /\ Kept'
    BY <2>1, <2>2 DEF IInv, Turn, Order, Kept, InTurn, CompleteInOrder
  <2> QED BY <2>1, <2>2, <2>3 DEF IInv, Ahead, InTurn, NoAllocInfo
<1>13. CASE ClearRequired
  <2>1. Kept'
    BY <1>13 DEF ClearRequired, Kept, IInv, TypeOK
  <2>2. disk'.alloc_info = disk.alloc_info
    BY <1>13, <2>1 DEF ClearRequired, Kept, IInv, TypeOK
  <2> QED BY <1>13, <2>1, <2>2
          DEF ClearRequired, IInv, Turn, Order, Ahead, InTurn, CompleteInOrder, NoAllocInfo
<1>14. CASE Remount
  <2>1. /\ c'.curr = 0 /\ c'.complete = {} /\ c'.passes \in SUBSET Passes
        /\ disk'.alloc_info = disk.alloc_info
        /\ pc' = "loop" /\ ret' = "ok" /\ ext' = disk'
        /\ owed' = {p \in c'.passes : ~NoAllocInfo(p)}
    <3>1. Mount(c', disk', disk) /\ disk \in Superblocks
      BY <1>14 DEF Remount, Superblocks, IInv, TypeOK
    <3>2. c' \in FsFields /\ c'.curr = 0 /\ c'.complete = {} /\ disk'.alloc_info = disk.alloc_info
      BY <3>1, MountEffect
    <3> QED BY <1>14, <3>2 DEF Remount, FsFields
  <2>2. Turn' /\ Order' /\ Kept'
    BY <2>1 DEF Turn, Order, Kept, InTurn, CompleteInOrder
  <2>3. Ahead'
    BY <2>1 DEF Ahead, InTurn, NoAllocInfo, IInv, TypeOK, Passes
  <2> QED BY <2>2, <2>3
<1> QED
  BY <1>1, <1>2, <1>4, <1>5, <1>6, <1>7, <1>8, <1>9, <1>10, <1>11, <1>12, <1>13, <1>14
  DEF Next, RecoveryStep, LostStep

(* The first mount starts in it.                                             *)
LEMMA InitInv == Init => IInv
<1> SUFFICES ASSUME Init PROVE IInv
  OBVIOUS
<1> USE RecoveryPassesAssumption
<1>1. /\ c \in FsFields /\ c.curr = 0 /\ c.complete = {}
      /\ disk \in Superblocks /\ ext = disk
  <2>1. PICK a \in Allocs : Mount(c, disk, [required |-> {}, alloc_info |-> a])
    BY Zenon DEF Init
  <2>2. [required |-> {}, alloc_info |-> a] \in Superblocks
    BY DEF Superblocks, YesNo
  <2> QED BY <2>1, <2>2, MountEffect DEF Init
<1>2. TypeOK
  <2>1. owed \in SUBSET Passes /\ need \in SUBSET Passes
    BY <1>1 DEF Init, FsFields, Superblocks
  <2>2. lost \in Seq(Passes) /\ mounts \in 1 .. MaxMounts
    BY DEF Init
  <2> QED BY <1>1, <2>1, <2>2, Zenon DEF Init, TypeOK, FsFields, Superblocks
<1>3. Turn /\ Order /\ Kept
  BY <1>1 DEF Init, Turn, Order, Kept, InTurn, CompleteInOrder
<1>4. Ahead
  BY <1>1 DEF Init, Ahead, InTurn, FsFields, Passes
<1> QED BY <1>2, <1>3, <1>4 DEF IInv

(* A pass counts as complete only if it ran after every complete pass before *)
(* it, whatever bch2_run_explicit_recovery_pass was asked for.               *)
THEOREM InOrder == Spec => []CompleteInOrder
<1>1. IInv => CompleteInOrder
  BY DEF IInv, Order
<1> QED BY <1>1, InitInv, Inductive, PTL DEF Spec

(* When recovery succeeds, every pass that the superblock required at the    *)
(* mount, or that __bch2_run_explicit_recovery_pass agreed to run and no     *)
(* later request overwrote, has succeeded since; but for a request made      *)
(* after its pass returned and before the turn of the loop ended (Late).     *)
THEOREM Honoured == Spec => []RequestsHonoured
<1>1. IInv => RequestsHonoured
  BY DEF IInv, Ahead, RequestsHonoured, should_run_recovery_pass
<1> QED BY <1>1, InitInv, Inductive, PTL DEF Spec

(* Once recovery has reached set_may_go_rw it does not go back before it in  *)
(* this mount.                                                               *)
LEMMA NotRewoundStep ==
  ASSUME IInv, [Next]_vars, mounts' = mounts, c.curr >= set_may_go_rw
  PROVE  c'.curr >= set_may_go_rw
<1> USE RecoveryPassesAssumption DEF IInv
<1>1. c.curr \in Nat /\ c.next \in Nat /\ set_may_go_rw \in Nat /\ mounts \in Nat
  BY DEF TypeOK, Passes
<1>2. CASE UNCHANGED c
  BY <1>2
<1>3. ASSUME NEW p \in Passes, RunExplicit(p) PROVE c'.curr = c.curr
  BY <1>3, RequestEffect
<1>4. CASE (\E p \in Explicit : Request(p)) \/ (\E p \in Persistent : RequestPersistent(p))
  BY <1>3, <1>4 DEF Request, RequestPersistent, RunExplicitPersistent
<1>5. CASE LostRequest
  <2>1. Head(lost) \in Passes
    BY <1>5 DEF LostRequest, TypeOK
  <2> QED BY <1>3, <1>5, <2>1 DEF LostRequest, RunExplicitPersistent
<1>6. CASE LoopExit \/ PassFindsError
  BY <1>6 DEF LoopExit, PassFindsError, TypeOK
<1>7. CASE Loop
  <2>1. c'.curr = c.curr \/ c'.curr = c.curr + 1
    BY Zenon, <1>7 DEF Loop, TypeOK
  <2> QED BY <1>1, <2>1
<1>8. CASE PassOk \/ PassErr
  BY <1>8, PassEffect DEF PassOk, PassErr, Kept
<1>9. CASE After
  <2>1. c'.curr = c.next
    BY Zenon, <1>9 DEF After, Rewound, Advanced, TypeOK
  <2> QED BY <1>9, <2>1 DEF After, Turn, InTurn
<1>10. CASE Remount
  BY <1>1, <1>10 DEF Remount
<1>11. CASE (\E seq \in Lost : LostStart(seq)) \/ LostEnd \/ WriteSuper \/ ClearRequired
  BY <1>2, <1>11 DEF LostStart, LostEnd, WriteSuper, ClearRequired
<1> QED
  BY <1>2, <1>4, <1>5, <1>6, <1>7, <1>8, <1>9, <1>10, <1>11
  DEF Next, RecoveryStep, LostStep, vars

(* The point of no return: after set_may_go_rw no request rewinds recovery   *)
(* to a pass before it.                                                      *)
THEOREM NotRewound == Spec => RwNotRewound
<1>1. IInv /\ [Next]_vars =>
        [mounts' = mounts /\ c.curr >= set_may_go_rw => c'.curr >= set_may_go_rw]_vars
  BY NotRewoundStep
<1> QED BY <1>1, InitInv, Inductive, PTL DEF Spec, RwNotRewound

(* The superblock's requirement of a pass is dropped only by                 *)
(* bch2_clear_recovery_pass_required, for a pass that has succeeded since    *)
(* the mount or a request asked for it; but for a request made between the   *)
(* return of the pass and the clear (Late).                                  *)
THEOREM Required == Spec => RequiredKept
<1>1. IInv /\ [Next]_vars => [\A p \in disk.required \ disk'.required : p \notin need']_vars
  <2> SUFFICES ASSUME IInv, [Next]_vars, NEW p \in disk.required \ disk'.required
               PROVE  p \notin need'
    OBVIOUS
  <2> USE DEF IInv
  <2>1. CASE UNCHANGED disk
    BY <2>1
  <2>2. CASE LostEnd \/ WriteSuper
    BY <2>2 DEF LostEnd, WriteSuper, Kept
  <2>3. CASE PassOk \/ PassErr
    BY <2>3, PassEffect DEF PassOk, PassErr, Kept
  <2>4. CASE ClearRequired
    BY <2>4 DEF ClearRequired, Kept, TypeOK
  <2>5. CASE Remount
    <3>1. Mount(c', disk', disk) /\ disk \in Superblocks
      BY <2>5 DEF Remount, Superblocks, TypeOK
    <3> QED BY <3>1, MountEffect
  <2> QED
    BY <2>1, <2>2, <2>3, <2>4, <2>5
    DEF Next, RecoveryStep, LostStep, vars, Request, RequestPersistent, LostStart, LostRequest,
        LoopExit, Loop, After, PassFindsError
<1> QED BY <1>1, InitInv, Inductive, PTL DEF Spec, RequiredKept

=============================================================================
