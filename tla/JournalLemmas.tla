--------------------------- MODULE JournalLemmas ---------------------------
(***************************************************************************)
(* What the functions on struct journal preserve: each takes a good        *)
(* journal to a good journal and says which references it may drop.        *)
(***************************************************************************)
EXTENDS Journal, TLAPS, WellFoundedInduction

----------------------------------------------------------------------------
(* Least and greatest elements *)

\* A nonempty set of naturals has a least element, and it is Min.
LEMMA MinNat ==
    ASSUME NEW S \in SUBSET Nat, S # {}
    PROVE  Min(S) \in S /\ \A x \in S : Min(S) <= x
  <1>. DEFINE R == {p \in Nat \X Nat : p[1] < p[2]}
  <1>1. IsWellFoundedOn(R, Nat)
    BY NatLessThanWellFounded, Zenon DEF OpToRel
  <1>2. PICK m \in S : \A y \in S : ~(<<y, m>> \in R)
    BY <1>1, WFMin, Zenon
  <1>3. \A y \in S : m <= y
    <2>. SUFFICES ASSUME NEW y \in S PROVE ~(y < m)
      OBVIOUS
    <2>1. <<y, m>> \in Nat \X Nat
      OBVIOUS
    <2>2. y < m => <<y, m>> \in R
      BY <2>1
    <2>. QED
      BY <1>2, <2>2
  <1>. QED
    BY <1>3, Zenon DEF Min

\* A nonempty set of naturals with an upper bound has a greatest element, and it is Max.
LEMMA MaxNat ==
    ASSUME NEW K \in Nat, NEW S \in SUBSET (0 .. K), S # {}
    PROVE  Max(S) \in S /\ \A x \in S : x <= Max(S)
  <1>. DEFINE T == {d \in Nat : K - d \in S}
  <1>1. T \in SUBSET Nat /\ T # {}
    <2>1. PICK x \in S : TRUE
      BY Zenon
    <2>2. K - x \in T
      BY <2>1
    <2>. QED
      BY <2>2
  <1>2. Min(T) \in T /\ \A d \in T : Min(T) <= d
    BY <1>1, MinNat
  <1>3. \A x \in S : x <= K - Min(T)
    <2>. SUFFICES ASSUME NEW x \in S PROVE x <= K - Min(T)
      OBVIOUS
    <2>1. K - x \in T
      OBVIOUS
    <2>. QED
      BY <1>2, <2>1
  <1>4. \E m \in S : \A x \in S : m >= x
    BY <1>2, <1>3
  <1>. QED
    BY <1>4, Zenon DEF Max

----------------------------------------------------------------------------
(* struct journal *)

\* The part of the invariant that is about struct journal: references and pins
\* are on entries between the front of the fifo and the current entry, the open
\* entry is referenced, and an entry that has been closed has a last_seq.
Closed(J, s) == J.mount_seq < s /\ (s < J.seq \/ (s = J.seq /\ J.cur # "open"))

LastSeqInv(J) ==
    \A s \in Seqs :
      /\ J.last_seq[s] <= s
      /\ Closed(J, s) /\ J.stage[s] \in {"open", "started"} => 1 <= J.last_seq[s]
      /\ J.stage[s] = "started" => 1 <= J.last_seq[s]

JInv(J) ==
    /\ J.front <= J.seq + 1
    /\ J.mount_seq <= J.seq_ondisk
    /\ J.seq_ondisk <= J.seq
    /\ \A s \in J.ref : J.front <= s /\ s <= J.seq
    /\ \A n \in Nodes : J.pin[n] # 0 => J.front <= J.pin[n] /\ J.pin[n] <= J.seq
    /\ \A n \in Nodes : J.wpin[n] # 0 => J.front <= J.wpin[n] /\ J.wpin[n] <= J.seq
    /\ J.cur = "open" => J.seq \in J.ref /\ J.mount_seq < J.seq

Good(J) == J \in JournalState /\ JInv(J) /\ LastSeqInv(J)

\* the fields that say who uses which entry are the same
Frame(J, K) ==
    /\ K.seq = J.seq /\ K.mount_seq = J.mount_seq /\ K.cur = J.cur
    /\ K.ref = J.ref /\ K.holders = J.holders

\* LastSeqInv depends on no other field.
LEMMA LastSeqKept ==
    ASSUME NEW J, NEW K, LastSeqInv(J), K.seq = J.seq, K.mount_seq = J.mount_seq,
           K.cur = J.cur, K.last_seq = J.last_seq, K.stage = J.stage
    PROVE  LastSeqInv(K)
  BY DEF LastSeqInv, Closed

\* bch2_journal_reclaim_fast only moves the front, and not past an entry in use.
LEMMA ReclaimFastGood ==
    ASSUME NEW J, Good(J)
    PROVE  Good(ReclaimFast(J)) /\ Frame(J, ReclaimFast(J))
  <1>. USE JournalAssumption
  <1>. DEFINE S == {f \in J.front .. J.seq + 1 : f > J.seq_ondisk \/ Pinned(J, f)}
              m == Min(S)
  <1>0. J \in JournalState /\ JInv(J) /\ LastSeqInv(J)
    BY DEF Good
  <1>1. /\ J.front \in Nat /\ J.seq \in Nat /\ J.seq_ondisk \in Nat /\ J.seq <= SeqMax
        /\ 1 <= J.front
    BY <1>0 DEF JournalState
  <1>2. S \in SUBSET Nat /\ J.seq + 1 \in S
    BY <1>0, <1>1 DEF JInv
  <1>3. m \in S /\ \A x \in S : m <= x
    <2>. HIDE DEF S
    <2>1. S # {}
      BY <1>2
    <2>. QED
      BY <1>2, <2>1, MinNat
  <1>4. m \in J.front .. J.seq + 1
    BY <1>3
  <1>5. ReclaimFast(J) = [J EXCEPT !.front = m]
    BY DEF ReclaimFast
  <1>6. \A s \in J.ref : m <= s
    <2>1. \A s \in J.ref : s \in S
      BY <1>0, <1>1 DEF JInv, Pinned, JournalState, Seqs
    <2>. HIDE DEF S, m
    <2>. QED
      BY <1>3, <2>1
  <1>7. \A n \in Nodes : J.pin[n] # 0 => m <= J.pin[n]
    <2>1. \A n \in Nodes : J.pin[n] # 0 => J.pin[n] \in S
      BY <1>0, <1>1 DEF JInv, Pinned, JournalState
    <2>. HIDE DEF S, m
    <2>. QED
      BY <1>3, <2>1
  <1>8. \A n \in Nodes : J.wpin[n] # 0 => m <= J.wpin[n]
    <2>1. \A n \in Nodes : J.wpin[n] # 0 => J.wpin[n] \in S
      BY <1>0, <1>1 DEF JInv, Pinned, JournalState
    <2>. HIDE DEF S, m
    <2>. QED
      BY <1>3, <2>1
  <1>. HIDE DEF m
  <1>9. ReclaimFast(J) \in JournalState
    BY <1>0, <1>1, <1>4, <1>5 DEF JournalState
  <1>10. Frame(J, ReclaimFast(J))
    BY <1>0, <1>5 DEF Frame, JournalState
  <1>11. JInv(ReclaimFast(J))
    BY <1>0, <1>1, <1>4, <1>5, <1>6, <1>7, <1>8 DEF JInv, JournalState
  <1>12. LastSeqInv(ReclaimFast(J))
    <2>1. /\ ReclaimFast(J).last_seq = J.last_seq /\ ReclaimFast(J).stage = J.stage
          /\ ReclaimFast(J).seq = J.seq /\ ReclaimFast(J).mount_seq = J.mount_seq
          /\ ReclaimFast(J).cur = J.cur
      BY <1>0, <1>5 DEF JournalState
    <2>. QED
      BY <1>0, <2>1, LastSeqKept
  <1>. QED
    BY <1>9, <1>10, <1>11, <1>12 DEF Good

\* bch2_journal_do_writes only starts a write.
LEMMA DoWritesGood ==
    ASSUME NEW J, Good(J)
    PROVE  Good(DoWrites(J)) /\ Frame(J, DoWrites(J))
  <1>. USE JournalAssumption
  <1>. DEFINE todo == {s \in J.seq_ondisk + 1 .. J.seq : J.stage[s] \notin WriteAllocated}
              m == Min(todo)
  <1>0. J \in JournalState /\ JInv(J) /\ LastSeqInv(J)
    BY DEF Good
  <1>1. CASE todo # {} /\ J.stage[m] = "open" /\ ~Refs(J, m)
    <2>1. J.seq_ondisk \in Nat /\ J.seq \in 0 .. SeqMax
      BY <1>0 DEF JournalState
    <2>2. m \in todo
      <3>1. todo \in SUBSET Nat
        BY <2>1
      <3>. HIDE DEF todo
      <3>. QED
        BY <1>1, <3>1, MinNat
    <2>3. m \in Seqs
      BY <2>1, <2>2 DEF Seqs
    <2>4. DoWrites(J) = [J EXCEPT !.stage[m] = "started", !.started = m]
      BY <1>1 DEF DoWrites
    <2>. HIDE DEF m
    <2>. HIDE DEF todo
    <2>5. DoWrites(J) \in JournalState
      <3>1. [J.stage EXCEPT ![m] = "started"] \in [Seqs -> Stages]
        BY <1>0, Zenon DEF JournalState, Stages
      <3>2. m \in 0 .. SeqMax
        BY <2>3 DEF Seqs
      <3>. QED
        BY <1>0, <2>4, <3>1, <3>2, Zenon DEF JournalState
    <2>6. Frame(J, DoWrites(J)) /\ JInv(DoWrites(J))
      BY <1>0, <2>4 DEF Frame, JInv, JournalState
    <2>7. LastSeqInv(DoWrites(J))
      <3>1. /\ DoWrites(J).last_seq = J.last_seq /\ DoWrites(J).seq = J.seq
            /\ DoWrites(J).mount_seq = J.mount_seq /\ DoWrites(J).cur = J.cur
            /\ \A s \in Seqs : s # m => DoWrites(J).stage[s] = J.stage[s]
        BY <1>0, <2>3, <2>4 DEF JournalState
      <3>2. J.stage[m] = "open" /\ ~Refs(J, m)
        BY <1>1
      <3>3. J.seq_ondisk + 1 <= m /\ m <= J.seq /\ m \in Nat
        BY <2>1, <2>2 DEF todo
      <3>4. Closed(J, m)
        BY <1>0, <2>1, <3>2, <3>3 DEF Closed, Refs, JInv, JournalState
      <3>5. 1 <= J.last_seq[m]
        BY <1>0, <2>3, <3>2, <3>4 DEF LastSeqInv
      <3>. QED
        BY <1>0, <3>1, <3>5 DEF LastSeqInv, Closed
    <2>. QED
      BY <2>5, <2>6, <2>7 DEF Good
  <1>2. CASE ~(todo # {} /\ J.stage[m] = "open" /\ ~Refs(J, m))
    <2>1. DoWrites(J) = J
      BY <1>2 DEF DoWrites
    <2>. QED
      BY <1>0, <2>1 DEF Frame, Good
  <1>. QED
    BY <1>1, <1>2

\* bch2_journal_buf_put_final drops the entry's own reference.
LEMMA PutFinalGood ==
    ASSUME NEW J, Good(J), NEW s, J.cur = "open" => s # J.seq
    PROVE  /\ Good(PutFinal(J, s))
           /\ Frame([J EXCEPT !.ref = @ \ {s}], PutFinal(J, s))
  <1>. DEFINE K == [J EXCEPT !.ref = @ \ {s}]
  <1>0. J \in JournalState /\ JInv(J) /\ LastSeqInv(J)
    BY DEF Good
  <1>1. Good(K)
    <2>1. K \in JournalState /\ JInv(K)
      BY <1>0 DEF JInv, JournalState
    <2>2. LastSeqInv(K)
      BY <1>0 DEF LastSeqInv, Closed, JournalState
    <2>. QED
      BY <2>1, <2>2 DEF Good
  <1>. HIDE DEF K
  <1>2. Good(ReclaimFast(K)) /\ Frame(K, ReclaimFast(K))
    BY <1>1, ReclaimFastGood
  <1>3. Good(DoWrites(ReclaimFast(K))) /\ Frame(ReclaimFast(K), DoWrites(ReclaimFast(K)))
    BY <1>2, DoWritesGood
  <1>4. PutFinal(J, s) = DoWrites(ReclaimFast(K))
    BY DEF PutFinal, K
  <1>. QED
    BY <1>2, <1>3, <1>4 DEF Frame, K

\* what closing the current entry may do: drop the reference to it, if it was
\* open and nobody has a reservation in it
Closes(J, K) ==
    /\ Good(K)
    /\ K.seq = J.seq /\ K.mount_seq = J.mount_seq /\ K.holders = J.holders
    /\ \/ K.ref = J.ref
       \/ J.cur = "open" /\ J.holders[J.seq] = {} /\ K.ref = J.ref \ {J.seq}

\* __journal_entry_close leaves no entry open.
LEMMA EntryCloseGood ==
    ASSUME NEW J, Good(J), NEW val \in {"closed", "error"}
    PROVE  /\ Closes(J, EntryClose(J, val))
           /\ val = "error" => EntryClose(J, val).cur = "error"
           /\ EntryClose(J, val).cur # "open"
  <1>. USE JournalAssumption
  <1>. DEFINE C == [J EXCEPT !.cur = val, !.last_seq[J.seq] = J.front]
  <1>0. J \in JournalState /\ JInv(J) /\ LastSeqInv(J)
    BY DEF Good
  <1>1. CASE J.cur \in {"error", val}
    <2>1. EntryClose(J, val) = J
      BY <1>1 DEF EntryClose
    <2>. QED
      BY <1>0, <1>1, <2>1 DEF Closes, Good
  <1>2. CASE J.cur = "closed" /\ J.cur # val
    <2>1. EntryClose(J, val) = [J EXCEPT !.cur = val]
      BY <1>2 DEF EntryClose
    <2>2. Good(EntryClose(J, val))
      <3>1. EntryClose(J, val) \in JournalState /\ JInv(EntryClose(J, val))
        BY <1>0, <2>1 DEF JInv, JournalState
      <3>2. LastSeqInv(EntryClose(J, val))
        BY <1>0, <1>2, <2>1 DEF LastSeqInv, Closed, JournalState
      <3>. QED
        BY <3>1, <3>2 DEF Good
    <2>. QED
      BY <1>0, <2>1, <2>2 DEF Closes, JournalState
  <1>3. CASE J.cur = "open"
    <2>1. EntryClose(J, val) = IF J.holders[J.seq] = {} THEN PutFinal(C, J.seq) ELSE C
      BY <1>3 DEF EntryClose
    <2>2. C \in JournalState
      <3>1. J.last_seq \in [Seqs -> 0 .. SeqMax + 1] /\ J.front \in 0 .. SeqMax + 1
        BY <1>0 DEF JournalState
      <3>2. [J.last_seq EXCEPT ![J.seq] = J.front] \in [Seqs -> 0 .. SeqMax + 1]
        BY <3>1, Zenon
      <3>. QED
        BY <1>0, <3>2, Zenon DEF JournalState
    <2>3. C.cur = val /\ C.ref = J.ref /\ C.seq = J.seq /\ C.mount_seq = J.mount_seq /\ C.holders = J.holders
      BY <1>0 DEF JournalState
    <2>4. Good(C)
      <3>1. JInv(C)
        BY <1>0, <2>2 DEF JInv, JournalState
      <3>2. J.seq \in Seqs /\ J.front <= J.seq /\ 1 <= J.front
        BY <1>0, <1>3 DEF JInv, JournalState
      <3>3. /\ C.last_seq[J.seq] = J.front /\ C.stage = J.stage
            /\ \A s \in Seqs : s # J.seq => C.last_seq[s] = J.last_seq[s]
        BY <1>0, <3>2 DEF JournalState
      <3>4. LastSeqInv(C)
        BY <1>0, <2>3, <3>2, <3>3 DEF LastSeqInv, Closed
      <3>. QED
        BY <2>2, <3>1, <3>4 DEF Good
    <2>. HIDE DEF C
    <2>5. CASE J.holders[J.seq] = {}
      <3>1. Good(PutFinal(C, J.seq)) /\ Frame([C EXCEPT !.ref = @ \ {J.seq}], PutFinal(C, J.seq))
        BY <2>3, <2>4, PutFinalGood
      <3>2. [C EXCEPT !.ref = @ \ {J.seq}].ref = J.ref \ {J.seq}
        BY <2>2, <2>3 DEF JournalState
      <3>3. /\ PutFinal(C, J.seq).ref = J.ref \ {J.seq} /\ PutFinal(C, J.seq).cur = val
            /\ PutFinal(C, J.seq).seq = J.seq /\ PutFinal(C, J.seq).mount_seq = J.mount_seq
            /\ PutFinal(C, J.seq).holders = J.holders
        BY <2>2, <2>3, <3>1, <3>2 DEF Frame, JournalState
      <3>. QED
        BY <1>3, <2>1, <2>5, <3>1, <3>3 DEF Closes
    <2>6. CASE J.holders[J.seq] # {}
      BY <2>1, <2>3, <2>4, <2>6 DEF Closes
    <2>. QED
      BY <2>5, <2>6
  <1>4. J.cur \in {"open", "closed", "error"}
    BY <1>0 DEF JournalState
  <1>. QED
    BY <1>1, <1>2, <1>3, <1>4

\* bch2_journal_halt_locked closes the current entry.
LEMMA HaltGood ==
    ASSUME NEW J, Good(J)
    PROVE  Closes(J, Halt(J))
  <1>. DEFINE e == EntryClose(J, "error")
  <1>1. Closes(J, e)
    BY EntryCloseGood
  <1>2. Halt(J) = [e EXCEPT !.err_seq = IF @ = 0 THEN J.seq ELSE @]
    BY DEF Halt
  <1>3. J.seq \in 0 .. SeqMax
    BY DEF Good, JournalState
  <1>. HIDE DEF e
  <1>4. Good(Halt(J))
    <2>1. e \in JournalState /\ JInv(e) /\ LastSeqInv(e)
      BY <1>1 DEF Closes, Good
    <2>2. Halt(J) \in JournalState /\ JInv(Halt(J))
      BY <1>2, <1>3, <2>1 DEF JInv, JournalState
    <2>3. LastSeqInv(Halt(J))
      BY <1>2, <2>1 DEF LastSeqInv, Closed, JournalState
    <2>. QED
      BY <2>2, <2>3 DEF Good
  <1>. QED
    BY <1>1, <1>2, <1>4 DEF Closes, Good, JournalState

\* journal_write_done moves seq_ondisk over the entries whose writes have finished.
LEMMA CompleteGood ==
    ASSUME NEW J, Good(J), NEW s \in Seqs, NEW stage \in {"done", "failed"}, NEW err \in BOOLEAN
    PROVE  Closes(J, Complete(J, s, stage, err))
  <1>. USE JournalAssumption
  <1>. DEFINE a  == IF err THEN Halt(J) ELSE J
              b  == [a EXCEPT !.stage[s] = stage,
                              !.err_seq = IF err /\ s < @ THEN s ELSE @]
              E  == {i \in b.seq_ondisk .. b.seq :
                       \A k \in b.seq_ondisk + 1 .. i : b.stage[k] \in WriteDone}
              e  == Max(E)
              fl == {i \in b.seq_ondisk + 1 .. e : b.last_seq[i] # 0}
              c  == IF b.err_seq = 0 /\ fl # {}
                    THEN [b EXCEPT !.flushed_seq_ondisk = Max(fl),
                                   !.last_seq_ondisk = b.last_seq[Max(fl)]]
                    ELSE b
              d  == [c EXCEPT !.seq_ondisk = e]
              f  == IF e > b.seq_ondisk THEN ReclaimFast(d) ELSE d
  <1>0. Complete(J, s, stage, err) = DoWrites(f)
    BY DEF Complete
  <1>1. Closes(J, a)
    <2>1. Closes(J, J)
      BY DEF Closes
    <2>. QED
      BY <2>1, HaltGood
  <1>. HIDE DEF a
  <1>2. Good(b) /\ Frame(a, b)
    <2>1. a \in JournalState /\ JInv(a) /\ LastSeqInv(a)
      BY <1>1 DEF Closes, Good
    <2>2. [a.stage EXCEPT ![s] = stage] \in [Seqs -> Stages]
      BY <2>1 DEF JournalState, Stages
    <2>3. (IF err /\ s < a.err_seq THEN s ELSE a.err_seq) \in 0 .. SeqMax
      BY <2>1 DEF JournalState, Seqs
    <2>4. b \in JournalState
      BY <2>1, <2>2, <2>3, Zenon DEF JournalState
    <2>5. LastSeqInv(b)
      BY <2>1 DEF LastSeqInv, Closed, JournalState
    <2>6. JInv(b) /\ Frame(a, b)
      BY <2>1, <2>4 DEF JInv, Frame, JournalState
    <2>. QED
      BY <2>4, <2>5, <2>6 DEF Good
  <1>. HIDE DEF b
  <1>3. e \in b.seq_ondisk .. b.seq
    <2>1. b.seq_ondisk \in Nat /\ b.seq \in Nat /\ b.seq_ondisk <= b.seq
      BY <1>2 DEF Good, JInv, JournalState
    <2>2. E \in SUBSET (0 .. b.seq) /\ b.seq_ondisk \in E
      BY <2>1
    <2>3. e \in E
      BY <2>1, <2>2, MaxNat, Zenon
    <2>. QED
      BY <2>3
  <1>. HIDE DEF e
  <1>4. Good(c) /\ Frame(b, c) /\ c.seq_ondisk = b.seq_ondisk
    <2>0. b \in JournalState /\ JInv(b) /\ LastSeqInv(b)
      BY <1>2 DEF Good
    <2>1. CASE b.err_seq = 0 /\ fl # {}
      <3>0. b.seq_ondisk \in Nat /\ e \in Int /\ e <= SeqMax
        BY <1>3, <2>0 DEF JournalState
      <3>1. fl \in SUBSET (0 .. SeqMax) /\ fl \subseteq Seqs
        BY <3>0 DEF Seqs
      <3>2. Max(fl) \in fl
        BY <2>1, <3>1, MaxNat, Zenon
      <3>. DEFINE m == Max(fl)
      <3>3. m \in Seqs
        BY <3>1, <3>2
      <3>4. c = [b EXCEPT !.flushed_seq_ondisk = m, !.last_seq_ondisk = b.last_seq[m]]
        BY <2>1
      <3>. HIDE DEF m, fl, c
      <3>5. b.last_seq[m] \in 0 .. SeqMax + 1 /\ m \in 0 .. SeqMax
        BY <2>0, <3>3 DEF JournalState, Seqs
      <3>6. c \in JournalState
        BY <2>0, <3>4, <3>5, Zenon DEF JournalState
      <3>7. LastSeqInv(c)
        BY <2>0, <3>4 DEF LastSeqInv, Closed, JournalState
      <3>8. JInv(c) /\ Frame(b, c) /\ c.seq_ondisk = b.seq_ondisk
        BY <2>0, <3>4 DEF JInv, Frame, JournalState
      <3>. QED
        BY <3>6, <3>7, <3>8 DEF Good
    <2>2. CASE ~(b.err_seq = 0 /\ fl # {})
      BY <1>2, <2>2 DEF Frame
    <2>. QED
      BY <2>1, <2>2
  <1>. HIDE DEF c
  <1>5. Good(d) /\ Frame(c, d)
    <2>1. c \in JournalState /\ JInv(c) /\ LastSeqInv(c)
      BY <1>4 DEF Good
    <2>2. e \in 0 .. SeqMax /\ e <= c.seq /\ c.seq_ondisk <= e
      BY <1>2, <1>3, <1>4 DEF Good, Frame, JournalState
    <2>3. d \in JournalState
      BY <2>1, <2>2 DEF JournalState
    <2>4. LastSeqInv(d)
      BY <2>1 DEF LastSeqInv, Closed, JournalState
    <2>5. JInv(d) /\ Frame(c, d)
      BY <2>1, <2>2 DEF JInv, Frame, JournalState
    <2>. QED
      BY <2>3, <2>4, <2>5 DEF Good
  <1>. HIDE DEF d
  <1>6. Good(f) /\ Frame(d, f)
    <2>1. Frame(d, d)
      BY DEF Frame
    <2>. QED
      BY <1>5, <2>1, ReclaimFastGood
  <1>. HIDE DEF f
  <1>7. Good(DoWrites(f)) /\ Frame(f, DoWrites(f))
    BY <1>6, DoWritesGood
  <1>. QED
    BY <1>0, <1>1, <1>2, <1>4, <1>5, <1>6, <1>7 DEF Closes, Frame

\* bch2_journal_res_put drops a reservation, and the entry's reference when it
\* was the last one.
LEMMA BufPutGood ==
    ASSUME NEW J, Good(J), NEW h \in Holders, NEW s \in Seqs
    PROVE  LET K == BufPut(J, h, s)
           IN  /\ Good(K)
               /\ K.seq = J.seq /\ K.mount_seq = J.mount_seq
               /\ K.holders = [J.holders EXCEPT ![s] = @ \ {h}]
               /\ \/ K.ref = J.ref
                  \/ K.ref = J.ref \ {s} /\ K.holders[s] = {}
  <1>. USE JournalAssumption
  <1>. DEFINE p == [J EXCEPT !.holders[s] = @ \ {h}]
  <1>0. J \in JournalState /\ JInv(J) /\ LastSeqInv(J)
    BY DEF Good
  <1>1. [J.holders EXCEPT ![s] = @ \ {h}] \in [Seqs -> SUBSET Holders]
    BY <1>0 DEF JournalState
  <1>2. p \in JournalState
    BY <1>0, <1>1 DEF JournalState
  <1>3. /\ p.seq = J.seq /\ p.mount_seq = J.mount_seq /\ p.cur = J.cur /\ p.ref = J.ref
        /\ p.holders = [J.holders EXCEPT ![s] = @ \ {h}]
    BY <1>0 DEF JournalState
  <1>4. Good(p)
    <2>1. JInv(p) /\ LastSeqInv(p)
      BY <1>0 DEF JInv, LastSeqInv, Closed, JournalState
    <2>. QED
      BY <1>2, <2>1 DEF Good
  <1>5. BufPut(J, h, s) = IF Refs(p, s) THEN p ELSE PutFinal(p, s)
    BY DEF BufPut
  <1>. HIDE DEF p
  <1>6. CASE Refs(p, s)
    BY <1>3, <1>4, <1>5, <1>6
  <1>7. CASE ~Refs(p, s)
    <2>1. p.holders[s] = {} /\ (p.cur = "open" => s # p.seq)
      BY <1>7 DEF Refs
    <2>2. Good(PutFinal(p, s)) /\ Frame([p EXCEPT !.ref = @ \ {s}], PutFinal(p, s))
      BY <1>4, <2>1, PutFinalGood
    <2>3. /\ PutFinal(p, s).ref = p.ref \ {s} /\ PutFinal(p, s).seq = p.seq
          /\ PutFinal(p, s).mount_seq = p.mount_seq /\ PutFinal(p, s).holders = p.holders
      BY <1>2, <2>2 DEF Frame, JournalState
    <2>. QED
      BY <1>3, <1>5, <1>7, <2>1, <2>2, <2>3, Zenon
  <1>. QED
    BY <1>6, <1>7

\* bch2_journal_pin_drop
LEMMA PinDropGood ==
    ASSUME NEW J, Good(J), NEW n \in Nodes
    PROVE  Good(PinDrop(J, n)) /\ Frame(J, PinDrop(J, n))
  <1>. DEFINE K == [J EXCEPT !.wpin[n] = 0]
  <1>0. J \in JournalState /\ JInv(J) /\ LastSeqInv(J)
    BY DEF Good
  <1>1. [J.wpin EXCEPT ![n] = 0] \in [Nodes -> 0 .. SeqMax]
    BY <1>0, JournalAssumption DEF JournalState
  <1>2. K \in JournalState
    BY <1>0, <1>1 DEF JournalState
  <1>3. Good(K) /\ Frame(J, K)
    <2>1. JInv(K) /\ Frame(J, K)
      BY <1>0 DEF JInv, Frame, JournalState
    <2>2. LastSeqInv(K)
      BY <1>0 DEF LastSeqInv, Closed, JournalState
    <2>. QED
      BY <1>2, <2>1, <2>2 DEF Good
  <1>. HIDE DEF K
  <1>4. Good(ReclaimFast(K)) /\ Frame(K, ReclaimFast(K))
    BY <1>3, ReclaimFastGood
  <1>5. PinDrop(J, n) = ReclaimFast(K)
    BY DEF PinDrop, K
  <1>. QED
    BY <1>3, <1>4, <1>5 DEF Frame

\* bch2_journal_pin_add, on an entry that is referenced
LEMMA PinAddGood ==
    ASSUME NEW J, Good(J), NEW n \in Nodes, NEW s \in J.ref
    PROVE  Good(PinAdd(J, n, s)) /\ Frame(J, PinAdd(J, n, s))
  <1>. DEFINE K == [J EXCEPT !.pin[n] = s]
  <1>0. J \in JournalState /\ JInv(J) /\ LastSeqInv(J)
    BY DEF Good
  <1>1. s \in Seqs /\ J.front <= s /\ s <= J.seq
    BY <1>0 DEF JournalState, JInv
  <1>2. [J.pin EXCEPT ![n] = s] \in [Nodes -> 0 .. SeqMax]
    BY <1>0, <1>1 DEF JournalState, Seqs
  <1>3. K \in JournalState
    BY <1>0, <1>2 DEF JournalState
  <1>4. JInv(K) /\ Frame(J, K)
    BY <1>0, <1>1, <1>3 DEF JInv, Frame, JournalState
  <1>5. LastSeqInv(K)
    BY <1>0 DEF LastSeqInv, Closed, JournalState
  <1>6. Frame(J, J)
    BY DEF Frame
  <1>. HIDE DEF K
  <1>7. PinAdd(J, n, s) \in {J, K}
    BY DEF PinAdd, K
  <1>. QED
    BY <1>3, <1>4, <1>5, <1>6, <1>7 DEF Good

\* journal_entry_open
LEMMA EntryOpenGood ==
    ASSUME NEW J, Good(J), J.seq < SeqMax, J.cur # "open"
    PROVE  LET K == EntryOpen(J)
           IN  /\ Good(K)
               /\ K.cur = "open" /\ K.seq = J.seq + 1 /\ K.mount_seq = J.mount_seq
               /\ K.ref = J.ref \cup {J.seq + 1} /\ K.holders = J.holders
  <1>. USE JournalAssumption
  <1>. DEFINE s == J.seq + 1
  <1>0. J \in JournalState /\ JInv(J) /\ LastSeqInv(J)
    BY DEF Good
  <1>1. s \in Seqs /\ s \in 0 .. SeqMax
    BY <1>0 DEF JournalState, Seqs
  <1>2. EntryOpen(J) = [J EXCEPT !.seq = s, !.cur = "open", !.ref = @ \cup {s}, !.stage[s] = "open"]
    BY DEF EntryOpen
  <1>3. [J.stage EXCEPT ![s] = "open"] \in [Seqs -> Stages] /\ J.ref \cup {s} \in SUBSET Seqs
    BY <1>0, <1>1 DEF JournalState, Stages
  <1>4. EntryOpen(J) \in JournalState
    BY <1>0, <1>1, <1>2, <1>3, Zenon DEF JournalState
  <1>5. /\ EntryOpen(J).cur = "open" /\ EntryOpen(J).seq = s
        /\ EntryOpen(J).mount_seq = J.mount_seq /\ EntryOpen(J).front = J.front
        /\ EntryOpen(J).seq_ondisk = J.seq_ondisk /\ EntryOpen(J).pin = J.pin
        /\ EntryOpen(J).wpin = J.wpin /\ EntryOpen(J).last_seq = J.last_seq
        /\ \A i \in Seqs : i # s => EntryOpen(J).stage[i] = J.stage[i]
        /\ EntryOpen(J).stage[s] = "open"
        /\ EntryOpen(J).ref = J.ref \cup {s} /\ EntryOpen(J).holders = J.holders
    BY <1>0, <1>1, <1>2 DEF JournalState
  <1>6. /\ J.seq \in Nat /\ J.front \in Nat /\ J.seq_ondisk \in Nat /\ J.mount_seq \in Nat
        /\ J.pin \in [Nodes -> 0 .. SeqMax] /\ J.wpin \in [Nodes -> 0 .. SeqMax]
        /\ J.ref \subseteq Nat
    BY <1>0 DEF JournalState, Seqs
  <1>7. JInv(EntryOpen(J))
    BY <1>0, <1>5, <1>6 DEF JInv
  <1>8. LastSeqInv(EntryOpen(J))
    BY <1>0, <1>5, <1>6 DEF LastSeqInv, Closed, Seqs
  <1>. QED
    BY <1>4, <1>5, <1>7, <1>8 DEF Good

\* taking a reservation in the open entry
LEMMA BufGetGood ==
    ASSUME NEW J, Good(J), NEW h \in Holders, J.cur = "open"
    PROVE  LET K == BufGet(J, h)
           IN  /\ Good(K)
               /\ K.seq = J.seq /\ K.mount_seq = J.mount_seq /\ K.ref = J.ref
               /\ K.holders = [J.holders EXCEPT ![J.seq] = @ \cup {h}]
  <1>0. J \in JournalState /\ JInv(J) /\ LastSeqInv(J)
    BY DEF Good
  <1>1. J.seq \in Seqs
    BY <1>0 DEF JInv, JournalState
  <1>2. [J.holders EXCEPT ![J.seq] = @ \cup {h}] \in [Seqs -> SUBSET Holders]
    BY <1>0, <1>1 DEF JournalState
  <1>3. BufGet(J, h) \in JournalState
    BY <1>0, <1>2 DEF JournalState, BufGet
  <1>4. JInv(BufGet(J, h)) /\ LastSeqInv(BufGet(J, h))
    BY <1>0 DEF JInv, LastSeqInv, Closed, JournalState, BufGet
  <1>. QED
    BY <1>0, <1>3, <1>4, Zenon DEF Good, JournalState, BufGet

\* bch2_fs_journal_start: replay references every entry from last_seq on.
LEMMA JournalStartGood ==
    ASSUME NEW l \in Nat, NEW d \in Nat, 1 <= l, l < d, d <= SeqMax
    PROVE  LET K == JournalStart(l, d)
           IN  Good(K) /\ K.ref = l .. d - 1 /\ K.mount_seq = d - 1
  <1>. USE JournalAssumption
  <1>. DEFINE K == JournalStart(l, d)
  <1>1. /\ [s \in Seqs |-> IF s < d THEN "done" ELSE "free"] \in [Seqs -> Stages]
        /\ [n \in Nodes |-> 0] \in [Nodes -> 0 .. SeqMax]
        /\ [s \in Seqs |-> {}] \in [Seqs -> SUBSET Holders]
        /\ [s \in Seqs |-> 0] \in [Seqs -> 0 .. SeqMax + 1]
    BY DEF Stages
  <1>2. /\ l \in 1 .. SeqMax + 1 /\ l \in 0 .. SeqMax + 1 /\ d - 1 \in 0 .. SeqMax
        /\ l .. d - 1 \in SUBSET Seqs
    BY DEF Seqs
  <1>3. K \in JournalState
    BY <1>1, <1>2 DEF JournalStart, JournalState
  <1>4. JInv(K)
    BY DEF JInv, JournalStart
  <1>5. LastSeqInv(K)
    BY DEF LastSeqInv, Closed, JournalStart, Seqs
  <1>. QED
    BY <1>3, <1>4, <1>5 DEF Good, JournalStart

=============================================================================
