--------------------------- MODULE JournalProofs ---------------------------
(***************************************************************************)
(* Proofs about Journal, for any number of threads, btree nodes, entries   *)
(* and crashes: every pin, every reservation and every key that replay has *)
(* still to insert is in an entry that is still in the pin fifo.           *)
(***************************************************************************)
EXTENDS JournalLemmas

----------------------------------------------------------------------------
(* The inductive invariant *)

\* A reservation is in an entry that is referenced and counts it as a holder;
\* what journal replay has still to insert is in an entry replay references.
UsersInv ==
    /\ \A h \in Holders : res[h] # 0 =>
         res[h] \in j.ref /\ j.mount_seq < res[h] /\ h \in j.holders[res[h]]
    /\ \A n \in Nodes : \A s \in replay[n] : s \in j.ref /\ s <= j.mount_seq

\* An entry's last_seq is not newer than the entry, and a flush entry has one.
JsetInv ==
    \A s \in Seqs : jset[s].last_seq <= s /\ (IsFlush(s) => 1 <= jset[s].last_seq)

\* A thread that has used its reservation still has it.
DidInv == did \subseteq Threads /\ \A t \in did : res[t] # 0

IInv == TypeOK /\ Good(j) /\ UsersInv /\ DidInv /\ JsetInv

\* A step that leaves the reservations alone and at most closes the current
\* entry leaves every reservation in a referenced entry.
LEMMA UsersKept ==
    ASSUME IInv, Closes(j, j'), UNCHANGED <<res, replay>>
    PROVE  UsersInv'
  <1>1. j \in JournalState /\ JInv(j) /\ UsersInv
    BY DEF IInv, Good
  <1>2. CASE j'.ref = j.ref
    BY <1>1, <1>2 DEF Closes, UsersInv
  <1>3. CASE j.cur = "open" /\ j.holders[j.seq] = {} /\ j'.ref = j.ref \ {j.seq}
    <2>1. j.mount_seq < j.seq /\ j.mount_seq \in Nat /\ j.seq \in Nat
      BY <1>1, <1>3 DEF JInv, JournalState
    <2>2. \A h \in Holders : res[h] # 0 => res[h] # j.seq
      BY <1>1, <1>3 DEF UsersInv
    <2>3. \A n \in Nodes : \A s \in replay[n] : s # j.seq
      BY <1>1, <2>1 DEF UsersInv
    <2>. QED
      BY <1>1, <1>3, <2>2, <2>3 DEF Closes, UsersInv
  <1>. QED
    BY <1>2, <1>3 DEF Closes

\* Leaving the users of every entry alone is a case of it.
LEMMA FrameCloses ==
    ASSUME NEW J, NEW K, Good(K), Frame(J, K)
    PROVE  Closes(J, K)
  BY DEF Closes, Frame

\* The initial state satisfies the invariant.
LEMMA InitIInv == Init => IInv
  <1>. SUFFICES ASSUME Init PROVE IInv
    OBVIOUS
  <1>. USE JournalAssumption
  <1>1. 1 \in Seqs /\ 1 \in 0 .. SeqMax /\ 2 \in 1 .. SeqMax + 1 /\ 1 \in 0 .. SeqMax + 1
    BY DEF Seqs
  <1>2. j \in JournalState
    <2>1. [s \in Seqs |-> IF s = 1 THEN "done" ELSE "free"] \in [Seqs -> Stages]
      BY DEF Stages
    <2>2. [n \in Nodes |-> 0] \in [Nodes -> 0 .. SeqMax]
      OBVIOUS
    <2>3. [s \in Seqs |-> {}] \in [Seqs -> SUBSET Holders]
      OBVIOUS
    <2>4. [s \in Seqs |-> 0] \in [Seqs -> 0 .. SeqMax + 1]
      OBVIOUS
    <2>. QED
      BY <1>1, <2>1, <2>2, <2>3, <2>4 DEF Init, JournalState
  <1>3. JInv(j) /\ LastSeqInv(j)
    BY DEF Init, JInv, LastSeqInv, Closed, Seqs
  <1>4. jset \in [Seqs -> Jset] /\ JsetInv
    <2>1. EmptyJset \in Jset /\ EmptyJset.last_seq = 0 /\ EmptyJset.flush = "noflush"
      BY DEF EmptyJset, Jset
    <2>. DEFINE F == [EmptyJset EXCEPT !.roots = [n \in Nodes |-> 1], !.last_seq = 1, !.flush = "flush"]
    <2>2. F \in Jset /\ F.last_seq = 1
      <3>1. [n \in Nodes |-> 1] \in [Nodes -> 0 .. MaxBsets]
        OBVIOUS
      <3>. QED
        BY <1>1, <2>1, <3>1, Zenon DEF Jset
    <2>3. jset = [s \in Seqs |-> IF s = 1 THEN F ELSE EmptyJset]
      BY DEF Init
    <2>. HIDE DEF F
    <2>. QED
      BY <2>1, <2>2, <2>3 DEF JsetInv, IsFlush, Seqs
  <1>5. bsets \in [Nodes -> Seq(SUBSET Seqs)] /\ \A n \in Nodes : Len(bsets[n]) <= MaxBsets
    BY DEF Init
  <1>6. TypeOK
    BY <1>1, <1>2, <1>4, <1>5 DEF Init, TypeOK
  <1>7. UsersInv /\ DidInv
    BY DEF Init, UsersInv, DidInv
  <1>. QED
    BY <1>2, <1>3, <1>4, <1>6, <1>7 DEF IInv, Good

\* bch2_journal_res_get
LEMMA ResGetStep ==
    ASSUME IInv, NEW h \in Holders, ResGet(h)
    PROVE  IInv'
  <1>. USE JournalAssumption
  <1>0. TypeOK /\ Good(j) /\ UsersInv /\ DidInv /\ JsetInv
    BY DEF IInv
  <1>1. /\ res[h] = 0 /\ res' = [res EXCEPT ![h] = j'.seq]
        /\ UNCHANGED <<media, did, roots, hist, nodevars, recvars>>
    BY DEF ResGet
  <1>. DEFINE K == IF j.cur = "open" THEN j ELSE EntryOpen(j)
  <1>2. /\ Good(K) /\ K.cur = "open" /\ K.mount_seq = j.mount_seq
        /\ j.ref \subseteq K.ref /\ K.holders = j.holders
        /\ jset' \in [Seqs -> Jset] /\ JsetInv' /\ j' = BufGet(K, h)
    <2>1. CASE j.cur = "open" /\ j' = BufGet(j, h) /\ UNCHANGED jset
      BY <1>0, <2>1 DEF TypeOK, JsetInv, IsFlush
    <2>2. CASE /\ j.cur = "closed" /\ CanOpen(j) /\ j' = BufGet(EntryOpen(j), h)
               /\ jset' = [jset EXCEPT ![j.seq + 1] = EmptyJset]
      <3>1. j.seq < SeqMax /\ j.cur # "open"
        BY <2>2 DEF CanOpen
      <3>2. /\ Good(EntryOpen(j)) /\ EntryOpen(j).cur = "open"
            /\ EntryOpen(j).mount_seq = j.mount_seq /\ EntryOpen(j).holders = j.holders
            /\ EntryOpen(j).ref = j.ref \cup {j.seq + 1}
        BY <1>0, <3>1, EntryOpenGood
      <3>3. EmptyJset \in Jset /\ EmptyJset.last_seq = 0 /\ EmptyJset.flush = "noflush"
        BY DEF EmptyJset, Jset
      <3>4. jset' \in [Seqs -> Jset]
        BY <1>0, <2>2, <3>3, Zenon DEF TypeOK
      <3>5. JsetInv'
        BY <1>0, <2>2, <3>3 DEF TypeOK, JsetInv, IsFlush, Seqs
      <3>. QED
        BY <2>2, <3>2, <3>4, <3>5
    <2>. QED
      BY <2>1, <2>2 DEF ResGet
  <1>. HIDE DEF K
  <1>3. /\ Good(j') /\ j'.seq = K.seq /\ j'.mount_seq = K.mount_seq /\ j'.ref = K.ref
        /\ j'.holders = [K.holders EXCEPT ![K.seq] = @ \cup {h}]
    BY <1>2, BufGetGood
  <1>4. K.seq \in K.ref /\ K.mount_seq < K.seq /\ K.seq \in Seqs /\ K.seq \in 0 .. SeqMax
    BY <1>2 DEF Good, JInv, JournalState
  <1>5. TypeOK'
    BY <1>0, <1>1, <1>2, <1>3, <1>4 DEF TypeOK, Good, nodevars, recvars
  <1>6. UsersInv'
    <2>1. K.holders \in [Seqs -> SUBSET Holders]
      BY <1>2 DEF Good, JournalState
    <2>2. h \in j'.holders[K.seq] /\ \A s \in Seqs : K.holders[s] \subseteq j'.holders[s]
      BY <1>3, <1>4, <2>1
    <2>3. \A g \in Holders : g # h => res'[g] = res[g]
      BY <1>0, <1>1 DEF TypeOK
    <2>4. res'[h] = K.seq
      BY <1>0, <1>1, <1>3 DEF TypeOK
    <2>5. j.ref \subseteq Seqs /\ replay' = replay
      BY <1>0, <1>1 DEF Good, JournalState, recvars
    <2>6. ASSUME NEW g \in Holders, res'[g] # 0
          PROVE  res'[g] \in j'.ref /\ j'.mount_seq < res'[g] /\ g \in j'.holders[res'[g]]
      <3>1. CASE g = h
        BY <1>3, <1>4, <2>2, <2>4, <3>1
      <3>2. CASE g # h
        <4>1. res[g] \in j.ref /\ j.mount_seq < res[g] /\ g \in j.holders[res[g]] /\ res'[g] = res[g]
          BY <1>0, <2>3, <2>6, <3>2 DEF UsersInv
        <4>. QED
          BY <1>2, <1>3, <2>2, <2>5, <4>1
      <3>. QED
        BY <3>1, <3>2
    <2>7. \A n \in Nodes : \A s \in replay'[n] : s \in j'.ref /\ s <= j'.mount_seq
      BY <1>0, <1>2, <1>3, <2>5 DEF UsersInv
    <2>. QED
      BY <2>6, <2>7 DEF UsersInv
  <1>7. DidInv'
    BY <1>0, <1>1, <1>3, <1>4 DEF DidInv, TypeOK, Holders, Seqs
  <1>. QED
    BY <1>2, <1>3, <1>5, <1>6, <1>7 DEF IInv

\* Dropping a reservation and moving at most its own entry's reference.
LEMMA PutUsers ==
    ASSUME IInv, NEW J, Good(J), Frame(j, J), NEW h \in Holders, res[h] # 0,
           j' = BufPut(J, h, res[h]), res' = [res EXCEPT ![h] = 0], UNCHANGED replay
    PROVE  Good(j') /\ UsersInv' /\ res' \in [Holders -> 0 .. SeqMax]
  <1>. USE JournalAssumption
  <1>. DEFINE s == res[h]
  <1>0. TypeOK /\ UsersInv /\ j \in JournalState
    BY DEF IInv, TypeOK
  <1>1. s \in Seqs /\ s \in j.ref /\ j.mount_seq < s
    BY <1>0 DEF TypeOK, UsersInv, Seqs
  <1>2. /\ Good(j') /\ j'.mount_seq = J.mount_seq
        /\ j'.holders = [J.holders EXCEPT ![s] = @ \ {h}]
        /\ j'.ref = J.ref \/ (j'.ref = J.ref \ {s} /\ j'.holders[s] = {})
    <2>. DEFINE K == BufPut(J, h, s)
    <2>1. j' = K
      OBVIOUS
    <2>2. /\ Good(K) /\ K.mount_seq = J.mount_seq
          /\ K.holders = [J.holders EXCEPT ![s] = @ \ {h}]
          /\ K.ref = J.ref \/ (K.ref = J.ref \ {s} /\ K.holders[s] = {})
      <3>. HIDE DEF s
      <3>. QED
        BY <1>1, BufPutGood
    <2>. HIDE DEF K
    <2>. QED
      BY <2>1, <2>2
  <1>3. J.ref = j.ref /\ J.mount_seq = j.mount_seq /\ J.holders = j.holders
    BY DEF Frame
  <1>4. res' \in [Holders -> 0 .. SeqMax]
    BY <1>0 DEF TypeOK
  <1>5. j.holders \in [Seqs -> SUBSET Holders] /\ j.ref \subseteq Seqs /\ j.mount_seq \in Nat
    BY <1>0 DEF JournalState
  <1>. HIDE DEF s
  <1>6. ASSUME NEW g \in Holders, res'[g] # 0
        PROVE  res'[g] \in j'.ref /\ j'.mount_seq < res'[g] /\ g \in j'.holders[res'[g]]
    <2>1. g # h /\ res'[g] = res[g]
      BY <1>0, <1>6 DEF TypeOK
    <2>2. res[g] \in j.ref /\ j.mount_seq < res[g] /\ g \in j.holders[res[g]] /\ res[g] \in Seqs
      BY <1>0, <1>5, <1>6, <2>1 DEF UsersInv
    <2>3. g \in j'.holders[res[g]]
      BY <1>2, <1>3, <1>5, <2>1, <2>2
    <2>4. res[g] \in j'.ref
      BY <1>2, <1>3, <2>2, <2>3
    <2>. QED
      BY <1>2, <1>3, <2>1, <2>2, <2>3, <2>4
  <1>7. \A n \in Nodes : \A i \in replay'[n] : i \in j'.ref /\ i <= j'.mount_seq
    <2>. SUFFICES ASSUME NEW n \in Nodes, NEW i \in replay[n]
                  PROVE  i \in j'.ref /\ i <= j'.mount_seq
      OBVIOUS
    <2>1. i \in j.ref /\ i <= j.mount_seq
      BY <1>0 DEF UsersInv
    <2>2. i \in Nat /\ s \in Nat
      BY <1>1, <1>5, <2>1 DEF Seqs
    <2>3. i # s
      BY <1>1, <1>5, <2>1, <2>2
    <2>. QED
      BY <1>2, <1>3, <2>1, <2>3
  <1>. QED
    BY <1>2, <1>4, <1>6, <1>7 DEF UsersInv

\* the insert of bch2_trans_commit
LEMMA InsertStep ==
    ASSUME IInv, NEW t \in Threads, NEW n \in Nodes, Insert(t, n)
    PROVE  IInv'
  <1>. USE JournalAssumption
  <1>0. TypeOK /\ Good(j) /\ UsersInv /\ DidInv /\ JsetInv /\ t \in Holders
    BY DEF IInv, Holders
  <1>1. /\ res[t] # 0 /\ NodeInsert(n, res[t]) /\ j' = PinAdd(j, n, res[t])
        /\ jset' = [jset EXCEPT ![res[t]].upds = @ \cup {n}] /\ did' = did \cup {t}
        /\ UNCHANGED <<media, res, wr, bsets, flushed, roots, recvars>>
    BY DEF Insert
  <1>2. res[t] \in Seqs /\ res[t] \in j.ref
    BY <1>0, <1>1 DEF TypeOK, UsersInv, Seqs
  <1>3. Good(j') /\ Frame(j, j')
    BY <1>0, <1>1, <1>2, PinAddGood
  <1>4. UsersInv'
    BY <1>1, <1>3, FrameCloses, UsersKept DEF recvars
  <1>5. jset' \in [Seqs -> Jset] /\ JsetInv'
    <2>0. jset[res[t]] \in Jset
      BY <1>0, <1>2 DEF TypeOK
    <2>. DEFINE f == [jset[res[t]] EXCEPT !.upds = @ \cup {n}]
    <2>1. f \in Jset /\ f.last_seq = jset[res[t]].last_seq /\ f.flush = jset[res[t]].flush
      BY <2>0 DEF Jset
    <2>2. jset' = [jset EXCEPT ![res[t]] = f] /\ jset \in [Seqs -> Jset]
      BY <1>0, <1>1 DEF TypeOK
    <2>. HIDE DEF f
    <2>3. jset' \in [Seqs -> Jset]
      BY <2>1, <2>2, Zenon
    <2>4. \A s \in Seqs : jset'[s].last_seq = jset[s].last_seq /\ jset'[s].flush = jset[s].flush
      BY <1>2, <2>1, <2>2
    <2>. QED
      BY <1>0, <2>3, <2>4 DEF JsetInv, IsFlush
  <1>6. TypeOK'
    BY <1>0, <1>1, <1>2, <1>3, <1>5 DEF TypeOK, Good, NodeInsert, recvars
  <1>7. DidInv'
    BY <1>0, <1>1 DEF DidInv
  <1>. QED
    BY <1>3, <1>4, <1>5, <1>6, <1>7 DEF IInv

\* bch2_journal_res_put
LEMMA ResPutStep ==
    ASSUME IInv, NEW t \in Threads, ResPut(t)
    PROVE  IInv'
  <1>0. TypeOK /\ Good(j) /\ UsersInv /\ DidInv /\ JsetInv /\ t \in Holders
    BY DEF IInv, Holders
  <1>1. /\ res[t] # 0 /\ j' = BufPut(j, t, res[t]) /\ res' = [res EXCEPT ![t] = 0]
        /\ did' = did \ {t} /\ UNCHANGED <<jset, media, roots, hist, nodevars, recvars>>
    BY <1>0 DEF ResPut, DidInv
  <1>2. Frame(j, j)
    BY DEF Frame
  <1>3. Good(j') /\ UsersInv' /\ res' \in [Holders -> 0 .. SeqMax]
    BY <1>0, <1>1, <1>2, PutUsers, Zenon DEF recvars
  <1>4. TypeOK'
    BY <1>0, <1>1, <1>3 DEF TypeOK, Good, nodevars, recvars
  <1>5. JsetInv'
    BY <1>0, <1>1 DEF JsetInv, IsFlush
  <1>6. DidInv'
    BY <1>0, <1>1 DEF DidInv, TypeOK, Holders
  <1>. QED
    BY <1>3, <1>4, <1>5, <1>6 DEF IInv

\* What changes nothing but the journal and at most closes its current entry
\* preserves the invariant.
LEMMA JournalStep ==
    ASSUME IInv, Closes(j, j'), media' \in [Seqs -> {"none", "inflight", "torn", "cache", "durable"}],
           UNCHANGED <<jset, res, did, roots, hist, nodevars, recvars>>
    PROVE  IInv'
  <1>1. UsersInv'
    BY UsersKept DEF recvars
  <1>2. TypeOK' /\ Good(j')
    BY DEF IInv, TypeOK, Closes, Good, nodevars, recvars
  <1>3. JsetInv' /\ DidInv'
    BY DEF IInv, JsetInv, IsFlush, DidInv
  <1>. QED
    BY <1>1, <1>2, <1>3 DEF IInv

\* bch2_journal_write
LEMMA JournalWriteStep ==
    ASSUME IInv, NEW s \in Seqs, JournalWrite(s)
    PROVE  IInv'
  <1>. USE JournalAssumption
  <1>0. TypeOK /\ Good(j) /\ UsersInv /\ DidInv /\ JsetInv
    BY DEF IInv
  <1>1. PICK flush \in {"flush", "noflush"} :
          LET last == IF flush = "flush" THEN LastSeq(s) ELSE 0
          IN  /\ jset' = [jset EXCEPT ![s].roots = roots', ![s].flush = flush, ![s].last_seq = last]
              /\ j' = DoWrites([j EXCEPT !.stage[s] = "allocated", !.last_seq[s] = last])
    BY Zenon DEF JournalWrite
  <1>. DEFINE last == IF flush = "flush" THEN LastSeq(s) ELSE 0
              K == [j EXCEPT !.stage[s] = "allocated", !.last_seq[s] = last]
  <1>2. j \in JournalState /\ JInv(j) /\ LastSeqInv(j) /\ j.stage[s] = "started"
    BY <1>0, Zenon DEF Good, JournalWrite
  <1>3. last \in 0 .. SeqMax + 1 /\ last <= s /\ (flush = "flush" => 1 <= last)
    BY <1>2 DEF LastSeq, LastSeqInv, JournalState, Seqs
  <1>4. jset' = [jset EXCEPT ![s].roots = roots', ![s].flush = flush, ![s].last_seq = last]
    BY <1>1
  <1>5. j' = DoWrites(K)
    BY <1>1
  <1>. HIDE DEF last
  <1>6. Good(K) /\ Frame(j, K)
    <2>1. [j.stage EXCEPT ![s] = "allocated"] \in [Seqs -> Stages]
      BY <1>2 DEF JournalState, Stages
    <2>2. [j.last_seq EXCEPT ![s] = last] \in [Seqs -> 0 .. SeqMax + 1]
      BY <1>2, <1>3 DEF JournalState
    <2>3. K \in JournalState
      BY <1>2, <2>1, <2>2, Zenon DEF JournalState
    <2>4. JInv(K) /\ Frame(j, K)
      BY <1>2 DEF JInv, Frame, JournalState
    <2>5. LastSeqInv(K)
      BY <1>2, <1>3 DEF LastSeqInv, Closed, JournalState
    <2>. QED
      BY <2>3, <2>4, <2>5 DEF Good
  <1>. HIDE DEF K
  <1>7. Good(j') /\ Closes(j, j')
    BY <1>5, <1>6, DoWritesGood, FrameCloses DEF Frame
  <1>8. roots' \in [Nodes -> 0 .. MaxBsets]
    <2>1. roots' = [n \in Nodes |-> IF jset[s].ptr[n] # 0 /\ Parent[n] = NoNode
                                    THEN jset[s].ptr[n] ELSE roots[n]]
      BY Zenon DEF JournalWrite
    <2>2. jset[s].ptr \in [Nodes -> 0 .. MaxBsets] /\ roots \in [Nodes -> 0 .. MaxBsets]
      BY <1>0 DEF TypeOK, Jset
    <2>. QED
      BY <2>1, <2>2
  <1>9. UNCHANGED <<media, res, did, hist, nodevars, recvars>>
    BY Zenon DEF JournalWrite
  <1>10. jset' \in [Seqs -> Jset] /\ JsetInv'
    <2>1. jset[s] \in Jset
      BY <1>0 DEF TypeOK
    <2>2. [jset[s] EXCEPT !.roots = roots', !.flush = flush, !.last_seq = last] \in Jset
      BY <1>3, <1>8, <2>1, Zenon DEF Jset
    <2>3. jset' = [jset EXCEPT ![s] = [jset[s] EXCEPT !.roots = roots', !.flush = flush, !.last_seq = last]]
      BY <1>0, <1>4, Zenon DEF TypeOK
    <2>4. jset' \in [Seqs -> Jset]
      BY <1>0, <2>2, <2>3 DEF TypeOK
    <2>5. jset'[s].last_seq = last /\ jset'[s].flush = flush
      BY <1>0, <2>1, <2>3 DEF TypeOK, Jset
    <2>6. \A i \in Seqs : i # s => jset'[i] = jset[i]
      BY <1>0, <2>3 DEF TypeOK
    <2>. QED
      BY <1>0, <1>3, <2>4, <2>5, <2>6 DEF JsetInv, IsFlush
  <1>11. UsersInv'
    BY <1>7, <1>9, UsersKept DEF recvars
  <1>12. TypeOK' /\ DidInv'
    BY <1>0, <1>7, <1>8, <1>9, <1>10 DEF TypeOK, Good, DidInv, nodevars, recvars
  <1>. QED
    BY <1>7, <1>10, <1>11, <1>12 DEF IInv

\* journal_write_submit
LEMMA JournalSubmitStep ==
    ASSUME IInv, NEW s \in Seqs, JournalSubmit(s)
    PROVE  IInv'
  <1>. USE JournalAssumption
  <1>0. TypeOK /\ Good(j) /\ UsersInv /\ DidInv /\ JsetInv
    BY DEF IInv
  <1>1. /\ j' = [j EXCEPT !.stage[s] = "submitted"]
        /\ UNCHANGED <<jset, res, did, roots, hist, dirty, wr, bsets, recvars>>
    BY DEF JournalSubmit
  <1>2. Good(j') /\ Frame(j, j')
    <2>1. j \in JournalState /\ JInv(j) /\ LastSeqInv(j)
      BY <1>0 DEF Good
    <2>2. [j.stage EXCEPT ![s] = "submitted"] \in [Seqs -> Stages]
      BY <2>1 DEF JournalState, Stages
    <2>3. j' \in JournalState
      BY <1>1, <2>1, <2>2 DEF JournalState
    <2>4. JInv(j') /\ Frame(j, j')
      BY <1>1, <2>1 DEF JInv, Frame, JournalState
    <2>5. LastSeqInv(j')
      BY <1>1, <2>1 DEF LastSeqInv, Closed, JournalState
    <2>. QED
      BY <2>3, <2>4, <2>5 DEF Good
  <1>3. media' \in [Seqs -> {"none", "inflight", "torn", "cache", "durable"}]
    <2>1. media \in [Seqs -> {"none", "inflight", "torn", "cache", "durable"}]
      BY <1>0 DEF TypeOK
    <2>2. CASE media' = [media EXCEPT ![s] = "inflight"]
      BY <2>1, <2>2
    <2>3. CASE media' = [i \in Seqs |-> IF i = s THEN "inflight"
                                        ELSE IF media[i] = "cache" THEN "durable" ELSE media[i]]
      BY <2>1, <2>3
    <2>. QED
      BY <2>2, <2>3 DEF JournalSubmit
  <1>4. flushed' \in [Nodes -> Int]
    <2>1. \A n \in Nodes : FlushedBsets(n) \in Int
      BY <1>0 DEF TypeOK, FlushedBsets
    <2>. QED
      BY <1>0, <2>1 DEF JournalSubmit, TypeOK
  <1>5. UsersInv'
    BY <1>1, <1>2, FrameCloses, UsersKept DEF recvars
  <1>6. TypeOK' /\ DidInv' /\ JsetInv'
    BY <1>0, <1>1, <1>2, <1>3, <1>4 DEF TypeOK, Good, DidInv, JsetInv, IsFlush, recvars
  <1>. QED
    BY <1>2, <1>5, <1>6 DEF IInv

\* journal_write_done, of a write that was issued or of one that found no space
LEMMA JournalWriteDoneStep ==
    ASSUME IInv, NEW s \in Seqs,
           JournalWriteFail(s) \/ \E err \in BOOLEAN : JournalWriteDone(s, err)
    PROVE  IInv'
  <1>0. Good(j) /\ media \in [Seqs -> {"none", "inflight", "torn", "cache", "durable"}]
    BY DEF IInv, TypeOK
  <1>1. CASE JournalWriteFail(s)
    <2>1. Closes(j, j')
      BY <1>0, <1>1, CompleteGood, Zenon DEF JournalWriteFail
    <2>. QED
      BY <1>0, <1>1, <2>1, JournalStep DEF JournalWriteFail
  <1>2. ASSUME NEW err \in BOOLEAN, JournalWriteDone(s, err)
        PROVE  IInv'
    <2>1. Closes(j, j')
      BY <1>0, <1>2, CompleteGood DEF JournalWriteDone
    <2>2. media' \in [Seqs -> {"none", "inflight", "torn", "cache", "durable"}]
      BY <1>0, <1>2 DEF JournalWriteDone
    <2>. QED
      BY <1>2, <2>1, <2>2, JournalStep DEF JournalWriteDone
  <1>. QED
    BY <1>1, <1>2

\* replay_now_at
LEMMA ReplayPutStep ==
    ASSUME IInv, NEW s \in Seqs, ReplayPut(s)
    PROVE  IInv'
  <1>0. TypeOK /\ Good(j) /\ UsersInv /\ DidInv /\ JsetInv
    BY DEF IInv
  <1>. DEFINE K == [j EXCEPT !.ref = @ \ {s}]
  <1>1. /\ s <= j.mount_seq /\ ReplayedTo(s) /\ j' = ReclaimFast(K)
        /\ UNCHANGED <<jset, media, res, did, roots, hist, nodevars, recvars>>
    BY DEF ReplayPut
  <1>2. j \in JournalState /\ JInv(j) /\ LastSeqInv(j)
    BY <1>0 DEF Good
  <1>3. Good(K) /\ K.ref = j.ref \ {s} /\ K.mount_seq = j.mount_seq /\ K.holders = j.holders
    <2>1. K \in JournalState
      BY <1>2 DEF JournalState
    <2>2. s \in Nat /\ j.mount_seq \in Nat /\ j.seq \in Nat
      BY <1>2 DEF JournalState, Seqs
    <2>3. JInv(K)
      BY <1>1, <1>2, <2>2 DEF JInv, JournalState
    <2>4. LastSeqInv(K)
      BY <1>2 DEF LastSeqInv, Closed, JournalState
    <2>. QED
      BY <1>2, <2>1, <2>3, <2>4 DEF Good, JournalState
  <1>. HIDE DEF K
  <1>4. Good(j') /\ j'.ref = j.ref \ {s} /\ j'.mount_seq = j.mount_seq /\ j'.holders = j.holders
    BY <1>1, <1>3, ReclaimFastGood DEF Frame
  <1>5. UsersInv'
    <2>1. s \in Nat /\ j.mount_seq \in Nat /\ j.ref \subseteq Nat
      BY <1>2 DEF JournalState, Seqs
    <2>2. \A h \in Holders : res[h] # 0 => res[h] # s
      BY <1>0, <1>1, <2>1 DEF UsersInv
    <2>3. \A n \in Nodes : \A i \in replay[n] : i # s
      BY <1>1, <2>1 DEF ReplayedTo
    <2>. QED
      BY <1>0, <1>1, <1>4, <2>2, <2>3 DEF UsersInv, recvars
  <1>6. TypeOK' /\ DidInv' /\ JsetInv'
    BY <1>0, <1>1, <1>4 DEF TypeOK, Good, DidInv, JsetInv, IsFlush, nodevars, recvars
  <1>. QED
    BY <1>4, <1>5, <1>6 DEF IInv

\* __bch2_btree_node_write
LEMMA NodeWriteStep ==
    ASSUME IInv, NEW n \in Nodes, NodeWrite(n)
    PROVE  IInv'
  <1>. USE JournalAssumption
  <1>0. TypeOK /\ Good(j) /\ UsersInv /\ DidInv /\ JsetInv
    BY DEF IInv
  <1>. DEFINE J == [j EXCEPT !.wpin[n] = j.pin[n], !.pin[n] = 0]
  <1>1. /\ dirty' = [dirty EXCEPT ![n] = {}]
        /\ UNCHANGED <<jset, media, res, did, flushed, roots, hist, recvars>>
        /\ j' = J \/ j' = PinDrop(J, n)
        /\ \/ UNCHANGED <<wr, bsets>>
           \/ /\ Len(bsets[n]) < MaxBsets
              /\ wr' = [wr EXCEPT ![n] = "io"]
              /\ bsets' = [bsets EXCEPT ![n] = Append(@, dirty[n])]
    BY DEF NodeWrite
  <1>2. Good(J) /\ Frame(j, J)
    <2>1. j \in JournalState /\ JInv(j) /\ LastSeqInv(j)
      BY <1>0 DEF Good
    <2>2. /\ [j.wpin EXCEPT ![n] = j.pin[n]] \in [Nodes -> 0 .. SeqMax]
          /\ [j.pin EXCEPT ![n] = 0] \in [Nodes -> 0 .. SeqMax]
      BY <2>1 DEF JournalState
    <2>3. J \in JournalState
      BY <2>1, <2>2, Zenon DEF JournalState
    <2>4. JInv(J) /\ Frame(j, J)
      BY <2>1 DEF JInv, Frame, JournalState
    <2>5. LastSeqInv(J)
      BY <2>1 DEF LastSeqInv, Closed, JournalState
    <2>. QED
      BY <2>3, <2>4, <2>5 DEF Good
  <1>. HIDE DEF J
  <1>3. Good(j') /\ Frame(j, j')
    BY <1>1, <1>2, PinDropGood DEF Frame
  <1>4. /\ bsets' \in [Nodes -> Seq(SUBSET Seqs)] /\ \A m \in Nodes : Len(bsets'[m]) <= MaxBsets
        /\ wr' \in [Nodes -> {"idle", "io", "key", "keydone"}]
    <2>1. /\ bsets \in [Nodes -> Seq(SUBSET Seqs)] /\ \A m \in Nodes : Len(bsets[m]) <= MaxBsets
          /\ wr \in [Nodes -> {"idle", "io", "key", "keydone"}]
          /\ dirty[n] \in SUBSET Seqs
      BY <1>0 DEF TypeOK
    <2>2. CASE UNCHANGED <<wr, bsets>>
      BY <2>1, <2>2
    <2>3. CASE /\ Len(bsets[n]) < MaxBsets
               /\ wr' = [wr EXCEPT ![n] = "io"]
               /\ bsets' = [bsets EXCEPT ![n] = Append(@, dirty[n])]
      <3>1. /\ Append(bsets[n], dirty[n]) \in Seq(SUBSET Seqs)
            /\ Len(Append(bsets[n], dirty[n])) = Len(bsets[n]) + 1
        BY <2>1
      <3>2. Len(bsets[n]) \in Nat
        BY <2>1
      <3>. QED
        BY <2>1, <2>3, <3>1, <3>2
    <2>. QED
      BY <1>1, <2>2, <2>3
  <1>5. UsersInv'
    BY <1>1, <1>3, FrameCloses, UsersKept DEF recvars
  <1>6. TypeOK' /\ DidInv' /\ JsetInv'
    BY <1>0, <1>1, <1>3, <1>4, Zenon DEF TypeOK, Good, DidInv, JsetInv, IsFlush, recvars
  <1>. QED
    BY <1>3, <1>5, <1>6 DEF IInv

\* The end of a node's write: its completion, its failure, its pin dropped.
LEMMA NodeWriteEnds ==
    ASSUME IInv, NEW n \in Nodes, NodeWriteEndio(n) \/ NodeWriteErr(n) \/ NodeWriteDone(n)
    PROVE  IInv'
  <1>0. TypeOK /\ Good(j) /\ UsersInv /\ DidInv /\ JsetInv
    BY DEF IInv
  <1>1. /\ wr' \in [Nodes -> {"idle", "io", "key", "keydone"}]
        /\ UNCHANGED <<jset, media, res, did, dirty, bsets, flushed, roots, hist, recvars>>
    BY <1>0, Zenon DEF TypeOK, NodeWriteEndio, NodeWriteErr, NodeWriteDone, AfterEndio
  <1>2. Closes(j, j')
    <2>1. CASE NodeWriteEndio(n)
      BY <1>0, <2>1, Zenon DEF NodeWriteEndio, Closes
    <2>2. CASE NodeWriteErr(n)
      BY <1>0, <2>2, HaltGood DEF NodeWriteErr, WriteErr
    <2>3. CASE NodeWriteDone(n)
      BY <1>0, <2>3, PinDropGood, FrameCloses DEF NodeWriteDone
    <2>. QED
      BY <2>1, <2>2, <2>3
  <1>3. UsersInv'
    BY <1>1, <1>2, UsersKept DEF recvars
  <1>4. TypeOK' /\ DidInv' /\ JsetInv' /\ Good(j')
    BY <1>0, <1>1, <1>2 DEF TypeOK, Good, Closes, DidInv, JsetInv, IsFlush, recvars
  <1>. QED
    BY <1>3, <1>4 DEF IInv

\* bch2_btree_node_update_key
LEMMA UpdateKeyStep ==
    ASSUME IInv, NEW n \in Nodes, UpdateKey(n)
    PROVE  IInv'
  <1>. USE JournalAssumption
  <1>0. TypeOK /\ Good(j) /\ UsersInv /\ DidInv /\ JsetInv /\ n \in Holders
    BY DEF IInv, Holders
  <1>. DEFINE s == res[n]
              e == [jset EXCEPT ![s].ptr[n] = Written(n)]
              J == IF Parent[n] = NoNode THEN j ELSE PinAdd(j, Parent[n], s)
  <1>1. /\ res[n] # 0 /\ res' = [res EXCEPT ![n] = 0] /\ wr' = [wr EXCEPT ![n] = "keydone"]
        /\ UNCHANGED <<media, did, bsets, flushed, roots, recvars>>
        /\ j' = BufPut(J, n, s)
    BY DEF UpdateKey
  <1>2. s \in Seqs /\ s \in j.ref
    BY <1>0, <1>1 DEF TypeOK, UsersInv, Seqs
  <1>3. Parent[n] # NoNode => Parent[n] \in Nodes
    OBVIOUS
  <1>4. Good(J) /\ Frame(j, J)
    <2>1. Frame(j, j)
      BY DEF Frame
    <2>. QED
      BY <1>0, <1>2, <1>3, <2>1, PinAddGood, Zenon
  <1>. HIDE DEF J
  <1>5. Good(j') /\ UsersInv' /\ res' \in [Holders -> 0 .. SeqMax]
    BY <1>0, <1>1, <1>4, PutUsers, Zenon DEF recvars
  <1>6. /\ e \in [Seqs -> Jset]
        /\ \A i \in Seqs : e[i].last_seq = jset[i].last_seq /\ e[i].flush = jset[i].flush
    <2>1. jset[s] \in Jset /\ jset \in [Seqs -> Jset]
      BY <1>0, <1>2 DEF TypeOK
    <2>2. Written(n) \in 0 .. MaxBsets
      BY <1>0 DEF TypeOK, Written
    <2>3. [jset[s].ptr EXCEPT ![n] = Written(n)] \in [Nodes -> 0 .. MaxBsets]
      BY <2>1, <2>2 DEF Jset
    <2>. DEFINE f == [jset[s] EXCEPT !.ptr[n] = Written(n)]
    <2>4. f \in Jset /\ f.last_seq = jset[s].last_seq /\ f.flush = jset[s].flush
      BY <2>1, <2>3, Zenon DEF Jset
    <2>5. e = [jset EXCEPT ![s] = f]
      BY <1>2, <2>1
    <2>. HIDE DEF f
    <2>. QED
      BY <1>2, <2>1, <2>4, <2>5
  <1>7. /\ jset' \in [Seqs -> Jset]
        /\ \A i \in Seqs : jset'[i].last_seq = jset[i].last_seq /\ jset'[i].flush = jset[i].flush
    <2>1. CASE Parent[n] = NoNode
      BY <1>6, <2>1, Zenon DEF UpdateKey
    <2>2. CASE Parent[n] # NoNode
      <3>1. jset' = [e EXCEPT ![s].upds = @ \cup {Parent[n]}]
        BY <2>2 DEF UpdateKey
      <3>. HIDE DEF e
      <3>2. e[s] \in Jset
        BY <1>2, <1>6
      <3>3. e[s].upds \cup {Parent[n]} \in SUBSET Nodes
        BY <1>3, <2>2, <3>2 DEF Jset
      <3>. DEFINE f == [e[s] EXCEPT !.upds = @ \cup {Parent[n]}]
      <3>4. f \in Jset /\ f.last_seq = e[s].last_seq /\ f.flush = e[s].flush
        BY <3>2, <3>3 DEF Jset
      <3>5. jset' = [e EXCEPT ![s] = f]
        BY <1>2, <1>6, <3>1
      <3>. HIDE DEF f
      <3>. QED
        BY <1>2, <1>6, <3>4, <3>5
    <2>. QED
      BY <2>1, <2>2
  <1>8. dirty' \in [Nodes -> SUBSET Seqs] /\ hist' \in [Nodes -> SUBSET Seqs]
    <2>1. CASE Parent[n] = NoNode
      BY <1>0, <2>1 DEF UpdateKey, TypeOK
    <2>2. CASE Parent[n] # NoNode
      <3>1. NodeInsert(Parent[n], s)
        BY <2>2 DEF UpdateKey
      <3>. HIDE DEF s
      <3>. QED
        BY <1>0, <1>2, <3>1, Zenon DEF NodeInsert, TypeOK
    <2>. QED
      BY <2>1, <2>2
  <1>9. TypeOK'
    BY <1>0, <1>1, <1>5, <1>7, <1>8, Zenon DEF TypeOK, Good, recvars
  <1>10. JsetInv'
    BY <1>0, <1>7 DEF JsetInv, IsFlush
  <1>11. DidInv'
    BY <1>0, <1>1 DEF DidInv, TypeOK, Holders
  <1>. QED
    BY <1>5, <1>9, <1>10, <1>11 DEF IInv

\* bch2_journal_replay_key
LEMMA ReplayKeyStep ==
    ASSUME IInv, NEW n \in Nodes, NEW s \in Seqs, ReplayKey(n, s)
    PROVE  IInv'
  <1>0. TypeOK /\ Good(j) /\ UsersInv /\ DidInv /\ JsetInv
    BY DEF IInv
  <1>1. /\ s \in replay[n] /\ NodeInsert(n, s) /\ j' = PinAdd(j, n, s)
        /\ replay' = [replay EXCEPT ![n] = @ \ {s}]
        /\ UNCHANGED <<jset, media, res, did, wr, bsets, flushed, roots, blacklist, crashes>>
    BY DEF ReplayKey
  <1>2. Good(j') /\ Frame(j, j')
    BY <1>0, <1>1, PinAddGood, Zenon DEF UsersInv
  <1>3. replay' \in [Nodes -> SUBSET Seqs] /\ \A m \in Nodes : replay'[m] \subseteq replay[m]
    BY <1>0, <1>1 DEF TypeOK
  <1>4. UsersInv'
    BY <1>0, <1>1, <1>2, <1>3, Zenon DEF UsersInv, Frame
  <1>5. TypeOK' /\ DidInv' /\ JsetInv'
    BY <1>0, <1>1, <1>2, <1>3 DEF TypeOK, Good, NodeInsert, DidInv, JsetInv, IsFlush
  <1>. QED
    BY <1>2, <1>4, <1>5 DEF IInv

\* What bch2_journal_read returns: the newest flush entry that can be used, no
\* older than its last_seq, and no newer than the entries recovery starts after.
LEMMA JournalReadType ==
    ASSUME IInv, NEW M, JournalRead(M).newest # 0
    PROVE  LET r == JournalRead(M)
           IN  /\ r.newest \in Seqs /\ r.start_seq \in 1 .. SeqMax + 1
               /\ r.newest < r.start_seq
               /\ 1 <= r.last_seq /\ r.last_seq <= r.newest /\ r.last_seq \in Nat
               /\ r.entries \subseteq Seqs
               /\ \A s \in r.entries : r.last_seq <= s /\ s <= r.newest
  <1>. USE JournalAssumption
  <1>0. jset \in [Seqs -> Jset] /\ JsetInv
    BY DEF IInv, TypeOK
  <1>. DEFINE found  == {s \in Seqs : M[s] # "none"}
              list   == {s \in found : s >= DropTo(found)}
              usable == Usable(list, M)
              newest == IF usable = {} THEN 0 ELSE Max(usable)
              last   == IF usable = {} THEN 0 ELSE jset[newest].last_seq
              ents   == {s \in list : last <= s /\ s <= newest /\ s \notin blacklist}
              start  == Max({0} \cup list) + 1
  <1>1. /\ JournalRead(M).newest = newest /\ JournalRead(M).last_seq = last
        /\ JournalRead(M).entries = ents /\ JournalRead(M).start_seq = start
    BY Zenon DEF JournalRead
  <1>2. list \subseteq Seqs
    OBVIOUS
  <1>. HIDE DEF list
  <1>3. usable \subseteq list /\ \A s \in usable : IsFlush(s)
    BY DEF Usable
  <1>. HIDE DEF usable
  <1>4. usable # {}
    BY <1>1
  <1>5. newest \in usable
    <2>1. usable \in SUBSET (0 .. SeqMax)
      BY <1>2, <1>3 DEF Seqs
    <2>. QED
      BY <1>4, <2>1, MaxNat, Zenon
  <1>6. last = jset[newest].last_seq
    BY <1>4
  <1>7. start \in 1 .. SeqMax + 1 /\ \A s \in list : s < start
    <2>. DEFINE L == {0} \cup list
    <2>1. L \in SUBSET (0 .. SeqMax) /\ L # {}
      BY <1>2 DEF Seqs
    <2>2. Max(L) \in L /\ \A x \in L : x <= Max(L)
      BY <2>1, MaxNat, Zenon
    <2>3. Max(L) \in 0 .. SeqMax
      BY <2>1, <2>2
    <2>. QED
      BY <1>2, <2>2, <2>3 DEF Seqs
  <1>. HIDE DEF newest, start
  <1>8. newest \in Seqs /\ newest < start
    BY <1>2, <1>3, <1>5, <1>7
  <1>9. 1 <= last /\ last <= newest /\ last \in Nat
    <2>1. jset[newest] \in Jset
      BY <1>0, <1>8
    <2>2. last \in Nat
      BY <1>6, <2>1 DEF Jset
    <2>. QED
      BY <1>0, <1>3, <1>5, <1>6, <1>8, <2>2 DEF JsetInv
  <1>. HIDE DEF last
  <1>10. ents \subseteq Seqs /\ \A s \in ents : last <= s /\ s <= newest
    BY <1>2
  <1>. HIDE DEF ents
  <1>. QED
    BY <1>1, <1>7, <1>8, <1>9, <1>10

\* The content of a node whose bsets are all there consists of updates.
LEMMA ContentType ==
    ASSUME TypeOK, NEW r, r.entries \subseteq Seqs, NEW n \in Nodes, NEW w \in Int,
           1 .. w \subseteq 1 .. Len(bsets[n])
    PROVE  Content(r, n, w) \subseteq Seqs
  <1>1. bsets[n] \in Seq(SUBSET Seqs)
    BY DEF TypeOK
  <1>2. \A i \in 1 .. w : bsets[n][i] \in SUBSET Seqs
    BY <1>1
  <1>3. (UNION {bsets[n][i] : i \in 1 .. w}) \subseteq Seqs
    BY <1>2, Zenon
  <1>4. {s \in r.entries : n \in jset[s].upds} \subseteq Seqs
    OBVIOUS
  <1>. QED
    BY <1>3, <1>4, Zenon DEF Content

\* A crash, and recovery up to bch2_fs_journal_start
LEMMA CrashStep ==
    ASSUME IInv, Crash
    PROVE  IInv'
  <1>. USE JournalAssumption
  <1>0. TypeOK /\ Good(j) /\ UsersInv /\ DidInv /\ JsetInv
    BY DEF IInv
  <1>1. PICK M \in JournalOutcomes, k \in NodeOutcomes :
         LET r   == JournalRead(M)
             cur == r.start_seq + JournalSkip
         IN  /\ r.newest # 0 /\ cur <= SeqMax
             /\ \A n \in Nodes : 1 .. SectorsWritten(r, n) \subseteq k[n]
             /\ media' = M
             /\ j' = JournalStart(r.last_seq, cur)
             /\ bsets' = [n \in Nodes |-> SubSeq(bsets[n], 1, SectorsWritten(r, n))]
             /\ flushed' = [n \in Nodes |-> SectorsWritten(r, n)]
             /\ roots' = jset[r.newest].roots
             /\ replay' = [n \in Nodes |-> {s \in r.entries : n \in jset[s].upds}]
             /\ blacklist' = blacklist \cup NewBlacklist(r)
             /\ hist' = [n \in Nodes |-> Recovered(r, n)]
             /\ jset' = [s \in Seqs |-> IF M[s] = "none" /\ \A n \in Nodes : s \notin hist'[n]
                                        THEN EmptyJset ELSE jset[s]]
    BY Zenon DEF Crash
  <1>. DEFINE r == JournalRead(M)
              d == r.start_seq + JournalSkip
              c == d - 1
  <1>2. /\ r.newest \in Seqs /\ r.start_seq \in 1 .. SeqMax + 1 /\ r.newest < r.start_seq
        /\ 1 <= r.last_seq /\ r.last_seq <= r.newest /\ r.last_seq \in Nat
        /\ r.entries \subseteq Seqs /\ \A s \in r.entries : r.last_seq <= s /\ s <= r.newest
    BY <1>1, JournalReadType, Zenon
  <1>. HIDE DEF r
  <1>3. c \in 1 .. SeqMax - 1 /\ r.newest < c + 1 /\ c + 1 = d
    <2>1. d <= SeqMax
      BY <1>1, Zenon DEF r
    <2>. QED
      BY <1>2, <2>1 DEF Seqs
  <1>4. j' = JournalStart(r.last_seq, d)
    BY <1>1, Zenon DEF r
  <1>5. /\ \A n \in Nodes : 1 .. SectorsWritten(r, n) \subseteq k[n]
        /\ bsets' = [n \in Nodes |-> SubSeq(bsets[n], 1, SectorsWritten(r, n))]
        /\ flushed' = [n \in Nodes |-> SectorsWritten(r, n)]
        /\ hist' = [n \in Nodes |-> Recovered(r, n)]
    BY <1>1, Zenon DEF r
  <1>6. /\ media' = M /\ roots' = jset[r.newest].roots
        /\ replay' = [n \in Nodes |-> {s \in r.entries : n \in jset[s].upds}]
        /\ blacklist' = blacklist \cup NewBlacklist(r)
        /\ jset' = [s \in Seqs |-> IF M[s] = "none" /\ \A n \in Nodes : s \notin hist'[n]
                                   THEN EmptyJset ELSE jset[s]]
    BY <1>1, Zenon DEF r
  <1>7. /\ res' = [h \in Holders |-> 0] /\ did' = {} /\ dirty' = [n \in Nodes |-> {}]
        /\ wr' = [n \in Nodes |-> "idle"] /\ crashes' = crashes + 1 /\ crashes < MaxCrashes
    BY Zenon DEF Crash
  <1>. HIDE DEF c, d
  <1>8. Good(j') /\ j'.ref = r.last_seq .. c /\ j'.mount_seq = c
    BY <1>2, <1>3, <1>4, JournalStartGood DEF c, Seqs
  <1>9. UsersInv' /\ DidInv'
    <2>1. \A s \in r.entries : s \in j'.ref /\ s <= j'.mount_seq
      BY <1>2, <1>3, <1>8 DEF Seqs
    <2>. QED
      BY <1>6, <1>7, <2>1 DEF UsersInv, DidInv
  <1>10. jset' \in [Seqs -> Jset] /\ JsetInv'
    <2>1. EmptyJset \in Jset /\ EmptyJset.last_seq = 0 /\ EmptyJset.flush = "noflush"
      BY DEF EmptyJset, Jset
    <2>2. \A s \in Seqs : jset'[s] \in {EmptyJset, jset[s]}
      BY <1>6, Zenon
    <2>. QED
      BY <1>0, <1>6, <2>1, <2>2 DEF TypeOK, JsetInv, IsFlush, Seqs
  <1>11. media' \in [Seqs -> {"none", "inflight", "torn", "cache", "durable"}]
    BY <1>0, <1>6 DEF TypeOK, JournalOutcomes
  <1>12. roots' \in [Nodes -> 0 .. MaxBsets]
    <2>1. jset[r.newest] \in Jset
      BY <1>0, <1>2, Zenon DEF TypeOK
    <2>. QED
      BY <1>6, <2>1, Zenon DEF Jset
  <1>13. replay' \in [Nodes -> SUBSET Seqs]
    BY <1>2, <1>6
  <1>14. blacklist' \in SUBSET Seqs
    <2>1. NewBlacklist(r) = r.newest + 1 .. c
      BY <1>2 DEF NewBlacklist, c, d
    <2>2. r.newest \in Nat /\ c \in Nat /\ c <= SeqMax
      BY <1>2, <1>3 DEF Seqs
    <2>3. r.newest + 1 .. c \subseteq Seqs
      BY <2>2 DEF Seqs
    <2>4. blacklist \subseteq Seqs
      BY <1>0 DEF TypeOK
    <2>. QED
      BY <1>6, <2>1, <2>3, <2>4
  <1>15. \A n \in Nodes : k[n] \subseteq 1 .. Len(bsets[n])
    BY DEF NodeOutcomes
  <1>16. \A n \in Nodes : 1 .. SectorsWritten(r, n) \subseteq 1 .. Len(bsets[n])
    BY <1>5, <1>15
  <1>17. \A n \in Nodes : SectorsWritten(r, n) \in Nat
    <2>. SUFFICES ASSUME NEW n \in Nodes PROVE SectorsWritten(r, n) \in Nat
      OBVIOUS
    <2>0. r.newest # 0 /\ jset[r.newest] \in Jset
      BY <1>0, <1>2 DEF TypeOK, Seqs
    <2>1. jset[r.newest].roots \in [Nodes -> 0 .. MaxBsets]
      BY <2>0 DEF Jset
    <2>2. CASE Parent[n] = NoNode
      BY <2>0, <2>1, <2>2 DEF SectorsWritten
    <2>3. CASE Parent[n] # NoNode
      <3>. DEFINE p == Parent[n]
                  w == jset[r.newest].roots[p]
                  keys == {s \in Content(r, p, w) : jset[s].ptr[n] # 0}
      <3>1. p \in Nodes /\ Parent[p] = NoNode
        BY <2>3
      <3>2. SectorsWritten(r, p) = w /\ w \in Int
        BY <2>0, <2>1, <3>1 DEF SectorsWritten
      <3>3. Content(r, p, w) \subseteq Seqs
        BY <1>0, <1>2, <1>16, <3>1, <3>2, ContentType
      <3>4. SectorsWritten(r, n) = IF keys = {} THEN 1 ELSE jset[Max(keys)].ptr[n]
        BY <2>0, <2>3, Zenon DEF SectorsWritten
      <3>5. CASE keys # {}
        <4>1. keys \in SUBSET (0 .. SeqMax) /\ keys \subseteq Seqs
          BY <3>3 DEF Seqs
        <4>. HIDE DEF keys
        <4>2. Max(keys) \in Seqs
          BY <3>5, <4>1, MaxNat, Zenon
        <4>3. jset[Max(keys)] \in Jset
          BY <1>0, <4>2 DEF TypeOK
        <4>4. jset[Max(keys)].ptr[n] \in Nat
          BY <4>3 DEF Jset
        <4>. QED
          BY <3>4, <3>5, <4>4
      <3>. HIDE DEF keys
      <3>. QED
        BY <3>4, <3>5
    <2>. QED
      BY <2>2, <2>3
  <1>18. hist' \in [Nodes -> SUBSET Seqs]
    <2>1. \A n \in Nodes : Recovered(r, n) \subseteq Seqs
      BY <1>0, <1>2, <1>16, <1>17, ContentType DEF Recovered
    <2>. QED
      BY <1>5, <2>1
  <1>19. bsets' \in [Nodes -> Seq(SUBSET Seqs)] /\ \A n \in Nodes : Len(bsets'[n]) <= MaxBsets
    <2>. SUFFICES ASSUME NEW n \in Nodes
                  PROVE  /\ SubSeq(bsets[n], 1, SectorsWritten(r, n)) \in Seq(SUBSET Seqs)
                         /\ Len(SubSeq(bsets[n], 1, SectorsWritten(r, n))) <= MaxBsets
      BY <1>5
    <2>. DEFINE w == SectorsWritten(r, n)
    <2>1. w \in Nat /\ 1 .. w \subseteq 1 .. Len(bsets[n])
      BY <1>16, <1>17
    <2>2. bsets[n] \in Seq(SUBSET Seqs) /\ Len(bsets[n]) <= MaxBsets /\ Len(bsets[n]) \in Nat
      BY <1>0 DEF TypeOK
    <2>. HIDE DEF w
    <2>3. w <= Len(bsets[n])
      <3>1. w = 0 \/ w \in 1 .. w
        BY <2>1
      <3>. QED
        BY <2>1, <2>2, <3>1
    <2>4. \A i \in 1 .. w : bsets[n][i] \in SUBSET Seqs
      BY <2>1, <2>2
    <2>5. SubSeq(bsets[n], 1, w) \in Seq(SUBSET Seqs) /\ Len(SubSeq(bsets[n], 1, w)) = w
      BY <2>1, <2>2, <2>3, <2>4
    <2>. QED
      BY <2>1, <2>2, <2>3, <2>5 DEF w
  <1>20. flushed' \in [Nodes -> Int]
    BY <1>5, <1>17
  <1>21. TypeOK'
    BY <1>0, <1>7, <1>8, <1>10, <1>11, <1>12, <1>13, <1>14, <1>18, <1>19, <1>20
       DEF TypeOK, Good
  <1>. QED
    BY <1>8, <1>9, <1>10, <1>21 DEF IInv

----------------------------------------------------------------------------
(* The theorems *)

\* Every step preserves the invariant.
LEMMA NextIInv == IInv /\ [Next]_vars => IInv'
  <1>. SUFFICES ASSUME IInv, [Next]_vars PROVE IInv'
    OBVIOUS
  <1>0. Good(j) /\ media \in [Seqs -> {"none", "inflight", "torn", "cache", "durable"}]
    BY DEF IInv, TypeOK
  <1>1. CASE \E h \in Holders : ResGet(h)
    BY <1>1, ResGetStep
  <1>2. CASE \E t \in Threads : ResPut(t) \/ \E n \in Nodes : Insert(t, n)
    BY <1>2, ResPutStep, InsertStep
  <1>3. CASE Close
    BY <1>0, <1>3, EntryCloseGood, JournalStep DEF Close
  <1>4. CASE EmergencyReadOnly
    BY <1>0, <1>4, HaltGood, JournalStep DEF EmergencyReadOnly
  <1>5. CASE \E s \in Seqs : \/ JournalWrite(s)
                             \/ JournalWriteFail(s)
                             \/ JournalSubmit(s)
                             \/ \E err \in BOOLEAN : JournalWriteDone(s, err)
                             \/ ReplayPut(s)
    BY <1>5, JournalWriteStep, JournalSubmitStep, JournalWriteDoneStep, ReplayPutStep
  <1>6. CASE \E n \in Nodes : \/ NodeWrite(n)
                              \/ NodeWriteEndio(n)
                              \/ UpdateKey(n)
                              \/ NodeWriteDone(n)
                              \/ NodeWriteErr(n)
                              \/ \E s \in Seqs : ReplayKey(n, s)
    BY <1>6, NodeWriteStep, NodeWriteEnds, UpdateKeyStep, ReplayKeyStep
  <1>7. CASE Crash
    BY <1>7, CrashStep
  <1>8. CASE UNCHANGED vars
    BY <1>8, Zenon DEF vars, IInv, TypeOK, UsersInv, DidInv, JsetInv, IsFlush
  <1>. QED
    BY <1>1, <1>2, <1>3, <1>4, <1>5, <1>6, <1>7, <1>8 DEF Next

\* The invariant holds throughout, whatever the number of threads, nodes,
\* entries and crashes.
THEOREM Invariant == Spec => []IInv
  BY InitIInv, NextIInv, PTL DEF Spec

\* bch2_journal_pin_set and journal_seq_pin never find a pin outside the pin
\* fifo, whatever the interleaving of transactions, node writes, journal
\* writes, failures, crashes and replay: their BUG_ON and EBUG_ON do not fire.
THEOREM PinsStayInFifo == Spec => []PinsInFifo
  <1>1. IInv => PinsInFifo
    BY Zenon DEF IInv, Good, JInv, PinsInFifo
  <1>. QED
    BY <1>1, Invariant, PTL

\* No entry leaves the pin fifo while a transaction or a pointer update has a
\* reservation in it, or while bch2_journal_replay has keys of it to insert: each
\* of them pins the entry after it was in use for some time, and finds it there.
THEOREM UsersStayInFifo == Spec => []UsersInFifo
  <1>1. IInv => UsersInFifo
    <2>. SUFFICES ASSUME IInv PROVE UsersInFifo
      OBVIOUS
    <2>1. \A s \in j.ref : j.front <= s /\ s <= j.seq
      BY DEF IInv, Good, JInv
    <2>. QED
      BY <2>1, Zenon DEF IInv, UsersInv, UsersInFifo
  <1>. QED
    BY <1>1, Invariant, PTL

=============================================================================
