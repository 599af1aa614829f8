---------------------------- MODULE JournalRes ----------------------------
(***************************************************************************)
(* Journal reservations (journal.h, journal.c): the fast path that takes   *)
(* and drops a reservation with one atomic operation on j->reservations    *)
(* and no lock, against opening, closing, blocking and writing entries     *)
(* under j->lock, and against the btree write buffer, which reads an entry *)
(* that may still be open (btree_write_buffer.c).                          *)
(*                                                                         *)
(* j is struct journal; off, idx and count are the fields of the word      *)
(* j->reservations.  An action is what happens between two accesses that a *)
(* task without the lock can observe.                                      *)
(***************************************************************************)
EXTENDS Integers, FiniteSets, FiniteSetsExt

CONSTANTS
    Threads,              \* tasks that take reservations
    Worker,               \* journal_write_work, or whoever else closes the entry
    Flushers,             \* tasks fetching keys for the btree write buffer
    Blockers,             \* tasks blocking the journal, to resize it
    NoProc,
    JOURNAL_STATE_BUF_NR,
    JOURNAL_BUF_NR,
    CountMax,             \* the largest count the word can hold
    OFFSET_MAX,           \* JOURNAL_ENTRY_OFFSET_MAX
    EntrySizes,           \* how many u64s an entry may have room for
    ResSizes,             \* how many u64s a reservation may ask for
    Errors,               \* "errors" when the journal can be halted
    MaxSeq                \* bound: entries opened

BLOCKED_VAL == OFFSET_MAX - 2
CLOSED_VAL  == OFFSET_MAX - 1
ERROR_VAL   == OFFSET_MAX

ASSUME JournalResAssumption ==
    /\ JOURNAL_STATE_BUF_NR \in Nat \ {0, 1}
    /\ JOURNAL_BUF_NR \in Nat /\ JOURNAL_BUF_NR % JOURNAL_STATE_BUF_NR = 0
    /\ JOURNAL_BUF_NR >= JOURNAL_STATE_BUF_NR
    /\ CountMax \in Nat \ {0}
    /\ OFFSET_MAX \in Nat /\ OFFSET_MAX >= 3
    /\ EntrySizes \subseteq 1 .. BLOCKED_VAL - 1
    /\ ResSizes \subseteq 1 .. BLOCKED_VAL - 1
    /\ MaxSeq \in Nat \ {0}

VARIABLES
    j,          \* struct journal and its journal_bufs
    lock,       \* who holds j->lock
    buf_lock,   \* who holds j->buf_lock
    pc,         \* [Procs -> control state]
    old,        \* [Procs -> the word as the process last read it]
    res,        \* [Threads -> struct journal_res]
    inside,     \* history: [Threads -> the entry the reservation really is in]
    fl          \* [Flushers -> locals of the write buffer's fetch]

vars == <<j, lock, buf_lock, pc, old, res, inside, fl>>

Procs == Threads \cup {Worker} \cup Flushers \cup Blockers
Idx   == 0 .. JOURNAL_STATE_BUF_NR - 1
Word  == [off : 0 .. OFFSET_MAX, idx : Idx, count : [Idx -> 0 .. CountMax]]
Zero  == [off |-> CLOSED_VAL, idx |-> 0, count |-> [i \in Idx |-> 0]]
NoRes == [seq |-> 0, off |-> 0, u64s |-> 0]
NoFl  == [seq |-> 0, blocked |-> "no", woken |-> "yes"]
Stages == {"open", "started", "allocated", "done"}

\* The type invariant: the fields of the reservation word keep their width, and
\* only tasks hold j->lock and buf_lock.
TypeOK ==
    /\ j \in [word : Word, seq : 0 .. MaxSeq, seq_ondisk : 0 .. MaxSeq,
              seq_write_started : 0 .. MaxSeq, cur_entry_u64s : Nat,
              blocked : 0 .. Cardinality(Flushers \cup Blockers),
              cur_entry_offset_if_blocked : 0 .. OFFSET_MAX,
              stage : [1 .. MaxSeq -> Stages], u64s : [1 .. MaxSeq -> 0 .. OFFSET_MAX],
              size : [1 .. MaxSeq -> Nat],
              need_wb : SUBSET (1 .. MaxSeq), pinned : SUBSET (1 .. MaxSeq)]
    /\ lock \in Procs \cup {NoProc}
    /\ buf_lock \in Flushers \cup {NoProc}
    /\ pc \in [Procs -> {"idle", "check", "cas", "seq", "held", "final", "slow", "lock",
                         "close", "put", "open", "publish", "block", "have", "wait",
                         "quiesce", "blocked"}]
    /\ old \in [Procs -> Word]
    /\ res \in [Threads -> [seq : 0 .. MaxSeq, off : 0 .. OFFSET_MAX, u64s : 0 .. OFFSET_MAX]]
    /\ inside \in [Threads -> 0 .. MaxSeq]
    /\ fl \in [Flushers -> [seq : 0 .. MaxSeq, blocked : {"yes", "no"}, woken : {"yes", "no"}]]

Init ==
    /\ j = [word |-> Zero, seq |-> 0, seq_ondisk |-> 0, seq_write_started |-> 0,
            cur_entry_u64s |-> 0, blocked |-> 0, cur_entry_offset_if_blocked |-> 0,
            stage |-> [s \in 1 .. MaxSeq |-> "open"], u64s |-> [s \in 1 .. MaxSeq |-> 0],
            size |-> [s \in 1 .. MaxSeq |-> 0], need_wb |-> {}, pinned |-> {}]
    /\ lock = NoProc
    /\ buf_lock = NoProc
    /\ pc = [p \in Procs |-> "idle"]
    /\ old = [p \in Procs |-> Zero]
    /\ res = [t \in Threads |-> NoRes]
    /\ inside = [t \in Threads |-> 0]
    /\ fl = [f \in Flushers |-> NoFl]

----------------------------------------------------------------------------
(* struct journal *)

Slot(s) == s % JOURNAL_STATE_BUF_NR

\* __journal_entry_is_open: a blocked entry is open
IsOpenMutant(w) == w.off < BLOCKED_VAL

IsOpen(w) == w.off < CLOSED_VAL

\* journal_state_seq_count
SeqCountMutant(J, s) ==
    IF J.seq - s < JOURNAL_STATE_BUF_NR - 1 THEN J.word.count[Slot(s)] ELSE 0

SeqCount(J, s) == IF J.seq - s < JOURNAL_STATE_BUF_NR THEN J.word.count[Slot(s)] ELSE 0

\* journal_state_inc; the field is as wide as CountMax
StateInc(w) == [w EXCEPT !.count[w.idx] = (@ + 1) % (CountMax + 1)]

\* journal_state_buf_put
StateBufPut(J, s) == [J EXCEPT !.word.count[Slot(s)] = @ - 1]

\* bch2_journal_do_writes
DoWrites(J) ==
    LET todo == {s \in J.seq_ondisk + 1 .. J.seq : J.stage[s] \notin {"allocated", "done"}}
        s    == Min(todo)
    IN  IF todo # {} /\ J.stage[s] = "open" /\ SeqCount(J, s) = 0
        THEN [J EXCEPT !.stage[s] = "started", !.seq_write_started = s]
        ELSE J

\* bch2_journal_buf_put_final
PutFinalMutant(J, s) == DoWrites(J)

PutFinal(J, s) == DoWrites([J EXCEPT !.pinned = @ \ {s}])

\* __journal_entry_close's loop on the word; val is CLOSED or ERROR
CloseWord(w, val) == IF w.off \in {ERROR_VAL, val} THEN w ELSE [w EXCEPT !.off = val]

\* __bch2_journal_block
Block(J) ==
    LET o == J.word.off
    IN  IF J.blocked > 0 THEN [J EXCEPT !.blocked = @ + 1]
        ELSE IF o >= CLOSED_VAL
        THEN [J EXCEPT !.blocked = 1, !.cur_entry_offset_if_blocked = o]
        ELSE [J EXCEPT !.blocked = 1, !.cur_entry_offset_if_blocked = o,
                       !.word.off = BLOCKED_VAL, !.u64s[J.seq] = o]

\* bch2_journal_unblock
Unblock(J) ==
    [J EXCEPT !.blocked = @ - 1,
              !.word.off = IF J.blocked = 1 /\ J.word.off = BLOCKED_VAL
                              /\ J.cur_entry_offset_if_blocked < CLOSED_VAL
                           THEN J.cur_entry_offset_if_blocked ELSE @]

\* the early returns of journal_entry_open
CanOpenMutant(J) ==
    /\ J.word.off # ERROR_VAL
    /\ J.seq - J.seq_ondisk < JOURNAL_BUF_NR
    /\ J.seq - J.seq_write_started < JOURNAL_STATE_BUF_NR
    /\ J.seq < MaxSeq

CanOpen(J) ==
    /\ J.blocked = 0
    /\ J.word.off # ERROR_VAL
    /\ J.seq - J.seq_ondisk < JOURNAL_BUF_NR
    /\ J.seq - J.seq_write_started < JOURNAL_STATE_BUF_NR
    /\ J.seq < MaxSeq

\* wake_up(&j->wait)
WakeMutant == UNCHANGED fl

Wake == fl' = [f \in Flushers |-> [fl[f] EXCEPT !.woken = "yes"]]

Go(p, l) == pc' = [pc EXCEPT ![p] = l]

----------------------------------------------------------------------------
(* bch2_journal_res_get *)

\* journal_res_get_fast: read the word
Start(t) ==
    /\ pc[t] = "idle"
    /\ \E u \in ResSizes : res' = [res EXCEPT ![t] = [NoRes EXCEPT !.u64s = u]]
    /\ old' = [old EXCEPT ![t] = j.word]
    /\ Go(t, "check")
    /\ UNCHANGED <<j, lock, buf_lock, inside, fl>>

\* is there room, and does the count not overflow?
Room(t) == old[t].off + res[t].u64s <= j.cur_entry_u64s

NoOverflowMutant(t) == TRUE

NoOverflow(t) == StateInc(old[t]).count[old[t].idx] # 0

Check(t) ==
    /\ pc[t] = "check"
    /\ Go(t, IF Room(t) /\ NoOverflow(t) THEN "cas" ELSE IF lock = t THEN "close" ELSE "slow")
    /\ UNCHANGED <<j, lock, buf_lock, old, res, inside, fl>>

\* atomic64_try_cmpxchg
Cas(t) ==
    /\ pc[t] = "cas"
    /\ IF j.word = old[t]
       THEN /\ j' = [j EXCEPT !.word = [StateInc(old[t]) EXCEPT !.off = @ + res[t].u64s]]
            /\ inside' = [inside EXCEPT ![t] = j.seq]
            /\ Go(t, "seq")
            /\ UNCHANGED old
       ELSE /\ old' = [old EXCEPT ![t] = j.word]
            /\ Go(t, "check")
            /\ UNCHANGED <<j, inside>>
    /\ UNCHANGED <<lock, buf_lock, res, fl>>

\* the entry's sequence number, from the index in the word and a later j->seq
ResSeqMutant(t) == j.seq

ResSeq(t) == j.seq - ((j.seq - old[t].idx) % JOURNAL_STATE_BUF_NR)

GotRes(t) ==
    /\ pc[t] = "seq"
    /\ res' = [res EXCEPT ![t].seq = ResSeq(t), ![t].off = old[t].off]
    /\ old' = [old EXCEPT ![t] = Zero]
    /\ lock' = IF lock = t THEN NoProc ELSE lock
    /\ Go(t, "held")
    /\ UNCHANGED <<j, buf_lock, inside, fl>>

\* __journal_res_get, before it takes the lock
Slow(t) ==
    /\ pc[t] = "slow"
    /\ \/ /\ j.word.off = ERROR_VAL
          /\ res' = [res EXCEPT ![t] = NoRes]
          /\ old' = [old EXCEPT ![t] = Zero]
          /\ Go(t, "idle")
       \/ /\ j.word.off # ERROR_VAL /\ j.blocked = 0
          /\ j.seq - j.seq_ondisk < JOURNAL_BUF_NR \/ IsOpen(j.word)
          /\ Go(t, "lock")
          /\ UNCHANGED <<res, old>>
    /\ UNCHANGED <<j, lock, buf_lock, inside, fl>>

\* and after: the fast path again
SlowLock(t) ==
    /\ pc[t] = "lock" /\ lock = NoProc
    /\ lock' = t
    /\ old' = [old EXCEPT ![t] = j.word]
    /\ Go(t, "check")
    /\ UNCHANGED <<j, buf_lock, res, inside, fl>>

\* __journal_entry_close: mark the entry closed or the journal halted ...
EntryClose(p, val, next) ==
    /\ j' = [j EXCEPT !.word = CloseWord(@, val)]
    /\ old' = [old EXCEPT ![p] = j.word]
    /\ Go(p, IF IsOpen(j.word) THEN "put" ELSE next)
    /\ UNCHANGED <<buf_lock, res, inside, fl>>

\* ... then fill in its size and drop the reference the open entry holds; an
\* entry larger than it may be halts the journal and is never written
EntryClosePut(p, next) ==
    /\ pc[p] = "put"
    /\ LET o == IF old[p].off = BLOCKED_VAL THEN j.cur_entry_offset_if_blocked ELSE old[p].off
           e == [j EXCEPT !.u64s[j.seq] = o]
           J == StateBufPut(e, j.seq)
       IN  IF o > j.size[j.seq]
           THEN j' = [e EXCEPT !.word.off = ERROR_VAL] /\ Wake
           ELSE IF J.word.count[Slot(j.seq)] = 0
           THEN j' = PutFinal(J, j.seq) /\ Wake
           ELSE j' = J /\ UNCHANGED fl
    /\ old' = [old EXCEPT ![p] = Zero]
    /\ Go(p, next)
    /\ UNCHANGED <<buf_lock, res, inside>>

\* no room in the open entry: close it
ResClose(t) ==
    /\ pc[t] = "close"
    /\ EntryClose(t, CLOSED_VAL, "open")
    /\ UNCHANGED lock

ResClosePut(t) == EntryClosePut(t, "open") /\ UNCHANGED lock

\* journal_entry_open: the sequence number and the size are there before the
\* word says the entry is open
EntryOpen(t) ==
    /\ pc[t] = "open"
    /\ \/ /\ ~CanOpen(j)
          /\ lock' = NoProc
          /\ Go(t, "slow")
          /\ UNCHANGED j
       \/ /\ CanOpen(j)
          /\ \E u \in EntrySizes :
               j' = [j EXCEPT !.seq = @ + 1, !.cur_entry_u64s = u, !.size[j.seq + 1] = u,
                              !.pinned = @ \cup {j.seq + 1}, !.need_wb = @ \cup {j.seq + 1}]
          /\ Go(t, "publish")
          /\ UNCHANGED lock
    /\ old' = [old EXCEPT ![t] = Zero]
    /\ UNCHANGED <<buf_lock, res, inside, fl>>

\* new.idx++
NextIdxMutant == j.word.idx

NextIdx == (j.word.idx + 1) % JOURNAL_STATE_BUF_NR

EntryPublish(t) ==
    /\ pc[t] = "publish"
    /\ j' = [j EXCEPT !.word = StateInc([@ EXCEPT !.idx = NextIdx, !.off = 0])]
    /\ lock' = NoProc
    /\ old' = [old EXCEPT ![t] = j'.word]
    /\ Go(t, "check")
    /\ Wake
    /\ UNCHANGED <<buf_lock, res, inside>>

\* bch2_journal_res_put: the atomic subtraction
ResPut(t) ==
    /\ pc[t] = "held"
    /\ j' = StateBufPut(j, res[t].seq)
    /\ inside' = [inside EXCEPT ![t] = 0]
    /\ IF j'.word.count[Slot(res[t].seq)] = 0
       THEN /\ Go(t, "final")
            /\ UNCHANGED <<res, fl>>
       ELSE /\ Go(t, "idle")
            /\ res' = [res EXCEPT ![t] = NoRes]
            /\ IF j.word.off = BLOCKED_VAL THEN Wake ELSE UNCHANGED fl
    /\ UNCHANGED <<lock, buf_lock, old>>

\* ... and bch2_journal_buf_put_final, under the lock
ResPutFinal(t) ==
    /\ pc[t] = "final" /\ lock = NoProc
    /\ j' = PutFinal(j, res[t].seq)
    /\ res' = [res EXCEPT ![t] = NoRes]
    /\ Go(t, "idle")
    /\ Wake
    /\ UNCHANGED <<lock, buf_lock, old, inside>>

----------------------------------------------------------------------------
(* Closing, halting and writing entries *)

\* journal_write_work
WorkClose ==
    /\ pc[Worker] = "idle" /\ lock = NoProc
    /\ IsOpen(j.word)
    /\ lock' = Worker
    /\ EntryClose(Worker, CLOSED_VAL, "open")

\* bch2_journal_halt
Halt ==
    /\ pc[Worker] = "idle" /\ lock = NoProc
    /\ Errors = "errors" /\ j.word.off # ERROR_VAL
    /\ lock' = Worker
    /\ EntryClose(Worker, ERROR_VAL, "open")

WorkPut == EntryClosePut(Worker, "open") /\ UNCHANGED lock

WorkUnlock ==
    /\ pc[Worker] = "open"
    /\ lock' = NoProc
    /\ Go(Worker, "idle")
    /\ old' = [old EXCEPT ![Worker] = Zero]
    /\ UNCHANGED <<j, buf_lock, res, inside, fl>>

\* bch2_journal_write: bch2_journal_write_prep under buf_lock, then allocation
JournalWrite(s) ==
    /\ j.stage[s] = "started"
    /\ buf_lock = NoProc /\ lock = NoProc
    /\ j' = DoWrites([j EXCEPT !.stage[s] = "allocated", !.need_wb = @ \ {s}])
    /\ UNCHANGED <<lock, buf_lock, pc, old, res, inside, fl>>

\* journal_write_done
JournalWriteDone(s) ==
    /\ j.stage[s] = "allocated" /\ lock = NoProc
    /\ LET d == [j EXCEPT !.stage[s] = "done"]
           e == Max({i \in j.seq_ondisk .. j.seq :
                       \A k \in j.seq_ondisk + 1 .. i : d.stage[k] = "done"})
       IN  /\ j' = DoWrites([d EXCEPT !.seq_ondisk = e])
           /\ IF e > j.seq_ondisk THEN Wake ELSE UNCHANGED fl
    /\ UNCHANGED <<lock, buf_lock, pc, old, res, inside>>

----------------------------------------------------------------------------
(* The btree write buffer: fetch_wb_keys_from_journal *)

\* the locals of a finished fetch; unblocking wakes the others
Reset(f) ==
    [g \in Flushers |-> IF g = f THEN NoFl
                        ELSE IF fl[f].blocked = "yes" THEN [fl[g] EXCEPT !.woken = "yes"] ELSE fl[g]]

\* __bch2_next_write_buffer_flush_journal_buf: the first entry whose keys have
\* not been fetched, and the word as it is now ...
Fetch(f) ==
    /\ pc[f] = "idle" \/ (pc[f] = "wait" /\ fl[f].woken = "yes")
    /\ lock = NoProc /\ buf_lock = NoProc
    /\ LET todo == (j.seq_ondisk + 1 .. j.seq) \cap j.need_wb
       IN  IF todo = {}
           THEN /\ pc[f] = "wait"
                /\ fl' = Reset(f)
                /\ j' = IF fl[f].blocked = "yes" THEN Unblock(j) ELSE j
                /\ Go(f, "idle")
                /\ UNCHANGED <<lock, buf_lock, old>>
           ELSE /\ lock' = f /\ buf_lock' = f
                /\ fl' = [fl EXCEPT ![f].seq = Min(todo), ![f].woken = "no"]
                /\ old' = [old EXCEPT ![f] = j.word]
                /\ Go(f, "block")
                /\ UNCHANGED j
    /\ UNCHANGED <<res, inside>>

\* reservations other than the reference of an open entry, in the word read
StillReservedMutant(f, open) == old[f].count[Slot(fl[f].seq)] > 1

StillReserved(f, open) == old[f].count[Slot(fl[f].seq)] > open

\* ... then block the journal if the entry is open, and look at the count
FetchBlock(f) ==
    /\ pc[f] = "block"
    /\ LET open  == IF fl[f].seq = j.seq /\ IsOpen(old[f]) THEN 1 ELSE 0
           block == open = 1 /\ fl[f].blocked = "no"
           again == StillReserved(f, open)
       IN  /\ j' = IF block THEN Block(j) ELSE j
           /\ fl' = [fl EXCEPT ![f].blocked = IF block THEN "yes" ELSE @,
                               ![f].seq = IF again THEN 0 ELSE @]
           /\ buf_lock' = IF again THEN NoProc ELSE f
           /\ Go(f, IF again THEN "wait" ELSE "have")
    /\ lock' = NoProc
    /\ old' = [old EXCEPT ![f] = Zero]
    /\ UNCHANGED <<res, inside>>

\* the keys have been copied: bch2_journal_keys_to_write_buffer returns
FetchDone(f) ==
    /\ pc[f] = "have" /\ lock = NoProc
    /\ j' = IF fl[f].blocked = "yes" THEN Unblock(j)
            ELSE [j EXCEPT !.need_wb = @ \ {fl[f].seq}]
    /\ fl' = Reset(f)
    /\ buf_lock' = NoProc
    /\ Go(f, "idle")
    /\ UNCHANGED <<lock, old, res, inside>>

----------------------------------------------------------------------------
(* bch2_journal_block *)

BlockStart(b) ==
    /\ pc[b] = "idle" /\ lock = NoProc
    /\ j' = Block(j)
    /\ Go(b, "quiesce")
    /\ UNCHANGED <<lock, buf_lock, old, res, inside, fl>>

\* journal_quiesced, and journal_entry_want_write when it is not
Quiesced(b) ==
    /\ pc[b] = "quiesce" /\ lock # b
    /\ \/ /\ j.seq = j.seq_ondisk
          /\ Go(b, "blocked")
          /\ UNCHANGED <<j, lock, old, buf_lock, res, inside, fl>>
       \/ /\ j.seq # j.seq_ondisk /\ lock = NoProc
          /\ IsOpen(j.word) /\ j.seq = j.seq_ondisk + 1
          /\ lock' = b
          /\ EntryClose(b, CLOSED_VAL, "quiesce")

QuiescePut(b) == EntryClosePut(b, "quiesce") /\ lock' = NoProc

BlockEnd(b) ==
    /\ pc[b] = "blocked" /\ lock = NoProc
    /\ j' = Unblock(j)
    /\ Go(b, "idle")
    /\ Wake
    /\ UNCHANGED <<lock, buf_lock, old, res, inside>>

----------------------------------------------------------------------------

ThreadStep(t) ==
    \/ Check(t) \/ Cas(t) \/ GotRes(t) \/ Slow(t) \/ SlowLock(t)
    \/ ResClose(t) \/ ResClosePut(t) \/ EntryOpen(t) \/ EntryPublish(t)
    \/ ResPut(t) \/ ResPutFinal(t)

WriteStep == \E s \in 1 .. j.seq : JournalWrite(s) \/ JournalWriteDone(s)

FetchStep(f) == Fetch(f) \/ FetchBlock(f) \/ FetchDone(f)

BlockStep(b) == Quiesced(b) \/ QuiescePut(b)

Next ==
    \/ \E t \in Threads : Start(t) \/ ThreadStep(t)
    \/ WorkClose \/ Halt \/ WorkPut \/ WorkUnlock
    \/ WriteStep
    \/ \E f \in Flushers : FetchStep(f)
    \/ \E b \in Blockers : BlockStart(b) \/ BlockStep(b) \/ BlockEnd(b)

Spec == Init /\ [][Next]_vars

\* Every task that has started something goes on with it, the spinlock and the
\* mutex do not starve a task, the disk completes writes, and the delayed work
\* closes an open entry sooner or later.
Fairness ==
    /\ \A t \in Threads : SF_vars(ThreadStep(t))
    /\ SF_vars(WorkClose) /\ WF_vars(WorkPut) /\ WF_vars(WorkUnlock)
    /\ SF_vars(WriteStep)
    /\ \A f \in Flushers : SF_vars(FetchStep(f))
    /\ \A b \in Blockers : SF_vars(BlockStep(b))

FairSpec == Spec /\ Fairness

----------------------------------------------------------------------------
(* Properties *)

\* The reservation is in the entry its sequence number says, although
\* journal_res_get_fast reads j->seq after taking it, when newer entries may
\* have been opened: the key is journalled, and pinned, where it was written.
ResSeqCorrect == \A t \in Threads : pc[t] = "held" => res[t].seq = inside[t]

\* No entry is being written while a task still has a reservation in it.
WrittenEntryQuiesced ==
    \A s \in 1 .. j.seq : j.stage[s] # "open" => \A t \in Threads : inside[t] # s

\* The count in the word for each of the entries that may have reservations is
\* the number of its holders, plus the reference of the entry while it is open:
\* the count does not overflow into a neighbouring field and is not dropped twice.
Holding(s) == {t \in Threads : inside[t] = s}

OpenRef(s) ==
    /\ s = j.seq
    /\ \/ IsOpen(j.word) /\ \A t \in Threads : pc[t] # "publish"
       \/ \E p \in Procs : pc[p] = "put"
       \/ j.u64s[s] > j.size[s]

CountsMatch ==
    \A s \in 1 .. j.seq :
      s > j.seq - JOURNAL_STATE_BUF_NR /\ ~(\E t \in Threads : pc[t] = "publish" /\ s = j.seq)
        => j.word.count[Slot(s)] = Cardinality(Holding(s)) + IF OpenRef(s) THEN 1 ELSE 0

\* An entry's pin is dropped by bch2_journal_buf_put_final, once: not before
\* its last reservation is gone, and no entry stays pinned when nobody is left
\* to drop the pin.
PinAccounted ==
    \A s \in 1 .. j.seq :
      s \in j.pinned <=> \/ Holding(s) # {}
                       \/ OpenRef(s)
                       \/ \E t \in Threads : (pc[t] = "final" /\ res[t].seq = s)
                                              \/ (pc[t] = "publish" /\ s = j.seq)

\* The assertions of journal_entry_open and journal_res_get_fast hold.
NoBug ==
    /\ \A t \in Threads : pc[t] = "open" => ~IsOpen(j.word)
    /\ \A t \in Threads : pc[t] = "publish" =>
         /\ j.word.off # ERROR_VAL
         /\ j.word.count[NextIdx] = 0
         /\ NextIdx = Slot(j.seq)
    /\ \A t \in Threads : pc[t] = "cas" => old[t].count[old[t].idx] # 0

\* A journal entry does not overrun its reserved space: the "fatal error" in
\* __journal_entry_close is never reached.
EntryFits == \A s \in 1 .. j.seq : j.u64s[s] <= j.size[s]

\* When bch2_journal_block returns, everything has been written and no
\* reservation is left, until bch2_journal_unblock.
BlockQuiesces ==
    \A b \in Blockers : pc[b] = "blocked" =>
      j.seq = j.seq_ondisk /\ ~IsOpen(j.word) /\ \A t \in Threads : inside[t] = 0

\* The write buffer takes keys from a closed entry only when the last
\* reservation in it is gone.
ClosedFetchQuiesced ==
    \A f \in Flushers : pc[f] = "have" /\ fl[f].blocked = "no" => Holding(fl[f].seq) = {}

\* The same for an entry that is still open, which it blocks first: buf->data
\* is accessed "without a journal reservation" under buf_lock, "when quiescing
\* an open journal entry".
FetchQuiesced == \A f \in Flushers : pc[f] = "have" => Holding(fl[f].seq) = {}

\* bch2_journal_block returns.
BlockReturns == \A b \in Blockers : pc[b] = "quiesce" ~> pc[b] = "blocked"

\* bch2_next_write_buffer_flush_journal_buf returns: although it decides to
\* sleep from a count that may be out of date, and nobody wakes it for a
\* reservation dropped before the journal was blocked, closing the entry does.
FetchReturns == \A f \in Flushers : pc[f] = "wait" ~> pc[f] \in {"idle", "have"}

=============================================================================
