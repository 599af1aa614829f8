------------------------------ MODULE Journal ------------------------------
(***************************************************************************)
(* The bcachefs journal and the btree nodes it protects, from the          *)
(* transaction that takes a reservation to the recovery that replays it.   *)
(*                                                                         *)
(* A journal entry is opened, filled through reservations, closed,         *)
(* written in order, and completed in order (journal.c, journal_io.c).     *)
(* A btree node updated under a reservation pins the entry until the node  *)
(* has been written and the pointer to it updated (btree_io.c); pinned     *)
(* entries hold back last_seq, the oldest entry recovery must replay       *)
(* (journal_reclaim.c).  The disk has a volatile write cache: only a flush *)
(* write makes earlier writes durable.  After a crash recovery reads what  *)
(* is left, finds the newest flush entry, blacklists what is newer and     *)
(* replays from its last_seq (journal_io.c, recovery.c).                   *)
(*                                                                         *)
(* struct journal is the record j; the functions that take a struct        *)
(* journal * under j->lock are operators from j to j, and one action is    *)
(* one critical section of that lock.  An update is identified by the      *)
(* sequence number of the entry that holds it: the content of a node is a  *)
(* set of sequence numbers.                                                *)
(***************************************************************************)
EXTENDS Integers, Sequences, FiniteSets, FiniteSetsExt

CONSTANTS
    Threads,            \* tasks that commit btree transactions
    Nodes,              \* btree nodes
    Parent,             \* [Nodes -> Nodes \cup {NoNode}], NoNode for a root;
                        \* two levels
    NoNode,
    JOURNAL_BUF_NR,     \* entries in flight
    JOURNAL_STATE_BUF_NR, \* entries that may still have reservations
    JOURNAL_PIN,        \* size of the pin fifo
    JournalSkip,        \* sequence numbers skipped after an unclean shutdown
    TornWrites,         \* "torn" when a crash can leave half an entry behind
    Faults,             \* "faults" when writes can fail and the journal halt
    SeqMax,             \* bound: the largest sequence number
    SeqsPerMount,       \* bound: entries opened between two crashes
    MaxBsets,           \* bound: bsets of a node
    MaxCrashes          \* bound

ASSUME JournalAssumption ==
    /\ Threads \cap Nodes = {}
    /\ NoNode \notin Nodes
    /\ Parent \in [Nodes -> Nodes \cup {NoNode}]
    /\ \A n \in Nodes : Parent[n] \in Nodes => Parent[Parent[n]] = NoNode
    /\ JOURNAL_BUF_NR \in Nat \ {0}
    /\ JOURNAL_STATE_BUF_NR \in Nat \ {0}
    /\ JOURNAL_PIN \in Nat \ {0}
    /\ JournalSkip \in Nat \ {0}
    /\ SeqMax \in Nat \ {0}
    /\ SeqsPerMount \in Nat \ {0}
    /\ MaxBsets \in Nat \ {0}
    /\ MaxCrashes \in Nat

VARIABLES
    j,          \* struct journal and its journal_bufs
    jset,       \* [Seqs -> contents of the entry, in memory or on disk]
    media,      \* [Seqs -> where the entry's write has got to]
    res,        \* [Holders -> the entry the reservation is in, 0 for none]
    did,        \* the holders whose reservation has been used
    dirty,      \* [Nodes -> updates not yet in a bset]
    wr,         \* [Nodes -> state of the node's write]
    bsets,      \* [Nodes -> the bsets written, in order, each a set of updates]
    flushed,    \* [Nodes -> how many of them the disk cache no longer holds]
    roots,      \* c->btree_roots: [Nodes -> sectors_written of the root]
    replay,     \* [Nodes -> updates journal replay has still to insert]
    blacklist,  \* blacklisted sequence numbers
    hist,       \* history: [Nodes -> every update made to the node]
    crashes

vars == <<j, jset, media, res, did, dirty, wr, bsets, flushed, roots, replay,
          blacklist, hist, crashes>>

nodevars == <<dirty, wr, bsets, flushed>>
recvars  == <<replay, blacklist, crashes>>

Holders == Threads \cup Nodes
Seqs    == 1 .. SeqMax
Stages  == {"free", "open", "started", "allocated", "submitted", "done", "failed"}

\* struct journal
JournalState ==
    [seq : 0 .. SeqMax, mount_seq : 0 .. SeqMax, cur : {"open", "closed", "error"},
     front : 1 .. SeqMax + 1, seq_ondisk : 0 .. SeqMax, started : 0 .. SeqMax,
     flushed_seq_ondisk : 0 .. SeqMax, last_seq_ondisk : 0 .. SeqMax + 1,
     err_seq : 0 .. SeqMax, ref : SUBSET Seqs, pin : [Nodes -> 0 .. SeqMax],
     wpin : [Nodes -> 0 .. SeqMax], stage : [Seqs -> Stages],
     holders : [Seqs -> SUBSET Holders], last_seq : [Seqs -> 0 .. SeqMax + 1]]

\* struct jset
Jset ==
    [upds : SUBSET Nodes, ptr : [Nodes -> 0 .. MaxBsets], roots : [Nodes -> 0 .. MaxBsets],
     last_seq : 0 .. SeqMax + 1, flush : {"flush", "noflush"}]

\* The type invariant: sequence numbers stay within those opened, and neither a
\* root nor a parent counts more bsets of a node than fit into it.
TypeOK ==
    /\ j \in JournalState
    /\ jset \in [Seqs -> Jset]
    /\ media \in [Seqs -> {"none", "inflight", "torn", "cache", "durable"}]
    /\ res \in [Holders -> 0 .. SeqMax]
    /\ did \in SUBSET Holders
    /\ dirty \in [Nodes -> SUBSET Seqs]
    /\ wr \in [Nodes -> {"idle", "io", "key", "keydone"}]
    /\ bsets \in [Nodes -> Seq(SUBSET Seqs)]
    /\ \A n \in Nodes : Len(bsets[n]) <= MaxBsets
    /\ flushed \in [Nodes -> Int]
    /\ roots \in [Nodes -> 0 .. MaxBsets]
    /\ replay \in [Nodes -> SUBSET Seqs]
    /\ blacklist \in SUBSET Seqs
    /\ hist \in [Nodes -> SUBSET Seqs]
    /\ crashes \in 0 .. MaxCrashes

----------------------------------------------------------------------------
(* Pins: journal_reclaim.c *)

PinnedMutant(J, s) == \E n \in Nodes : J.pin[n] = s \/ J.wpin[n] = s

\* the entry's reference count is not 0: __bch2_journal_pin_put
Pinned(J, s) == s \in J.ref \/ \E n \in Nodes : J.pin[n] = s \/ J.wpin[n] = s

\* bch2_journal_reclaim_fast: pop written, unpinned entries off the pin fifo
ReclaimFast(J) ==
    [J EXCEPT !.front = Min({f \in J.front .. J.seq + 1 :
                               f > J.seq_ondisk \/ Pinned(J, f)})]

PinDrop(J, n) == ReclaimFast([J EXCEPT !.wpin[n] = 0])

\* bch2_journal_pin_add: a pin is only ever moved to an older entry
PinAddMutant(J, n, s) ==
    IF J.pin[n] = 0 \/ J.pin[n] < s THEN [J EXCEPT !.pin[n] = s] ELSE J

PinAdd(J, n, s) ==
    IF J.pin[n] = 0 \/ J.pin[n] > s THEN [J EXCEPT !.pin[n] = s] ELSE J

----------------------------------------------------------------------------
(* Opening, closing and halting: journal.c *)

Refs(J, s) == J.holders[s] # {} \/ (s = J.seq /\ J.cur = "open")

WriteAllocated == {"allocated", "submitted", "done"}
WriteDone      == {"done", "failed"}

\* bch2_journal_do_writes: start the first entry not yet allocated, if closed
DoWrites(J) ==
    LET todo == {s \in J.seq_ondisk + 1 .. J.seq : J.stage[s] \notin WriteAllocated}
        s    == Min(todo)
    IN  IF todo # {} /\ J.stage[s] = "open" /\ ~Refs(J, s)
        THEN [J EXCEPT !.stage[s] = "started", !.started = s]
        ELSE J

\* bch2_journal_buf_put_final
PutFinal(J, s) == DoWrites(ReclaimFast([J EXCEPT !.ref = @ \ {s}]))

\* __journal_entry_close.  The entry's last_seq is read here, before any
\* newer entry can be opened.
EntryClose(J, val) ==
    LET closed == [J EXCEPT !.cur = val, !.last_seq[J.seq] = J.front]
    IN  IF J.cur \in {"error", val} THEN J
        ELSE IF J.cur = "closed" THEN [J EXCEPT !.cur = val]
        ELSE IF J.holders[J.seq] = {} THEN PutFinal(closed, J.seq) ELSE closed

\* bch2_journal_halt_locked
Halt(J) ==
    LET e == EntryClose(J, "error")
    IN  [e EXCEPT !.err_seq = IF @ = 0 THEN J.seq ELSE @]

\* journal_entry_open, after its early returns
EntryOpen(J) ==
    LET s == J.seq + 1
    IN  [J EXCEPT !.seq = s, !.cur = "open", !.ref = @ \cup {s}, !.stage[s] = "open"]

CanOpen(J) ==
    /\ J.seq + 1 - J.front < JOURNAL_PIN
    /\ J.seq - J.seq_ondisk < JOURNAL_BUF_NR
    /\ J.seq - J.started < JOURNAL_STATE_BUF_NR
    /\ J.seq < J.mount_seq + SeqsPerMount /\ J.seq < SeqMax

BufGet(J, h) == [J EXCEPT !.holders[J.seq] = @ \cup {h}]

\* bch2_journal_res_put
BufPut(J, h, s) ==
    LET p == [J EXCEPT !.holders[s] = @ \ {h}]
    IN  IF Refs(p, s) THEN p ELSE PutFinal(p, s)

\* journal_write_done.  Completions are processed in order of sequence
\* number, whatever the order the writes finish in.
Complete(J, s, stage, err) ==
    LET a  == IF err THEN Halt(J) ELSE J
        b  == [a EXCEPT !.stage[s] = stage,
                        !.err_seq = IF err /\ s < @ THEN s ELSE @]
        e  == Max({i \in b.seq_ondisk .. b.seq :
                     \A k \in b.seq_ondisk + 1 .. i : b.stage[k] \in WriteDone})
        fl == {i \in b.seq_ondisk + 1 .. e : b.last_seq[i] # 0}
        c  == IF b.err_seq = 0 /\ fl # {}
              THEN [b EXCEPT !.flushed_seq_ondisk = Max(fl),
                             !.last_seq_ondisk = b.last_seq[Max(fl)]]
              ELSE b
        d  == [c EXCEPT !.seq_ondisk = e]
    IN  DoWrites(IF e > b.seq_ondisk THEN ReclaimFast(d) ELSE d)

----------------------------------------------------------------------------
(* Committing transactions *)

\* the contents of an entry as it is opened
EmptyJset == [upds |-> {}, ptr |-> [n \in Nodes |-> 0], roots |-> [n \in Nodes |-> 0],
              last_seq |-> 0, flush |-> "noflush"]

Init ==
    \* bch2_fs_initialize has flushed entry 1 and marked the filesystem clean
    /\ j = [seq |-> 1, mount_seq |-> 1, cur |-> "closed", front |-> 2, seq_ondisk |-> 1, started |-> 1,
            flushed_seq_ondisk |-> 1, last_seq_ondisk |-> 1, err_seq |-> 0, ref |-> {},
            pin |-> [n \in Nodes |-> 0], wpin |-> [n \in Nodes |-> 0],
            stage |-> [s \in Seqs |-> IF s = 1 THEN "done" ELSE "free"],
            holders |-> [s \in Seqs |-> {}], last_seq |-> [s \in Seqs |-> 0]]
    /\ jset = [s \in Seqs |->
                 IF s = 1 THEN [EmptyJset EXCEPT !.roots = [n \in Nodes |-> 1],
                                                 !.last_seq = 1, !.flush = "flush"]
                          ELSE EmptyJset]
    /\ media = [s \in Seqs |-> IF s = 1 THEN "durable" ELSE "none"]
    /\ res = [h \in Holders |-> 0]
    /\ did = {}
    /\ dirty = [n \in Nodes |-> {}]
    /\ wr = [n \in Nodes |-> "idle"]
    /\ bsets = [n \in Nodes |-> <<{}>>]
    /\ flushed = [n \in Nodes |-> 1]
    /\ roots = [n \in Nodes |-> 1]
    /\ replay = [n \in Nodes |-> {}]
    /\ blacklist = {}
    /\ hist = [n \in Nodes |-> {}]
    /\ crashes = 0

\* bch2_journal_replay has finished; until then only btree writes use the journal
ReplayDone == j.ref \cap 1 .. j.mount_seq = {}

\* bch2_journal_res_get: join the open entry, or open a new one
ResGet(h) ==
    /\ res[h] = 0 /\ h \notin did
    /\ IF h \in Nodes THEN wr[h] = "key" ELSE ReplayDone
    /\ \/ /\ j.cur = "open"
          /\ j' = BufGet(j, h)
          /\ UNCHANGED jset
       \/ /\ j.cur = "closed" /\ CanOpen(j)
          /\ j' = BufGet(EntryOpen(j), h)
          /\ jset' = [jset EXCEPT ![j.seq + 1] = EmptyJset]
    /\ res' = [res EXCEPT ![h] = j'.seq]
    /\ UNCHANGED <<media, did, roots, hist, nodevars, recvars>>

\* a key inserted in a node is in the next bset the node writes
NodeInsert(n, s) ==
    /\ dirty' = [dirty EXCEPT ![n] = @ \cup {s}]
    /\ hist' = [hist EXCEPT ![n] = @ \cup {s}]

\* the insert of bch2_trans_commit: journal the key, insert it, pin the entry
Insert(t, n) ==
    /\ \A m \in Nodes : Parent[m] # n
    /\ res[t] # 0 /\ t \notin did
    /\ NodeInsert(n, res[t])
    /\ j' = PinAdd(j, n, res[t])
    /\ jset' = [jset EXCEPT ![res[t]].upds = @ \cup {n}]
    /\ did' = did \cup {t}
    /\ UNCHANGED <<media, res, wr, bsets, flushed, roots, recvars>>

ResPut(h) ==
    /\ h \in did
    /\ j' = BufPut(j, h, res[h])
    /\ res' = [res EXCEPT ![h] = 0]
    /\ did' = did \ {h}
    /\ UNCHANGED <<jset, media, roots, hist, nodevars, recvars>>

\* __journal_res_get when the entry is full, journal_write_work,
\* bch2_journal_flush_seq_async, bch2_journal_entry_close
Close ==
    /\ j.cur = "open"
    /\ j' = EntryClose(j, "closed")
    /\ UNCHANGED <<jset, media, res, did, roots, hist, nodevars, recvars>>

\* bch2_fs_emergency_read_only
EmergencyReadOnly ==
    /\ Faults = "faults"
    /\ j.cur # "error"
    /\ j' = Halt(j)
    /\ UNCHANGED <<jset, media, res, did, roots, hist, nodevars, recvars>>

----------------------------------------------------------------------------
(* Writing journal entries: journal_io.c *)

LastSeqMutant(s) == j.front

\* bch2_journal_write_pick_flush: a flush entry is written with the last_seq it
\* was closed with
LastSeq(s) == j.last_seq[s]

\* bch2_journal_write: bch2_journal_write_prep, bch2_journal_write_pick_flush
\* and journal_write_alloc.  Whether a write may go without a flush depends
\* on the clock and on the space in the journal, not modelled here; after an
\* error it always does.
JournalWrite(s) ==
    /\ j.stage[s] = "started"
    /\ roots' = [n \in Nodes |-> IF jset[s].ptr[n] # 0 /\ Parent[n] = NoNode
                                 THEN jset[s].ptr[n] ELSE roots[n]]
    /\ \E flush \in IF j.cur = "error" THEN {"noflush"} ELSE {"flush", "noflush"} :
         LET last == IF flush = "flush" THEN LastSeq(s) ELSE 0
         IN  /\ jset' = [jset EXCEPT ![s].roots = roots', ![s].flush = flush,
                                     ![s].last_seq = last]
             /\ j' = DoWrites([j EXCEPT !.stage[s] = "allocated", !.last_seq[s] = last])
    /\ UNCHANGED <<media, res, did, hist, nodevars, recvars>>

\* ... when no device has room for it
JournalWriteFail(s) ==
    /\ Faults = "faults"
    /\ j.stage[s] = "started"
    /\ j' = Complete(j, s, "failed", TRUE)
    /\ UNCHANGED <<jset, media, res, did, roots, hist, nodevars, recvars>>

\* journal_write_preflush: wait for previous journal writes to complete
FlushReadyMutant(s) == TRUE

FlushReady(s) == j.seq_ondisk + 1 = s

\* what a cache flush makes durable of a node: every bset whose write has finished
FlushedBsets(n) == IF wr[n] = "io" THEN Len(bsets[n]) - 1 ELSE Len(bsets[n])

\* journal_write_preflush, journal_write_submit.  A flush write waits for
\* every earlier entry, then flushes the disk's cache before its own write.
JournalSubmit(s) ==
    /\ j.stage[s] = "allocated"
    /\ j' = [j EXCEPT !.stage[s] = "submitted"]
    /\ \/ /\ jset[s].flush = "noflush"
          /\ media' = [media EXCEPT ![s] = "inflight"]
          /\ UNCHANGED flushed
       \/ /\ jset[s].flush = "flush" /\ FlushReady(s)
          /\ media' = [i \in Seqs |-> IF i = s THEN "inflight"
                                      ELSE IF media[i] = "cache" THEN "durable" ELSE media[i]]
          /\ flushed' = [n \in Nodes |-> FlushedBsets(n)]
    /\ UNCHANGED <<jset, res, did, roots, hist, dirty, wr, bsets, recvars>>

\* journal_write_endio and journal_write_done; a flush write is REQ_FUA
JournalWriteDone(s, err) ==
    /\ err => Faults = "faults"
    /\ j.stage[s] = "submitted"
    /\ j' = Complete(j, s, "done", err)
    /\ media' = [media EXCEPT ![s] = IF jset[s].flush = "flush" /\ ~err
                                     THEN "durable" ELSE "cache"]
    /\ UNCHANGED <<jset, res, did, roots, hist, nodevars, recvars>>

----------------------------------------------------------------------------
(* Writing btree nodes: btree_io.c *)

\* __bch2_btree_node_write; with the journal halted it writes nothing
NodeWrite(n) ==
    /\ dirty[n] # {} /\ wr[n] = "idle"
    /\ dirty' = [dirty EXCEPT ![n] = {}]
    /\ LET J == [j EXCEPT !.wpin[n] = j.pin[n], !.pin[n] = 0]
       IN  \/ /\ j.cur = "error"
              /\ j' = PinDrop(J, n)
              /\ UNCHANGED <<wr, bsets>>
           \/ /\ j.cur # "error" /\ Len(bsets[n]) < MaxBsets
              /\ j' = J
              /\ wr' = [wr EXCEPT ![n] = "io"]
              /\ bsets' = [bsets EXCEPT ![n] = Append(@, dirty[n])]
    /\ UNCHANGED <<jset, media, res, did, flushed, roots, hist, recvars>>

\* btree_node_write_endio, at least one replica written
AfterEndio == "key"

NodeWriteEndio(n) ==
    /\ wr[n] = "io"
    /\ wr' = [wr EXCEPT ![n] = AfterEndio]
    /\ UNCHANGED <<j, jset, media, res, did, dirty, bsets, flushed, roots, hist, recvars>>

\* b->written, in bsets
WrittenMutant(n) == Len(bsets[n]) + 1

Written(n) == Len(bsets[n])

\* bch2_btree_node_update_key, committing sectors_written to the parent, or to
\* a root entry of the journal
UpdateKey(n) ==
    /\ wr[n] = "key" /\ res[n] # 0
    /\ LET s == res[n]
           e == [jset EXCEPT ![s].ptr[n] = Written(n)]
       IN  IF Parent[n] = NoNode
           THEN /\ jset' = e
                /\ j' = BufPut(j, n, s)
                /\ UNCHANGED <<dirty, hist>>
           ELSE /\ jset' = [e EXCEPT ![s].upds = @ \cup {Parent[n]}]
                /\ j' = BufPut(PinAdd(j, Parent[n], s), n, s)
                /\ NodeInsert(Parent[n], s)
    /\ res' = [res EXCEPT ![n] = 0]
    /\ wr' = [wr EXCEPT ![n] = "keydone"]
    /\ UNCHANGED <<media, did, bsets, flushed, roots, recvars>>

\* btree_node_write_work failing: every replica failed, which is fatal, or the
\* journal halted before the pointer could be updated
WriteErr(J) == Halt(J)

NodeWriteErr(n) ==
    /\ \/ wr[n] = "io" /\ Faults = "faults"
       \/ wr[n] = "key" /\ res[n] = 0 /\ j.cur = "error"
    /\ wr' = [wr EXCEPT ![n] = "keydone"]
    /\ j' = WriteErr(j)
    /\ UNCHANGED <<jset, media, res, did, dirty, bsets, flushed, roots, hist, recvars>>

\* btree_node_write_done
NodeWriteDone(n) ==
    /\ wr[n] = "keydone"
    /\ wr' = [wr EXCEPT ![n] = "idle"]
    /\ j' = PinDrop(j, n)
    /\ UNCHANGED <<jset, media, res, did, dirty, bsets, flushed, roots, hist, recvars>>

----------------------------------------------------------------------------
(* Crash and recovery: journal_io.c, recovery.c *)

\* What a crash may leave of the journal: any part of what the disk's cache
\* held or was being written; and the buckets of entries older than
\* last_seq_ondisk may have been discarded or overwritten, oldest first.
JournalOutcomes ==
    LET vol == {s \in Seqs : media[s] \in {"cache", "inflight"}}
        tearable == {s \in vol : TornWrites = "torn" /\ media[s] = "inflight"}
    IN  {[s \in Seqs |-> IF s < cut \/ s \in lost THEN "none"
                         ELSE IF s \in torn THEN "torn"
                         ELSE IF s \in vol THEN "durable" ELSE media[s]] :
           lost \in SUBSET vol, torn \in SUBSET tearable,
           cut \in {1, j.last_seq_ondisk}}

\* ... and of the btree nodes: the bsets that are still there
NodeOutcomes ==
    {k \in [Nodes -> SUBSET (1 .. MaxBsets)] :
       \A n \in Nodes : 1 .. flushed[n] \subseteq k[n] /\ k[n] \subseteq 1 .. Len(bsets[n])}

IsFlush(s) == jset[s].flush = "flush"

\* ignore newer non flush entries
UsableMutant(list, M) == list

Usable(list, M) ==
    LET flushes == {s \in list : IsFlush(s)}
    IN  {s \in flushes : ~(s = Max(flushes) /\ M[s] = "torn")}

\* journal_entry_add drops everything older than the last_seq of a flush entry
\* it has seen, torn or not
DropTo(found) == Max({0} \cup {jset[s].last_seq : s \in {f \in found : IsFlush(f)}})

\* bch2_journal_read of the entries in M.  The newest flush entry is what
\* recovery starts from, unless it is torn.
JournalRead(M) ==
    LET found   == {s \in Seqs : M[s] # "none"}
        list    == {s \in found : s >= DropTo(found)}
        usable  == Usable(list, M)
        newest  == IF usable = {} THEN 0 ELSE Max(usable)
        last    == IF usable = {} THEN 0 ELSE jset[newest].last_seq
        ents    == {s \in list : last <= s /\ s <= newest /\ s \notin blacklist}
    IN  [found |-> found, last_seq |-> last, newest |-> newest,
         start_seq |-> Max({0} \cup list) + 1, entries |-> ents,
         missing |-> {s \in last .. newest : s \notin ents /\ s \notin blacklist}]

\* the content of a node: bsets up to sectors_written and the keys replayed
Content(r, n, written) ==
    (UNION {bsets[n][i] : i \in 1 .. written}) \cup {s \in r.entries : n \in jset[s].upds}

\* sectors_written of a node: from the newest entry for a root, otherwise from
\* the newest version of the key in its parent
SectorsWritten(r, n) ==
    IF r.newest = 0 THEN 0
    ELSE IF Parent[n] = NoNode THEN jset[r.newest].roots[n]
    ELSE LET p    == Parent[n]
             keys == {s \in Content(r, p, jset[r.newest].roots[p]) : jset[s].ptr[n] # 0}
         IN  IF keys = {} THEN 1 ELSE jset[Max(keys)].ptr[n]

Recovered(r, n) == Content(r, n, SectorsWritten(r, n))

\* bch2_fs_recovery blacklists from the newest flush entry to where it restarts
NewBlacklistMutant(r) == {}

NewBlacklist(r) == r.newest + 1 .. r.start_seq + JournalSkip - 1

\* bch2_fs_journal_start: the fifo holds the entries to be replayed, each with
\* a reference, and everything before cur_seq counts as flushed
JournalStart(last_seq, cur_seq) ==
    [seq |-> cur_seq - 1, mount_seq |-> cur_seq - 1, cur |-> "closed", front |-> last_seq,
     seq_ondisk |-> cur_seq - 1, started |-> cur_seq - 1,
     flushed_seq_ondisk |-> cur_seq - 1, last_seq_ondisk |-> last_seq,
     err_seq |-> 0, ref |-> last_seq .. cur_seq - 1,
     pin |-> [n \in Nodes |-> 0], wpin |-> [n \in Nodes |-> 0],
     stage |-> [s \in Seqs |-> IF s < cur_seq THEN "done" ELSE "free"],
     holders |-> [s \in Seqs |-> {}], last_seq |-> [s \in Seqs |-> 0]]

\* the machine stops; bch2_fs_recovery up to bch2_fs_journal_start
Crash ==
    /\ crashes < MaxCrashes
    /\ \E M \in JournalOutcomes, k \in NodeOutcomes :
         LET r   == JournalRead(M)
             cur == r.start_seq + JournalSkip
         IN  /\ r.newest # 0 /\ cur <= SeqMax
             /\ \A n \in Nodes : 1 .. SectorsWritten(r, n) \subseteq k[n]
             /\ media' = M
             /\ j' = JournalStart(r.last_seq, cur)
             /\ bsets' = [n \in Nodes |-> SubSeq(bsets[n], 1, SectorsWritten(r, n))]
             /\ flushed' = [n \in Nodes |-> SectorsWritten(r, n)]
             /\ roots' = jset[r.newest].roots
             /\ replay' = [n \in Nodes |-> {s \in r.entries : n \in jset[s].upds}]
             /\ blacklist' = blacklist \cup NewBlacklist(r)
             /\ hist' = [n \in Nodes |-> Recovered(r, n)]
             /\ jset' = [s \in Seqs |-> IF M[s] = "none" /\ \A n \in Nodes : s \notin hist'[n]
                                        THEN EmptyJset ELSE jset[s]]
    /\ res' = [h \in Holders |-> 0]
    /\ did' = {}
    /\ dirty' = [n \in Nodes |-> {}]
    /\ wr' = [n \in Nodes |-> "idle"]
    /\ crashes' = crashes + 1

\* bch2_journal_replay_key: the update keeps the sequence number it had
ReplayKey(n, s) ==
    /\ s \in replay[n]
    /\ NodeInsert(n, s)
    /\ j' = PinAdd(j, n, s)
    /\ replay' = [replay EXCEPT ![n] = @ \ {s}]
    /\ UNCHANGED <<jset, media, res, did, wr, bsets, flushed, roots, blacklist, crashes>>

\* the keys of the entry have all been inserted
ReplayedToMutant(s) == TRUE

ReplayedTo(s) == \A n \in Nodes : \A i \in replay[n] : i > s

\* replay_now_at: unpin the oldest entry replay has finished with
ReplayPut(s) ==
    /\ s \in j.ref /\ s <= j.mount_seq
    /\ ReplayedTo(s)
    /\ \A i \in j.ref : i >= s
    /\ j' = ReclaimFast([j EXCEPT !.ref = @ \ {s}])
    /\ UNCHANGED <<jset, media, res, did, roots, hist, nodevars, recvars>>

----------------------------------------------------------------------------

Next ==
    \/ \E h \in Holders : ResGet(h)
    \/ \E t \in Threads : ResPut(t) \/ \E n \in Nodes : Insert(t, n)
    \/ Close
    \/ EmergencyReadOnly
    \/ \E s \in Seqs : \/ JournalWrite(s)
                       \/ JournalWriteFail(s)
                       \/ JournalSubmit(s)
                       \/ \E err \in BOOLEAN : JournalWriteDone(s, err)
                       \/ ReplayPut(s)
    \/ \E n \in Nodes : \/ NodeWrite(n)
                        \/ NodeWriteEndio(n)
                        \/ UpdateKey(n)
                        \/ NodeWriteDone(n)
                        \/ NodeWriteErr(n)
                        \/ \E s \in Seqs : ReplayKey(n, s)
    \/ Crash

Spec == Init /\ [][Next]_vars

----------------------------------------------------------------------------
(* Properties *)

\* Whatever a crash leaves behind, bch2_journal_read finds a flush entry and
\* every entry from its last_seq on, and reading the btree nodes finds every
\* bset their pointers count, none of them blacklisted: the fsck errors
\* journal_entries_missing, btree_node_data_missing and
\* first_bset_blacklisted_journal_seq cannot come from a crash.
NoReplayError ==
    \A M \in JournalOutcomes, k \in NodeOutcomes :
      LET r == JournalRead(M)
      IN  /\ r.newest # 0
          /\ r.missing = {}
          /\ \A n \in Nodes : \A i \in 1 .. SectorsWritten(r, n) :
               /\ i \in k[n]
               /\ bsets[n][i] = {} \/ Max(bsets[n][i]) \notin blacklist \cup NewBlacklist(r)

\* What bch2_journal_flush_seq reports as flushed survives any crash: every
\* update of an entry up to flushed_seq_ondisk is in a bset recovery can reach,
\* or is replayed.
FlushedSurvives ==
    \A M \in JournalOutcomes :
      LET r == JournalRead(M)
      IN  \A n \in Nodes :
            {s \in hist[n] : s <= j.flushed_seq_ondisk} \subseteq Recovered(r, n)

\* Recovery sees the updates of a prefix of the journal, the same prefix in
\* every node: "to guarantee order of btree updates after a crash"
\* (journal_seq_blacklist.c), although nodes are written before, after and
\* independently of the entries that hold their updates.
PrefixRecovered ==
    \A M \in JournalOutcomes :
      LET r == JournalRead(M)
      IN  \A n \in Nodes : Recovered(r, n) = {s \in hist[n] : s <= r.newest}

\* A pin is on an entry that is still in the pin fifo: the BUG_ON of
\* bch2_journal_pin_set and the EBUG_ON of journal_seq_pin do not fire, also
\* for the entries that journal replay pins again.
PinsInFifo ==
    \A n \in Nodes : \A p \in {j.pin[n], j.wpin[n]} \ {0} : j.front <= p /\ p <= j.seq

\* An entry stays in the pin fifo for as long as somebody can still pin it: a
\* transaction or a pointer update with a reservation in it, and journal replay
\* while it has keys of the entry to insert, however far node writes and
\* bch2_journal_reclaim_fast have come meanwhile.
UsersInFifo ==
    /\ \A h \in Holders : res[h] # 0 => j.front <= res[h] /\ res[h] <= j.seq
    /\ \A n \in Nodes : \A s \in replay[n] : j.front <= s /\ s <= j.seq

\* "Drop entries we don't need anymore" (journal_entry_add): what it drops is
\* older than the last_seq of the newest flush entry that can be used.
DropsOnlyUnneeded ==
    \A M \in JournalOutcomes :
      LET r == JournalRead(M)
          u == Usable(r.found, M)
      IN  u # {} => DropTo(r.found) <= jset[Max(u)].last_seq

=============================================================================
