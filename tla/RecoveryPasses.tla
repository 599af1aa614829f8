--------------------------- MODULE RecoveryPasses ---------------------------
(***************************************************************************)
(* Recovery passes (recovery_passes.c): bch2_run_recovery_passes runs the  *)
(* passes in order; while one runs, the pass itself or another task (the   *)
(* completion of a btree node read) can ask for a pass that was skipped,   *)
(* which rewinds recovery.  Passes that must run are also kept in the      *)
(* superblock, for the next mount, until they have run.                    *)
(*                                                                         *)
(* Pass numbers are the enum of recovery_passes_types.h; the masks of the  *)
(* code are sets of pass numbers.  An action is what happens between two   *)
(* releases of recovery_pass_lock or sb_lock.                              *)
(***************************************************************************)
EXTENDS Integers, Sequences

CONSTANTS
    NR,                 \* BCH_RECOVERY_PASS_NR
    set_may_go_rw,      \* BCH_RECOVERY_PASS_set_may_go_rw
    When,               \* [Passes -> when the table says they run]
    Options,            \* what a mount can meet: opts.recovery_passes_exclude, opts.
                        \* recovery_pass_last (0 when not given), the passes an upgrade, a
                        \* downgrade or topology errors require, and those that
                        \* bch2_sb_set_upgrade_extra requires
    Explicit,           \* passes asked for with bch2_run_explicit_recovery_pass
    Persistent,         \* and with bch2_run_explicit_recovery_pass_persistent
    Lost,               \* the requests bch2_btree_lost_data makes for a btree, in order
    Reconstruct,        \* the passes bch2_reconstruct_alloc requires
    Allocs,             \* whether the filesystem has alloc info at the first mount
    MaxMounts           \* bound

Passes == 0 .. NR - 1

ASSUME RecoveryPassesAssumption ==
    /\ NR \in Nat \ {0}
    /\ set_may_go_rw \in Passes
    /\ When \in [Passes -> SUBSET {"fsck", "unclean", "always", "alloc"}]
    /\ Options \subseteq [exclude : SUBSET Passes, last : Passes,
                         upgrade : SUBSET Passes, extra : SUBSET Passes]
    /\ Explicit \subseteq Passes /\ Persistent \subseteq Passes
    /\ Lost \subseteq Seq(Passes)
    /\ Reconstruct \subseteq Passes
    /\ Allocs \subseteq {"yes", "no"}
    /\ MaxMounts \in Nat \ {0}

VARIABLES
    c,          \* the fields of struct bch_fs
    ext,        \* recovery_passes_required and alloc info in the superblock in memory
    disk,       \* the same on disk, as of the last bch2_write_super; c->sb is a
                \* copy of it
    pc,         \* where bch2_run_recovery_passes is
    ret,        \* its return value
    lost,       \* the requests bch2_btree_lost_data has still to make
    sb_lock,    \* who holds c->sb_lock
    owed,       \* history: accepted requests whose pass has not succeeded since
    forgot,     \* history: those of them that a later request overwrote
    need,       \* history: what the superblock was made to require, or required at the
                \* mount, and has not succeeded since
    ran,        \* history: <<p, q>> when q ran in this mount, not before p's last
                \* run
    mounts

vars == <<c, ext, disk, pc, ret, lost, sb_lock, owed, forgot, need, ran, mounts>>

YesNo == {"yes", "no"}

\* The type invariant: recovery_pass_done is the number of a pass, and
\* curr_recovery_pass and next_recovery_pass do not run past the end of the table.
TypeOK ==
    /\ c \in [curr : 0 .. NR, next : 0 .. NR, complete : SUBSET Passes, done : Passes,
              passes : SUBSET Passes, exclude : SUBSET Passes, last : Passes, fsck : YesNo,
              clean : YesNo, error : YesNo, may_go_rw : YesNo]
    /\ ext \in [required : SUBSET Passes, alloc_info : YesNo]
    /\ disk \in [required : SUBSET Passes, alloc_info : YesNo]
    /\ pc \in {"loop", "running", "flushed", "after", "returned"}
    /\ ret \in {"ok", "error"}
    /\ lost \in Seq(Passes)
    /\ sb_lock \in {"free", "lost"}
    /\ owed \in SUBSET Passes /\ forgot \in SUBSET Passes /\ need \in SUBSET Passes
    /\ ran \in SUBSET (Passes \X Passes)
    /\ mounts \in 1 .. MaxMounts

\* The bits of the number set_may_go_rw are taken out of the mask.
Unexcluded(mask) == {p \in mask : (set_may_go_rw \div 2^p) % 2 = 0}

\* bch2_fs_recovery up to bch2_run_recovery_passes, and its first statement: what
\* the mount adds to the passes the superblock requires is written, and run but for
\* the passes of bch2_sb_set_upgrade_extra, which wait for the next mount.
Mount(C, SB, sb) ==
    \E opts \in Options, fsck \in YesNo, clean \in YesNo :
        /\ SB = [sb EXCEPT !.required = @ \cup opts.upgrade \cup opts.extra]
        /\ C = [curr |-> 0, next |-> 0, complete |-> {}, done |-> 0,
                passes |-> sb.required \cup opts.upgrade,
                exclude |-> Unexcluded(opts.exclude), last |-> opts.last,
                fsck |-> fsck, clean |-> clean, error |-> "no", may_go_rw |-> "no"]

\* PASS_ALLOC passes are never run while there is no alloc info.
NoAllocInfo(p) == "alloc" \in When[p] /\ disk.alloc_info = "no"

Init ==
    /\ \E a \in Allocs : Mount(c, disk, [required |-> {}, alloc_info |-> a])
    /\ ext = disk
    /\ owed = {p \in c.passes : ~NoAllocInfo(p)}
    /\ need = disk.required
    /\ forgot = {}
    /\ pc = "loop"
    /\ ret = "ok"
    /\ lost = <<>>
    /\ sb_lock = "free"
    /\ ran = {}
    /\ mounts = 1

-----------------------------------------------------------------------------
(* Requests. *)

CannotRewindMutant(p) == FALSE

\* "need recovery pass, but already rw"
CannotRewind(p) == p < set_may_go_rw /\ c.curr >= set_may_go_rw

\* The early returns of __bch2_run_explicit_recovery_pass.
Declined(p) == c.curr = NR \/ p \in c.complete \/ CannotRewind(p)

StillCompleteMutant(p) == c.complete

\* (1ULL << pass) >> 1 is the bit of pass - 1.
StillComplete(p) == c.complete \cap {p - 1}

\* A request for the pass that has just returned is accepted, but the pass is
\* not run again: whether it should be is left open.
Late(p) == p = c.curr /\ pc \in {"flushed", "after"}

\* Requests whose rewind is pending, and that a rewind to p leaves out.
Overwritten(p) == IF c.curr > p THEN {q \in owed : c.next <= q /\ q < p} ELSE {}

\* __bch2_run_explicit_recovery_pass, when recovery_pass_lock is not held
RunExplicit(p) ==
    /\ pc # "loop"
    /\ \/ Declined(p) /\ UNCHANGED <<c, owed, forgot>>
       \/ /\ ~Declined(p)
          /\ c' = IF c.curr > p
                  THEN [c EXCEPT !.passes = @ \cup {p}, !.next = p,
                                 !.complete = StillComplete(p)]
                  ELSE [c EXCEPT !.passes = @ \cup {p}]
          /\ forgot' = (forgot \cup Overwritten(p)) \ {p}
          /\ owed' = (owed \ Overwritten(p))
                       \cup (IF Late(p) \/ NoAllocInfo(p) THEN {} ELSE {p})

\* Its persistent form, under sb_lock.
RunExplicitPersistent(p) ==
    /\ ext' = [ext EXCEPT !.required = @ \cup {p}]
    /\ need' = IF Late(p) THEN need ELSE need \cup {p}
    /\ RunExplicit(p)

\* Passes, and tasks that read btree nodes meanwhile, make requests.
MayRequest == pc \in {"running", "flushed", "after"}

\* bch2_run_explicit_recovery_pass
Request(p) ==
    /\ MayRequest
    /\ RunExplicit(p)
    /\ UNCHANGED <<ext, disk, pc, ret, lost, sb_lock, need, ran, mounts>>

\* bch2_run_explicit_recovery_pass_persistent; the superblock is not written.
RequestPersistent(p) ==
    /\ MayRequest
    /\ p \notin disk.required
    /\ sb_lock = "free"
    /\ RunExplicitPersistent(p)
    /\ UNCHANGED <<disk, pc, ret, lost, sb_lock, ran, mounts>>

\* bch2_btree_lost_data
LostStart(seq) ==
    /\ MayRequest
    /\ sb_lock = "free"
    /\ sb_lock' = "lost"
    /\ lost' = seq
    /\ UNCHANGED <<c, ext, disk, pc, ret, owed, forgot, need, ran, mounts>>

LostRequest ==
    /\ sb_lock = "lost" /\ lost # <<>>
    /\ RunExplicitPersistent(Head(lost))
    /\ lost' = Tail(lost)
    /\ UNCHANGED <<disk, pc, ret, sb_lock, ran, mounts>>

LostEnd ==
    /\ sb_lock = "lost" /\ lost = <<>>
    /\ disk' = ext
    /\ sb_lock' = "free"
    /\ UNCHANGED <<c, ext, pc, ret, lost, owed, forgot, need, ran, mounts>>

-----------------------------------------------------------------------------
(* bch2_run_recovery_passes *)

should_run_recovery_pass(p) ==
    /\ ~NoAllocInfo(p)
    /\ p \notin c.exclude
    /\ \/ p \in c.passes
       \/ "fsck" \in When[p] /\ c.fsck = "yes"
       \/ "unclean" \in When[p] /\ c.clean = "no"
       \/ "always" \in When[p]

\* The while condition fails, or recovery_pass_last has been run.
LoopExit ==
    /\ pc = "loop"
    /\ \/ (c.curr = NR \/ ret = "error") /\ UNCHANGED c
       \/ /\ c.curr < NR /\ ret = "ok" /\ c.last > 0 /\ c.curr > c.last
          /\ c' = [c EXCEPT !.next = c.curr + 1]
    /\ pc' = "returned"
    /\ UNCHANGED <<ext, disk, ret, lost, sb_lock, owed, forgot, need, ran, mounts>>

\* p is now the last pass that ran.
RunLast(p) ==
    {e \in ran : e[1] # p} \cup {<<q, p>> : q \in {x \in Passes : x = p \/ <<x, x>> \in ran}}

\* One turn of the loop, up to the call of the pass.
Loop ==
    /\ pc = "loop"
    /\ c.curr < NR /\ ret = "ok" /\ (c.last > 0 => c.curr <= c.last)
    /\ \/ /\ should_run_recovery_pass(c.curr)
          /\ c' = [c EXCEPT !.next = c.curr + 1]
          /\ ran' = RunLast(c.curr)
          /\ pc' = "running"
       \/ /\ ~should_run_recovery_pass(c.curr)
          /\ c' = [c EXCEPT !.next = c.curr + 1, !.curr = c.curr + 1]
          /\ UNCHANGED <<pc, ran>>
    /\ UNCHANGED <<ext, disk, ret, lost, sb_lock, owed, forgot, need, mounts>>

\* bch2_set_may_go_rw leaves the filesystem read-only only when it is mounted
\* read-only and nothing has to be written.
MayStayRo == c.clean = "yes" /\ c.passes = {} /\ (c.fsck = "no" \/ disk.alloc_info = "no")

\* bch2_reconstruct_alloc, when a filesystem without alloc info goes read-write.
ReconstructAlloc(done) ==
    /\ sb_lock = "free"
    /\ ext' = [required |-> ext.required \cup Reconstruct, alloc_info |-> "yes"]
    /\ disk' = ext'
    /\ c' = [c EXCEPT !.may_go_rw = "yes", !.passes = @ \cup ext'.required]
    /\ need' = (need \cup Reconstruct) \ done

SetMayGoRw(done) ==
    \/ disk.alloc_info = "no" /\ ReconstructAlloc(done)
    \/ /\ disk.alloc_info = "yes" \/ MayStayRo
       /\ c' = [c EXCEPT !.may_go_rw = "yes"]
       /\ need' = need \ done
       /\ UNCHANGED <<ext, disk>>

\* What a pass does besides its work; done are the requests it settles.
RunPass(done) ==
    \/ c.curr = set_may_go_rw /\ SetMayGoRw(done)
    \/ c.curr # set_may_go_rw /\ need' = need \ done /\ UNCHANGED <<c, ext, disk>>

\* The pass and the journal flush after it return 0.
PassOk ==
    /\ pc = "running"
    /\ RunPass({c.curr})
    /\ owed' = owed \ {c.curr}
    /\ forgot' = forgot \ {c.curr}
    /\ ret' = "ok"
    /\ pc' = IF c.error = "no" THEN "flushed" ELSE "after"
    /\ UNCHANGED <<lost, sb_lock, ran, mounts>>

AfterErrMutant == "flushed"

AfterErr == "after"

\* The pass or the flush fails, or the pass returns -BCH_ERR_restart_recovery.
PassErr ==
    /\ pc = "running"
    /\ RunPass({})
    /\ ret' = "error"
    /\ pc' = AfterErr
    /\ UNCHANGED <<lost, sb_lock, owed, forgot, ran, mounts>>

\* The pass finds an error it does not fix and sets BCH_FS_error.
PassFindsError ==
    /\ pc = "running" /\ c.error = "no"
    /\ c' = [c EXCEPT !.error = "yes"]
    /\ UNCHANGED <<ext, disk, pc, ret, lost, sb_lock, owed, forgot, need, ran, mounts>>

\* bch2_clear_recovery_pass_required
ClearRequired ==
    /\ pc = "flushed" /\ sb_lock = "free"
    /\ ext' = [ext EXCEPT !.required = @ \ {c.curr}]
    /\ disk' = IF c.curr \in ext.required THEN ext' ELSE disk
    /\ pc' = "after"
    /\ UNCHANGED <<c, ret, lost, sb_lock, owed, forgot, need, ran, mounts>>

RewoundMutant == [c EXCEPT !.complete = @ \cap 0 .. c.curr - 1, !.curr = c.next + 1]

\* bch2_run_explicit_recovery_pass() was called: of the passes only those before
\* the one that ran stay complete.
Rewound == [c EXCEPT !.complete = @ \cap 0 .. c.curr - 1, !.curr = c.next]

\* max(c->recovery_pass_done, c->curr_recovery_pass)
Furthest(i, j) == IF i < j THEN j ELSE i

AdvancedPastEnd ==
    [c EXCEPT !.complete = @ \cup {c.curr}, !.done = Furthest(@, c.next), !.curr = c.next]


Advanced == [c EXCEPT !.complete = @ \cup {c.curr}, !.done = Furthest(@, c.curr), !.curr = c.next]

\* The end of the turn, under recovery_pass_lock again.
After ==
    /\ pc = "after"
    /\ IF c.next < c.curr
       THEN c' = Rewound /\ ret' = "ok"
       ELSE c' = Advanced /\ UNCHANGED ret
    /\ pc' = "loop"
    /\ UNCHANGED <<ext, disk, lost, sb_lock, owed, forgot, need, ran, mounts>>

-----------------------------------------------------------------------------
\* Any other code that writes the superblock.
WriteSuper ==
    /\ sb_lock = "free" /\ disk # ext
    /\ disk' = ext
    /\ UNCHANGED <<c, ext, pc, ret, lost, sb_lock, owed, forgot, need, ran, mounts>>

\* A crash, a failed mount or an unmount, and the next mount: what the
\* superblock requires is asked of it.
Remount ==
    /\ mounts < MaxMounts
    /\ mounts' = mounts + 1
    /\ Mount(c', disk', disk)
    /\ ext' = disk'
    /\ pc' = "loop"
    /\ ret' = "ok"
    /\ lost' = <<>>
    /\ sb_lock' = "free"
    /\ owed' = {p \in c'.passes : ~NoAllocInfo(p)}
    /\ forgot' = {}
    /\ need' = disk'.required
    /\ ran' = {}

RecoveryStep == LoopExit \/ Loop \/ PassOk \/ PassErr \/ ClearRequired \/ After

LostStep == LostRequest \/ LostEnd

Next ==
    \/ RecoveryStep \/ LostStep \/ PassFindsError \/ WriteSuper \/ Remount
    \/ \E p \in Explicit : Request(p)
    \/ \E p \in Persistent : RequestPersistent(p)
    \/ \E seq \in Lost : LostStart(seq)

Spec == Init /\ [][Next]_vars

\* Every pass returns, however many requests it makes, and a mutex is not kept
\* from a waiter for ever; a task that holds sb_lock releases it.  The number of
\* requests is not bounded.
FairSpec == Spec /\ SF_vars(RecoveryStep) /\ WF_vars(LostStep)

-----------------------------------------------------------------------------
(* Once recovery has reached set_may_go_rw it never goes back to a pass before
   it: those passes change the journal keys, which other threads now read. *)
RwNotRewound ==
    [][mounts' = mounts /\ c.curr >= set_may_go_rw => c'.curr >= set_may_go_rw]_vars

(* A pass counts as complete only if it ran after every complete pass before
   it: a rewind forgets what ran on the state that is being repaired, whatever
   __bch2_run_explicit_recovery_pass was asked for meanwhile. *)
CompleteInOrder ==
    \A p, q \in c.complete : p <= q => <<p, q>> \in ran

(* A pass leaves the superblock's recovery_passes_required only when it has
   succeeded since the mount or a request asked for it: not when it failed, and
   not in a crash.  Late requests are left out: one made between the pass's return
   and bch2_clear_recovery_pass_required is cleared with the others. *)
RequiredKept == [][\A p \in disk.required \ disk'.required : p \notin need']_vars

(* When recovery succeeds, every pass that the superblock required at the mount or
   that __bch2_run_explicit_recovery_pass agreed to run has run to its end since,
   unless a later request overwrote next_recovery_pass.  Late requests are left
   out: one for the pass that has just returned is accepted, and the pass is not
   run again. *)
RequestsHonoured ==
    pc = "returned" /\ ret = "ok" /\ c.last = 0 => ~\E p \in owed : should_run_recovery_pass(p)

(* "For when we need to rewind recovery passes and run a pass we skipped": a
   request is not forgotten because of another one. *)
RequestsNotForgotten ==
    pc = "returned" /\ ret = "ok" /\ c.last = 0 =>
        ~\E p \in forgot : should_run_recovery_pass(p)


=============================================================================
