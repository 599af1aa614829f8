-------------------------- MODULE MCRecoveryPasses --------------------------
(* RecoveryPasses on a table of the passes that depend on each other:        *)
(* 0 scan_for_btree_nodes, 1 check_topology, 2 check_allocations,            *)
(* 3 trans_mark_dev_sbs, 4 set_may_go_rw and 5 check_alloc_info.             *)
EXTENDS RecoveryPasses

Table ==
    <<{}, {}, {"fsck", "alloc"}, {"always", "alloc"}, {"always"}, {"fsck", "alloc"}>>

Whens == [p \in 0 .. 5 |-> Table[p + 1]]

Opts(exclude, last, upgrade, extra) ==
    [exclude |-> exclude, last |-> last, upgrade |-> upgrade, extra |-> extra]

Plain == {Opts({}, 0, {}, {})}

\* Topology errors when recovery is to stop early; a pass excluded, and an upgrade
\* with an extra pass that waits for the next mount
Various == Plain \cup {Opts({}, 3, {1}, {}), Opts({3}, 0, {1, 5}, {2})}

\* bch2_btree_lost_data for a btree that is scanned for, and for the alloc btree
LostScanned == {<<1, 2, 0>>}

LostAlloc == {<<1, 2, 5>>}

=============================================================================
