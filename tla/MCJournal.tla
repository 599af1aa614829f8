----------------------------- MODULE MCJournal -----------------------------
(* Journal on a leaf below a root, and on roots only. *)
EXTENDS Journal

CONSTANTS n1, n2, t1

OnlyRoots   == [n \in Nodes |-> NoNode]
LeafAndRoot == [n \in Nodes |-> IF n = n1 THEN n2 ELSE NoNode]

=============================================================================
