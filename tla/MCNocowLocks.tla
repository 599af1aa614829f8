---------------------------- MODULE MCNocowLocks ----------------------------
(* NocowLocks with two slots: three buckets compete for them.               *)
EXTENDS NocowLocks

=============================================================================
