---------------------------- MODULE MCWriterLease ----------------------------
(* Two participants racing for the lease.                                     *)
EXTENDS WriterLease

=============================================================================
