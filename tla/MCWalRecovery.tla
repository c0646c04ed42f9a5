--------------------------- MODULE MCWalRecovery ---------------------------
(* WalRecovery for TLC: every constant is a number or a truth value. *)
EXTENDS WalRecovery

=============================================================================
