--------------------------- MODULE MCControlRecord ---------------------------
(* One publisher at a time and a reader; the cfg files choose which of the    *)
(* two kinds of interruption may happen.                                      *)
EXTENDS ControlRecord

=============================================================================
