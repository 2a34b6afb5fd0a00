----------------------------- MODULE MCBackups -----------------------------
(***************************************************************************)
(* Backups with small retention settings and calendar spans.               *)
(***************************************************************************)
EXTENDS Backups

KeepSmall == [recent |-> 1, weekly |-> 2, monthly |-> 1, yearly |-> 0]
SpanSmall == [week |-> 2, month |-> 4, year |-> 6]
=============================================================================
