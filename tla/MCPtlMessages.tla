--------------------------- MODULE MCPtlMessages ---------------------------
(* Instances of PtlMessages for TLC.                                       *)
EXTENDS PtlMessages

CONSTANTS c1, c2

Calm == [lens |-> {1}, tags |-> 2, breaks |-> FALSE]

Everything ==
  {[Calm EXCEPT !.tags = n, !.breaks = TRUE] : n \in {1, 2}}
  \cup {[Calm EXCEPT !.tags = n, !.lens = {0, 1}] : n \in {1, 2}}
  \cup {[Calm EXCEPT !.lens = {0, 2}]}
=============================================================================
