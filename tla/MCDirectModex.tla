--------------------------- MODULE MCDirectModex ---------------------------
(* Instances of DirectModex for TLC.                                       *)
EXTENDS DirectModex

CONSTANTS l1, l2, r1, g1, g2, g3, a1

Calm ==
  [start |-> "all", kinds |-> {"plain"}, returns |-> {"SUCCESS"}, departs |-> {},
   deregister |-> FALSE, early |-> FALSE, asks |-> {}, data |-> {"none", "key"}]

Everything ==
  {[Calm EXCEPT !.kinds = Kinds, !.returns = {"SUCCESS", "ERROR", "NONE"}],
   [Calm EXCEPT !.kinds = {"plain", "reserved"}, !.data = Data],
   [Calm EXCEPT !.kinds = {"plain", "timeout"}, !.departs = {"finalized", "lost"}],
   [Calm EXCEPT !.departs = {"finalized", "lost"}, !.asks = {"present"}],
   [Calm EXCEPT !.start = "unknown", !.returns = {"SUCCESS", "ERROR"}, !.data = {"key"}],
   [Calm EXCEPT !.start = "nspace", !.kinds = {"timeout"}, !.asks = {"present"}],
   [Calm EXCEPT !.kinds = {"immediate", "refresh"}, !.departs = {"finalized", "lost"},
                !.deregister = TRUE, !.asks = {"present"}]}

Early == {[Calm EXCEPT !.start = "nspace", !.early = TRUE]}
Stale == {[Calm EXCEPT !.departs = {"finalized"}, !.deregister = TRUE]}
AskGone == {[Calm EXCEPT !.departs = {"finalized"}, !.asks = {"gone"}]}
=============================================================================
