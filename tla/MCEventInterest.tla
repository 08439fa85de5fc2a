-------------------------- MODULE MCEventInterest --------------------------
(* Instances of EventInterest for TLC.                                     *)
EXTENDS EventInterest

CONSTANTS c1, c2, h1, h2, h3, h4, e1, s1, s2

For(S) == [NoKind EXCEPT !.codes = S]
Told(S) == [For(S) EXCEPT !.directives = TRUE]
Slot(S, place) == [For(S) EXCEPT !.place = place]
ProcLocal(S) == [For(S) EXCEPT !.local = TRUE]

Offers(a, b, c) == [h \in Handlers |-> CASE h = h1 -> a [] h = h2 -> b [] h = h3 -> c [] OTHER -> {}]
Owned(a, b, c) == [h \in Handlers |-> CASE h = h1 -> a [] h = h2 -> b [] OTHER -> c]

Calm ==
  [owner |-> Owned(c1, c1, c2), offer |-> Offers({For({s1})}, {For({s1, e1})}, {For({s1})}),
   hostfn |-> TRUE, returns |-> {"SUCCESS"}, refuses |-> FALSE, leaves |-> Handlers, loss |-> {}]

Both == {"SUCCESS", "OPERATION_SUCCEEDED"}
All == Both \cup {"ERROR"}

Everything ==
  \* two handlers of one client that share a code, and another client, which may be lost
  {[Calm EXCEPT !.returns = Both, !.loss = {c2},
                !.offer = Offers({For({s1}), Told({e1})}, {For({s1, e1}), Told({s1})}, {For({s1})})],
   \* two clients with two handlers each
   [Calm EXCEPT !.loss = {c1}, !.offer = [Calm.offer EXCEPT ![h4] = {For({s1, s2})}]],
   \* the server's own handler beside those of the clients
   [Calm EXCEPT !.owner = Owned(ME, c1, ME), !.returns = Both, !.loss = {c1},
                !.offer = Offers({For({s1})}, {For({s1, e1}), For({})}, {For({s1, s2}), For({e1})})],
   \* the host refuses, and no code is asked for twice
   [Calm EXCEPT !.owner = Owned(c1, c2, ME), !.returns = All, !.refuses = TRUE, !.loss = {c1},
                !.offer = Offers({For({e1, s1})}, {For({e1}), For({})}, {For({s2})})],
   \* the overall slots, default handlers that stay, handlers of the process alone
   [Calm EXCEPT !.leaves = {h3}, !.offer =
      Offers({Slot({}, "first"), Slot({e1}, "first"), ProcLocal({e1})},
             {Slot({s1}, "first"), Slot({}, "last"), For({})}, {Slot({s1}, "last"), For({})})],
   \* a host that cannot forward
   [Calm EXCEPT !.hostfn = FALSE, !.owner = Owned(c1, c2, ME),
                !.offer = Offers({For({s1}), For({e1})}, {For({s1, e1})}, {For({s1})})]}

Again == {[Calm EXCEPT !.offer = Offers({For({})}, {For({})}, {})]}
Slots == {[Calm EXCEPT !.offer = Offers({Slot({}, "first")}, {For({})}, {}), !.leaves = {h2}]}
Locals == {[Calm EXCEPT !.offer = Offers({For({e1})}, {ProcLocal({e1})}, {}), !.leaves = {h2}]}
Refused == {[Calm EXCEPT !.refuses = TRUE, !.offer = Offers({For({s1})}, {For({s1})}, {})]}
Shared == {[Calm EXCEPT !.refuses = TRUE, !.offer = Offers({For({s1})}, {}, {For({s1})})]}
=============================================================================
