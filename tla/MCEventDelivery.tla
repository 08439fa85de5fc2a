-------------------------- MODULE MCEventDelivery --------------------------
(* Instances of EventDelivery for TLC.                                     *)
EXTENDS EventDelivery

CONSTANTS c1, c2, k1, e1, e2, e3

Plain == [code |-> k1, source |-> REMOTE, range |-> "GLOBAL", targets |-> {}, cache |-> TRUE,
          nondefault |-> FALSE]
To(S) == [Plain EXCEPT !.targets = S, !.range = "CUSTOM"]
Raised(a, b, c) == [e \in Events |-> CASE e = e1 -> a [] e = e2 -> b [] e = e3 -> c]

Calm ==
  [event |-> Raised(Plain, Plain, Plain), registers |-> [c \in Clients |-> {k1}],
   again |-> FALSE, via |-> {"server"},
   returns |-> {"SUCCESS"}, departs |-> {}, ages |-> FALSE]

Everything ==
  \* more events than rooms, clients that register for the code, for any, or twice
  {[Calm EXCEPT !.registers = (c1 :> {k1, MAX_ERR} @@ c2 :> {MAX_ERR}),
                !.event = Raised(Plain, [Plain EXCEPT !.nondefault = TRUE], [Plain EXCEPT !.source = c2])],
   \* events for targets, one of which may leave; the eviction timer
   [Calm EXCEPT !.departs = {c2}, !.ages = TRUE,
                !.event = Raised(To({c1, c2}), To({c2}), Plain)],
   [Calm EXCEPT !.registers = (c1 :> {k1, MAX_ERR} @@ c2 :> {k1}), !.again = TRUE,
                !.event = (e1 :> To({c1, c2}))],
   \* registrations the host completes
   [Calm EXCEPT !.via = {"server", "host"}, !.again = TRUE, !.event = (e1 :> Plain)],
   \* every way to answer a notifier
   [Calm EXCEPT !.returns = {"SUCCESS", "OPERATION_SUCCEEDED", "ERROR"}, !.departs = {c2},
                !.event = Raised([Plain EXCEPT !.source = c2, !.range = "RM"],
                                 [Plain EXCEPT !.source = ME, !.cache = FALSE],
                                 [To({c1}) EXCEPT !.source = c1, !.range = "LOCAL"])],
   [Calm EXCEPT !.returns = {"SUCCESS", "ERROR"},
                !.event = Raised([Plain EXCEPT !.source = c1, !.range = "LOCAL"],
                                 [Plain EXCEPT !.source = ME, !.range = "RM"],
                                 [To({c1, c2}) EXCEPT !.source = c1])]}
=============================================================================
