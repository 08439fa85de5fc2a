---------------------------- MODULE MCEventChain ----------------------------
(* Instances of EventChain for TLC.                                        *)
EXTENDS EventChain

CONSTANTS h1, h2, h3, h4, e1, e2

Plain == [cat |-> "single", order |-> "NONE", ref |-> NONE, truly |-> TRUE, oneshot |-> FALSE,
          codes |-> Events, range |-> Events, affected |-> Events, ends |-> FALSE, asks |-> FALSE]
Single(o) == [Plain EXCEPT !.order = o]
Multi(o) == [Plain EXCEPT !.cat = "multi", !.order = o]
Default(o) == [Plain EXCEPT !.cat = "default", !.codes = {}, !.order = o]
Next_to(o, h) == [Plain EXCEPT !.order = o, !.ref = h]

Ours == [by |-> "server", local |-> FALSE, hold |-> TRUE, nondefault |-> FALSE, ours |-> TRUE]
Own == [Ours EXCEPT !.by = "self"]
Local == [Own EXCEPT !.local = TRUE]

Calm == [hdlr |-> (h1 :> Single("NONE")), event |-> (e1 :> Ours), leaves |-> {},
         refuses |-> FALSE, connected |-> TRUE]
Four(a, b, c, d) == h1 :> a @@ h2 :> b @@ h3 :> c @@ h4 :> d

Everything ==
  \* one handler of each place
  {[Calm EXCEPT !.hdlr = Four(Multi("FIRST_OVERALL"), Single("NONE"), Multi("NONE"), Default("LAST_OVERALL")),
                !.leaves = {h4}],
   [Calm EXCEPT !.hdlr = Four(Single("APPEND"), Multi("APPEND"), Multi("PREPEND"), Default("APPEND")),
                !.leaves = {h2}],
   \* positions within a category
   [Calm EXCEPT !.hdlr = Four(Single("LAST"), Single("APPEND"), Single("FIRST"), Single("PREPEND"))],
   [Calm EXCEPT !.hdlr = Four(Single("LAST"), Single("LAST"), Next_to("BEFORE", h1), Next_to("AFTER", h3))],
   [Calm EXCEPT !.hdlr = Four(Single("FIRST_OVERALL"), Single("FIRST_OVERALL"), Single("NONE"),
                              Next_to("AFTER", h1))],
   [Calm EXCEPT !.hdlr = Four(Multi("LAST_OVERALL"), Single("NONE"), Single("FIRST"),
                              Next_to("BEFORE", h1))],
   \* two events at once, an observer, a handler that ends the event
   [Calm EXCEPT !.hdlr = (h1 :> Single("NONE") @@ h2 :> [Single("APPEND") EXCEPT !.ends = TRUE]
                          @@ h3 :> [Plain EXCEPT !.cat = "observer"]),
                !.event = (e1 :> Own @@ e2 :> [Ours EXCEPT !.nondefault = TRUE]), !.leaves = {h1, h3}],
   \* a registration the server is asked for
   [Calm EXCEPT !.hdlr = (h1 :> [Single("NONE") EXCEPT !.asks = TRUE] @@ h2 :> Default("NONE")),
                !.event = (e1 :> [Own EXCEPT !.local = TRUE, !.hold = FALSE] @@ e2 :> [Ours EXCEPT !.ours = FALSE])],
   \* one shot, and filters
   [Calm EXCEPT !.hdlr = (h1 :> [Single("NONE") EXCEPT !.ends = TRUE, !.oneshot = TRUE, !.codes = {e1}]
                          @@ h2 :> [Multi("NONE") EXCEPT !.affected = {e2}]
                          @@ h3 :> [Default("NONE") EXCEPT !.affected = {e1}]),
                !.event = (e1 :> Ours @@ e2 :> Ours)],
   [Calm EXCEPT !.hdlr = (h1 :> Single("NONE") @@ h2 :> [Multi("NONE") EXCEPT !.ends = TRUE, !.oneshot = TRUE]
                          @@ h3 :> Single("FIRST") @@ h4 :> Single("FIRST"))],
   \* a refusal, a range the events are not in, processes the events are not about
   [Calm EXCEPT !.hdlr = Four([Single("NONE") EXCEPT !.asks = TRUE], Single("LAST"),
                              [Single("APPEND") EXCEPT !.range = {}],
                              [Default("NONE") EXCEPT !.affected = {}]),
                !.refuses = TRUE],
   \* not connected
   [Calm EXCEPT !.event = (e1 :> Own @@ e2 :> Local), !.connected = FALSE]}

\* A handler for one shot that hands its events on.
HandsOn == {[Calm EXCEPT !.hdlr = (h1 :> [Single("NONE") EXCEPT !.oneshot = TRUE]),
                         !.event = (e1 :> Ours @@ e2 :> Ours)]}

\* HDLR_FIRST given as false.
NotFirst == {[Calm EXCEPT !.hdlr = (h1 :> [Single("FIRST_OVERALL") EXCEPT !.truly = FALSE])]}
=============================================================================
