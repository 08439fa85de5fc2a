----------------------------- MODULE EventChain -----------------------------
(***************************************************************************)
(* How a client runs an event through its own handlers: in the order       *)
(* first, single-code, multi-code, default, last, each handler handing the *)
(* event on when it is done.  Handlers come and go meanwhile, and several  *)
(* events may be on their way at once.                                     *)
(*                                                                         *)
(* The registry belongs to the progress thread.  Calls of other threads,   *)
(* messages and the completions of handlers are shifted to it and run in   *)
(* the order shifted; a handler may complete at any time after it was      *)
(* invoked, from any thread.                                               *)
(***************************************************************************)
EXTENDS Naturals, FiniteSets, Sequences, SequencesExt

CONSTANTS
  Handlers,   \* the handlers and observers that may be registered
  Events,     \* the events that may occur
  Scenarios   \* who they are and what may happen; one is chosen at the start

NONE == "NONE"
Categories == {"single", "multi", "default", "observer"}
Orders == {"NONE", "FIRST_OVERALL", "LAST_OVERALL", "FIRST", "LAST", "PREPEND", "APPEND",
           "BEFORE", "AFTER"}

\* order: the precedence asked for, ref the handler it is relative to; truly: whether
\* HDLR_FIRST or HDLR_LAST was given as true.  codes, range, affected: the events that pass
\* each of the three filters.  ends: it answers ACTION_COMPLETE.  asks: the server must be
\* told of it, and may refuse.
HandlerType ==
  [cat : Categories, order : Orders, ref : Handlers \cup {NONE}, truly : BOOLEAN,
   oneshot : BOOLEAN, codes : SUBSET Events, range : SUBSET Events, affected : SUBSET Events,
   ends : BOOLEAN, asks : BOOLEAN]

\* by: the server forwards it, or the process raises it; local: range PROC_LOCAL.  hold: not
\* flagged DO_NOT_CACHE.  ours: the process is a target, if there are any.
EventType == [by : {"server", "self"}, local : BOOLEAN, hold : BOOLEAN, nondefault : BOOLEAN,
              ours : BOOLEAN]

\* hdlr: the handlers there are.  leaves: those that may be deregistered, at any time.  refuses:
\* the server may refuse a registration.
IsScenario(s) ==
  /\ DOMAIN s.hdlr \subseteq Handlers /\ \A h \in DOMAIN s.hdlr : s.hdlr[h] \in HandlerType
  /\ \A h \in DOMAIN s.hdlr : s.hdlr[h].order \in {"BEFORE", "AFTER"} => s.hdlr[h].ref # NONE
  /\ DOMAIN s.event \subseteq Events /\ \A e \in DOMAIN s.event : s.event[e] \in EventType
  /\ s.leaves \subseteq Handlers /\ s.refuses \in BOOLEAN
  /\ s.connected \in BOOLEAN

ASSUME ChainAssumption == \A s \in Scenarios : IsScenario(s)

VARIABLES
  scenario,  \* the member of Scenarios this behaviour is about
  events,    \* the registry: the slots "first" and "last", and a list for each category
  stage,     \* stage[h]: how far handler h is with registering and deregistering
  shifted,   \* what is shifted to the progress thread, in order
  chain,     \* chain[e][k]: event e on its way, live or replayed from the cache
  cache,     \* the events that are cached
  told,      \* the events whose notifier has been called back
  misspent   \* history: the events that left the cache for a registrant that is no handler of
             \* theirs, and met none

vars == <<scenario, events, stage, shifted, chain, cache, told, misspent>>

Given == DOMAIN scenario.hdlr
Occurring == DOMAIN scenario.event
H(h) == scenario.hdlr[h]
E(e) == scenario.event[e]
Kinds == {"live", "replay"}

\* at: the handler that has the event.  had: the handlers that were registered when it set
\* out.  seen: the observers that saw it.  complete: a handler ended it.
Idle == [st |-> "idle", at |-> NONE, endchain |-> FALSE, ran |-> <<>>, had |-> {}, seen |-> {},
         complete |-> FALSE]

Init ==
  /\ scenario \in Scenarios
  /\ events = [first |-> NONE, last |-> NONE, single |-> <<>>, multi |-> <<>>, default |-> <<>>,
               observer |-> <<>>]
  /\ stage = [h \in Handlers |-> "new"]
  /\ shifted = <<>>
  /\ chain = [e \in Events |-> [k \in Kinds |-> Idle]]
  /\ cache = {}
  /\ told = {}
  /\ misspent = {}

-----------------------------------------------------------------------------
(* The walk over a registry r.                                             *)

\* check_range and check_affected, and the codes of a handler that has any.
Fits(h, e) ==
  /\ e \in H(h).range /\ e \in H(h).affected
  /\ H(h).cat = "default" \/ e \in H(h).codes

InSlot(slot, e) == IF slot # NONE /\ Fits(slot, e) THEN <<slot>> ELSE <<>>

Fitting(s, e) == SelectSeq(s, LAMBDA h : Fits(h, e))

Defaults(s, e) == IF E(e).nondefault THEN <<>> ELSE Fitting(s, e)

\* What follows h on a list it is on.
Rest(s, h) == SubSeq(s, 1 + CHOOSE i \in DOMAIN s : s[i] = h, Len(s))

\* The handlers an event meets after the "first" one.
FromSingles(r, e) ==
  Fitting(r.single, e) \o Fitting(r.multi, e) \o Defaults(r.default, e) \o InSlot(r.last, e)

\* Mutant: a "first" handler of several codes is followed by the multi-code handlers.
From_skipping(r, e, h) ==
  CASE H(h).order = "FIRST_OVERALL" /\ H(h).cat # "multi" -> FromSingles(r, e)
    [] H(h).order # "FIRST_OVERALL" /\ H(h).cat = "single" ->
         Fitting(Rest(r.single, h), e) \o Fitting(r.multi, e) \o Defaults(r.default, e)
           \o InSlot(r.last, e)
    [] H(h).cat = "multi" ->
         Fitting(IF h = r.first THEN r.multi ELSE Rest(r.multi, h), e) \o Defaults(r.default, e)
           \o InSlot(r.last, e)
    [] H(h).order # "FIRST_OVERALL" /\ H(h).cat = "default" ->
         Defaults(Rest(r.default, h), e) \o InSlot(r.last, e)

\* Mutant: the multi-code handlers are walked from their top again.
From_again(r, e, h) ==
  CASE H(h).order = "FIRST_OVERALL" \/ H(h).cat = "single" -> FromSingles(r, e)
    [] H(h).order # "FIRST_OVERALL" /\ H(h).cat = "multi" ->
         Fitting(r.multi, e) \o Defaults(r.default, e) \o InSlot(r.last, e)
    [] OTHER -> Defaults(Rest(r.default, h), e) \o InSlot(r.last, e)

\* The handlers it still meets after h.
From(r, e, h) ==
  CASE H(h).order = "FIRST_OVERALL" -> FromSingles(r, e)
    [] H(h).order # "FIRST_OVERALL" /\ H(h).cat = "single" ->
         Fitting(Rest(r.single, h), e) \o Fitting(r.multi, e) \o Defaults(r.default, e)
           \o InSlot(r.last, e)
    [] H(h).order # "FIRST_OVERALL" /\ H(h).cat = "multi" ->
         Fitting(Rest(r.multi, h), e) \o Defaults(r.default, e) \o InSlot(r.last, e)
    [] H(h).order # "FIRST_OVERALL" /\ H(h).cat = "default" ->
         Defaults(Rest(r.default, h), e) \o InSlot(r.last, e)

Registered(r) == ({r.first, r.last} \cup Range(r.single \o r.multi \o r.default)) \ {NONE}

sweep_observers(r, e) == {h \in Range(r.observer) : Fits(h, e)}

\* Hand the event to the first of the handlers s, or end.
Invoke(ch, s) ==
  IF s = <<>> THEN [ch EXCEPT !.st = "ended", !.at = NONE]
  ELSE [ch EXCEPT !.st = "out", !.at = Head(s), !.ran = Append(@, Head(s))]

\* An event sets out, unless the process is not among its targets.
pmix_invoke_local_event_hdlr(r, e, endchain) ==
  IF ~E(e).ours THEN [Idle EXCEPT !.st = "ended"]
  ELSE Invoke([Idle EXCEPT !.endchain = endchain, !.had = Registered(r), !.seen = sweep_observers(r, e)],
              InSlot(r.first, e) \o FromSingles(r, e))

\* Mutant: nor are the processes it is about.
Matching_code(h) ==
  {e \in cache : IF H(h).cat = "default" THEN ~E(e).nondefault ELSE e \in H(h).codes}

\* The cached events a registration asks for; its range is not looked at.
Matching(h) ==
  {e \in cache : /\ IF H(h).cat = "default" THEN ~E(e).nondefault ELSE e \in H(h).codes
                 /\ E(e).ours /\ e \in H(h).affected}

\* The registrant h was refused, only observes, or named a range the event is not in.
NoHandlerOf(r, h, e) == h \notin Registered(r) \/ e \notin H(h).range

\* A matching event leaves the cache for a chain of its own, which visits one handler.
check_cached_events(r, h) ==
  /\ cache' = cache \ Matching(h)
  /\ misspent' = misspent \cup
       {e \in Matching(h) : /\ NoHandlerOf(r, h, e)
                            /\ pmix_invoke_local_event_hdlr(r, e, TRUE).ran = <<>>}
  /\ chain' = [e \in Events |->
                 IF e \in Matching(h)
                 THEN [chain[e] EXCEPT !["replay"] = pmix_invoke_local_event_hdlr(r, e, TRUE)]
                 ELSE chain[e]]

-----------------------------------------------------------------------------
(* Registration.                                                           *)

FirstOverall(h) == H(h).order = "FIRST_OVERALL" /\ H(h).truly
LastOverall(h) == H(h).order = "LAST_OVERALL" /\ H(h).truly

\* Where h goes on the list s of its category: no list when it is refused.  A handler that
\* gave HDLR_FIRST or HDLR_LAST as false goes nowhere unless the list is empty.
Place(r, s, h) ==
  LET at(f) == CHOOSE i \in DOMAIN s : s[i] = f
      order == IF s = <<>> THEN "NONE" ELSE H(h).order
      ref == H(h).ref
  IN CASE order = "NONE" -> {<<h>> \o s}
       [] order = "FIRST" -> IF H(Head(s)).order = "FIRST" THEN {} ELSE {<<h>> \o s}
       [] order = "LAST" -> IF H(Last(s)).order = "LAST" THEN {} ELSE {Append(s, h)}
       [] order = "PREPEND" -> {InsertAt(s, IF H(Head(s)).order = "FIRST" THEN 2 ELSE 1, h)}
       [] order = "APPEND" ->
            {InsertAt(s, IF H(Last(s)).order = "LAST" THEN Len(s) ELSE Len(s) + 1, h)}
       [] order = "BEFORE" -> IF ref \in Range(s) THEN {InsertAt(s, at(ref), h)}
                              ELSE IF ref = r.last THEN {Append(s, h)} ELSE {}
       [] order = "AFTER" -> IF ref \in Range(s) THEN {InsertAt(s, at(ref) + 1, h)}
                             ELSE IF ref = r.first THEN {<<h>> \o s} ELSE {}
       [] OTHER -> {s}

\* The registry with h: none when it is refused.
WithHandler(r, h) ==
  CASE FirstOverall(h) -> IF r.first = NONE THEN {[r EXCEPT !.first = h]} ELSE {}
    [] LastOverall(h) -> IF r.last = NONE THEN {[r EXCEPT !.last = h]} ELSE {}
    [] H(h).cat = "observer" -> {[r EXCEPT !.observer = Append(@, h)]}
    [] OTHER -> {[r EXCEPT ![H(h).cat] = s] : s \in Place(r, r[H(h).cat], h)}

Minus(s, h) == SelectSeq(s, LAMBDA x : x # h)

\* The registry without h.
pmix_deregister_event_hdlr(r, h) ==
  [r EXCEPT !.first = IF @ = h THEN NONE ELSE @, !.last = IF @ = h THEN NONE ELSE @,
            !.single = Minus(@, h), !.multi = Minus(@, h), !.default = Minus(@, h),
            !.observer = Minus(@, h)]

\* A registration runs: the cached events are looked at whether or not it was accepted.
pmix_internal_reg_event_hdlr(h) ==
  \/ /\ WithHandler(events, h) = {}
     /\ check_cached_events(events, h)
     /\ stage' = [stage EXCEPT ![h] = "refused"]
     /\ UNCHANGED events
  \/ \E r \in WithHandler(events, h) :
       /\ events' = r
       /\ IF H(h).asks
          THEN stage' = [stage EXCEPT ![h] = "wait"] /\ UNCHANGED <<chain, cache, misspent>>
          ELSE stage' = [stage EXCEPT ![h] = "on"] /\ check_cached_events(r, h)

\* The server's answer runs.
regevents_cbfunc(h, ok) ==
  LET r == IF ok THEN events ELSE pmix_deregister_event_hdlr(events, h)
  IN /\ events' = r
     /\ check_cached_events(r, h)
     /\ stage' = [stage EXCEPT ![h] = IF @ = "off" THEN "off" ELSE IF ok THEN "on" ELSE "refused"]

pmix_internal_dereg_event_hdlr(h) ==
  /\ events' = pmix_deregister_event_hdlr(events, h)
  /\ stage' = [stage EXCEPT ![h] = "off"]
  /\ UNCHANGED <<chain, cache, misspent>>

-----------------------------------------------------------------------------
(* Events.                                                                 *)

\* An event of the process's own: the server is told unless it stays in the process.
pmix_internal_notify_event(e) ==
  /\ UNCHANGED <<events, stage, misspent>>
  /\ IF ~scenario.connected /\ ~E(e).local
     THEN chain' = [chain EXCEPT ![e]["live"].st = "ended"] /\ UNCHANGED cache
     ELSE /\ chain' = [chain EXCEPT ![e]["live"] = pmix_invoke_local_event_hdlr(events, e, FALSE)]
          /\ cache' = IF E(e).local /\ E(e).hold THEN cache \cup {e} ELSE cache

\* An event from the server: it is cached when no handler was found for it.
client_notify_recv(e) ==
  LET ch == pmix_invoke_local_event_hdlr(events, e, FALSE)
  IN /\ chain' = [chain EXCEPT ![e]["live"] = ch]
     /\ cache' = IF ch.st = "ended" /\ E(e).ours THEN cache \cup {e} ELSE cache
     /\ UNCHANGED <<events, stage, misspent>>

Freed(h) == stage[h] \in {"off", "refused"}

\* The handler that has the event is done with it: the event ends, or goes to the next one.
\* A handler that no longer exists cannot tell where to go on.
cycle_events(e, k) ==
  LET ch == chain[e][k]
      h == ch.at
      over == H(h).ends \/ H(h).order = "LAST_OVERALL" \/ ch.endchain
      remove == ~Freed(h) /\ over /\ H(h).oneshot
  IN /\ IF Freed(h) THEN chain' = [chain EXCEPT ![e][k].st = "wild"]
        ELSE chain' = [chain EXCEPT ![e][k] =
                         [Invoke(ch, IF over THEN <<>> ELSE From(events, e, h))
                            EXCEPT !.complete = H(h).ends]]
     /\ events' = IF remove THEN pmix_deregister_event_hdlr(events, h) ELSE events
     /\ stage' = IF remove THEN [stage EXCEPT ![h] = "off"] ELSE stage
     /\ UNCHANGED <<cache, misspent>>

-----------------------------------------------------------------------------
(* What is shifted, and what the progress thread does with it.             *)

Shift(task) == shifted' = Append(shifted, task)

PMIx_Register_event_handler(h) ==
  /\ stage[h] = "new"
  /\ stage' = [stage EXCEPT ![h] = "called"]
  /\ Shift([op |-> "reg", h |-> h])
  /\ UNCHANGED <<scenario, events, chain, cache, told, misspent>>

ServerAnswers(h) ==
  /\ stage[h] = "wait"
  /\ stage' = [stage EXCEPT ![h] = "answered"]
  /\ \E ok \in {TRUE} \cup (IF scenario.refuses THEN {FALSE} ELSE {}) :
       Shift([op |-> "answer", h |-> h, ok |-> ok])
  /\ UNCHANGED <<scenario, events, chain, cache, told, misspent>>

PMIx_Deregister_event_handler(h) ==
  /\ h \in scenario.leaves /\ stage[h] = "on"
  /\ stage' = [stage EXCEPT ![h] = "leaving"]
  /\ Shift([op |-> "dereg", h |-> h])
  /\ UNCHANGED <<scenario, events, chain, cache, told, misspent>>

PMIx_Notify_event(e) ==
  /\ chain[e]["live"].st = "idle"
  /\ chain' = [chain EXCEPT ![e]["live"].st = "queued"]
  /\ Shift([op |-> IF E(e).by = "self" THEN "notify" ELSE "recv", e |-> e])
  /\ UNCHANGED <<scenario, events, stage, cache, told, misspent>>

\* The handler that has the event calls its completion function.
progress_local_event_hdlr(e, k) ==
  /\ chain[e][k].st = "out"
  /\ chain' = [chain EXCEPT ![e][k].st = "shifted"]
  /\ Shift([op |-> "cycle", e |-> e, k |-> k])
  /\ UNCHANGED <<scenario, events, stage, cache, told, misspent>>

\* The server acknowledges a notification that was sent to it.
notify_event_cbfunc(e) ==
  /\ E(e).by = "self" /\ ~E(e).local /\ scenario.connected
  /\ e \notin told /\ chain[e]["live"].st \notin {"idle", "queued"}
  /\ told' = told \cup {e}
  /\ UNCHANGED <<scenario, events, stage, shifted, chain, cache, misspent>>

\* Mutant: only when there is no server.
ToldAtOnce_unreachable(t) == t.op = "notify" /\ ~scenario.connected

\* A notifier hears at once when nothing is sent.
ToldAtOnce(t) == t.op = "notify" /\ (E(t.e).local \/ ~scenario.connected)

ProgressThread ==
  /\ shifted # <<>> /\ shifted' = Tail(shifted)
  /\ LET t == Head(shifted)
     IN /\ \/ t.op = "reg" /\ pmix_internal_reg_event_hdlr(t.h)
           \/ t.op = "answer" /\ regevents_cbfunc(t.h, t.ok)
           \/ t.op = "dereg" /\ pmix_internal_dereg_event_hdlr(t.h)
           \/ t.op = "notify" /\ pmix_internal_notify_event(t.e)
           \/ t.op = "recv" /\ client_notify_recv(t.e)
           \/ t.op = "cycle" /\ cycle_events(t.e, t.k)
        /\ told' = IF ToldAtOnce(t) THEN told \cup {t.e} ELSE told
  /\ UNCHANGED scenario

Completes == \E e \in Occurring, k \in Kinds : progress_local_event_hdlr(e, k)

Next ==
  \/ \E h \in Given : \/ PMIx_Register_event_handler(h)
                      \/ ServerAnswers(h)
                      \/ PMIx_Deregister_event_handler(h)
  \/ \E e \in Occurring : PMIx_Notify_event(e) \/ notify_event_cbfunc(e)
  \/ Completes
  \/ ProgressThread

Spec == Init /\ [][Next]_vars

\* The progress thread runs, a handler completes, and the server answers what it is asked.
FairSpec ==
  /\ Spec /\ WF_vars(ProgressThread) /\ WF_vars(Completes)
  /\ \A h \in Handlers : WF_vars(h \in Given /\ ServerAnswers(h))
  /\ \A e \in Events : WF_vars(e \in Occurring /\ notify_event_cbfunc(e))

-----------------------------------------------------------------------------
(* Properties.                                                             *)

Stages == {"new", "called", "wait", "answered", "on", "leaving", "off", "refused"}

\* Every variable keeps its type, and no handler is in two places of the registry.
TypeOK ==
  /\ stage \in [Handlers -> Stages]
  /\ cache \subseteq Occurring /\ told \subseteq Occurring /\ misspent \subseteq Occurring
  /\ IsInjective(SelectSeq(<<events.first, events.last>>, LAMBDA h : h # NONE)
                   \o events.single \o events.multi \o events.default \o events.observer)
  /\ Registered(events) \subseteq Given
  /\ \A e \in Events, k \in Kinds : chain[e][k].st = "out" => chain[e][k].at \in Given

Place_of(h) == CASE FirstOverall(h) -> 0 [] LastOverall(h) -> 4
                 [] H(h).cat = "single" -> 1 [] H(h).cat = "multi" -> 2 [] OTHER -> 3

\* However handlers come and go while an event is on its way, it meets each of them at most
\* once, in the order first, single-code, multi-code, default, last (cycle_events resumes from
\* the handler that had the event).
ChainInOrder ==
  \A e \in Occurring, k \in Kinds :
    LET s == chain[e][k].ran
    IN IsInjective(s) /\ \A i, j \in DOMAIN s : i < j => Place_of(s[i]) <= Place_of(s[j])

\* An event that no handler ended has been to every handler that fits it and was registered
\* all the while (the walk of pmix_invoke_local_event_hdlr and cycle_events).
NobodySkipped ==
  \A e \in Occurring : LET ch == chain[e]["live"]
    IN ch.st = "ended" /\ ~ch.complete =>
         \A h \in ch.had : ~Freed(h) /\ Fits(h, e) /\ ~(Place_of(h) = 3 /\ E(e).nondefault)
                             => h \in Range(ch.ran)

\* Handlers the event is for, and events that are kept when no handler takes them.
Takes(h, e) == H(h).cat # "observer" /\ Fits(h, e) /\ (H(h).cat = "default" => ~E(e).nondefault)
Kept(e) == E(e).ours /\ (E(e).by = "server" \/ (E(e).local /\ E(e).hold))

\* An event that found no handler waits for one: once a handler that takes it is registered,
\* before or after it came, the event has been to some handler (pmix_event_notify_complete,
\* check_cached_events).  The exception is an event that left the cache for a registrant that
\* was refused, only observes, or whose range it is not in: check_cached_events asks about
\* none of these, and the handlers that register later miss the event.
CachedForTheNext ==
  \A e \in Occurring : Kept(e) /\ chain[e]["live"].st \notin {"idle", "queued"} =>
    \A h \in Given : stage[h] = "on" /\ Takes(h, e) =>
      (\E k \in Kinds : chain[e][k].ran # <<>>) \/ e \in misspent

\* A handler registered for one shot sees one event.
OneShot ==
  \A h \in Given : H(h).oneshot =>
    Cardinality({c \in Occurring \X Kinds : h \in Range(chain[c[1]][c[2]].ran)}) <= 1

\* Every event runs to its end, and the process that raised it hears of that.  The exception is
\* an event whose handler was deregistered or refused before it handed the event on:
\* chain->evhdlr holds no reference to the handler, and the walk has nothing to go on from.
EveryEventEnds ==
  \A e \in Events : chain[e]["live"].st = "queued" ~>
    /\ chain[e]["live"].st \in {"ended", "wild"}
    /\ e \in {x \in Occurring : E(x).by = "self"} => e \in told

=============================================================================
