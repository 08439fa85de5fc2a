--------------------------- MODULE EventDelivery ---------------------------
(***************************************************************************)
(* How a server delivers events to its clients: a notification is fanned   *)
(* out to the peers registered for its code and kept in a cache of         *)
(* max_events rooms (a "hotel"), from which peers that register later are  *)
(* served; it leaves the cache when every target has it, when it is too    *)
(* old, or when it must make room.                                         *)
(*                                                                         *)
(* Notifications and replays are shifted to the progress thread and run in *)
(* the order shifted.  What is sent to a client arrives in that order, so  *)
(* `mail` is both what was sent and what the client gets.                  *)
(***************************************************************************)
EXTENDS Naturals, FiniteSets, Sequences, SequencesExt

CONSTANTS
  Clients,     \* the clients of the server
  Codes,       \* the event codes
  Events,      \* the notifications that may be raised
  max_events,  \* the rooms of the cache
  MaxRegs,     \* bound: registrations a client makes
  MaxTime,     \* bound: the seconds that pass
  Scenarios    \* what may happen in a behaviour; one is chosen at the start

ME == "ME"                        \* the server as the source of an event
REMOTE == "REMOTE"                \* a source on another node: the host delivers the event
MAX_ERR == "MAX_ERR_CONSTANT"     \* a default registration
NONE == "NONE"
Keys == Codes \cup {MAX_ERR}
Rooms == 0..(max_events - 1)

\* No target: whoever is registered.  cache: not flagged DO_NOT_CACHE.
Event ==
  [code : Codes, source : Clients \cup {ME, REMOTE}, range : {"LOCAL", "GLOBAL", "CUSTOM", "RM"},
   targets : SUBSET Clients, cache : BOOLEAN, nondefault : BOOLEAN]

\* event: what is raised.  registers: what a client may register for.  again: also for what
\* it is registered for.  via: whether the server completes a registration itself or its host
\* does.  returns: how the host answers notify_event.  ages: time passes.
IsScenario(s) ==
  /\ DOMAIN s.event \subseteq Events /\ \A e \in DOMAIN s.event : s.event[e] \in Event
  /\ s.registers \in [Clients -> SUBSET Keys] /\ s.again \in BOOLEAN
  /\ s.via \subseteq {"server", "host"} /\ s.returns \subseteq {"SUCCESS", "OPERATION_SUCCEEDED", "ERROR"}
  /\ s.departs \subseteq Clients /\ s.ages \in BOOLEAN

ASSUME DeliveryAssumption ==
  /\ max_events \in Nat \ {0} /\ MaxRegs \in Nat /\ MaxTime \in Nat
  /\ \A s \in Scenarios : IsScenario(s)

VARIABLES
  scenario,  \* the member of Scenarios this behaviour is about
  now,       \* the second it is
  regs,      \* regs[c]: what client c is registered for
  nreg,      \* nreg[c]: how many registrations it made
  gone,      \* the clients that left
  raised,    \* raised[e]: whether event e is under way or was handled
  shifted,   \* what is shifted to the progress thread, in order
  asked,     \* the registrations the host is completing
  room,      \* room[r]: the occupant of room r
  free,      \* the stack of unoccupied rooms, the next one last
  upcall,    \* the events the host is disseminating
  answers,   \* answers[e]: what the notifier of e was told, in order
  mail,      \* mail[c]: what the server sent to client c
  dropped,   \* the events that left the cache for age or for room
  recounted  \* history: the events for targets that were replayed to one that had them

cache == <<room, free, dropped>>
vars == <<scenario, now, regs, nreg, gone, raised, shifted, asked, cache, upcall, answers, mail,
          recounted>>

Given == DOMAIN scenario.event
Ev(e) == scenario.event[e]
EMPTY == [ev |-> NONE, nleft |-> 0, ts |-> 0]
Task == [task : {"notify"}, ev : Events] \cup [task : {"replay", "replay_ack"}, c : Clients, key : Keys]

TypeOK ==
  /\ scenario \in Scenarios /\ now \in 0..MaxTime
  /\ regs \in [Clients -> SUBSET Keys] /\ nreg \in [Clients -> 0..MaxRegs] /\ gone \subseteq Clients
  /\ raised \in [Events -> {"no", "shifted", "handled"}]
  /\ \A i \in DOMAIN shifted : shifted[i] \in Task
  /\ \A i \in DOMAIN asked : asked[i] \in [c : Clients, key : Keys]
  /\ room \in [Rooms -> [ev : Events \cup {NONE}, nleft : 0..Cardinality(Clients), ts : 0..MaxTime]]
  /\ free \in Seq(Rooms) /\ dropped \subseteq Events /\ recounted \subseteq Events
  /\ upcall \subseteq Events
  /\ answers \in [Events -> Seq({"SUCCESS", "BAD_PARAM", "ERROR"})]
  /\ \A c \in Clients : \A i \in DOMAIN mail[c] : mail[c][i] \in Events \cup {"ACK"}

Init ==
  /\ scenario \in Scenarios /\ now = 0
  /\ regs = [c \in Clients |-> {}] /\ nreg = [c \in Clients |-> 0] /\ gone = {}
  /\ raised = [e \in Events |-> "no"] /\ shifted = <<>> /\ asked = <<>>
  /\ room = [r \in Rooms |-> EMPTY] /\ free = [i \in 1..max_events |-> i - 1]
  /\ dropped = {} /\ recounted = {}
  /\ upcall = {} /\ answers = [e \in Events |-> <<>>] /\ mail = [c \in Clients |-> <<>>]

Has(c, e) == \E i \in DOMAIN mail[c] : mail[c][i] = e
Occupied == {r \in Rooms : room[r].ev # NONE}

----------------------------------------------------------------------------
(* The cache.  An operator takes and returns [room, free, dropped].        *)

Cache == [room |-> room, free |-> free, dropped |-> dropped]
Becomes(H) == room' = H.room /\ free' = H.free /\ dropped' = H.dropped

hotel_checkin(H, e, n) ==
  [H EXCEPT !.room[Last(H.free)] = [ev |-> e, nleft |-> n, ts |-> now], !.free = Front(@)]

hotel_checkout(H, r) == [H EXCEPT !.room[r] = EMPTY, !.free = Append(@, r)]

Evicted(H, r) == [hotel_checkout(H, r) EXCEPT !.dropped = @ \cup {H.room[r].ev}]

\* The oldest occupant; of those that came in the same second, the one in the first room
Oldest(H) ==
  CHOOSE r \in Rooms : \A q \in Rooms : \/ H.room[r].ts < H.room[q].ts
                                        \/ H.room[r].ts = H.room[q].ts /\ r <= q

notify_event_cache(H, e, n) ==
  hotel_checkin(IF H.free = <<>> THEN Evicted(H, Oldest(H)) ELSE H, e, n)

RoomOf(H, e) == CHOOSE r \in Rooms : H.room[r].ev = e

----------------------------------------------------------------------------
(* Notification.                                                           *)

\* A client, the server or the host raises event e.
Raise(e) ==
  /\ raised[e] = "no" /\ Ev(e).source \notin gone
  /\ raised' = [raised EXCEPT ![e] = "shifted"]
  /\ shifted' = Append(shifted, [task |-> "notify", ev |-> e])
  /\ UNCHANGED <<scenario, now, regs, nreg, gone, asked, cache, upcall, answers, mail, recounted>>

\* Whether a registration for key is served with event e
Matches(key, e) == key = Ev(e).code \/ (key = MAX_ERR /\ ~Ev(e).nondefault)

\* The peers the event is sent to at once
Recipients(e) ==
  {c \in Clients \ gone : /\ \E key \in regs[c] : Matches(key, e)
                          /\ c # Ev(e).source
                          /\ Ev(e).targets # {} => c \in Ev(e).targets}

\* Whether e goes up to the host: the server's own from the handler, a client's from the
\* handler's completion (intermed_step)
host_notify(e) ==
  /\ Ev(e).source # REMOTE /\ Ev(e).range # "LOCAL"
  /\ Ev(e).source = ME => Ev(e).range # "RM"

Answer(e, status) == answers' = [answers EXCEPT ![e] = Append(@, status)]

\* What becomes of the notifier: it is answered now, or when the host has disseminated e.
\* That the host failed is told to a client only.
Complete(e) ==
  \E rc \in scenario.returns :
    IF host_notify(e) /\ rc = "SUCCESS" THEN upcall' = upcall \cup {e} /\ UNCHANGED answers
    ELSE /\ Answer(e, IF host_notify(e) /\ rc = "ERROR" /\ Ev(e).source # ME THEN rc ELSE "SUCCESS")
         /\ UNCHANGED upcall

\* The server handles a notification: it caches it, sends it to those registered, drops it
\* from the cache when no target is left, passes it up.  One with targets must have the
\* custom range; it is refused after it was cached.
notify_client_event(e) ==
  LET nleft == Cardinality(Ev(e).targets)
      H == IF Ev(e).cache THEN notify_event_cache(Cache, e, nleft) ELSE Cache
      S == Recipients(e)
      left == nleft - Cardinality(S)
  IN  /\ shifted # <<>> /\ Head(shifted) = [task |-> "notify", ev |-> e]
      /\ shifted' = Tail(shifted)
      /\ raised' = [raised EXCEPT ![e] = "handled"]
      /\ \/ /\ Ev(e).range = "RM" /\ Becomes(H) /\ Complete(e) /\ UNCHANGED mail
         \/ /\ Ev(e).range # "RM" /\ Ev(e).targets # {} /\ Ev(e).range # "CUSTOM"
            /\ Becomes(H) /\ Answer(e, "BAD_PARAM") /\ UNCHANGED <<upcall, mail>>
         \/ /\ Ev(e).range # "RM" /\ Ev(e).targets # {} => Ev(e).range = "CUSTOM"
            /\ mail' = [c \in Clients |-> IF c \in S THEN Append(mail[c], e) ELSE mail[c]]
            /\ Becomes(IF ~Ev(e).cache \/ Ev(e).targets = {} THEN H
                       ELSE IF left = 0 THEN hotel_checkout(H, RoomOf(H, e))
                       ELSE [H EXCEPT !.room[RoomOf(H, e)].nleft = left])
            /\ Complete(e)
      /\ UNCHANGED <<scenario, now, regs, nreg, gone, asked, recounted>>

\* Mutant: the host's completion is lost when the server itself raised the event.
local_cbfunc_lost(e) ==
  /\ e \in upcall /\ Ev(e).source # ME /\ upcall' = upcall \ {e} /\ Answer(e, "SUCCESS")
  /\ UNCHANGED <<scenario, now, regs, nreg, gone, raised, shifted, asked, cache, mail, recounted>>

\* The host has disseminated event e.
local_cbfunc(e) ==
  /\ e \in upcall /\ upcall' = upcall \ {e} /\ Answer(e, "SUCCESS")
  /\ UNCHANGED <<scenario, now, regs, nreg, gone, raised, shifted, asked, cache, mail, recounted>>

----------------------------------------------------------------------------
(* Registration.                                                           *)

Send(c, m) == [mail EXCEPT ![c] = IF c \in gone THEN @ ELSE Append(@, m)]

\* Mutant: the answer is left to the replay.
register_events_late(c, key, via) ==
  /\ c \notin gone /\ nreg[c] < MaxRegs /\ key \in scenario.registers[c] /\ via \in scenario.via
  /\ scenario.again \/ key \notin regs[c]
  /\ regs' = [regs EXCEPT ![c] = @ \cup {key}] /\ nreg' = [nreg EXCEPT ![c] = @ + 1]
  /\ shifted' = Append(shifted, [task |-> "replay_ack", c |-> c, key |-> key])
  /\ UNCHANGED <<scenario, now, gone, raised, asked, cache, upcall, answers, mail, recounted>>

\* A client's registration is handled: the server enters it, and completes it - the replay
\* of the cache is shifted behind the answer - or leaves it to its host.
register_events(c, key, via) ==
  /\ c \notin gone /\ nreg[c] < MaxRegs /\ key \in scenario.registers[c] /\ via \in scenario.via
  /\ scenario.again \/ key \notin regs[c]
  /\ regs' = [regs EXCEPT ![c] = @ \cup {key}] /\ nreg' = [nreg EXCEPT ![c] = @ + 1]
  /\ \/ /\ via = "server" /\ mail' = Send(c, "ACK") /\ UNCHANGED asked
        /\ shifted' = Append(shifted, [task |-> "replay", c |-> c, key |-> key])
     \/ /\ via = "host" /\ asked' = Append(asked, [c |-> c, key |-> key])
        /\ UNCHANGED <<shifted, mail>>
  /\ UNCHANGED <<scenario, now, gone, raised, cache, upcall, answers, recounted>>

\* The host has completed a registration: the answer goes out behind the replay.
regevopcbfunc ==
  /\ asked # <<>> /\ asked' = Tail(asked)
  /\ shifted' = Append(shifted, [task |-> "replay_ack", c |-> Head(asked).c, key |-> Head(asked).key])
  /\ UNCHANGED <<scenario, now, regs, nreg, gone, raised, cache, upcall, answers, mail, recounted>>

\* Mutant: the first target served from the cache takes the event with it.
LastTarget_first(r) == TRUE

\* The target now served is the last one the event in room r waits for.
LastTarget(r) == room[r].nleft = 1

\* Whether the occupant of room r is for client c, which registered for key.  An event
\* without targets is also sent back to its source.
Wanted(r, c, key) ==
  LET e == room[r].ev
  IN  /\ e # NONE
      /\ Matches(key, e)
      /\ \/ Ev(e).range \in {"LOCAL", "GLOBAL"}
         \/ Ev(e).range = "CUSTOM" /\ (Ev(e).targets = {} => c = Ev(e).source)
      /\ Ev(e).targets # {} => c \in Ev(e).targets /\ c # Ev(e).source

\* The rooms are visited in order.  A target is counted, whether it had the event or not
\* and whether or not it is still there, and the last one takes the event with it.
check_cached_events ==
  /\ shifted # <<>> /\ Head(shifted).task \in {"replay", "replay_ack"}
  /\ LET t == Head(shifted)
         wanted == {r \in Rooms : Wanted(r, t.c, t.key)}
         counted == {r \in wanted : Ev(room[r].ev).targets # {}}
         leaving == {r \in counted : LastTarget(r)}
         rooms == SetToSortSeq(wanted, <)
         events == [i \in DOMAIN rooms |-> room[rooms[i]].ev]
     IN  /\ room' = [r \in Rooms |-> CASE r \in leaving -> EMPTY
                                      [] r \in counted \ leaving -> [room[r] EXCEPT !.nleft = @ - 1]
                                      [] OTHER -> room[r]]
         /\ free' = free \o SetToSortSeq(leaving, <)
         /\ mail' = IF t.c \in gone THEN mail
                    ELSE [mail EXCEPT ![t.c] =
                            @ \o events \o (IF t.task = "replay" THEN <<>> ELSE <<"ACK">>)]
         /\ recounted' = recounted \cup {room[r].ev : r \in {q \in counted : Has(t.c, room[q].ev)}}
  /\ shifted' = Tail(shifted)
  /\ UNCHANGED <<scenario, now, regs, nreg, gone, raised, asked, upcall, answers, dropped>>

\* A client left: its registrations go, and so do the cached events for it alone.
purge_events(c) ==
  /\ c \in scenario.departs \ gone /\ gone' = gone \cup {c}
  /\ regs' = [regs EXCEPT ![c] = {}]
  /\ LET rooms == {r \in Occupied : Ev(room[r].ev).targets = {c}}
     IN  /\ room' = [r \in Rooms |-> IF r \in rooms THEN EMPTY ELSE room[r]]
         /\ free' = free \o SetToSortSeq(rooms, <)
  /\ UNCHANGED <<scenario, now, nreg, raised, shifted, asked, upcall, answers, mail, dropped, recounted>>

\* The eviction timer of room r fires.
eviction_callback(r) ==
  /\ scenario.ages /\ r \in Occupied /\ room[r].ts < now /\ Becomes(Evicted(Cache, r))
  /\ UNCHANGED <<scenario, now, regs, nreg, gone, raised, shifted, asked, upcall, answers, mail, recounted>>

Tick ==
  /\ scenario.ages /\ now < MaxTime /\ now' = now + 1
  /\ UNCHANGED <<scenario, regs, nreg, gone, raised, shifted, asked, cache, upcall, answers, mail, recounted>>

Next ==
  \/ \E e \in Given : Raise(e) \/ notify_client_event(e) \/ local_cbfunc(e)
  \/ \E c \in Clients : \E key \in scenario.registers[c], via \in scenario.via :
       register_events(c, key, via)
  \/ regevopcbfunc \/ check_cached_events
  \/ \E c \in Clients : purge_events(c)
  \/ \E r \in Rooms : eviction_callback(r)
  \/ Tick

Spec == Init /\ [][Next]_vars

\* The progress thread handles what is shifted, and the host answers.
FairSpec ==
  /\ Spec
  /\ WF_vars(regevopcbfunc) /\ WF_vars(check_cached_events)
  /\ \A e \in Events : WF_vars(notify_client_event(e)) /\ WF_vars(local_cbfunc(e))

----------------------------------------------------------------------------
(* Properties.                                                             *)

Replaying(c, key) ==
  \/ \E i \in DOMAIN shifted : shifted[i].task # "notify" /\ shifted[i].c = c /\ shifted[i].key = key
  \/ \E i \in DOMAIN asked : asked[i].c = c /\ asked[i].key = key
Addressed(c, e) ==
  IF Ev(e).targets # {} THEN Ev(e).range = "CUSTOM" /\ c \in Ev(e).targets
  ELSE Ev(e).range \in {"LOCAL", "GLOBAL"}

\* A client gets every event it asked for, whether it registered before the event was raised
\* or afterwards.  It can miss one only if the event was not to be cached, left the cache for
\* age or for room, or was counted twice for another target: one that had it already and was
\* sent it again from the cache, for a second registration of its own or because it
\* registered while the event was on its way.
NobodyMissesAnEvent ==
  \A c \in Clients \ gone, e \in Given : \A key \in regs[c] :
    /\ raised[e] = "handled" /\ Ev(e).cache /\ e \notin dropped \cup recounted
    /\ Matches(key, e) /\ Addressed(c, e) /\ c # Ev(e).source /\ ~Replaying(c, key)
    => Has(c, e)

\* Where the server completes a registration itself, a client has the answer to its first
\* one before any event, although the event may have been raised long before.
AnswerComesFirst ==
  scenario.via = {"server"} => \A c \in Clients : mail[c] # <<>> => Head(mail[c]) = "ACK"

\* Every notifier is answered, and every registration too.
EverybodyAnswered ==
  /\ \A e \in Events : raised[e] # "no" ~> answers[e] # <<>>
  /\ \A c \in Clients :
       nreg[c] > 0 ~> (c \in gone \/ Len(SelectSeq(mail[c], LAMBDA m : m = "ACK")) = nreg[c])
=============================================================================
