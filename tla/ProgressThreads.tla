--------------------------- MODULE ProgressThreads ---------------------------
(* The progress thread of a PMIx library, src/runtime/pmix_progress_threads.c: *)
(* one tracker, its event base and the engine that drives the base, with the  *)
(* application threads that post work to the base and wait for it             *)
(* (PMIX_THREADSHIFT then PMIX_WAIT_THREAD), the host threads that step the   *)
(* base with PMIx_Progress, and the one thread that starts, pauses, resumes   *)
(* and stops it.  A base is libevent's: its active events run first in, first *)
(* out, a pass with EVLOOP_ONCE waits for an event, runs until none is left   *)
(* and returns, and a thread that enters a loop another thread is in returns  *)
(* at once.                                                                    *)
EXTENDS Integers, Sequences, Functions

CONSTANTS
  Users,      \* the application's threads
  MAIN,       \* the thread that initializes and finalizes the library
  ENGINE,     \* the progress thread of the tracker
  NOBODY,     \* (pthread_t) -1
  Scenarios,  \* what a behaviour may contain; see ScenarioType
  MaxCalls,   \* bound: how many blocking calls a thread makes
  MaxOps      \* bound: how many times MAIN changes the tracker

Apps == Users \cup {MAIN}
Threads == Apps \cup {ENGINE}

\* shared: the tracker is the library-wide one; external: the host passed
\* PMIX_EXTERNAL_PROGRESS; drivers: who calls PMIx_Progress; refs: how often
\* the name is initialized; fails: how the creation of an engine may fail;
\* apart: the host keeps the phases apart.  It steps the base only while no
\* engine does, makes its blocking calls from threads that do not step it, and
\* gives up the last reference only when no call is under way.
ScenarioType == [shared: BOOLEAN, external: BOOLEAN, drivers: SUBSET Apps,
                 refs: 1 .. 2, fails: SUBSET {"create", "bind"}, apart: BOOLEAN]

ASSUME ScenarioAssumption == Scenarios \subseteq ScenarioType
ASSUME ThreadAssumption ==
  MAIN \notin Users /\ ENGINE \notin Apps /\ NOBODY \notin Threads
ASSUME BoundAssumption == MaxCalls \in Nat /\ MaxOps \in Nat

VARIABLES
  scenario,
  initialized,  \* whether the library has been opened; kept through a
                \* finalize, so that stopped alone must refuse calls then
  trk,      \* the tracker: [refs, ev_active], refs = 0 when there is none
  queue,    \* the active events of its base
  looper,   \* the thread inside the loop of the base
  stopped,  \* pmix_globals.progress_thread_stopped
  owner,    \* shared_loop_thread
  pc,       \* where each thread is
  saved,    \* what each running PMIx_Progress will restore
  ran,      \* whether this pass has run an event
  calls,    \* how many blocking calls each thread has made
  ops,      \* how many times MAIN has changed the tracker
  stop,     \* the start or stop under way: [free, before]
  cut       \* history: whose call was under way when the engine was stopped or
            \* failed to start, and has neither returned nor met an engine since

vars == <<scenario, initialized, trk, queue, looper, stopped, owner, pc, saved, ran, calls,
          ops, stop, cut>>

Event == [op: {"work"}, who: Threads, turn: 1 .. MaxCalls]
           \cup [op: {"marker", "exit", "tick"}]

TypeOK ==
  /\ scenario \in Scenarios
  /\ initialized \in BOOLEAN
  /\ trk \in [refs: 0 .. 2, ev_active: BOOLEAN]
  /\ queue \in Seq(Event)
  /\ looper \in Threads \cup {NOBODY}
  /\ stopped \in BOOLEAN
  /\ owner \in Threads \cup {NOBODY}
  /\ pc \in [Threads -> {"none", "born", "top", "out", "checked", "wait", "enter",
                         "pass", "cb", "reenter", "leave", "flush", "flushed",
                         "starting", "binding", "join"}]
  /\ \A t \in Threads : saved[t] \in Seq(Threads \cup {NOBODY})
  /\ ran \in BOOLEAN
  /\ calls \in [Threads -> 0 .. MaxCalls]
  /\ ops \in 0 .. MaxOps
  /\ stop \in [free: BOOLEAN, before: SUBSET Event]
  /\ cut \subseteq Apps

NoStop == [free |-> FALSE, before |-> {}]

Init ==
  /\ scenario \in Scenarios
  /\ initialized = FALSE
  /\ trk = [refs |-> 0, ev_active |-> FALSE]
  /\ queue = <<>>
  /\ looper = NOBODY
  /\ stopped = FALSE
  /\ owner = NOBODY
  /\ pc = [t \in Threads |-> IF t = ENGINE THEN "none" ELSE "out"]
  /\ saved = [t \in Threads |-> <<>>]
  /\ ran = FALSE
  /\ calls = [t \in Threads |-> 0]
  /\ ops = 0
  /\ stop = NoStop
  /\ cut = {}

-----------------------------------------------------------------------------
(* Blocking calls.                                                          *)

pmix_progress_thread_is_current(t) == owner = t

\* What every blocking API asks before it shifts its work: the stopped flag,
\* then pmix_progress_thread_check_blocking.
MayBlock(t) == ~stopped /\ ~pmix_progress_thread_is_current(t)

\* The entry of a blocking API of the library, called by a thread of the
\* application or by a callback the loop runs; a refused call changes nothing.
ApiCall(t) ==
  /\ scenario.shared
  /\ initialized
  /\ pc[t] = "cb" \/ (pc[t] = "out" /\ (scenario.apart => t \notin scenario.drivers))
  /\ calls[t] < MaxCalls
  /\ MayBlock(t)
  /\ pc' = [pc EXCEPT ![t] = "checked"]
  /\ calls' = [calls EXCEPT ![t] = @ + 1]
  /\ UNCHANGED <<scenario, initialized, trk, queue, looper, stopped, owner, saved,
                 ran, ops, stop, cut>>

Work(t) == [op |-> "work", who |-> t, turn |-> calls[t]]

\* PMIX_THREADSHIFT and PMIX_WAIT_THREAD; what is posted to a base that a
\* failed start has freed is lost.
ThreadShift(t) ==
  /\ pc[t] = "checked"
  /\ queue' = IF trk.refs > 0 THEN Append(queue, Work(t)) ELSE queue
  /\ pc' = [pc EXCEPT ![t] = "wait"]
  /\ UNCHANGED <<scenario, initialized, trk, looper, stopped, owner, saved, ran,
                 calls, ops, stop, cut>>

-----------------------------------------------------------------------------
(* The loop.                                                                *)

\* A thread that is about to call pmix_event_loop on the base.
event_loop(t) ==
  /\ pc[t] = "enter" \/ (pc[t] = "top" /\ trk.ev_active)
  /\ IF looper = NOBODY
       THEN /\ looper' = t
            /\ pc' = [pc EXCEPT ![t] = "pass"]
            /\ ran' = FALSE
       ELSE /\ pc' = [pc EXCEPT ![t] = IF t = ENGINE THEN "top" ELSE "leave"]
            /\ UNCHANGED <<looper, ran>>
  /\ UNCHANGED <<scenario, initialized, trk, queue, stopped, owner, saved, calls,
                 ops, stop, cut>>

\* The loop runs its first active event.  Work wakes the thread that waits
\* for it and runs a callback; checkev, the marker, wakes MAIN.
RunEvent(t) ==
  LET e == Head(queue) IN
  /\ looper = t
  /\ pc[t] = "pass"
  /\ queue # <<>>
  /\ queue' = Tail(queue)
  /\ ran' = TRUE
  /\ pc' = CASE e.op = "work" -> [pc EXCEPT ![e.who] = "out", ![t] = "cb"]
             [] e.op = "marker" -> [pc EXCEPT ![MAIN] = "flushed"]
             [] OTHER -> pc
  /\ cut' = IF e.op = "work" THEN cut \ {e.who} ELSE cut
  /\ UNCHANGED <<scenario, initialized, trk, looper, stopped, owner, saved, calls,
                 ops, stop>>

CallbackReturns(t) ==
  /\ pc[t] = "cb"
  /\ pc' = [pc EXCEPT ![t] = "pass"]
  /\ UNCHANGED <<scenario, initialized, trk, queue, looper, stopped, owner, saved,
                 ran, calls, ops, stop, cut>>

\* EVLOOP_ONCE: the pass ends when it has run something and nothing is left.
PassEnds(t) ==
  /\ looper = t
  /\ pc[t] = "pass"
  /\ ran
  /\ queue = <<>>
  /\ looper' = NOBODY
  /\ pc' = [pc EXCEPT ![t] = IF t = ENGINE THEN "top" ELSE "leave"]
  /\ UNCHANGED <<scenario, initialized, trk, queue, stopped, owner, saved, ran,
                 calls, ops, stop, cut>>

\* The hourly timer that keeps the base from being empty; a loop looks for
\* expired timers when it has no active event to run.
dummy_timeout_cb ==
  /\ looper # NOBODY
  /\ ~ran
  /\ queue = <<>>
  /\ queue' = <<[op |-> "tick"]>>
  /\ UNCHANGED <<scenario, initialized, trk, looper, stopped, owner, pc, saved,
                 ran, calls, ops, stop, cut>>

progress_engine ==
  /\ pc[ENGINE] = "born"
  /\ owner' = IF scenario.shared THEN ENGINE ELSE owner
  /\ pc' = [pc EXCEPT ![ENGINE] = "top"]
  /\ UNCHANGED <<scenario, initialized, trk, queue, looper, stopped, saved, ran,
                 calls, ops, stop, cut>>

progress_engine_ends ==
  /\ pc[ENGINE] = "top"
  /\ ~trk.ev_active
  /\ owner' = IF scenario.shared THEN NOBODY ELSE owner
  /\ pc' = [pc EXCEPT ![ENGINE] = "none"]
  /\ UNCHANGED <<scenario, initialized, trk, queue, looper, stopped, saved, ran,
                 calls, ops, stop, cut>>

\* PMIx_Progress, called from a thread of the host or from a callback that
\* the thread is running: it names itself, steps the base, and restores.
PMIx_Progress(t) ==
  /\ t \in scenario.drivers
  /\ scenario.apart => pc[ENGINE] = "none" /\ pc[MAIN] \notin {"starting", "join"}
  /\ scenario.shared
  /\ trk.refs > 0
  /\ pc[t] \in {"out", "cb"}
  /\ saved' = [saved EXCEPT ![t] = <<owner>> \o @]
  /\ owner' = t
  /\ pc' = [pc EXCEPT ![t] = IF @ = "out" THEN "enter" ELSE "reenter"]
  /\ UNCHANGED <<scenario, initialized, trk, queue, looper, stopped, ran, calls,
                 ops, stop, cut>>

\* Mutant: it clears the name instead of restoring it.
ProgressReturns_clears(t) ==
  /\ pc[t] \in {"leave", "reenter"}
  /\ owner' = NOBODY
  /\ saved' = [saved EXCEPT ![t] = Tail(@)]
  /\ pc' = [pc EXCEPT ![t] = IF @ = "leave" THEN "out" ELSE "cb"]
  /\ UNCHANGED <<scenario, initialized, trk, queue, looper, stopped, ran, calls,
                 ops, stop, cut>>

ProgressReturns(t) ==
  /\ pc[t] \in {"leave", "reenter"}
  /\ owner' = Head(saved[t])
  /\ saved' = [saved EXCEPT ![t] = Tail(@)]
  /\ pc' = [pc EXCEPT ![t] = IF @ = "leave" THEN "out" ELSE "cb"]
  /\ UNCHANGED <<scenario, initialized, trk, queue, looper, stopped, ran, calls,
                 ops, stop, cut>>

-----------------------------------------------------------------------------
(* The operations of MAIN on the tracker.                                   *)

Idle(t) == pc[t] = "out"

\* The calls that have passed their checks and not returned.
UnderWay == {t \in Apps : pc[t] \in {"checked", "wait"}}

pmix_progress_thread_init ==
  /\ Idle(MAIN)
  /\ ops < MaxOps
  /\ trk.refs < scenario.refs
  /\ trk' = [trk EXCEPT !.refs = @ + 1]
  /\ ops' = ops + 1
  /\ UNCHANGED <<scenario, initialized, queue, looper, stopped, owner, pc, saved,
                 ran, calls, stop, cut>>

\* Mutant: the APIs are left open.
stop_progress_engine_open(free) ==
  /\ trk' = [trk EXCEPT !.ev_active = FALSE]
  /\ UNCHANGED stopped
  /\ queue' = Append(queue, [op |-> "exit"])
  /\ stop' = [stop EXCEPT !.free = free]
  /\ cut' = cut \cup UnderWay

\* stop_progress_engine up to the join.
stop_progress_engine(free) ==
  /\ trk' = [trk EXCEPT !.ev_active = FALSE]
  /\ stopped' = (stopped \/ scenario.shared)
  /\ queue' = Append(queue, [op |-> "exit"])
  /\ stop' = [stop EXCEPT !.free = free]
  /\ cut' = cut \cup UnderWay

Joined == pc[MAIN] = "join" /\ pc[ENGINE] = "none"

\* The tracker leaves the list and its base is freed.
Free ==
  /\ trk' = [refs |-> 0, ev_active |-> FALSE]
  /\ queue' = <<>>
  /\ stopped' = (stopped \/ scenario.shared)

\* start_progress_engine claims the tracker and opens the APIs, for a start,
\* which frees the tracker of an engine that fails, and for a resume, which
\* keeps it...
start_progress_engine(free) ==
  /\ trk' = [trk EXCEPT !.ev_active = TRUE]
  /\ stopped' = (stopped /\ ~scenario.shared)
  /\ pc' = [pc EXCEPT ![MAIN] = "starting"]
  /\ stop' = [stop EXCEPT !.free = free]

\* ...then creates the thread, or takes the claim back...
pmix_thread_start ==
  /\ pc[MAIN] = "starting"
  /\ \/ /\ pc' = [pc EXCEPT ![ENGINE] = "born", ![MAIN] = "binding"]
        /\ UNCHANGED <<trk, queue, stopped, stop, cut>>
     \/ /\ "create" \in scenario.fails
        /\ IF stop.free THEN Free ELSE /\ trk' = [trk EXCEPT !.ev_active = FALSE]
                                      /\ stopped' = (stopped \/ scenario.shared)
                                      /\ UNCHANGED queue
        /\ pc' = [pc EXCEPT ![MAIN] = "out"]
        /\ stop' = NoStop
        /\ cut' = cut \cup UnderWay
  /\ UNCHANGED <<scenario, initialized, looper, owner, saved, ran, calls, ops>>

\* ...and binds it, or stops it again.  The library counts as initialized once
\* its thread has started.
pthread_setaffinity_np ==
  /\ pc[MAIN] = "binding"
  /\ \/ /\ pc' = [pc EXCEPT ![MAIN] = "out"]
        /\ stop' = NoStop
        /\ initialized' = TRUE
        /\ cut' = {t \in cut : pc[t] = "wait" /\ Work(t) \notin Range(queue)}
        /\ UNCHANGED <<trk, queue, stopped>>
     \/ /\ "bind" \in scenario.fails
        /\ stop_progress_engine(stop.free)
        /\ pc' = [pc EXCEPT ![MAIN] = "join"]
        /\ UNCHANGED initialized
  /\ UNCHANGED <<scenario, looper, owner, saved, ran, calls, ops>>

\* Under external progress a start or a resume only opens the APIs.
pmix_progress_thread_start(resume) ==
  /\ Idle(MAIN)
  /\ ops < MaxOps
  /\ trk.refs > 0
  /\ ~trk.ev_active
  /\ scenario.apart /\ ~scenario.external => \A t \in Apps : Idle(t) \/ t \in UnderWay
  /\ \/ /\ scenario.external
        /\ stopped' = FALSE
        /\ initialized' = TRUE
        /\ UNCHANGED <<trk, pc, stop>>
     \/ ~scenario.external /\ start_progress_engine(~resume) /\ UNCHANGED initialized
  /\ ops' = ops + 1
  /\ UNCHANGED <<scenario, queue, looper, owner, saved, ran, calls, cut>>

\* Mutant: the marker is put ahead of the events.
Marked_first == <<[op |-> "marker"]>> \o queue

Marked == Append(queue, [op |-> "marker"])

\* PMIx_Progress_thread_stop with a flush posts a marker and waits for it...
PMIx_Progress_thread_stop ==
  /\ Idle(MAIN)
  /\ ops < MaxOps
  /\ trk.ev_active
  /\ queue' = Marked
  /\ stop' = [free |-> FALSE, before |-> Range(queue) \ [op: {"tick", "exit"}]]
  /\ pc' = [pc EXCEPT ![MAIN] = "flush"]
  /\ ops' = ops + 1
  /\ UNCHANGED <<scenario, initialized, trk, looper, stopped, owner, saved, ran,
                 calls, cut>>

\* ...then stops the engine.
FlushDone ==
  /\ pc[MAIN] = "flushed"
  /\ stop_progress_engine(FALSE)
  /\ pc' = [pc EXCEPT ![MAIN] = "join"]
  /\ UNCHANGED <<scenario, initialized, looper, owner, saved, ran, calls, ops>>

\* Also PMIx_Progress_thread_stop without a flush.
pmix_progress_thread_pause ==
  /\ Idle(MAIN)
  /\ ops < MaxOps
  /\ trk.refs > 0
  /\ \/ /\ scenario.external
        /\ stopped' = TRUE
        /\ UNCHANGED <<trk, queue, pc, stop, cut>>
     \/ /\ trk.ev_active
        /\ stop_progress_engine(FALSE)
        /\ pc' = [pc EXCEPT ![MAIN] = "join"]
  /\ ops' = ops + 1
  /\ UNCHANGED <<scenario, initialized, looper, owner, saved, ran, calls>>

LastReference == trk.refs = 1

\* Nothing to join: the tracker goes at once.
Close == Free /\ cut' = cut \cup UnderWay /\ UNCHANGED <<pc, stop>>

pmix_progress_thread_stop ==
  /\ Idle(MAIN)
  /\ ops < MaxOps
  /\ trk.refs > 0
  /\ LastReference /\ scenario.apart => \A t \in Apps : Idle(t)
  /\ \/ /\ ~LastReference
        /\ trk' = [trk EXCEPT !.refs = @ - 1]
        /\ UNCHANGED <<queue, stopped, pc, stop, cut>>
     \/ /\ LastReference
        /\ trk.ev_active
        /\ stop_progress_engine(TRUE)
        /\ pc' = [pc EXCEPT ![MAIN] = "join"]
     \/ LastReference /\ ~trk.ev_active /\ Close
  /\ ops' = ops + 1
  /\ UNCHANGED <<scenario, initialized, looper, owner, saved, ran, calls>>

\* pmix_thread_join returns to the stop, which frees the tracker or not.
pmix_thread_join ==
  /\ Joined
  /\ pc' = [pc EXCEPT ![MAIN] = "out"]
  /\ stop' = NoStop
  /\ IF stop.free THEN Free ELSE UNCHANGED <<trk, queue, stopped>>
  /\ UNCHANGED <<scenario, initialized, looper, owner, saved, ran, calls, ops, cut>>

-----------------------------------------------------------------------------
LoopStep(t) == \/ event_loop(t) \/ RunEvent(t) \/ CallbackReturns(t) \/ PassEnds(t)

Next ==
  \/ \E t \in Threads : ApiCall(t) \/ ThreadShift(t) \/ LoopStep(t)
  \/ \E t \in Apps : PMIx_Progress(t) \/ ProgressReturns(t)
  \/ progress_engine \/ progress_engine_ends \/ dummy_timeout_cb
  \/ pmix_progress_thread_init
  \/ \E resume \in BOOLEAN : pmix_progress_thread_start(resume)
  \/ pmix_thread_start \/ pthread_setaffinity_np
  \/ PMIx_Progress_thread_stop \/ FlushDone \/ pmix_progress_thread_pause
  \/ pmix_progress_thread_stop \/ pmix_thread_join

Spec == Init /\ [][Next]_vars

\* The threads are scheduled, callbacks return, and a host that drives the
\* base itself keeps calling PMIx_Progress.
FairSpec ==
  /\ Spec
  /\ \A t \in Threads : /\ WF_vars(ThreadShift(t)) /\ WF_vars(LoopStep(t))
                        /\ SF_vars(CallbackReturns(t))
  /\ \A t \in Apps : /\ WF_vars(ProgressReturns(t))
                     /\ WF_vars(pc[t] = "out" /\ PMIx_Progress(t))
  /\ WF_vars(progress_engine) /\ WF_vars(progress_engine_ends)
  /\ WF_vars(pmix_thread_start) /\ WF_vars(pthread_setaffinity_np)
  /\ WF_vars(FlushDone) /\ WF_vars(pmix_thread_join)

-----------------------------------------------------------------------------
(* Properties.                                                              *)

\* The thread inside the loop never waits for an event of that loop: a
\* blocking call made by a callback is refused, also where the callback has
\* stepped the base itself with PMIx_Progress and that call has returned
\* ("Restore rather than clear").
NobodyWaitsForItself == looper # NOBODY => pc[looper] \notin {"checked", "wait"}

\* The name in shared_loop_thread is that of a thread that is driving the
\* loop, so a thread outside of it is never refused a blocking call ("A stale
\* value can therefore never produce a false yes").
NoFalseAlarm == owner # NOBODY =>
  \/ owner = ENGINE /\ pc[ENGINE] # "none"
  \/ saved[owner] # <<>>

\* When the marker of a flushing stop has been seen, every event that was
\* queued when the stop was asked for has run.
FlushedBeforeStop == pc[MAIN] = "flushed" => stop.before \cap Range(queue) = {}

\* A blocking call that was accepted returns, unless it was under way when the
\* engine was stopped or failed to start: then it returns if an engine is
\* started again and its base was kept.  A call is never accepted while nothing
\* will drive the base, except between the two halves of a start that fails.
AcceptedCallsReturn == \A t \in Apps : pc[t] = "wait" ~> pc[t] = "out" \/ t \in cut

=============================================================================
