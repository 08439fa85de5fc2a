----------------------- MODULE ProgressThreadsProofs -----------------------
(***************************************************************************)
(* A flushing stop of the progress thread loses nothing that was queued    *)
(* before it, and the thread in the loop never waits for the loop.  The    *)
(* first invariant follows the marker through the queue: what was there    *)
(* before the marker is ahead of it or has run.  The second says whose     *)
(* name the looper field carries while a thread is in the loop, and which  *)
(* name each nested PMIx_Progress found and will put back.                 *)
(***************************************************************************)
EXTENDS ProgressThreads, TLAPS

Places == {"none", "born", "top", "out", "checked", "wait", "enter", "pass", "cb",
           "reenter", "leave", "flush", "flushed", "starting", "binding", "join"}

TrackerType == [refs : Int, ev_active : BOOLEAN]
StopType == [free : BOOLEAN, before : SUBSET Event]

\* The parts of the type that the two arguments need.
ThreadType ==
  /\ scenario \in Scenarios
  /\ queue \in Seq(Event)
  /\ pc \in [Threads -> Places]
  /\ calls \in [Threads -> 0 .. MaxCalls]
  /\ trk \in TrackerType
  /\ stop \in StopType

\* Whoever posted a work event waits for it, and it is the event of its last call.
Posted ==
  \A i \in DOMAIN queue : queue[i].op = "work" =>
    pc[queue[i].who] = "wait" /\ queue[i].turn = calls[queue[i].who]

\* Nobody has two of them in the queue.
OnePost ==
  \A i, j \in DOMAIN queue :
    queue[i].op = "work" /\ queue[j].op = "work" /\ queue[i].who = queue[j].who => i = j

\* There is a marker only while MAIN waits for it.
MarkerAwaited ==
  \A i \in DOMAIN queue : queue[i].op = "marker" => pc[MAIN] = "flush"

\* There is one marker, and what was queued before it still is.
MarkerLast ==
  \A i, j \in DOMAIN queue : queue[i].op = "marker" =>
    /\ queue[j].op = "marker" => i = j
    /\ queue[j] \in stop.before => j < i

\* What was queued when the stop was asked for is work, and no later call posts it again.
BeforeIsPast ==
  \A e \in stop.before :
    /\ e.op = "work" /\ e.turn <= calls[e.who]
    /\ pc[e.who] = "checked" => e.turn < calls[e.who]

\* The engine's thread is gone when it is not to run and nobody is joining it, and the
\* tracker is claimed before there is one.
EngineGone ==
  /\ ~trk.ev_active /\ pc[MAIN] # "join" => pc[ENGINE] = "none"
  /\ pc[MAIN] = "starting" => trk.ev_active /\ pc[ENGINE] = "none"
  /\ pc[MAIN] = "binding" => trk.ev_active

\* A thread that was let into a call has counted it.
CalledOnce ==
  \A t \in Threads : pc[t] = "checked" => calls[t] # 0

FlushInv ==
  /\ ThreadType /\ CalledOnce /\ Posted /\ OnePost /\ MarkerAwaited /\ MarkerLast /\ BeforeIsPast /\ EngineGone
  /\ FlushedBeforeStop

\* A step that adds at most a tick or an exit to the queue, or empties it, that nobody
\* enters a call, a wait or a flush by, and that no event is run by.
Quiet ==
  /\ UNCHANGED <<scenario, calls>> /\ stop'.before \subseteq stop.before
  /\ trk' \in TrackerType /\ stop' \in StopType
  /\ queue' \in Seq(Event)
  /\ \A i \in DOMAIN queue' :
       (i \in DOMAIN queue /\ queue'[i] = queue[i]) \/ queue'[i].op \in {"tick", "exit"}
  /\ pc' \in [Threads -> Places]
  /\ \A t \in Threads : /\ pc[t] = "wait" => pc'[t] = "wait"
                        /\ pc'[t] = "checked" => pc[t] = "checked"
  /\ pc[MAIN] = "flush" => pc'[MAIN] = "flush"
  /\ pc'[MAIN] = "flushed" => pc[MAIN] = "flushed"

\* The names of the threads the model gives a role.
LEMMA Members ==
  MAIN \in Threads /\ ENGINE \in Threads /\ MAIN # ENGINE /\ Apps \subseteq Threads
  BY ThreadAssumption DEF Threads, Apps

\* The event of an API call names its thread and its call.
LEMMA WorkIsPosted ==
  ASSUME NEW e \in Event, e.op = "work"
  PROVE  e.who \in Threads /\ e.turn \in 1 .. MaxCalls
  BY DEF Event

\* What was queued before a stop are events of callers.
LEMMA BeforeIsEvent ==
  ASSUME ThreadType PROVE stop.before \subseteq Event
  BY DEF ThreadType, StopType

\* A step that neither queues nor runs an event keeps the invariant.
LEMMA QuietKeeps ==
  ASSUME FlushInv, Quiet, EngineGone'
  PROVE  FlushInv'
<1> USE DEF FlushInv
<1>1. ThreadType'
  BY DEF ThreadType, Quiet
<1>2. \A i \in DOMAIN queue : queue[i] \in Event
  BY DEF ThreadType
<1>3. ASSUME NEW i \in DOMAIN queue', queue'[i].op \notin {"tick", "exit"}
      PROVE  i \in DOMAIN queue /\ queue'[i] = queue[i]
  BY <1>3 DEF Quiet
<1>4. Posted'
  <2> SUFFICES ASSUME NEW i \in DOMAIN queue', queue'[i].op = "work"
               PROVE  pc'[queue'[i].who] = "wait" /\ queue'[i].turn = calls'[queue'[i].who]
    BY DEF Posted
  <2>1. i \in DOMAIN queue /\ queue'[i] = queue[i] /\ queue[i] \in Event
    BY <1>2, <1>3
  <2>2. QED
    BY <2>1, WorkIsPosted DEF Posted, Quiet
<1>5. MarkerAwaited'
  BY <1>3 DEF MarkerAwaited, Quiet
<1>6. \A e \in stop.before : e.op = "work"
  BY DEF BeforeIsPast
<1>7. MarkerLast'
  BY <1>3, <1>6 DEF MarkerLast, Quiet
<1>8. BeforeIsPast'
  <2> SUFFICES ASSUME NEW e \in stop.before, e \in stop'.before
               PROVE  /\ e.op = "work" /\ e.turn <= calls[e.who]
                      /\ pc'[e.who] = "checked" => e.turn < calls[e.who]
    BY DEF BeforeIsPast, Quiet
  <2>1. e \in Event /\ e.op = "work"
    BY <1>6, BeforeIsEvent
  <2>2. QED
    BY <2>1, WorkIsPosted DEF BeforeIsPast, Quiet
<1>9. FlushedBeforeStop'
  BY <1>3, <1>6 DEF FlushedBeforeStop, Range, Quiet
<1>10. CalledOnce'
  BY DEF CalledOnce, Quiet
<1>11. OnePost'
  BY <1>3 DEF OnePost
<1>12. QED
  BY <1>1, <1>4, <1>5, <1>7, <1>8, <1>9, <1>10, <1>11

\* An API call before its thread shift keeps the invariant.
LEMMA ApiCallKeeps ==
  ASSUME FlushInv, NEW t \in Threads, ApiCall(t)
  PROVE  FlushInv'
<1> USE DEF FlushInv
<1>1. /\ UNCHANGED <<scenario, queue, trk, stop>> /\ pc[t] \in {"cb", "out"}
      /\ pc' = [pc EXCEPT ![t] = "checked"] /\ calls' = [calls EXCEPT ![t] = @ + 1]
      /\ calls[t] < MaxCalls
  BY DEF ApiCall
<1>2. /\ \A u \in Threads : u # t => pc'[u] = pc[u] /\ calls'[u] = calls[u]
      /\ pc'[t] = "checked" /\ calls'[t] = calls[t] + 1 /\ calls[t] \in Nat
      /\ pc' \in [Threads -> Places]
  BY <1>1 DEF ThreadType, Places
<1>3. MaxCalls \in Nat
  BY BoundAssumption
<1>4. calls' \in [Threads -> 0 .. MaxCalls]
  BY <1>1, <1>3 DEF ThreadType
<1>5. Posted'
  <2> SUFFICES ASSUME NEW i \in DOMAIN queue, queue[i].op = "work"
               PROVE  pc'[queue[i].who] = "wait" /\ queue[i].turn = calls'[queue[i].who]
    BY <1>1 DEF Posted
  <2>1. queue[i] \in Event /\ queue[i].who \in Threads
    BY WorkIsPosted DEF ThreadType
  <2>2. queue[i].who # t
    BY <1>1 DEF Posted
  <2>3. QED
    BY <1>2, <2>1, <2>2 DEF Posted
<1>6. BeforeIsPast'
  <2> SUFFICES ASSUME NEW e \in stop.before
               PROVE  /\ e.op = "work" /\ e.turn <= calls'[e.who]
                      /\ pc'[e.who] = "checked" => e.turn < calls'[e.who]
    BY <1>1 DEF BeforeIsPast
  <2>1. e \in Event /\ e.op = "work"
    BY BeforeIsEvent DEF BeforeIsPast
  <2>2. e.who \in Threads /\ e.turn \in Int
    BY <2>1, WorkIsPosted
  <2>3. QED
    BY <1>2, <2>1, <2>2 DEF BeforeIsPast
<1>7. MAIN \in Threads /\ (pc[MAIN] = "flush" => pc'[MAIN] = "flush")
      /\ (pc'[MAIN] = "flushed" => pc[MAIN] = "flushed")
  BY <1>1, <1>2, Members
<1>8. EngineGone'
  BY <1>1, <1>2, Members DEF EngineGone
<1>9. CalledOnce'
  BY <1>2 DEF CalledOnce
<1>10. QED
  BY <1>1, <1>2, <1>4, <1>5, <1>6, <1>7, <1>8, <1>9
     DEF ThreadType, OnePost, MarkerAwaited, MarkerLast, FlushedBeforeStop

\* PMIX_THREADSHIFT queues behind everything that is there.
LEMMA PostKeeps ==
  ASSUME FlushInv, NEW t \in Threads, ThreadShift(t), trk.refs > 0
  PROVE  FlushInv'
<1> USE DEF FlushInv
<1> DEFINE w == Work(t)
<1>1. /\ UNCHANGED <<scenario, calls, trk, stop>> /\ pc[t] = "checked"
      /\ pc' = [pc EXCEPT ![t] = "wait"] /\ queue' = Append(queue, w)
  BY DEF ThreadShift
<1>2. /\ \A u \in Threads : u # t => pc'[u] = pc[u]
      /\ pc'[t] = "wait" /\ pc' \in [Threads -> Places]
  BY <1>1 DEF ThreadType, Places
<1>3. w.op = "work" /\ w.who = t /\ w.turn = calls[t]
  BY DEF Work
<1>4. w \in Event
  <2>1. calls[t] \in 0 .. MaxCalls /\ calls'[t] = calls[t]
    BY <1>1 DEF ThreadType
  <2>2. calls[t] # 0
    BY <1>1 DEF CalledOnce
  <2>3. QED
    BY <2>1, <2>2, BoundAssumption DEF Work, Event
<1>5. w \notin stop.before
  BY <1>1, <1>3 DEF BeforeIsPast, ThreadType
<1> HIDE DEF w
<1>6. /\ queue' \in Seq(Event)
      /\ \A i \in DOMAIN queue' : \/ i \in DOMAIN queue /\ queue'[i] = queue[i]
                                  \/ i = Len(queue) + 1 /\ queue'[i] = w
  BY <1>1, <1>4 DEF ThreadType
<1>7. Posted'
  <2> SUFFICES ASSUME NEW i \in DOMAIN queue', queue'[i].op = "work"
               PROVE  pc'[queue'[i].who] = "wait" /\ queue'[i].turn = calls'[queue'[i].who]
    BY DEF Posted
  <2>1. CASE queue'[i] = w
    BY <1>1, <1>2, <1>3, <2>1
  <2>2. CASE i \in DOMAIN queue /\ queue'[i] = queue[i]
    <3>1. queue[i] \in Event /\ queue[i].who \in Threads
      BY <2>2, WorkIsPosted DEF ThreadType
    <3>2. pc[queue[i].who] = "wait" /\ queue[i].turn = calls[queue[i].who]
      BY <2>2 DEF Posted
    <3>3. QED
      BY <1>1, <1>2, <2>2, <3>1, <3>2
  <2>3. QED
    BY <1>6, <2>1, <2>2
<1>8. BeforeIsPast'
  <2> SUFFICES ASSUME NEW e \in stop.before
               PROVE  /\ e.op = "work" /\ e.turn <= calls[e.who]
                      /\ pc'[e.who] = "checked" => e.turn < calls[e.who]
    BY <1>1 DEF BeforeIsPast
  <2>1. e.op = "work" /\ e.who \in Threads
    BY WorkIsPosted, BeforeIsEvent DEF BeforeIsPast
  <2>2. QED
    BY <1>2, <2>1 DEF BeforeIsPast
<1>9. (pc[MAIN] = "flush" => pc'[MAIN] = "flush") /\ (pc'[MAIN] = "flushed" => pc[MAIN] = "flushed")
  BY <1>1, <1>2, Members
<1>10. MarkerAwaited' /\ MarkerLast'
  <2>1. ASSUME NEW i \in DOMAIN queue', queue'[i].op = "marker" \/ queue'[i] \in stop.before
        PROVE  i \in DOMAIN queue /\ queue'[i] = queue[i]
    BY <1>3, <1>5, <1>6, <2>1
  <2>2. QED
    BY <1>1, <1>9, <2>1 DEF MarkerAwaited, MarkerLast
<1>11. FlushedBeforeStop'
  BY <1>1, <1>5, <1>6, <1>9 DEF FlushedBeforeStop, Range
<1>12. EngineGone'
  BY <1>1, <1>2, Members DEF EngineGone
<1>13. CalledOnce'
  BY <1>1, <1>2 DEF CalledOnce
<1>14. OnePost'
  <2>1. \A i \in DOMAIN queue : queue[i].op = "work" => queue[i].who # t
    BY <1>1 DEF Posted
  <2>2. \A i \in DOMAIN queue' :
          \/ i \in DOMAIN queue /\ queue'[i] = queue[i]
          \/ i = Len(queue) + 1 /\ queue'[i].who = t
    BY <1>3, <1>6
  <2>3. QED
    BY <2>1, <2>2 DEF OnePost
<1>15. QED
  BY <1>1, <1>2, <1>6, <1>7, <1>8, <1>10, <1>11, <1>12, <1>13, <1>14 DEF ThreadType

\* The event that runs is the first; the others move up.
LEMMA QueueTail ==
  ASSUME queue \in Seq(Event), queue # <<>>
  PROVE  /\ Tail(queue) \in Seq(Event) /\ 1 \in DOMAIN queue /\ Head(queue) = queue[1]
         /\ \A i \in DOMAIN Tail(queue) :
              i \in Nat /\ i + 1 \in DOMAIN queue /\ i + 1 # 1 /\ Tail(queue)[i] = queue[i + 1]
  OBVIOUS

\* The loop runs the oldest event, the stop's marker in its turn.
LEMMA RunEventKeeps ==
  ASSUME FlushInv, NEW t \in Threads, RunEvent(t)
  PROVE  FlushInv'
<1> USE DEF FlushInv
<1> DEFINE e == Head(queue)
<1>1. /\ UNCHANGED <<scenario, calls, trk, stop>> /\ pc[t] = "pass" /\ queue # <<>>
      /\ queue' = Tail(queue)
      /\ pc' = CASE e.op = "work" -> [pc EXCEPT ![e.who] = "out", ![t] = "cb"]
                 [] e.op = "marker" -> [pc EXCEPT ![MAIN] = "flushed"]
                 [] OTHER -> pc
  BY DEF RunEvent
<1>2. /\ queue' \in Seq(Event) /\ 1 \in DOMAIN queue /\ e = queue[1] /\ e \in Event
      /\ \A i \in DOMAIN queue' :
           i \in Nat /\ i + 1 \in DOMAIN queue /\ i + 1 # 1 /\ queue'[i] = queue[i + 1]
  BY <1>1, QueueTail DEF ThreadType
<1> HIDE DEF e
<1>3. ASSUME NEW i \in DOMAIN queue', queue'[i].op = "work"
      PROVE  /\ queue'[i].who \in Threads /\ pc[queue'[i].who] = "wait"
             /\ queue'[i].turn = calls[queue'[i].who]
  <2>1. queue'[i] = queue[i + 1] /\ i + 1 \in DOMAIN queue /\ queue[i + 1] \in Event
    BY <1>2 DEF ThreadType
  <2>2. QED
    BY <1>3, <2>1, WorkIsPosted DEF Posted
<1>4. ASSUME NEW i \in DOMAIN queue', queue'[i].op = "marker"
      PROVE  /\ pc[MAIN] = "flush" /\ e.op # "marker"
             /\ \A j \in DOMAIN queue' : /\ queue'[j].op = "marker" => i = j
                                         /\ queue'[j] \in stop.before => j < i
  BY <1>2, <1>4 DEF MarkerAwaited, MarkerLast
<1>5. CASE e.op = "work"
  <2>1. e.who \in Threads /\ pc[e.who] = "wait" /\ e.turn = calls[e.who]
    BY <1>2, <1>5, WorkIsPosted DEF Posted
  <2>2. /\ pc' \in [Threads -> Places] /\ pc'[e.who] = "out" /\ pc'[t] = "cb"
        /\ \A u \in Threads : u # e.who /\ u # t => pc'[u] = pc[u]
    BY <1>1, <1>5, <2>1, Zenon DEF ThreadType, Places
  <2>3. ASSUME NEW i \in DOMAIN queue', queue'[i].op = "work" PROVE queue'[i].who # e.who
    <3>1. /\ queue[i + 1].who \in Threads /\ i + 1 \in DOMAIN queue /\ queue'[i] = queue[i + 1]
          /\ i + 1 # 1
      BY <1>2, <1>3, <2>3
    <3>2. QED
      BY <1>2, <1>5, <2>3, <3>1 DEF OnePost
  <2>4. Posted' /\ OnePost'
    <3>1. Posted'
      BY <1>1, <1>3, <2>2, <2>3 DEF Posted
    <3>2. OnePost'
      BY <1>2 DEF OnePost
    <3>3. QED
      BY <3>1, <3>2
  <2>5. /\ pc[MAIN] = "flush" => pc'[MAIN] = "flush"
        /\ pc'[MAIN] = "flushed" => pc[MAIN] = "flushed"
        /\ pc[ENGINE] = "none" => pc'[ENGINE] = "none"
        /\ pc[MAIN] = "join" => pc'[MAIN] = "join"
        /\ pc'[MAIN] \in {"starting", "binding"} => pc'[MAIN] = pc[MAIN]
    BY <1>1, <2>1, <2>2, Members
  <2>6. MarkerAwaited' /\ MarkerLast' /\ EngineGone'
    BY <1>1, <1>4, <2>5 DEF MarkerAwaited, MarkerLast, EngineGone
  <2>7. BeforeIsPast' /\ CalledOnce'
    <3>1. ASSUME NEW u \in Threads, pc'[u] = "checked" PROVE pc[u] = "checked"
      BY <2>2, <3>1
    <3>2. \A b \in stop.before : b.op = "work" /\ b.who \in Threads
      BY WorkIsPosted, BeforeIsEvent DEF BeforeIsPast
    <3>3. QED
      BY <1>1, <3>1, <3>2, Zenon DEF BeforeIsPast, CalledOnce
  <2>8. FlushedBeforeStop'
    BY <1>1, <1>2, <2>5 DEF FlushedBeforeStop, Range
  <2>9. QED
    BY <1>1, <1>2, <2>2, <2>4, <2>6, <2>7, <2>8, Zenon DEF ThreadType
<1>6. CASE e.op = "marker"
  <2>1. pc' = [pc EXCEPT ![MAIN] = "flushed"] /\ pc[MAIN] = "flush"
    BY <1>1, <1>2, <1>6 DEF MarkerAwaited
  <2>2. /\ pc' \in [Threads -> Places] /\ pc'[MAIN] = "flushed"
        /\ \A u \in Threads : u # MAIN => pc'[u] = pc[u]
    BY <2>1, Members DEF ThreadType, Places
  <2>3. \A i \in DOMAIN queue' : queue'[i].op # "marker"
    BY <1>4, <1>6
  <2>4. \A i \in DOMAIN queue' : queue'[i] \notin stop.before
    BY <1>2, <1>6 DEF MarkerLast
  <2>5. MarkerAwaited' /\ MarkerLast' /\ FlushedBeforeStop'
    BY <1>1, <2>3, <2>4 DEF MarkerAwaited, MarkerLast, FlushedBeforeStop, Range
  <2>6. Posted' /\ OnePost'
    <3>1. Posted'
      BY <1>1, <1>3, <2>1, <2>2 DEF Posted
    <3>2. OnePost'
      BY <1>2 DEF OnePost
    <3>3. QED
      BY <3>1, <3>2
  <2>7. BeforeIsPast' /\ CalledOnce' /\ EngineGone'
    <3>1. \A b \in stop.before : b.op = "work" /\ b.who \in Threads
      BY WorkIsPosted, BeforeIsEvent DEF BeforeIsPast
    <3>2. QED
      BY <1>1, <2>1, <2>2, <3>1, Members DEF BeforeIsPast, CalledOnce, EngineGone
  <2>8. QED
    BY <1>1, <1>2, <2>2, <2>5, <2>6, <2>7 DEF ThreadType
<1>7. CASE e.op \notin {"work", "marker"}
  <2>1. pc' = pc
    BY <1>1, <1>7
  <2>2. Posted' /\ OnePost'
    <3>1. Posted'
      BY <1>1, <1>3, <2>1 DEF Posted
    <3>2. OnePost'
      BY <1>2 DEF OnePost
    <3>3. QED
      BY <3>1, <3>2
  <2>3. MarkerAwaited' /\ MarkerLast'
    BY <1>1, <1>4, <2>1 DEF MarkerAwaited, MarkerLast
  <2>4. FlushedBeforeStop'
    BY <1>1, <1>2, <2>1 DEF FlushedBeforeStop, Range
  <2>5. QED
    BY <1>1, <1>2, <2>1, <2>2, <2>3, <2>4, Zenon DEF ThreadType, BeforeIsPast, CalledOnce, EngineGone
<1>8. QED
  BY <1>5, <1>6, <1>7

\* The marker is queued behind the events it is to wait for.
LEMMA FlushingStopKeeps ==
  ASSUME FlushInv, PMIx_Progress_thread_stop
  PROVE  FlushInv'
<1> USE DEF FlushInv
<1> DEFINE m == [op |-> "marker"]
<1>1. /\ UNCHANGED <<scenario, calls, trk>> /\ pc[MAIN] = "out"
      /\ pc' = [pc EXCEPT ![MAIN] = "flush"] /\ queue' = Append(queue, m)
      /\ stop' = [free |-> FALSE, before |-> Range(queue) \ [op : {"tick", "exit"}]]
  BY DEF PMIx_Progress_thread_stop, Idle, Marked
<1>2. /\ pc' \in [Threads -> Places] /\ pc'[MAIN] = "flush"
      /\ \A u \in Threads : u # MAIN => pc'[u] = pc[u]
  BY <1>1, Members DEF ThreadType, Places
<1>3. m \in Event /\ m.op = "marker"
  BY DEF Event
<1> HIDE DEF m
<1>4. /\ queue' \in Seq(Event)
      /\ \A i \in DOMAIN queue' : \/ i \in DOMAIN queue /\ i <= Len(queue) /\ queue'[i] = queue[i]
                                  \/ i = Len(queue) + 1 /\ queue'[i] = m
      /\ \A i \in DOMAIN queue : queue[i] \in Event
      /\ Len(queue) \in Nat /\ DOMAIN queue' \subseteq Nat
  BY <1>1, <1>3 DEF ThreadType
<1>5. \A i \in DOMAIN queue : queue[i].op # "marker"
  BY <1>1 DEF MarkerAwaited
<1>6. ASSUME NEW e \in stop'.before PROVE e \in Event /\ e.op = "work" /\ \E i \in DOMAIN queue : e = queue[i]
  <2>1. PICK i \in DOMAIN queue : e = queue[i]
    BY <1>1, <1>6 DEF Range
  <2>2. e \in Event /\ e \notin [op : {"tick", "exit"}] /\ e.op # "marker"
    BY <1>1, <1>4, <1>5, <1>6, <2>1
  <2>3. QED
    BY <2>1, <2>2 DEF Event
<1>7. Posted' /\ OnePost'
  <2>1. \A i \in DOMAIN queue' : queue'[i].op = "work" => i \in DOMAIN queue /\ queue'[i] = queue[i]
    BY <1>3, <1>4
  <2>2. \A i \in DOMAIN queue : queue[i].op = "work" => queue[i].who \in Threads /\ queue[i].who # MAIN
    BY <1>1, <1>4, WorkIsPosted DEF Posted
  <2>3. Posted'
    BY <1>1, <1>2, <2>1, <2>2 DEF Posted
  <2>4. OnePost'
    BY <2>1 DEF OnePost
  <2>5. QED
    BY <2>3, <2>4
<1>8. MarkerAwaited' /\ MarkerLast'
  <2>1. m \notin stop'.before
    BY <1>3, <1>6
  <2>2. \A i \in DOMAIN queue' : queue'[i].op = "marker" => i = Len(queue) + 1
    BY <1>4, <1>5
  <2>3. \A i \in DOMAIN queue' : queue'[i] \in stop'.before => i < Len(queue) + 1
    BY <1>4, <2>1
  <2>4. QED
    BY <1>2, <2>2, <2>3 DEF MarkerAwaited, MarkerLast
<1>9. BeforeIsPast'
  <2> SUFFICES ASSUME NEW e \in stop'.before
               PROVE  /\ e.op = "work" /\ e.turn <= calls[e.who]
                      /\ pc'[e.who] # "checked"
    BY <1>1 DEF BeforeIsPast
  <2>1. PICK i \in DOMAIN queue : e = queue[i]
    BY <1>6
  <2>2. e.op = "work" /\ e.who \in Threads /\ pc[e.who] = "wait" /\ e.turn = calls[e.who]
    BY <1>6, <2>1, WorkIsPosted DEF Posted
  <2>3. e.turn \in Nat
    BY <1>6, <2>2, WorkIsPosted
  <2>4. QED
    BY <1>1, <1>2, <2>2, <2>3
<1>10. CalledOnce' /\ EngineGone' /\ FlushedBeforeStop'
  BY <1>1, <1>2, Members DEF CalledOnce, EngineGone, FlushedBeforeStop
<1>11. ThreadType'
  <2>1. stop' \in StopType
    BY <1>1, <1>6 DEF StopType
  <2>2. QED
    BY <1>1, <1>2, <1>4, <2>1 DEF ThreadType
<1>12. QED
  BY <1>7, <1>8, <1>9, <1>10, <1>11

\* What the other steps do to the queue, and to the place of one thread.
LEMMA QuietStep ==
  ASSUME FlushInv, UNCHANGED <<scenario, calls>>, stop'.before \subseteq stop.before,
         \/ queue' = queue \/ queue' = <<>>
         \/ queue' = Append(queue, [op |-> "exit"]) \/ queue' = <<[op |-> "tick"]>>,
         pc' \in [Threads -> Places], trk' \in TrackerType, stop' \in StopType,
         \A u \in Threads :
           \/ pc'[u] = pc[u]
           \/ pc[u] \notin {"wait", "flush"} /\ pc'[u] \notin {"checked", "flushed"}
  PROVE  Quiet
<1> DEFINE x == [op |-> "exit"]
           k == [op |-> "tick"]
<1>1. x \in Event /\ x.op = "exit" /\ k \in Event /\ k.op = "tick"
  BY DEF Event
<1>2. \/ queue' = queue \/ queue' = <<>> \/ queue' = Append(queue, x) \/ queue' = <<k>>
  OBVIOUS
<1>3. queue \in Seq(Event)
  BY DEF FlushInv, ThreadType
<1> HIDE DEF x, k
<1>4. /\ queue' \in Seq(Event)
      /\ \A i \in DOMAIN queue' : \/ i \in DOMAIN queue /\ queue'[i] = queue[i]
                                  \/ queue'[i] \in {x, k}
  <2>1. CASE queue' = queue
    BY <1>3, <2>1
  <2>2. CASE queue' = <<>>
    BY <2>2
  <2>3. CASE queue' = Append(queue, x)
    BY <1>1, <1>3, <2>3
  <2>4. CASE queue' = <<k>>
    BY <1>1, <2>4
  <2>5. QED
    BY <1>2, <2>1, <2>2, <2>3, <2>4
<1>5. \A i \in DOMAIN queue' : \/ i \in DOMAIN queue /\ queue'[i] = queue[i]
                               \/ queue'[i].op \in {"tick", "exit"}
  BY <1>1, <1>4
<1>6. MAIN \in Threads
  BY Members
<1>7. QED
  BY <1>4, <1>5, <1>6 DEF Quiet

\* PMIX_THREADSHIFT keeps the invariant, also where the base is gone.
LEMMA ThreadShiftKeeps ==
  ASSUME FlushInv, NEW t \in Threads, ThreadShift(t)
  PROVE  FlushInv'
<1>1. CASE trk.refs > 0
  BY <1>1, PostKeeps
<1>2. CASE ~(trk.refs > 0)
  <2>1. /\ UNCHANGED <<scenario, calls, trk, stop, queue>> /\ pc[t] = "checked"
        /\ pc' = [pc EXCEPT ![t] = "wait"]
    BY <1>2 DEF ThreadShift
  <2>2. /\ pc' \in [Threads -> Places]
        /\ \A u \in Threads : pc'[u] = pc[u] \/ (pc[u] = "checked" /\ pc'[u] = "wait")
    BY <2>1 DEF FlushInv, ThreadType, Places
  <2>3. trk' \in TrackerType /\ stop' \in StopType
    BY <2>1 DEF FlushInv, ThreadType
  <2>4. Quiet
    BY <2>1, <2>2, <2>3, QuietStep
  <2>5. EngineGone'
    BY <2>1, <2>2, Members DEF FlushInv, EngineGone
  <2>6. QED
    BY <2>4, <2>5, QuietKeeps
<1>3. QED
  BY <1>1, <1>2

\* A step of a thread in the event loop keeps the invariant.
LEMMA LoopKeeps ==
  ASSUME FlushInv, NEW t \in Threads,
         \/ event_loop(t) \/ CallbackReturns(t) \/ PassEnds(t)
         \/ t \in Apps /\ (PMIx_Progress(t) \/ ProgressReturns(t))
         \/ dummy_timeout_cb
  PROVE  FlushInv'
<1> USE DEF FlushInv
<1>1. /\ UNCHANGED <<scenario, calls, trk, stop>>
      /\ queue' = queue \/ queue' = <<[op |-> "tick"]>>
      /\ \/ pc' = pc
         \/ \E p \in {"pass", "top", "leave", "enter", "reenter", "out", "cb"} :
              /\ pc' = [pc EXCEPT ![t] = p]
              /\ pc[t] \in {"enter", "top", "cb", "pass", "leave", "reenter"} \/ (pc[t] = "out" /\ t # ENGINE)
  <2>1. CASE event_loop(t)
    BY <2>1 DEF event_loop
  <2>2. CASE CallbackReturns(t)
    BY <2>2 DEF CallbackReturns
  <2>3. CASE PassEnds(t)
    BY <2>3, Zenon DEF PassEnds
  <2>4. CASE t \in Apps /\ PMIx_Progress(t)
    <3>1. t # ENGINE
      BY <2>4, ThreadAssumption
    <3>2. QED
      BY <2>4, <3>1, Zenon DEF PMIx_Progress
  <2>5. CASE ProgressReturns(t)
    BY <2>5, Zenon DEF ProgressReturns
  <2>6. CASE dummy_timeout_cb
    BY <2>6 DEF dummy_timeout_cb
  <2>7. QED
    BY <2>1, <2>2, <2>3, <2>4, <2>5, <2>6
<1>2. Quiet
  <2>1. /\ pc' \in [Threads -> Places]
        /\ \A u \in Threads :
             \/ pc'[u] = pc[u]
             \/ pc[u] \notin {"wait", "flush"} /\ pc'[u] \notin {"checked", "flushed"}
    BY <1>1 DEF ThreadType, Places
  <2>2. trk' \in TrackerType /\ stop' \in StopType
    BY <1>1 DEF ThreadType
  <2>3. QED
    BY <1>1, <2>1, <2>2, QuietStep
<1>3. EngineGone'
  <2>1. /\ pc[ENGINE] = "none" => pc'[ENGINE] = "none"
        /\ pc[MAIN] = "join" => pc'[MAIN] = "join"
        /\ pc'[MAIN] \in {"starting", "binding"} => pc'[MAIN] = pc[MAIN]
    BY <1>1, Members DEF ThreadType
  <2>2. QED
    BY <1>1, <2>1 DEF EngineGone
<1>4. QED
  BY <1>2, <1>3, QuietKeeps

\* A step of progress_engine keeps the invariant.
LEMMA EngineKeeps ==
  ASSUME FlushInv, progress_engine \/ progress_engine_ends
  PROVE  FlushInv'
<1> USE DEF FlushInv
<1>1. /\ UNCHANGED <<scenario, calls, trk, stop, queue>>
      /\ \/ pc[ENGINE] = "born" /\ pc' = [pc EXCEPT ![ENGINE] = "top"]
         \/ pc[ENGINE] = "top" /\ pc' = [pc EXCEPT ![ENGINE] = "none"]
  BY DEF progress_engine, progress_engine_ends
<1>2. /\ pc' \in [Threads -> Places] /\ pc'[MAIN] = pc[MAIN]
      /\ \A u \in Threads :
           \/ pc'[u] = pc[u]
           \/ pc[u] \notin {"wait", "flush"} /\ pc'[u] \notin {"checked", "flushed"}
  BY <1>1, Members DEF ThreadType, Places
<1>3. trk' \in TrackerType /\ stop' \in StopType
  BY <1>1 DEF ThreadType
<1>4. Quiet
  BY <1>1, <1>2, <1>3, QuietStep
<1>5. EngineGone'
  BY <1>1, <1>2, Members DEF EngineGone, ThreadType
<1>6. QED
  BY <1>4, <1>5, QuietKeeps

\* MAIN changes the tracker: the engine's thread is born only when there is none, and it is
\* told to end only by a MAIN that goes on to join it.
LEMMA TrackerKeeps ==
  ASSUME FlushInv, UNCHANGED <<scenario, calls>>,
         \/ pc[MAIN] \in {"out", "flushed", "starting", "binding"}
         \/ pc[MAIN] = "join" /\ pc[ENGINE] = "none",
         trk' \in TrackerType, stop' \in StopType, stop'.before \subseteq stop.before,
         queue' = queue \/ queue' = <<>> \/ queue' = Append(queue, [op |-> "exit"]),
         \/ /\ pc' = pc /\ pc[MAIN] \notin {"starting", "binding"}
            /\ trk'.ev_active = trk.ev_active \/ pc[ENGINE] = "none"
         \/ pc' = [pc EXCEPT ![MAIN] = "join"]
         \/ /\ pc' = [pc EXCEPT ![MAIN] = "out"]
            /\ pc[ENGINE] = "none" \/ trk'.ev_active
         \/ /\ pc' = [pc EXCEPT ![MAIN] = "starting"] /\ pc[ENGINE] = "none" /\ trk'.ev_active
         \/ /\ pc' = [pc EXCEPT ![ENGINE] = "born", ![MAIN] = "binding"]
            /\ pc[ENGINE] = "none" /\ trk'.ev_active
  PROVE  FlushInv'
<1> USE DEF FlushInv
<1>1. /\ pc' \in [Threads -> Places]
      /\ \A u \in Threads :
           \/ pc'[u] = pc[u]
           \/ pc[u] \notin {"wait", "flush"} /\ pc'[u] \notin {"checked", "flushed"}
  BY Members, Zenon DEF ThreadType, Places
<1>2. EngineGone'
  BY Members DEF EngineGone, ThreadType, TrackerType
<1>3. QED
  BY <1>1, <1>2, QuietStep, QuietKeeps

\* A step of the thread that starts and stops the base keeps the invariant.
LEMMA MainKeeps ==
  ASSUME FlushInv,
         \/ pmix_progress_thread_init \/ FlushDone \/ pmix_progress_thread_pause
         \/ \E resume \in BOOLEAN : pmix_progress_thread_start(resume)
         \/ pmix_thread_start \/ pthread_setaffinity_np
         \/ pmix_progress_thread_stop \/ pmix_thread_join
  PROVE  FlushInv'
<1> USE DEF FlushInv
<1>1. trk \in TrackerType /\ stop \in StopType /\ stop.before \subseteq stop.before
  BY DEF ThreadType
<1>2. pc[MAIN] = "out" /\ ~trk.ev_active => pc[ENGINE] = "none"
  BY DEF EngineGone
<1>3. ASSUME NEW free \in BOOLEAN, stop_progress_engine(free)
      PROVE  /\ trk' \in TrackerType /\ stop' \in StopType /\ stop'.before \subseteq stop.before
             /\ queue' = Append(queue, [op |-> "exit"])
  BY <1>1, <1>3, Zenon DEF stop_progress_engine, TrackerType, StopType
<1>4. ASSUME Free PROVE trk' \in TrackerType /\ queue' = <<>> /\ ~trk'.ev_active
  BY <1>4 DEF Free, TrackerType
<1>5. CASE pmix_progress_thread_init
  <2>1. /\ UNCHANGED <<scenario, calls, queue, pc, stop>> /\ pc[MAIN] = "out"
        /\ trk' = [trk EXCEPT !.refs = @ + 1]
    BY <1>5 DEF pmix_progress_thread_init, Idle
  <2>2. trk' \in TrackerType /\ trk'.ev_active = trk.ev_active
    BY <1>1, <2>1 DEF TrackerType
  <2>3. QED
    BY <1>1, <2>1, <2>2, TrackerKeeps
<1>6. CASE FlushDone
  <2>1. /\ UNCHANGED <<scenario, calls>> /\ pc[MAIN] = "flushed" /\ stop_progress_engine(FALSE)
        /\ pc' = [pc EXCEPT ![MAIN] = "join"]
    BY <1>6, Zenon DEF FlushDone
  <2>2. QED
    BY <1>3, <2>1, TrackerKeeps, Zenon
<1>7. CASE pmix_progress_thread_pause
  <2>1. /\ UNCHANGED <<scenario, calls>> /\ pc[MAIN] = "out"
        /\ \/ UNCHANGED <<trk, queue, pc, stop>>
           \/ stop_progress_engine(FALSE) /\ pc' = [pc EXCEPT ![MAIN] = "join"]
    BY <1>7, Zenon DEF pmix_progress_thread_pause, Idle
  <2>2. QED
    BY <1>1, <1>3, <2>1, TrackerKeeps, Zenon
<1>8. ASSUME NEW resume \in BOOLEAN, pmix_progress_thread_start(resume) PROVE FlushInv'
  <2>1. /\ UNCHANGED <<scenario, calls, queue>> /\ pc[MAIN] = "out" /\ ~trk.ev_active
        /\ UNCHANGED <<trk, pc, stop>> \/ start_progress_engine(~resume)
    BY <1>8 DEF pmix_progress_thread_start, Idle
  <2>2. CASE UNCHANGED <<trk, pc, stop>>
    BY <1>1, <2>1, <2>2, TrackerKeeps
  <2>3. CASE start_progress_engine(~resume)
    <3>1. /\ trk' = [trk EXCEPT !.ev_active = TRUE] /\ stop' = [stop EXCEPT !.free = ~resume]
          /\ pc' = [pc EXCEPT ![MAIN] = "starting"]
      BY <2>3 DEF start_progress_engine
    <3>2. trk' \in TrackerType /\ trk'.ev_active
      BY <1>1, <3>1, Zenon DEF TrackerType
    <3>3. stop' \in StopType /\ stop'.before \subseteq stop.before
      BY <1>1, <3>1, Zenon DEF StopType
    <3>4. QED
      BY <1>2, <2>1, <3>1, <3>2, <3>3, TrackerKeeps, Zenon
  <2>4. QED
    BY <2>1, <2>2, <2>3
<1>8a. CASE pmix_thread_start
  <2>1. UNCHANGED <<scenario, calls>> /\ pc[MAIN] = "starting" /\ trk.ev_active /\ pc[ENGINE] = "none"
    BY <1>8a DEF pmix_thread_start, EngineGone
  <2>2. CASE /\ pc' = [pc EXCEPT ![ENGINE] = "born", ![MAIN] = "binding"]
             /\ UNCHANGED <<trk, queue, stop>>
    BY <1>1, <2>1, <2>2, TrackerKeeps
  <2>3. CASE /\ Free \/ (trk' = [trk EXCEPT !.ev_active = FALSE] /\ UNCHANGED queue)
             /\ pc' = [pc EXCEPT ![MAIN] = "out"] /\ stop' = NoStop
    <3>1. trk' \in TrackerType /\ (queue' = <<>> \/ queue' = queue)
      BY <1>1, <1>4, <2>3, Zenon DEF TrackerType
    <3>2. stop' \in StopType /\ stop'.before \subseteq stop.before
      BY <2>3 DEF NoStop, StopType
    <3>3. QED
      BY <2>1, <2>3, <3>1, <3>2, TrackerKeeps
  <2>4. QED
    BY <1>8a, <2>2, <2>3, Zenon DEF pmix_thread_start
<1>8b. CASE pthread_setaffinity_np
  <2>1. UNCHANGED <<scenario, calls>> /\ pc[MAIN] = "binding" /\ trk.ev_active
    BY <1>8b DEF pthread_setaffinity_np, EngineGone
  <2>2. CASE pc' = [pc EXCEPT ![MAIN] = "out"] /\ stop' = NoStop /\ UNCHANGED <<trk, queue>>
    <3>1. stop' \in StopType /\ stop'.before \subseteq stop.before
      BY <2>2 DEF NoStop, StopType
    <3>2. QED
      BY <1>1, <2>1, <2>2, <3>1, TrackerKeeps
  <2>3. CASE stop_progress_engine(stop.free) /\ pc' = [pc EXCEPT ![MAIN] = "join"]
    <3>1. stop.free \in BOOLEAN
      BY <1>1 DEF StopType
    <3>2. QED
      BY <1>3, <2>1, <2>3, <3>1, TrackerKeeps, Zenon
  <2>4. QED
    BY <1>8b, <2>2, <2>3, Zenon DEF pthread_setaffinity_np
<1>9. CASE pmix_progress_thread_stop
  <2>1. /\ UNCHANGED <<scenario, calls>> /\ pc[MAIN] = "out"
        /\ \/ trk' = [trk EXCEPT !.refs = @ - 1] /\ UNCHANGED <<queue, pc, stop>>
           \/ stop_progress_engine(TRUE) /\ pc' = [pc EXCEPT ![MAIN] = "join"]
           \/ ~trk.ev_active /\ Free /\ UNCHANGED <<pc, stop>>
    BY <1>9, Zenon DEF pmix_progress_thread_stop, Idle, Close
  <2>2. CASE trk' = [trk EXCEPT !.refs = @ - 1] /\ UNCHANGED <<queue, pc, stop>>
    <3>1. trk' \in TrackerType /\ trk'.ev_active = trk.ev_active
      BY <1>1, <2>2 DEF TrackerType
    <3>2. QED
      BY <1>1, <2>1, <2>2, <3>1, TrackerKeeps
  <2>3. CASE stop_progress_engine(TRUE) /\ pc' = [pc EXCEPT ![MAIN] = "join"]
    BY <1>3, <2>1, <2>3, TrackerKeeps, Zenon
  <2>4. CASE ~trk.ev_active /\ Free /\ UNCHANGED <<pc, stop>>
    BY <1>1, <1>2, <1>4, <2>1, <2>4, TrackerKeeps
  <2>5. QED
    BY <2>1, <2>2, <2>3, <2>4, Zenon
<1>10. CASE pmix_thread_join
  <2>1. /\ UNCHANGED <<scenario, calls>> /\ pc[MAIN] = "join" /\ pc[ENGINE] = "none"
        /\ pc' = [pc EXCEPT ![MAIN] = "out"] /\ stop' = NoStop
        /\ Free \/ UNCHANGED <<trk, queue, stopped>>
    BY <1>10 DEF pmix_thread_join, Joined
  <2>2. stop' \in StopType /\ stop'.before \subseteq stop.before
    BY <2>1 DEF NoStop, StopType
  <2>3. QED
    BY <1>1, <1>4, <2>1, <2>2, TrackerKeeps
<1>11. QED
  BY <1>5, <1>6, <1>7, <1>8, <1>8a, <1>8b, <1>9, <1>10

\* The invariant holds before the base is started.
LEMMA InitFlush == Init => FlushInv
<1> SUFFICES ASSUME Init PROVE FlushInv
  OBVIOUS
<1>1. queue = <<>> /\ stop = NoStop /\ scenario \in Scenarios
  BY DEF Init
<1>2. pc \in [Threads -> {"none", "out"}] /\ pc[MAIN] = "out" /\ pc[ENGINE] = "none"
  BY Members DEF Init
<1>3. calls \in [Threads -> 0 .. MaxCalls] /\ trk \in TrackerType /\ stop \in StopType
  BY BoundAssumption DEF Init, TrackerType, StopType, NoStop
<1>4. ThreadType
  BY <1>1, <1>2, <1>3 DEF ThreadType, Places
<1>5. QED
  BY <1>1, <1>2, <1>4 DEF FlushInv, CalledOnce, Posted, OnePost, MarkerAwaited, MarkerLast,
     BeforeIsPast, EngineGone, FlushedBeforeStop, NoStop

\* Every step keeps the invariant.
LEMMA FlushStep == FlushInv /\ [Next]_vars => FlushInv'
<1>1. FlushInv /\ UNCHANGED vars => FlushInv'
  BY DEF vars, FlushInv, ThreadType, CalledOnce, Posted, OnePost, MarkerAwaited, MarkerLast,
     BeforeIsPast, EngineGone, FlushedBeforeStop
<1>2. FlushInv /\ Next => FlushInv'
  BY ApiCallKeeps, ThreadShiftKeeps, RunEventKeeps, LoopKeeps, EngineKeeps, MainKeeps,
     FlushingStopKeeps, Members DEF Next, LoopStep
<1>3. QED
  BY <1>1, <1>2

\* When the marker of a flushing stop has been seen, every event that was queued when the
\* stop was asked for has run (PMIx_Progress_thread_stop with a flush): for any number of
\* threads and calls, whoever drives the base, and whether or not the host keeps its calls
\* apart from the stop.
THEOREM FlushLosesNothing == Spec => []FlushedBeforeStop
<1>1. FlushInv => FlushedBeforeStop
  BY DEF FlushInv
<1>2. QED
  BY <1>1, InitFlush, FlushStep, PTL DEF Spec

-----------------------------------------------------------------------------
(* Who is in the loop.                                                     *)

\* The host steps the base from one thread at most, and keeps the phases apart.
OneDriver ==
  \A s \in Scenarios : s.apart /\ \A t, u \in s.drivers : t = u

Inside == {"pass", "cb", "reenter"}
Driving == Inside \cup {"enter", "leave"}

\* Who is in the loop, and who may be.
LooperInv ==
  /\ looper \in Threads \cup {NOBODY}
  /\ \A t \in Threads : pc[t] \in Inside <=> looper = t
  /\ pc[ENGINE] \in {"none", "born", "top", "pass", "cb"}
  /\ \A t \in Apps : pc[t] \notin {"none", "born", "top"}
  /\ \A t \in scenario.drivers : pc[t] \notin {"checked", "wait"}
  /\ trk.ev_active => pc[ENGINE] # "none" \/ pc[MAIN] = "starting"
  /\ pc[MAIN] \in {"flush", "flushed"} => trk.ev_active

\* A thread of the host drives the base only when there is no engine, and whoever drives it
\* has its name in shared_loop_thread.
OwnerInv ==
  /\ scenario.shared /\ pc[ENGINE] \notin {"none", "born"} => owner = ENGINE
  /\ \A t \in Apps : pc[t] \in Driving =>
       /\ t \in scenario.drivers /\ owner = t /\ saved[t] # <<>>
       /\ pc[ENGINE] = "none" /\ pc[MAIN] \notin {"starting", "join"}
  /\ DOMAIN saved = Threads /\ owner \in Threads \cup {NOBODY}
  /\ \A t \in Apps : saved[t] \in Seq(Threads \cup {NOBODY})
  /\ \A t \in Apps : pc[t] = "reenter" => Head(saved[t]) = t /\ Tail(saved[t]) # <<>>

DriverInv == scenario \in Scenarios /\ LooperInv /\ OwnerInv

\* The thread that starts the base, the engine and nobody are different names.
LEMMA Distinct ==
  /\ MAIN \in Apps /\ ENGINE \notin Apps /\ NOBODY \notin Threads /\ Threads = Apps \cup {ENGINE}
  /\ \A t \in Threads : t \in Apps \/ t = ENGINE
  BY ThreadAssumption DEF Threads, Apps

\* A step in which nobody enters or leaves the driving of the loop.
LEMMA OthersDrive ==
  ASSUME DriverInv, UNCHANGED <<scenario, looper, owner, saved>>,
         \A t \in Threads : \/ pc'[t] = pc[t]
                            \/ /\ {pc[t], pc'[t]} \cap (Driving \cup {"none", "born", "top"}) = {}
                               /\ pc'[t] \in {"checked", "wait"} => t \notin scenario.drivers,
         pc'[ENGINE] = pc[ENGINE],
         pc[MAIN] # "join" /\ pc'[MAIN] = "join" => pc[ENGINE] # "none",
         pc'[MAIN] = "starting" => pc[MAIN] = "starting",
         trk'.ev_active => pc[ENGINE] # "none" \/ pc'[MAIN] = "starting",
         pc'[MAIN] \in {"flush", "flushed"} => trk'.ev_active
  PROVE  DriverInv'
<1>1. \A t \in Threads : /\ pc'[t] \in Inside <=> pc[t] \in Inside
                         /\ pc'[t] \in Driving <=> pc[t] \in Driving
                         /\ pc'[t] = "reenter" <=> pc[t] = "reenter"
                         /\ pc'[t] \in {"none", "born", "top"} <=> pc[t] \in {"none", "born", "top"}
  BY Zenon DEF Inside, Driving
<1>2. LooperInv'
  <2>1. \A t \in scenario.drivers : t \in Threads => pc'[t] \notin {"checked", "wait"}
    BY DEF DriverInv, LooperInv
  <2>2. scenario.drivers \subseteq Threads
    BY ScenarioAssumption, Distinct DEF DriverInv, ScenarioType
  <2>3. QED
    BY <1>1, <2>1, <2>2, Distinct DEF DriverInv, LooperInv
<1>3. OwnerInv'
  BY <1>1, Distinct DEF DriverInv, OwnerInv
<1>4. QED
  BY <1>2, <1>3 DEF DriverInv

\* What the scenario says of the threads that step the base.
LEMMA DriverScenario ==
  ASSUME OneDriver, DriverInv
  PROVE  /\ scenario.apart /\ scenario.drivers \subseteq Apps
         /\ \A t, u \in scenario.drivers : t = u
  BY ScenarioAssumption DEF OneDriver, DriverInv, ScenarioType

\* A callback is refused a blocking call, and a thread of the application that steps the
\* base makes none.
LEMMA ApiCallDrives ==
  ASSUME OneDriver, FlushInv, DriverInv, NEW t \in Threads, ApiCall(t)
  PROVE  DriverInv'
<1>1. /\ UNCHANGED <<scenario, looper, owner, saved, trk>> /\ pc' = [pc EXCEPT ![t] = "checked"]
      /\ pc[t] = "cb" \/ (pc[t] = "out" /\ (scenario.apart => t \notin scenario.drivers))
      /\ owner # t /\ scenario.shared
  BY DEF ApiCall, MayBlock, pmix_progress_thread_is_current
<1>2. pc[t] # "cb"
  <2>1. CASE t = ENGINE
    BY <1>1, <2>1 DEF DriverInv, OwnerInv
  <2>2. CASE t \in Apps
    BY <1>1, <2>2 DEF DriverInv, OwnerInv, Driving, Inside
  <2>3. QED
    BY <2>1, <2>2, Distinct
<1>3. pc[t] = "out" /\ t \notin scenario.drivers
  BY <1>1, <1>2, DriverScenario
<1>4. t # ENGINE
  BY <1>3 DEF DriverInv, LooperInv
<1>5. /\ pc'[t] = "checked" /\ \A u \in Threads : u # t => pc'[u] = pc[u]
  BY <1>1 DEF FlushInv, ThreadType
<1>6. /\ pc'[ENGINE] = pc[ENGINE] /\ trk' = trk
      /\ pc'[MAIN] = pc[MAIN] \/ (pc[MAIN] = "out" /\ pc'[MAIN] = "checked")
  BY <1>1, <1>3, <1>4, <1>5, Members
<1>7. (trk.ev_active => pc[ENGINE] # "none" \/ pc[MAIN] = "starting") /\ (pc[MAIN] \in {"flush", "flushed"} => trk.ev_active)
  BY DEF DriverInv, LooperInv
<1>8. QED
  BY <1>1, <1>3, <1>5, <1>6, <1>7, OthersDrive DEF Driving, Inside

\* PMIX_THREADSHIFT blocks no thread that is in the loop.
LEMMA ThreadShiftDrives ==
  ASSUME FlushInv, DriverInv, NEW t \in Threads, ThreadShift(t)
  PROVE  DriverInv'
<1>1. /\ UNCHANGED <<scenario, looper, owner, saved, trk>> /\ pc' = [pc EXCEPT ![t] = "wait"]
      /\ pc[t] = "checked"
  BY DEF ThreadShift
<1>2. t # ENGINE /\ t \notin scenario.drivers
  BY <1>1 DEF DriverInv, LooperInv
<1>3. pc'[t] = "wait" /\ \A u \in Threads : u # t => pc'[u] = pc[u]
  BY <1>1 DEF FlushInv, ThreadType
<1>4. /\ pc'[ENGINE] = pc[ENGINE] /\ trk' = trk
      /\ pc'[MAIN] = pc[MAIN] \/ (pc[MAIN] = "checked" /\ pc'[MAIN] = "wait")
  BY <1>1, <1>2, <1>3, Members
<1>5. (trk.ev_active => pc[ENGINE] # "none" \/ pc[MAIN] = "starting") /\ (pc[MAIN] \in {"flush", "flushed"} => trk.ev_active)
  BY DEF DriverInv, LooperInv
<1>6. QED
  BY <1>1, <1>2, <1>3, <1>4, <1>5, OthersDrive DEF Driving, Inside

\* One thread moves within the loop: the others stay where they are.
LEMMA InLoopDrives ==
  ASSUME OneDriver, FlushInv, DriverInv, UNCHANGED <<scenario, owner, saved, trk>>,
         NEW t \in Threads, NEW p, pc' = [pc EXCEPT ![t] = p],
         \/ looper = NOBODY /\ looper' = t /\ p = "pass" /\ pc[t] \in {"enter", "top"}
         \/ UNCHANGED looper /\ p = "pass" /\ pc[t] = "cb"
         \/ /\ UNCHANGED looper /\ pc[t] \in {"enter", "top"}
            /\ p = IF t = ENGINE THEN "top" ELSE "leave"
         \/ /\ looper = t /\ looper' = NOBODY /\ pc[t] = "pass"
            /\ p = IF t = ENGINE THEN "top" ELSE "leave"
  PROVE  DriverInv'
<1>1. pc'[t] = p /\ \A u \in Threads : u # t => pc'[u] = pc[u]
  BY DEF FlushInv, ThreadType
<1>2. CASE t = ENGINE
  <2>1. \A u \in Apps : u # ENGINE /\ u \in Threads /\ pc'[u] = pc[u]
    BY <1>1, <1>2, Distinct
  <2>2. pc[ENGINE] \in {"top", "pass", "cb"} /\ pc'[ENGINE] \in {"top", "pass"}
    BY <1>1, <1>2 DEF DriverInv, LooperInv
  <2>3. looper' \in Threads \cup {NOBODY} /\ \A u \in Threads : pc'[u] \in Inside <=> looper' = u
    BY <1>1, <1>2, Distinct DEF DriverInv, LooperInv, Inside
  <2>4. LooperInv'
    BY <2>1, <2>2, <2>3, Distinct, DriverScenario DEF DriverInv, LooperInv
  <2>5. OwnerInv'
    BY <2>1, <2>2 DEF DriverInv, OwnerInv
  <2>6. QED
    BY <2>4, <2>5 DEF DriverInv
<1>3. CASE t \in Apps
  <2>1. t # ENGINE /\ pc'[ENGINE] = pc[ENGINE]
    BY <1>1, <1>3, Distinct
  <2>2. pc[t] \in Driving /\ pc'[t] \in Driving /\ pc'[t] \in {"pass", "leave"} /\ pc[t] # "top"
    BY <1>1, <1>3, <2>1 DEF DriverInv, LooperInv, Driving, Inside
  <2>3. looper' \in Threads \cup {NOBODY} /\ \A u \in Threads : pc'[u] \in Inside <=> looper' = u
    BY <1>1, <1>3, <2>1, Distinct DEF DriverInv, LooperInv, Inside
  <2>4. LooperInv'
    <3>1. \A u \in Apps : u \in Threads /\ pc'[u] \notin {"none", "born", "top"}
      BY <1>1, <2>2, Distinct DEF DriverInv, LooperInv
    <3>2. \A u \in scenario.drivers : pc'[u] \notin {"checked", "wait"}
      BY <1>1, <2>2, Distinct, DriverScenario DEF DriverInv, LooperInv
    <3>3. /\ pc'[MAIN] \in {"flush", "flushed"} => pc[MAIN] \in {"flush", "flushed"}
          /\ pc[MAIN] = "starting" => pc'[MAIN] = "starting"
      BY <1>1, <2>2, Members DEF Driving, Inside
    <3>4. QED
      BY <2>1, <2>3, <3>1, <3>2, <3>3 DEF DriverInv, LooperInv
  <2>5. OwnerInv'
    <3>1. pc'[MAIN] \notin {"starting", "join"} \/ pc'[MAIN] = pc[MAIN]
      BY <1>1, <2>2, Members
    <3>2. \A u \in Apps : /\ pc'[u] \in Driving => pc[u] \in Driving
                          /\ pc'[u] = "reenter" => pc[u] = "reenter"
      BY <1>1, <2>2, Distinct
    <3>3. QED
      BY <2>1, <3>1, <3>2 DEF DriverInv, OwnerInv
  <2>6. QED
    BY <2>4, <2>5 DEF DriverInv
<1>4. QED
  BY <1>2, <1>3, Distinct

\* A step in the event loop keeps the driver invariant.
LEMMA LoopStepDrives ==
  ASSUME OneDriver, FlushInv, DriverInv, NEW t \in Threads,
         event_loop(t) \/ CallbackReturns(t) \/ PassEnds(t)
  PROVE  DriverInv'
<1>1. CASE event_loop(t)
  <2>1. UNCHANGED <<scenario, owner, saved, trk>> /\ pc[t] \in {"enter", "top"}
    BY <1>1 DEF event_loop
  <2>2. CASE looper = NOBODY /\ looper' = t /\ pc' = [pc EXCEPT ![t] = "pass"]
    BY <2>1, <2>2, InLoopDrives, Zenon
  <2>3. CASE UNCHANGED looper /\ pc' = [pc EXCEPT ![t] = IF t = ENGINE THEN "top" ELSE "leave"]
    BY <2>1, <2>3, InLoopDrives, Zenon
  <2>4. QED
    BY <1>1, <2>2, <2>3 DEF event_loop
<1>2. CASE CallbackReturns(t)
  BY <1>2, InLoopDrives, Zenon DEF CallbackReturns
<1>3. CASE PassEnds(t)
  BY <1>3, InLoopDrives, Zenon DEF PassEnds
<1>4. QED
  BY <1>1, <1>2, <1>3

\* The loop runs an event: its poster stops waiting, the looper runs a callback.
LEMMA RunEventDrives ==
  ASSUME OneDriver, FlushInv, DriverInv, NEW t \in Threads, RunEvent(t)
  PROVE  DriverInv'
<1> DEFINE e == Head(queue)
<1>1. /\ UNCHANGED <<scenario, looper, owner, saved, trk>> /\ looper = t /\ pc[t] = "pass"
      /\ queue # <<>>
      /\ pc' = CASE e.op = "work" -> [pc EXCEPT ![e.who] = "out", ![t] = "cb"]
                 [] e.op = "marker" -> [pc EXCEPT ![MAIN] = "flushed"]
                 [] OTHER -> pc
  BY DEF RunEvent
<1>2. 1 \in DOMAIN queue /\ e = queue[1] /\ e \in Event /\ pc \in [Threads -> Places]
  BY <1>1, QueueTail DEF FlushInv, ThreadType
<1> HIDE DEF e
<1>3. (trk.ev_active => pc[ENGINE] # "none" \/ pc[MAIN] = "starting") /\ (pc[MAIN] \in {"flush", "flushed"} => trk.ev_active)
  BY DEF DriverInv, LooperInv
<1>4. CASE e.op = "work"
  <2>1. e.who \in Threads /\ pc[e.who] = "wait"
    BY <1>2, <1>4, WorkIsPosted DEF FlushInv, Posted
  <2>2. /\ pc'[e.who] = "out" /\ pc'[t] = "cb" /\ e.who # t /\ e.who # ENGINE
        /\ \A u \in Threads : u # e.who /\ u # t => pc'[u] = pc[u]
    BY <1>1, <1>2, <1>4, <2>1 DEF DriverInv, LooperInv
  <2>3. \A u \in Threads : /\ pc'[u] \in Inside <=> pc[u] \in Inside
                           /\ pc'[u] \in Driving <=> pc[u] \in Driving
                           /\ pc'[u] = "reenter" <=> pc[u] = "reenter"
                           /\ pc'[u] \in {"none", "born"} <=> pc[u] \in {"none", "born"}
                           /\ pc'[u] = "top" => pc[u] = "top"
                           /\ pc'[u] \in {"checked", "wait"} => pc[u] \in {"checked", "wait"}
                           /\ pc'[u] \in {"flush", "flushed"} => pc[u] \in {"flush", "flushed"}
                           /\ pc'[u] = "join" <=> pc[u] = "join"
                           /\ pc'[u] = "starting" <=> pc[u] = "starting"
    BY <1>1, <2>1, <2>2, Zenon DEF Inside, Driving
  <2>4. pc'[ENGINE] \in {"none", "born", "top", "pass", "cb"} /\ (pc'[ENGINE] = "none" <=> pc[ENGINE] = "none")
    BY <1>1, <2>2, Members, Zenon DEF DriverInv, LooperInv
  <2>5. LooperInv'
    <3>1. scenario.drivers \subseteq Threads /\ Apps \subseteq Threads
      BY Members, DriverScenario
    <3>2. QED
      BY <1>1, <2>3, <2>4, <3>1, Members, Zenon DEF DriverInv, LooperInv
  <2>6. OwnerInv'
    BY <1>1, <2>3, <2>4, Members, Zenon DEF DriverInv, OwnerInv
  <2>7. QED
    BY <1>1, <2>5, <2>6 DEF DriverInv
<1>5. CASE e.op = "marker"
  <2>1. pc[MAIN] = "flush"
    BY <1>2, <1>5 DEF FlushInv, MarkerAwaited
  <2>2. pc'[MAIN] = "flushed" /\ \A u \in Threads : u # MAIN => pc'[u] = pc[u]
    BY <1>1, <1>2, <1>5, Members
  <2>3. pc'[ENGINE] = pc[ENGINE]
    BY <2>2, Members
  <2>4. QED
    BY <1>1, <1>3, <2>1, <2>2, <2>3, OthersDrive, Zenon DEF Driving, Inside
<1>6. CASE pc' = pc
  BY <1>1, <1>3, <1>6, OthersDrive, Zenon
<1>7. QED
  BY <1>1, <1>4, <1>5, <1>6

\* A step of progress_engine keeps the driver invariant.
LEMMA EngineDrives ==
  ASSUME OneDriver, FlushInv, DriverInv, progress_engine \/ progress_engine_ends
  PROVE  DriverInv'
<1>1. /\ UNCHANGED <<scenario, looper, saved, trk>>
      /\ \/ /\ pc[ENGINE] = "born" /\ pc' = [pc EXCEPT ![ENGINE] = "top"]
            /\ scenario.shared => owner' = ENGINE
         \/ pc[ENGINE] = "top" /\ ~trk.ev_active /\ pc' = [pc EXCEPT ![ENGINE] = "none"]
  BY DEF progress_engine, progress_engine_ends
<1>2. /\ pc'[ENGINE] \in {"top", "none"} /\ pc[ENGINE] \in {"born", "top"}
      /\ \A u \in Threads : u # ENGINE => pc'[u] = pc[u]
  BY <1>1, Members DEF FlushInv, ThreadType
<1>3. \A u \in Apps : u # ENGINE /\ u \in Threads /\ pc'[u] = pc[u]
  BY <1>2, Distinct
<1>4. \A u \in Threads : pc'[u] \in Inside <=> pc[u] \in Inside
  BY <1>2 DEF Inside
<1>5. trk.ev_active => pc'[ENGINE] # "none" \/ pc'[MAIN] = "starting"
  BY <1>1, <1>2, Members DEF FlushInv, ThreadType
<1>6. LooperInv'
  BY <1>1, <1>2, <1>3, <1>4, <1>5, Distinct, DriverScenario DEF DriverInv, LooperInv
<1>7. OwnerInv'
  <2>1. \A u \in Apps : pc'[u] \notin Driving /\ pc'[u] # "reenter"
    BY <1>2, <1>3 DEF DriverInv, OwnerInv, Driving, Inside
  <2>2. scenario.shared /\ pc'[ENGINE] = "top" => owner' = ENGINE
    BY <1>1, Members DEF FlushInv, ThreadType
  <2>4. owner' \in Threads \cup {NOBODY}
    BY Members DEF progress_engine, progress_engine_ends, DriverInv, OwnerInv
  <2>3. QED
    BY <1>1, <1>2, <2>1, <2>2, <2>4 DEF DriverInv, OwnerInv
<1>8. QED
  BY <1>1, <1>6, <1>7 DEF DriverInv

\* The one driver of the host names itself and steps the base; called from a callback it
\* finds its own name, which it will put back.
LEMMA ProgressDrives ==
  ASSUME OneDriver, FlushInv, DriverInv, NEW t \in Apps, PMIx_Progress(t)
  PROVE  DriverInv'
<1>1. /\ UNCHANGED <<scenario, looper, trk>> /\ t \in scenario.drivers /\ scenario.shared
      /\ pc[ENGINE] = "none" /\ pc[MAIN] \notin {"starting", "join"} /\ pc[t] \in {"out", "cb"}
      /\ saved' = [saved EXCEPT ![t] = <<owner>> \o @] /\ owner' = t
      /\ pc' = [pc EXCEPT ![t] = IF @ = "out" THEN "enter" ELSE "reenter"]
  BY DriverScenario DEF PMIx_Progress
<1>2. /\ pc'[t] \in {"enter", "reenter"} /\ (pc'[t] = "reenter" <=> pc[t] = "cb")
      /\ \A u \in Threads : u # t => pc'[u] = pc[u]
      /\ t \in Threads /\ t # ENGINE
  BY <1>1, Distinct DEF FlushInv, ThreadType
<1>3. LooperInv'
  <2>1. \A u \in Threads : pc'[u] \in Inside <=> pc[u] \in Inside
    BY <1>1, <1>2 DEF Inside
  <2>2. \A u \in Apps : u \in Threads /\ pc'[u] \notin {"none", "born", "top"}
    BY <1>2, Distinct DEF DriverInv, LooperInv
  <2>3. \A u \in scenario.drivers : pc'[u] \notin {"checked", "wait"}
    BY <1>2, Distinct, DriverScenario DEF DriverInv, LooperInv
  <2>4. pc'[ENGINE] = pc[ENGINE]
    BY <1>2, Members
  <2>5. /\ pc'[MAIN] \in {"flush", "flushed"} => pc[MAIN] \in {"flush", "flushed"}
        /\ pc[MAIN] = "starting" => pc'[MAIN] = "starting"
    BY <1>1, <1>2, Members
  <2>6. QED
    BY <1>1, <2>1, <2>2, <2>3, <2>4, <2>5 DEF DriverInv, LooperInv
<1>4. OwnerInv'
  <2>1. pc'[ENGINE] = "none" /\ pc'[MAIN] \notin {"starting", "join"}
    BY <1>1, <1>2, Members
  <2>2. \A u \in Apps : pc'[u] \in Driving => u = t
    <3>1. \A u \in Apps : u # t => pc'[u] = pc[u]
      BY <1>2, Distinct
    <3>2. \A u \in Apps : pc[u] \in Driving => u = t
      BY <1>1, DriverScenario DEF DriverInv, OwnerInv
    <3>3. QED
      BY <3>1, <3>2
  <2>3. saved[t] \in Seq(Threads \cup {NOBODY})
    BY DEF DriverInv, OwnerInv
  <2>4. pc[t] = "cb" => owner = t
    BY DEF DriverInv, OwnerInv, Driving, Inside
  <2>5. owner \in Threads \cup {NOBODY}
    BY DEF DriverInv, OwnerInv
  <2>6. <<owner>> \o saved[t] \in Seq(Threads \cup {NOBODY}) /\ <<owner>> \o saved[t] # <<>>
        /\ Head(<<owner>> \o saved[t]) = owner
    BY <2>3, <2>5
  <2>7. \A u \in Apps : u # t => saved'[u] = saved[u]
    BY <1>1
  <2>8. saved'[t] = <<owner>> \o saved[t]
    BY <1>1, <1>2 DEF DriverInv, OwnerInv
  <2>9. \A u \in Apps : saved'[u] \in Seq(Threads \cup {NOBODY})
    BY <2>6, <2>7, <2>8, Zenon DEF DriverInv, OwnerInv
  <2>10. \A u \in Apps : pc'[u] = "reenter" => u = t /\ Head(saved'[u]) = u /\ Tail(saved'[u]) # <<>>
    <3>1. pc[t] = "cb" => saved[t] # <<>>
      BY DEF DriverInv, OwnerInv, Driving, Inside
    <3>2. Tail(<<owner>> \o saved[t]) = saved[t]
      BY <2>3, <2>5
    <3>3. QED
      BY <1>2, <2>2, <2>4, <2>6, <2>8, <3>1, <3>2, Zenon DEF Driving, Inside
  <2>13. saved'[t] # <<>>
    BY <2>6, <2>8
  <2>11. DOMAIN saved' = Threads /\ owner' \in Threads \cup {NOBODY}
    BY <1>1, <1>2 DEF DriverInv, OwnerInv
  <2>12. QED
    BY <1>1, <2>1, <2>2, <2>9, <2>10, <2>11, <2>13 DEF OwnerInv
<1>5. QED
  BY <1>1, <1>3, <1>4 DEF DriverInv

\* PMIx_Progress restores the name it found.
LEMMA ProgressReturnsDrives ==
  ASSUME OneDriver, FlushInv, DriverInv, NEW t \in Apps, ProgressReturns(t)
  PROVE  DriverInv'
<1>1. /\ UNCHANGED <<scenario, looper, trk>> /\ pc[t] \in {"leave", "reenter"}
      /\ saved' = [saved EXCEPT ![t] = Tail(@)] /\ owner' = Head(saved[t])
      /\ pc' = [pc EXCEPT ![t] = IF @ = "leave" THEN "out" ELSE "cb"]
  BY DEF ProgressReturns
<1>2. /\ pc'[t] \in {"out", "cb"} /\ (pc'[t] = "cb" <=> pc[t] = "reenter")
      /\ \A u \in Threads : u # t => pc'[u] = pc[u]
      /\ t \in Threads /\ t # ENGINE
  BY <1>1, Distinct DEF FlushInv, ThreadType
<1>3. /\ t \in scenario.drivers /\ owner = t /\ pc[ENGINE] = "none"
      /\ pc[MAIN] \notin {"starting", "join"}
      /\ saved[t] # <<>> /\ saved[t] \in Seq(Threads \cup {NOBODY}) /\ DOMAIN saved = Threads
      /\ pc[t] = "reenter" => Head(saved[t]) = t
  BY <1>1 DEF DriverInv, OwnerInv, Driving, Inside
<1>4. LooperInv'
  <2>1. \A u \in Threads : pc'[u] \in Inside <=> pc[u] \in Inside
    BY <1>1, <1>2 DEF Inside
  <2>2. \A u \in Apps : u \in Threads /\ pc'[u] \notin {"none", "born", "top"}
    BY <1>2, Distinct DEF DriverInv, LooperInv
  <2>3. \A u \in scenario.drivers : pc'[u] \notin {"checked", "wait"}
    BY <1>2, Distinct, DriverScenario DEF DriverInv, LooperInv
  <2>4. pc'[ENGINE] = pc[ENGINE]
    BY <1>2, Members
  <2>5. /\ pc'[MAIN] \in {"flush", "flushed"} => pc[MAIN] \in {"flush", "flushed"}
        /\ pc[MAIN] = "starting" => pc'[MAIN] = "starting"
    BY <1>1, <1>2, Members
  <2>6. QED
    BY <1>1, <2>1, <2>2, <2>3, <2>4, <2>5 DEF DriverInv, LooperInv
<1>5. OwnerInv'
  <2>1. pc'[ENGINE] = "none" /\ pc'[MAIN] \notin {"starting", "join"}
    BY <1>2, <1>3, Members
  <2>2. \A u \in Apps : pc'[u] \in Driving => u = t /\ pc'[t] = "cb"
    <3>1. \A u \in Apps : u # t => pc'[u] = pc[u]
      BY <1>2, Distinct
    <3>2. \A u \in Apps : pc[u] \in Driving => u = t
      BY <1>3, DriverScenario DEF DriverInv, OwnerInv
    <3>3. QED
      BY <1>2, <3>1, <3>2 DEF Driving, Inside
  <2>3. Tail(saved[t]) \in Seq(Threads \cup {NOBODY}) /\ Head(saved[t]) \in Threads \cup {NOBODY}
    BY <1>3
  <2>4. \A u \in Apps : saved'[u] \in Seq(Threads \cup {NOBODY})
    BY <1>1, <1>3, <2>3 DEF DriverInv, OwnerInv
  <2>5. \A u \in Apps : pc'[u] = "reenter" => FALSE
    BY <2>2 DEF Driving, Inside
  <2>6. \A u \in Apps : pc'[u] = "leave" => FALSE
    BY <2>2 DEF Driving, Inside
  <2>7. \A u \in Apps : pc'[u] \in Driving => saved'[u] # <<>>
    <3>1. pc[t] = "reenter" => Tail(saved[t]) # <<>>
      BY DEF DriverInv, OwnerInv
    <3>2. QED
      BY <1>1, <1>2, <1>3, <2>2, <3>1
  <2>8. DOMAIN saved' = Threads
    BY <1>1, <1>3
  <2>9. QED
    BY <1>1, <1>2, <1>3, <2>1, <2>2, <2>3, <2>4, <2>5, <2>6, <2>7, <2>8 DEF OwnerInv
<1>6. QED
  BY <1>1, <1>4, <1>5 DEF DriverInv

\* MAIN moves: it starts an engine only when nobody drives the base, and joins one only
\* while there is one.
LEMMA MainDrives ==
  ASSUME OneDriver, FlushInv, DriverInv, UNCHANGED <<scenario, looper, owner, saved>>,
         NEW p \in {"flush", "join", "out"}, pc' = [pc EXCEPT ![MAIN] = p],
         pc[MAIN] \in {"out", "flushed", "join", "starting", "binding"},
         trk'.ev_active => trk.ev_active /\ pc[MAIN] # "starting",
         p = "flush" => trk'.ev_active,
         p = "join" => trk.ev_active /\ pc[MAIN] # "starting"
  PROVE  DriverInv'
<1>1. (trk.ev_active => pc[ENGINE] # "none" \/ pc[MAIN] = "starting")
  BY DEF DriverInv, LooperInv
<1>2. /\ pc'[MAIN] = p /\ \A u \in Threads : u # MAIN => pc'[u] = pc[u]
      /\ pc'[ENGINE] = pc[ENGINE]
  BY Members DEF FlushInv, ThreadType
<1>3. QED
  BY <1>1, <1>2, OthersDrive DEF Driving, Inside

\* MAIN changes the tracker and stays where it is.
LEMMA MainStays ==
  ASSUME OneDriver, FlushInv, DriverInv, UNCHANGED <<scenario, looper, owner, saved, pc>>,
         trk'.ev_active => trk.ev_active, pc[MAIN] = "out"
  PROVE  DriverInv'
<1>1. trk.ev_active => pc[ENGINE] # "none"
  BY DEF DriverInv, LooperInv
<1>2. QED
  BY <1>1, OthersDrive

\* MAIN claims the tracker while nobody drives the base.
LEMMA ClaimDrives ==
  ASSUME OneDriver, FlushInv, DriverInv, UNCHANGED <<scenario, looper, owner, saved>>,
         pc' = [pc EXCEPT ![MAIN] = "starting"], pc[MAIN] = "out", pc[ENGINE] = "none",
         \A t \in Apps : pc[t] \in {"out", "checked", "wait"}
  PROVE  DriverInv'
<1>1. /\ pc'[MAIN] = "starting" /\ pc'[ENGINE] = "none"
      /\ \A u \in Apps : u \in Threads /\ (u # MAIN => pc'[u] = pc[u])
  BY Members, Distinct DEF FlushInv, ThreadType
<1>2. \A u \in Apps : /\ pc'[u] \in {"out", "checked", "wait", "starting"}
                      /\ pc'[u] \in {"checked", "wait"} => pc'[u] = pc[u]
  BY <1>1
<1>3. \A u \in Threads : pc'[u] \notin Inside /\ pc[u] \notin Inside
  BY <1>1, <1>2, Distinct DEF Inside
<1>4. \A u \in Apps : pc'[u] \notin Driving /\ pc'[u] \notin {"none", "born", "top", "reenter"}
  BY <1>2 DEF Driving, Inside
<1>5. LooperInv'
  <2>1. \A u \in scenario.drivers : pc'[u] \notin {"checked", "wait"}
    BY <1>2, DriverScenario DEF DriverInv, LooperInv
  <2>2. QED
    BY <1>1, <1>3, <1>4, <2>1 DEF DriverInv, LooperInv
<1>6. OwnerInv'
  BY <1>1, <1>4 DEF DriverInv, OwnerInv
<1>7. QED
  BY <1>5, <1>6 DEF DriverInv

\* The engine is created, which nobody drives the base through.
LEMMA BirthDrives ==
  ASSUME OneDriver, FlushInv, DriverInv, UNCHANGED <<scenario, looper, owner, saved, trk>>,
         pc' = [pc EXCEPT ![ENGINE] = "born", ![MAIN] = "binding"], pc[MAIN] = "starting"
  PROVE  DriverInv'
<1>1. /\ pc'[MAIN] = "binding" /\ pc'[ENGINE] = "born" /\ pc[ENGINE] = "none"
      /\ \A u \in Apps : u \in Threads /\ (u # MAIN => pc'[u] = pc[u])
  BY Members, Distinct DEF FlushInv, ThreadType, EngineGone
<1>2. \A u \in Apps : pc[u] \notin Driving
  BY DEF DriverInv, OwnerInv
<1>3. \A u \in Apps : pc'[u] \notin Driving /\ pc'[u] # "reenter"
  BY <1>1, <1>2 DEF Driving, Inside
<1>4. \A u \in Threads : pc'[u] \notin Inside /\ pc[u] \notin Inside
  BY <1>1, <1>2, <1>3, Distinct DEF Driving, Inside
<1>5. LooperInv'
  <2>1. \A u \in scenario.drivers : u \in Apps /\ pc'[u] \notin {"checked", "wait"}
    BY <1>1, DriverScenario DEF DriverInv, LooperInv
  <2>2. \A u \in Apps : pc'[u] \notin {"none", "born", "top"}
    BY <1>1 DEF DriverInv, LooperInv
  <2>3. QED
    BY <1>1, <1>4, <2>1, <2>2 DEF DriverInv, LooperInv
<1>6. OwnerInv'
  BY <1>1, <1>3 DEF DriverInv, OwnerInv
<1>7. QED
  BY <1>5, <1>6 DEF DriverInv

\* A step of the thread that starts and stops the base keeps the driver invariant.
LEMMA MainStepDrives ==
  ASSUME OneDriver, FlushInv, DriverInv,
         \/ pmix_progress_thread_init \/ PMIx_Progress_thread_stop \/ FlushDone
         \/ \E resume \in BOOLEAN : pmix_progress_thread_start(resume)
         \/ pmix_thread_start \/ pthread_setaffinity_np
         \/ pmix_progress_thread_pause \/ pmix_progress_thread_stop \/ pmix_thread_join
  PROVE  DriverInv'
<1>1. /\ trk \in TrackerType /\ scenario.apart
      /\ pc[MAIN] \in {"flush", "flushed"} => trk.ev_active
      /\ pc[MAIN] = "out" /\ ~trk.ev_active => pc[ENGINE] = "none"
      /\ pc[MAIN] = "binding" => trk.ev_active
  BY DriverScenario DEF FlushInv, ThreadType, DriverInv, LooperInv, EngineGone
<1>2. ASSUME NEW free, stop_progress_engine(free) PROVE ~trk'.ev_active
  BY <1>1, <1>2, Zenon DEF stop_progress_engine, TrackerType
<1>3. ASSUME Free PROVE ~trk'.ev_active
  BY <1>3 DEF Free, TrackerType
<1>4. CASE pmix_progress_thread_init
  <2>1. /\ UNCHANGED <<scenario, looper, owner, saved, pc>> /\ pc[MAIN] = "out"
        /\ trk' = [trk EXCEPT !.refs = @ + 1]
    BY <1>4 DEF pmix_progress_thread_init, Idle
  <2>2. trk'.ev_active = trk.ev_active
    BY <1>1, <2>1 DEF TrackerType
  <2>3. QED
    BY <2>1, <2>2, MainStays
<1>5. CASE PMIx_Progress_thread_stop
  BY <1>1, <1>5, MainDrives DEF PMIx_Progress_thread_stop, Idle
<1>6. CASE FlushDone
  <2>1. /\ UNCHANGED <<scenario, looper, owner, saved>> /\ pc[MAIN] = "flushed"
        /\ stop_progress_engine(FALSE) /\ pc' = [pc EXCEPT ![MAIN] = "join"]
    BY <1>6, Zenon DEF FlushDone
  <2>2. QED
    BY <1>1, <1>2, <2>1, MainDrives
<1>7. ASSUME NEW resume \in BOOLEAN, pmix_progress_thread_start(resume) PROVE DriverInv'
  <2>1. /\ UNCHANGED <<scenario, looper, owner, saved>> /\ pc[MAIN] = "out" /\ ~trk.ev_active
        /\ \/ UNCHANGED <<trk, pc>>
           \/ /\ pc' = [pc EXCEPT ![MAIN] = "starting"]
              /\ \A t \in Apps : pc[t] \in {"out", "checked", "wait"}
    BY <1>1, <1>7 DEF pmix_progress_thread_start, start_progress_engine, Idle, UnderWay
  <2>2. QED
    BY <1>1, <2>1, MainStays, ClaimDrives
<1>8. CASE pmix_thread_start
  <2>1. /\ UNCHANGED <<scenario, looper, owner, saved>> /\ pc[MAIN] = "starting"
        /\ \/ pc' = [pc EXCEPT ![ENGINE] = "born", ![MAIN] = "binding"] /\ UNCHANGED trk
           \/ /\ Free \/ trk' = [trk EXCEPT !.ev_active = FALSE]
              /\ pc' = [pc EXCEPT ![MAIN] = "out"]
    BY <1>8, Zenon DEF pmix_thread_start
  <2>2. trk' = [trk EXCEPT !.ev_active = FALSE] => ~trk'.ev_active
    BY <1>1, Zenon DEF TrackerType
  <2>3. QED
    BY <1>3, <2>1, <2>2, BirthDrives, MainDrives
<1>9. CASE pthread_setaffinity_np
  <2>1. /\ UNCHANGED <<scenario, looper, owner, saved>> /\ pc[MAIN] = "binding"
        /\ \/ pc' = [pc EXCEPT ![MAIN] = "out"] /\ UNCHANGED trk
           \/ stop_progress_engine(stop.free) /\ pc' = [pc EXCEPT ![MAIN] = "join"]
    BY <1>9, Zenon DEF pthread_setaffinity_np
  <2>2. QED
    BY <1>1, <1>2, <2>1, MainDrives
<1>10. CASE pmix_progress_thread_pause
  <2>1. /\ UNCHANGED <<scenario, looper, owner, saved>> /\ pc[MAIN] = "out"
        /\ \/ UNCHANGED <<trk, pc>>
           \/ /\ trk.ev_active /\ stop_progress_engine(FALSE)
              /\ pc' = [pc EXCEPT ![MAIN] = "join"]
    BY <1>10, Zenon DEF pmix_progress_thread_pause, Idle
  <2>2. QED
    BY <1>1, <1>2, <2>1, MainDrives, MainStays
<1>11. CASE pmix_progress_thread_stop
  <2>1. /\ UNCHANGED <<scenario, looper, owner, saved>> /\ pc[MAIN] = "out"
        /\ \/ trk' = [trk EXCEPT !.refs = @ - 1] /\ UNCHANGED pc
           \/ trk.ev_active /\ stop_progress_engine(TRUE) /\ pc' = [pc EXCEPT ![MAIN] = "join"]
           \/ Free /\ UNCHANGED pc
    BY <1>11, Zenon DEF pmix_progress_thread_stop, Idle, Close
  <2>2. CASE trk' = [trk EXCEPT !.refs = @ - 1] /\ UNCHANGED pc
    <3>1. trk'.ev_active = trk.ev_active
      BY <1>1, <2>2 DEF TrackerType
    <3>2. QED
      BY <2>1, <2>2, <3>1, MainStays
  <2>3. QED
    BY <1>2, <1>3, <2>1, <2>2, MainDrives, MainStays
<1>12. CASE pmix_thread_join
  <2>1. /\ UNCHANGED <<scenario, looper, owner, saved>> /\ pc[MAIN] = "join"
        /\ pc' = [pc EXCEPT ![MAIN] = "out"] /\ (Free \/ UNCHANGED trk)
    BY <1>12 DEF pmix_thread_join, Joined
  <2>2. QED
    BY <1>1, <1>3, <2>1, MainDrives
<1>13. QED
  BY <1>4, <1>5, <1>6, <1>7, <1>8, <1>9, <1>10, <1>11, <1>12

\* The thread in the loop never waits for an event of that loop: a blocking call made by a
\* callback is refused (pmix_progress_thread_check_blocking), also after the callback has
\* stepped the base itself with PMIx_Progress, which restores the name it found rather than
\* clear it.  For any number of threads and calls, when the host steps the base from one
\* thread at most and keeps the phases apart.
THEOREM LooperNeverBlocks ==
  ASSUME OneDriver
  PROVE  Spec => []NobodyWaitsForItself
<1>1. Init => FlushInv /\ DriverInv
  <2> SUFFICES ASSUME Init PROVE DriverInv
    BY InitFlush
  <2>1. /\ scenario \in Scenarios /\ looper = NOBODY /\ owner = NOBODY /\ ~trk.ev_active
        /\ saved = [t \in Threads |-> <<>>]
    BY DEF Init
  <2>2. /\ \A t \in Apps : pc[t] = "out" /\ saved[t] = <<>>
        /\ pc[ENGINE] = "none" /\ pc[MAIN] = "out"
        /\ \A t \in Threads : pc[t] \in {"out", "none"}
    BY Distinct, Members DEF Init
  <2>3. scenario.drivers \subseteq Apps
    BY <2>1, ScenarioAssumption DEF ScenarioType
  <2>4. LooperInv
    BY <2>1, <2>2, <2>3, Distinct DEF LooperInv, Inside
  <2>5. OwnerInv
    <3>1. \A t \in Apps : pc[t] \notin Driving /\ pc[t] # "reenter"
      BY <2>2 DEF Driving, Inside
    <3>2. DOMAIN saved = Threads
      BY <2>1
    <3>3. <<>> \in Seq(Threads \cup {NOBODY})
      OBVIOUS
    <3>4. QED
      BY <2>1, <2>2, <3>1, <3>2, <3>3, Zenon DEF OwnerInv
  <2>6. QED
    BY <2>1, <2>4, <2>5 DEF DriverInv
<1>2. FlushInv /\ DriverInv /\ [Next]_vars => FlushInv' /\ DriverInv'
  <2>1. DriverInv /\ UNCHANGED vars => DriverInv'
    BY DEF vars, DriverInv, LooperInv, OwnerInv
  <2>2. ASSUME FlushInv, DriverInv, dummy_timeout_cb PROVE DriverInv'
    BY <2>2 DEF dummy_timeout_cb, DriverInv, LooperInv, OwnerInv
  <2>3. FlushInv /\ DriverInv /\ Next => DriverInv'
    BY <2>2, ApiCallDrives, ThreadShiftDrives, LoopStepDrives, RunEventDrives, EngineDrives,
       ProgressDrives, ProgressReturnsDrives, MainStepDrives DEF Next, LoopStep
  <2>4. QED
    BY <2>1, <2>3, FlushStep
<1>3. DriverInv => NobodyWaitsForItself
  BY Distinct DEF DriverInv, LooperInv, NobodyWaitsForItself, Inside
<1>4. QED
  BY <1>1, <1>2, <1>3, PTL DEF Spec
=============================================================================
