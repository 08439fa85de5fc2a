---------------------- MODULE CollectiveContractProofs ----------------------
(***************************************************************************)
(* The tracker engine implements CollectiveContract, step by step: a       *)
(* contribution joins an instance or is refused, what ends the local phase *)
(* closes it, and the completion handler delivers its one outcome.         *)
(***************************************************************************)
EXTENDS LocalCompletionProofs

-----------------------------------------------------------------------------
(* The trackers keep the contract of CollectiveContract.                   *)

\* Trackers are created in order, for one operation each.
Numbered ==
  \A t \in Trk :
    IF t <= ntrk THEN trk[t].type \in Ops /\ trk[t].pcs \in Sigs
    ELSE ~trk[t].linked /\ trk[t].type = "NONE" /\ trk[t].pcs = {} /\ trk[t].local_cbs = {}

View(r, t, n) ==
  [phase |-> IF r.linked
             THEN IF r.host_called \/ r.completion_fired THEN "closed" ELSE "open"
             ELSE IF t <= n THEN "done" ELSE "unborn",
   key |-> <<r.type, r.pcs>>, joined |-> r.local_cbs, outcome |-> Outcome(r)]

\* The refinement mapping, tracker by tracker.
LEMMA InstancesAre == /\ Instances = [t \in Trk |-> View(trk[t], t, ntrk)]
                      /\ Instances' = [t \in Trk |-> View(trk'[t], t, ntrk')]
BY DEF Instances, View, Phase

\* What a client is told of a fit tracker: an answer exactly when its completion was driven.
LEMMA OutcomeIs ==
  ASSUME NEW r \in TrackerType, NEW L, Sound(L, r), Fit(r)
  PROVE  /\ r.linked /\ r.completion_fired =>
              /\ Outcome(r) = Answer(r, r.queue[1].status)
              /\ Outcome(r) \in Status
         /\ ~(r.linked /\ r.completion_fired) => Outcome(r) = "UNDECIDED"
<1>1. CASE r.linked /\ r.completion_fired
  <2>1. Completions(r) = {1}
    BY <1>1, FitCompletions
  <2>2. (CHOOSE i \in {1} : TRUE) = 1
    OBVIOUS
  <2>3. Outcome(r) = Answer(r, r.queue[1].status)
    BY <2>1, <2>2 DEF Outcome
  <2>4. r.queue[1].status \in Status
    <3>1. r.queue \in Seq(Events) /\ Len(r.queue) = 1
      BY <1>1 DEF TrackerType, Fit, Claim
    <3>2. r.queue[1] \in Events
      BY <3>1
    <3> QED
      BY <3>2 DEF Events
  <2> QED
    BY <1>1, <2>3, <2>4, AnswerInStatus
<1>2. CASE ~(r.linked /\ r.completion_fired)
  BY <1>2, FitCompletions DEF Outcome
<1> QED
  BY <1>1, <1>2

\* The instance that a tracker stands for has the type of the contract.
LEMMA ViewType ==
  ASSUME NEW r \in TrackerType, NEW L, Sound(L, r), Fit(r), NEW t, NEW n,
         <<r.type, r.pcs>> \in (Ops \X Sigs) \cup {<<"NONE", {}>>}
  PROVE  View(r, t, n) \in Contract!InstType
<1>1. Outcome(r) \in Status \cup {"UNDECIDED"}
  BY OutcomeIs
<1>2. r.local_cbs \in SUBSET Calls
  BY DEF TrackerType
<1> QED
  BY <1>1, <1>2 DEF View, Contract!InstType

\* The initial states map to initial states of the contract.
LEMMA ContractInit == Init => Contract!Init
<1> SUFFICES ASSUME Init PROVE Contract!Init
  OBVIOUS
<1>1. Outcome(Unused) = "UNDECIDED"
  BY DEF Outcome, Unused, Completions
<1>2. ntrk = 0 /\ \A t \in Trk : trk[t] = Unused
  BY DEF Init
<1>3. ASSUME NEW t \in Trk
      PROVE  View(Unused, t, 0) = [phase |-> "unborn", key |-> <<"NONE", {}>>, joined |-> {},
                                   outcome |-> "UNDECIDED"]
  <2>1. ~(t <= 0)
    BY ConstantsAssumption DEF Trk
  <2> QED
    BY <1>1, <2>1, Zenon DEF View, Unused
<1>4. Instances = [t \in Trk |-> View(Unused, t, 0)]
  BY <1>2, InstancesAre
<1> QED
  BY <1>3, <1>4 DEF Contract!Init, Init

\* Initially no tracker was created.
LEMMA NumberedInit == Init => Numbered
<1> SUFFICES ASSUME Init PROVE Numbered
  OBVIOUS
<1>1. ntrk = 0 /\ \A t \in Trk : trk[t] = Unused
  BY DEF Init
<1>2. \A t \in Trk : ~(t <= 0)
  BY ConstantsAssumption DEF Trk
<1> QED
  BY <1>1, <1>2 DEF Numbered, Unused

-----------------------------------------------------------------------------
(* Steps that close instances.                                             *)

\* How a step other than a contribution or a delivery may change tracker r into q: not at
\* all to the eyes of the clients, or it ends the local phase of a linked tracker.
Closes(q, r) ==
  /\ Alike(q, r)
  /\ \/ /\ q.completion_fired = r.completion_fired /\ q.host_called = r.host_called
        /\ q.queue = r.queue /\ q.collect_type = r.collect_type
     \/ r.linked /\ ~r.completion_fired /\ (q.completion_fired \/ q.host_called)

\* A tracker that closes shows as an instance that closes.
LEMMA ClosesView ==
  ASSUME NEW r \in TrackerType, NEW q \in TrackerType, NEW L, Sound(L, r), Fit(r),
         Closes(q, r), NEW t, NEW n, View(q, t, n) # View(r, t, n)
  PROVE  /\ View(r, t, n).phase \in {"open", "closed"}
         /\ View(r, t, n).outcome = "UNDECIDED"
         /\ View(q, t, n).phase = "closed"
         /\ View(q, t, n).key = View(r, t, n).key /\ View(q, t, n).joined = View(r, t, n).joined
<1>1. r.linked /\ ~r.completion_fired /\ (q.completion_fired \/ q.host_called)
  <2> SUFFICES ASSUME q.completion_fired = r.completion_fired, q.host_called = r.host_called,
                      q.queue = r.queue, q.collect_type = r.collect_type
               PROVE  View(q, t, n) = View(r, t, n)
    BY DEF Closes
  <2>1. q.linked = r.linked /\ q.type = r.type /\ q.pcs = r.pcs /\ q.local_cbs = r.local_cbs
    BY DEF Closes, Alike
  <2>2. Completions(q) = Completions(r)
    BY DEF Completions
  <2>3. \A s : Answer(q, s) = Answer(r, s)
    BY <2>1 DEF Answer
  <2>4. Outcome(q) = Outcome(r)
    BY <2>2, <2>3 DEF Outcome
  <2> QED
    BY <2>1, <2>4 DEF View
<1>2. Outcome(r) = "UNDECIDED"
  BY <1>1, OutcomeIs
<1>3. q.linked = r.linked /\ q.type = r.type /\ q.pcs = r.pcs /\ q.local_cbs = r.local_cbs
  BY DEF Closes, Alike
<1> QED
  BY <1>1, <1>2, <1>3 DEF View

\* An instance that differs from another one by its phase and outcome alone.
LEMMA ClosedRecord ==
  ASSUME NEW P, NEW K, NEW J, NEW O, NEW v \in [phase : P, key : K, joined : J, outcome : O],
         NEW w \in [phase : P, key : K, joined : J, outcome : O],
         w.phase = "closed", w.key = v.key, w.joined = v.joined
  PROVE  w = [v EXCEPT !.phase = "closed", !.outcome = w.outcome]
BY Zenon

\* A step that only closes trackers is a step of the contract.
LEMMA ClosingStep ==
  ASSUME IInv, FitInv, Numbered, IInv', FitInv', UNCHANGED <<ntrk, call, result>>,
         \A t \in Trk : Closes(trk'[t], trk[t])
  PROVE  Numbered' /\ Contract!Close
<1>1. Numbered'
  BY DEF Numbered, Closes, Alike
<1>2. ASSUME NEW t \in Trk
      PROVE  /\ trk[t] \in TrackerType /\ Sound(LiveNames, trk[t]) /\ Fit(trk[t])
             /\ trk'[t] \in TrackerType /\ Sound(LiveNames', trk'[t]) /\ Fit(trk'[t])
             /\ Closes(trk'[t], trk[t])
  BY DEF IInv, TypeOK, FitInv
<1>3. ASSUME NEW t \in Trk
      PROVE  /\ <<trk[t].type, trk[t].pcs>> \in (Ops \X Sigs) \cup {<<"NONE", {}>>}
             /\ <<trk'[t].type, trk'[t].pcs>> \in (Ops \X Sigs) \cup {<<"NONE", {}>>}
  BY <1>1 DEF Numbered
<1>4. ASSUME NEW t \in Trk
      PROVE  /\ Instances[t] = View(trk[t], t, ntrk) /\ Instances'[t] = View(trk'[t], t, ntrk)
             /\ Instances[t] \in Contract!InstType /\ Instances'[t] \in Contract!InstType
  BY <1>2, <1>3, InstancesAre, ViewType, Zenon
<1>5. Instances' \in [Trk -> Contract!InstType]
  BY <1>4, InstancesAre
<1>6. ASSUME NEW t \in Trk, Instances'[t] # Instances[t]
      PROVE  /\ Instances[t].phase \in {"open", "closed"}
             /\ Instances[t].outcome = "UNDECIDED"
             /\ Instances'[t] = [Instances[t] EXCEPT !.phase = "closed",
                                                     !.outcome = Instances'[t].outcome]
  <2>1. /\ Instances[t].phase \in {"open", "closed"}
        /\ Instances[t].outcome = "UNDECIDED"
        /\ Instances'[t].phase = "closed"
        /\ Instances'[t].key = Instances[t].key /\ Instances'[t].joined = Instances[t].joined
    BY <1>2, <1>4, <1>6, ClosesView
  <2> QED
    BY <1>4, <2>1, ClosedRecord, ZenonT(30) DEF Contract!InstType
<1> QED
  BY <1>1, <1>5, <1>6, Zenon DEF Contract!Close

\* Driving the completion of an open tracker closes it.
LEMMA DriveEnds ==
  ASSUME NEW r, NEW q \in TrackerType, NEW s, r.linked, ~r.completion_fired, Alike(q, r)
  PROVE  Closes(Drive(q, s), r)
BY AlikeOps, AlikeTrans, Zenon DEF Closes

\* The instance that an answered tracker stands for.
LEMMA DoneRecord ==
  ASSUME NEW P, NEW K, NEW J, NEW O, NEW v \in [phase : P, key : K, joined : J, outcome : O],
         NEW w \in [phase : P, key : K, joined : J, outcome : O],
         w = [phase |-> "done", key |-> v.key, joined |-> {}, outcome |-> "UNDECIDED"]
  PROVE  w = [v EXCEPT !.phase = "done", !.joined = {}, !.outcome = "UNDECIDED"]
<1>1. w.phase = "done" /\ w.key = v.key /\ w.joined = {} /\ w.outcome = "UNDECIDED"
  OBVIOUS
<1> QED
  BY <1>1, Zenon

\* A step on one tracker that closes it.
LEMMA OneCloses ==
  ASSUME IInv, FitInv, Numbered, IInv', FitInv', NEW t \in Trk, NEW q,
         trk' = [trk EXCEPT ![t] = q], UNCHANGED <<ntrk, call, result>>, Closes(q, trk[t])
  PROVE  Numbered' /\ Contract!Close
<1>1. \A u \in Trk : Closes(trk'[u], trk[u])
  BY DEF IInv, TypeOK, Closes, Alike
<1> QED
  BY <1>1, ClosingStep

\* A timer that expires closes one tracker at most.
LEMMA TimeoutCloses ==
  ASSUME IInv, FitInv, Numbered, IInv', FitInv', NEW t \in Trk, Timeout(t)
  PROVE  Numbered' /\ Contract!Close
<1> DEFINE r == trk[t]
           q == [r EXCEPT !.armed = FALSE]
<1>1. r \in TrackerType /\ Fit(r) /\ r.armed
  BY DEF IInv, TypeOK, FitInv, Timeout
<1>2. r.linked /\ ~r.completion_fired
  BY <1>1 DEF Fit, Claim, TrackerType
<1>3. trk' = [trk EXCEPT ![t] = Drive(q, "TIMEOUT")] /\ UNCHANGED <<ntrk, call, result>>
  BY <1>2 DEF Timeout, TrackerStep
<1>4. Closes(Drive(q, "TIMEOUT"), r)
  <2> HIDE DEF r
  <2>1. q \in TrackerType /\ Alike(q, r)
    BY <1>1, Zenon DEF TrackerType, Alike
  <2> QED
    BY <1>2, <2>1, DriveEnds
<1> QED
  BY <1>3, <1>4, OneCloses, Zenon

\* So does the host calling back.
LEMMA HostCallbackCloses ==
  ASSUME IInv, FitInv, Numbered, IInv', FitInv', NEW t \in Trk, HostCallback(t)
  PROVE  Numbered' /\ Contract!Close
<1> DEFINE r == trk[t]
           q == [r EXCEPT !.owed = @ - 1]
<1>1. r \in TrackerType /\ Fit(r) /\ r.owed > 0
  BY DEF IInv, TypeOK, FitInv, HostCallback
<1>2. r.linked /\ ~r.completion_fired
  BY <1>1 DEF Fit, Claim, TrackerType
<1>3. PICK s \in {"SUCCESS", "ERROR"} : TrackerStep(t, Drive(q, s))
  BY DEF HostCallback
<1>4. Closes(Drive(q, s), r)
  <2> HIDE DEF r
  <2>1. q \in TrackerType
    BY <1>1, OwedType, Zenon
  <2>2. Alike(q, r)
    BY <1>1 DEF TrackerType, Alike
  <2> QED
    BY <1>2, <2>1, <2>2, DriveEnds
<1> QED
  BY <1>3, <1>4, OneCloses, Zenon DEF TrackerStep

\* A loss closes a tracker at most, as long as the host accepts what it completes.
LEMMA LoseCloses ==
  ASSUME NEW r \in TrackerType, NEW n \in Names, NEW rc, rc = "SUCCESS", r.linked
  PROVE  Closes(LoseIn(r, n, rc), r)
<1> DEFINE d == Departed(r, n)
           u == UpCall(d, {})
           a == [u EXCEPT !.owed = @ + 1]
<1>1. d \in TrackerType
  BY DepartedType
<1>2. /\ Alike(d, r)
      /\ d.completion_fired = r.completion_fired /\ d.host_called = r.host_called
      /\ d.queue = r.queue /\ d.collect_type = r.collect_type
  BY Zenon DEF Departed, TrackerType, Alike
<1>3. Closes(r, r) /\ Closes(d, r)
  BY <1>2 DEF Closes, Alike
<1>4. CASE LossCompletes(r, n)
  <2> HIDE DEF d
  <2>1. ~r.completion_fired
    BY <1>4 DEF LossCompletes
  <2>2. Closes(Drive(CancelTimer(d), d.status), r)
    <3>1. CancelTimer(d) \in TrackerType /\ Alike(CancelTimer(d), r)
      BY <1>1, <1>2, CancelTimerType, AlikeOps, AlikeTrans, Zenon
    <3> QED
      BY <2>1, <3>1, DriveEnds
  <2>3. {} \in SUBSET Names
    OBVIOUS
  <2>4. u \in TrackerType /\ Alike(u, d) /\ u.host_called = TRUE
    BY <1>1, <2>3, UpCallType, UpCallFields, AlikeOps, Zenon
  <2> HIDE DEF u
  <2>5. Alike(a, u) /\ a.host_called = u.host_called
    BY <2>4, AlikeOps, Zenon DEF TrackerType
  <2> HIDE DEF a
  <2>6. Closes(a, r)
    BY <1>2, <2>1, <2>4, <2>5, AlikeTrans DEF Closes
  <2> QED
    BY <1>3, <1>4, <2>2, <2>6 DEF LoseIn, LossCompletes, a, u, d
<1>5. CASE ~LossCompletes(r, n)
  BY <1>3, <1>5 DEF LoseIn
<1> QED
  BY <1>4, <1>5

\* A lost client closes trackers and does nothing else.
LEMMA LostConnectionCloses ==
  ASSUME IInv, FitInv, Numbered, IInv', FitInv', LossAccepted, NEW p \in Peers,
         LostConnection(p)
  PROVE  Numbered' /\ Contract!Close
<1>1. MaxLosses # 0
  <2>1. Losses \in Nat
    <3>1. {q \in Peers : peer[q] = "lost"} \in SUBSET Peers
      OBVIOUS
    <3> QED
      BY <3>1, FS_Subset, FS_CardinalityType, ConstantsAssumption DEF Losses
  <2> QED
    BY <2>1 DEF LostConnection
<1>2. PICK rc \in [Collectives -> HostReturns] :
        trk' = [t \in Trk |-> IF t \in Collectives THEN LoseIn(trk[t], Name[p], rc[t])
                              ELSE trk[t]]
  BY DEF LostConnection
<1>3. \A t \in Collectives : rc[t] = "SUCCESS"
  BY <1>1, <1>2 DEF LossAccepted
<1>4. ASSUME NEW t \in Trk
      PROVE  Closes(trk'[t], trk[t])
  <2>1. trk[t] \in TrackerType /\ Name[p] \in Names
    BY ConstantsAssumption DEF IInv, TypeOK
  <2>2. CASE t \in Collectives
    <3>1. Closes(LoseIn(trk[t], Name[p], rc[t]), trk[t])
      BY <1>3, <2>1, <2>2, LoseCloses DEF Collectives
    <3> QED
      BY <1>2, <2>2, <3>1
  <2>3. CASE t \notin Collectives
    BY <1>2, <2>3 DEF Closes, Alike
  <2> QED
    BY <2>2, <2>3
<1>5. UNCHANGED <<ntrk, call, result>>
  BY DEF LostConnection
<1> QED
  BY <1>4, <1>5, ClosingStep

-----------------------------------------------------------------------------
(* Steps that deliver and steps that join.                                 *)

\* A step on one tracker, which it may create.
LEMMA OneInstance ==
  ASSUME TypeOK, Numbered, NEW t \in Trk, NEW q, trk' = [trk EXCEPT ![t] = q],
         t <= ntrk + 1, ntrk' = IF t > ntrk THEN t ELSE ntrk, q.type \in Ops, q.pcs \in Sigs
  PROVE  /\ Instances' = [Instances EXCEPT ![t] = View(q, t, ntrk')]
         /\ t <= ntrk'
         /\ Numbered'
<1>1. \A u \in Trk : trk'[u] = IF u = t THEN q ELSE trk[u]
  BY DEF TypeOK
<1>2. ntrk \in Nat /\ ntrk' \in Nat /\ Trk \subseteq Nat
  BY ConstantsAssumption DEF TypeOK, Trk
<1>3. t <= ntrk' /\ \A u \in Trk : u # t => (u <= ntrk' <=> u <= ntrk)
  BY <1>2
<1>4. \A u \in Trk : u # t => View(trk'[u], u, ntrk') = View(trk[u], u, ntrk)
  BY <1>1, <1>3 DEF View
<1>5. Instances' = [Instances EXCEPT ![t] = View(q, t, ntrk')]
  BY <1>1, <1>4, InstancesAre
<1>6. Numbered'
  BY <1>1, <1>3 DEF Numbered
<1> QED
  BY <1>3, <1>5, <1>6

\* The completion handler delivers the outcome of its instance.
LEMMA CompletionHandlerDelivers ==
  ASSUME IInv, FitInv, Numbered, NEW t \in Trk, CompletionHandler(t)
  PROVE  Numbered' /\ Contract!Deliver(t)
<1> DEFINE r == trk[t]
           over == [Released(r) EXCEPT !.armed = @ /\ ~r.event_active, !.queue = Tail(@)]
           v == Instances[t]
<1>1. r \in TrackerType /\ Sound(LiveNames, r) /\ Fit(r) /\ TypeOK /\ r.queue # <<>>
  BY DEF IInv, TypeOK, FitInv, CompletionHandler, NextEvent
<1>2. r.linked /\ r.completion_fired /\ Len(r.queue) = 1
  BY <1>1 DEF Fit, Claim
<1>3. /\ trk' = [trk EXCEPT ![t] = over]
      /\ call' = [c \in Calls |-> IF c \in r.local_cbs THEN "answered" ELSE call[c]]
      /\ result' = [c \in Calls |-> IF c \in r.local_cbs
                                    THEN Answer(r, Head(r.queue).status) ELSE result[c]]
      /\ UNCHANGED ntrk
  BY DEF CompletionHandler
<1>4. t <= ntrk /\ r.type \in Ops /\ r.pcs \in Sigs
  BY <1>2 DEF Numbered
<1>5. Head(r.queue) = r.queue[1] /\ r.queue \in Seq(Events)
  BY <1>1, <1>2 DEF TrackerType
<1>6. /\ v.phase = "closed" /\ v.key = <<r.type, r.pcs>> /\ v.joined = r.local_cbs
      /\ v.outcome = Answer(r, Head(r.queue).status) /\ v.outcome \in Status
  <2>1. v = View(r, t, ntrk)
    BY InstancesAre
  <2>2. Outcome(r) = Answer(r, r.queue[1].status) /\ Outcome(r) \in Status
    BY <1>1, <1>2, OutcomeIs
  <2> QED
    BY <1>2, <1>5, <2>1, <2>2 DEF View
<1> HIDE DEF r
<1>7. /\ over.linked = FALSE /\ over.local_cbs = {} /\ over.type = r.type /\ over.pcs = r.pcs
      /\ over.queue = Tail(r.queue)
  <2>1. /\ Released(r) \in TrackerType /\ Released(r).linked = FALSE
        /\ Released(r).local_cbs = {} /\ Released(r).type = r.type
        /\ Released(r).pcs = r.pcs /\ Released(r).queue = r.queue
    BY <1>1, ReleasedType, Zenon DEF Released, TrackerType
  <2> QED
    BY <2>1 DEF TrackerType
<1> HIDE DEF over
<1>8. Outcome(over) = "UNDECIDED"
  <2>1. Len(Tail(r.queue)) = 0 /\ 1..0 = {}
    BY <1>1, <1>2, <1>5
  <2> QED
    BY <1>7, <2>1 DEF Outcome, Completions
<1>9. ntrk \in Nat /\ t \in Nat
  BY <1>1, ConstantsAssumption DEF TypeOK, Trk
<1>10. t <= ntrk + 1 /\ ntrk' = IF t > ntrk THEN t ELSE ntrk
  BY <1>3, <1>4, <1>9
<1>11. /\ Instances' = [Instances EXCEPT ![t] = View(over, t, ntrk')] /\ t <= ntrk' /\ Numbered'
  BY <1>1, <1>3, <1>4, <1>7, <1>10, OneInstance, Zenon
<1>12. View(over, t, ntrk') = [phase |-> "done", key |-> v.key, joined |-> {},
                               outcome |-> "UNDECIDED"]
  BY <1>6, <1>7, <1>8, <1>11 DEF View
<1>13. v \in Contract!InstType
  <2>1. <<r.type, r.pcs>> \in (Ops \X Sigs) \cup {<<"NONE", {}>>}
    BY <1>4
  <2> QED
    BY <1>1, <2>1, InstancesAre, ViewType DEF r
<1>14. View(over, t, ntrk') \in Contract!InstType
  BY <1>6, <1>4, <1>12 DEF Contract!InstType
<1>15. View(over, t, ntrk') = [v EXCEPT !.phase = "done", !.joined = {},
                                        !.outcome = "UNDECIDED"]
  BY <1>12, <1>13, <1>14, DoneRecord, Zenon DEF Contract!InstType
<1>16. Instances' = [Instances EXCEPT ![t] = [@ EXCEPT !.phase = "done", !.joined = {},
                                                      !.outcome = "UNDECIDED"]]
  BY <1>11, <1>15
<1>17. "UNDECIDED" \notin Status
  BY DEF Status
<1> QED
  BY <1>3, <1>6, <1>11, <1>16, <1>17, Zenon DEF Contract!Deliver

\* The call joins the instance that its tracker stands for.
LEMMA ParkedJoins ==
  ASSUME TypeOK, Numbered, IInv', FitInv', NEW c \in Calls, NEW op \in Ops, NEW sig \in Sigs,
         NEW t \in Trk, t <= ntrk + 1, call[c] = "new", Contract!Admits(t, <<op, sig>>),
         NEW q, Parked(c, t, q), q.linked, q.type = op, q.pcs = sig,
         q.local_cbs = trk[t].local_cbs \cup {c}
  PROVE  Numbered' /\ Contract!Join(c, t, <<op, sig>>)
<1> DEFINE ph == IF q.host_called \/ q.completion_fired THEN "closed" ELSE "open"
           o == Outcome(q)
<1>1. /\ trk' = [trk EXCEPT ![t] = q] /\ ntrk' = IF t > ntrk THEN t ELSE ntrk
      /\ call' = [call EXCEPT ![c] = "parked"] /\ UNCHANGED result
  BY DEF Parked
<1>2. Instances' = [Instances EXCEPT ![t] = View(q, t, ntrk')] /\ Numbered'
  BY <1>1, OneInstance, Zenon
<1>3. q \in TrackerType /\ Sound(LiveNames', q) /\ Fit(q)
  <2>1. trk'[t] = q
    BY <1>1 DEF TypeOK
  <2> QED
    BY <2>1 DEF IInv, TypeOK, FitInv
<1>4. Instances[t].joined = trk[t].local_cbs
  BY InstancesAre DEF View
<1>5. View(q, t, ntrk') = [phase |-> ph, key |-> <<op, sig>>,
                           joined |-> Instances[t].joined \cup {c}, outcome |-> o]
  BY <1>4 DEF View
<1>6. o \in Status \cup {"UNDECIDED"} /\ ph \in Contract!Phases(o)
  <2>1. "UNDECIDED" \notin Status
    BY DEF Status
  <2> QED
    BY <1>3, <2>1, OutcomeIs DEF Contract!Phases
<1> HIDE DEF ph, o
<1>7. Instances' = [Instances EXCEPT ![t] = [phase |-> ph, key |-> <<op, sig>>,
                                            joined |-> @.joined \cup {c}, outcome |-> o]]
  BY <1>2, <1>5
<1> QED
  BY <1>1, <1>2, <1>6, <1>7, Zenon DEF Contract!Join

\* The call is refused with the outcome that the others are told.
LEMMA RejectedRefuses ==
  ASSUME TypeOK, Numbered, NEW c \in Calls, NEW op \in Ops, NEW sig \in Sigs,
         NEW t \in Trk, t <= ntrk + 1, call[c] = "new", Contract!Admits(t, <<op, sig>>),
         NEW x, Free(x), x.type = op, x.pcs = sig,
         x.local_cbs = trk[t].local_cbs \cup {c}, c \notin trk[t].local_cbs,
         NEW err \in Status \ {"SUCCESS"}, Rejected(c, t, x, err)
  PROVE  Numbered' /\ Contract!Refuse(c, t, <<op, sig>>)
<1> DEFINE others == [x EXCEPT !.local_cbs = @ \ {c}]
           q == Drive(others, err)
           e == [ev |-> "complete", status |-> err]
<1>1. /\ trk' = [trk EXCEPT ![t] = q] /\ ntrk' = IF t > ntrk THEN t ELSE ntrk
      /\ call' = [call EXCEPT ![c] = "answered"]
      /\ result' = [result EXCEPT ![c] = err]
  BY DEF Rejected
<1>2. /\ others \in TrackerType /\ others.linked = x.linked /\ others.type = x.type
      /\ others.pcs = x.pcs /\ others.local_cbs = x.local_cbs \ {c}
      /\ others.queue = x.queue
  BY Zenon DEF Free, TrackerType
<1> HIDE DEF others
<1>3. /\ q.linked = x.linked /\ q.type = op /\ q.pcs = sig
      /\ q.local_cbs = trk[t].local_cbs /\ q.completion_fired = TRUE
  <2>1. Alike(q, others) /\ q.completion_fired = TRUE
    BY <1>2, AlikeOps, Zenon
  <2>2. (trk[t].local_cbs \cup {c}) \ {c} = trk[t].local_cbs
    OBVIOUS
  <2> HIDE DEF q
  <2> QED
    BY <1>2, <2>1, <2>2 DEF Alike
<1>4. q.queue = <<e>>
  <2>1. q.queue = Append(others.queue, e)
    BY <1>2, DriveFields, Zenon
  <2> HIDE DEF q, e
  <2> QED
    BY <1>2, <2>1 DEF Free
<1>5. e.ev = "complete" /\ e.status = err
  OBVIOUS
<1> HIDE DEF q, e
<1>6. Outcome(q) = err
  <2>1. Len(q.queue) = 1 /\ q.queue[1] = e /\ 1..1 = {1}
    BY <1>4
  <2>2. Completions(q) = {1}
    BY <1>5, <2>1 DEF Completions
  <2>3. (CHOOSE i \in {1} : TRUE) = 1
    OBVIOUS
  <2> QED
    BY <1>5, <2>1, <2>2, <2>3 DEF Outcome, Answer
<1>7. Instances' = [Instances EXCEPT ![t] = View(q, t, ntrk')] /\ Numbered'
  BY <1>1, <1>3, OneInstance, Zenon
<1>8. Instances[t].joined = trk[t].local_cbs
  BY InstancesAre DEF View
<1>9. View(q, t, ntrk') = [phase |-> "closed", key |-> <<op, sig>>,
                           joined |-> Instances[t].joined, outcome |-> err]
  BY <1>3, <1>6, <1>8 DEF View, Free
<1>10. Instances' = [Instances EXCEPT ![t] = [phase |-> "closed", key |-> <<op, sig>>,
                                             joined |-> @.joined, outcome |-> err]]
  BY <1>7, <1>9
<1> QED
  BY <1>1, <1>7, <1>10, Zenon DEF Contract!Refuse

\* A call that may be made lands on a tracker whose instance admits it.
LEMMA CallAdmitted ==
  ASSUME IInv, FitInv, Numbered, NoClones, ~Duplicates, NEW t \in Trk, NEW c \in Calls,
         NEW op \in Ops, NEW sig \in Sigs, NEW tmo \in BOOLEAN, NEW collect \in BOOLEAN,
         LandsOn(t, op, sig), MayCall(c, t, sig),
         NEW r, r = Joined(t, c, op, sig, tmo, collect)
  PROVE  /\ Idle(r) /\ r.type = op /\ r.pcs = sig
         /\ r.local_cbs = trk[t].local_cbs \cup {c} /\ c \notin trk[t].local_cbs
         /\ t <= ntrk + 1 /\ call[c] = "new" /\ Contract!Admits(t, <<op, sig>>)
<1> DEFINE old == IF t = ntrk + 1 THEN NewTracker(op, sig) ELSE trk[t]
<1>1. Idle(r)
  BY JoinedIdle
<1>2. old \in TrackerType /\ TypeOK
  BY NewTrackerType DEF IInv, TypeOK
<1>3. /\ r.type = old.type /\ r.pcs = old.pcs /\ r.local_cbs = old.local_cbs \cup {c}
      /\ r.host_called = old.host_called
  <2> DEFINE a == IF op = FENCE THEN MergeCollect(old.collect_type, t = ntrk + 1, collect)
                  ELSE old.collect_type
             b == old.event_active \/ tmo
             e == old.armed \/ (tmo /\ ~old.event_active)
             u == [old EXCEPT !.local_cbs = @ \cup {c}, !.collect_type = a,
                              !.event_active = b, !.armed = e]
  <2>1. r = u
    BY DEF Joined
  <2> HIDE DEF old, a, b, e
  <2>2. /\ u.type = old.type /\ u.pcs = old.pcs /\ u.local_cbs = old.local_cbs \cup {c}
        /\ u.host_called = old.host_called
    BY <1>2 DEF TrackerType
  <2> HIDE DEF u
  <2> QED
    BY <2>1, <2>2
<1>4. ntrk \in Nat /\ t \in Nat
  BY <1>2, ConstantsAssumption DEF TypeOK, Trk
<1>5. \A u \in Trk : /\ Instances[u].key = <<trk[u].type, trk[u].pcs>>
                     /\ Instances[u].phase = "open" => trk[u].linked /\ ~trk[u].completion_fired
  BY InstancesAre DEF View
<1>6. c \notin trk[t].local_cbs /\ call[c] = "new"
  BY DEF MayCall
<1>7. CASE t = ntrk + 1
  <2>1. old.type = op /\ old.pcs = sig /\ old.local_cbs = {}
    BY <1>7 DEF NewTracker, Unused
  <2>2. ~trk[t].linked /\ trk[t].local_cbs = {} /\ ~(t <= ntrk)
    BY <1>4, <1>7 DEF Numbered
  <2>3. Instances[t].phase = "unborn"
    BY <2>2, InstancesAre DEF View
  <2>4. \A u \in Trk : ~Matches(u, op, sig)
    BY <2>2 DEF LandsOn, GetTracker, Matches
  <2>5. \A u \in Trk : ~(Instances[u].phase = "open" /\ Instances[u].key = <<op, sig>>)
    BY <1>5, <2>4 DEF Matches
  <2> HIDE DEF old
  <2>6. Contract!Admits(t, <<op, sig>>)
    BY <2>3, <2>5 DEF Contract!Admits
  <2>7. t <= ntrk + 1
    BY <1>4, <1>7
  <2>8. r.local_cbs = trk[t].local_cbs \cup {c}
    BY <1>3, <2>1, <2>2
  <2> QED
    BY <1>1, <1>3, <1>6, <2>1, <2>6, <2>7, <2>8
<1>8. CASE t # ntrk + 1
  <2>1. Matches(t, op, sig) /\ old = trk[t]
    BY <1>8 DEF LandsOn, GetTracker
  <2>2. trk[t].linked /\ trk[t].completion_fired = FALSE /\ trk[t].host_called = FALSE
        /\ trk[t].type = op /\ trk[t].pcs = sig
    <3>1. trk[t] \in TrackerType /\ r.host_called = trk[t].host_called
      BY <1>2, <1>3, <2>1
    <3>2. trk[t].host_called = FALSE
      BY <1>1, <3>1 DEF Idle
    <3>3. trk[t].completion_fired \in BOOLEAN
      BY <3>1 DEF TrackerType
    <3> QED
      BY <2>1, <3>2, <3>3 DEF Matches
  <2>3. t <= ntrk
    BY <2>2 DEF Numbered
  <2>4. Instances[t].phase = "open" /\ Instances[t].key = <<op, sig>>
    BY <2>2, InstancesAre DEF View
  <2> HIDE DEF old
  <2>5. Contract!Admits(t, <<op, sig>>)
    BY <2>4 DEF Contract!Admits
  <2> QED
    BY <1>1, <1>3, <1>4, <1>6, <2>1, <2>2, <2>3, <2>5
<1> QED
  BY <1>7, <1>8

\* A contribution joins an open instance, opens one, or is refused.
LEMMA ContributeJoins ==
  ASSUME IInv, FitInv, Numbered, IInv', FitInv', NoClones, ~Duplicates, NEW c \in Calls,
         Contribute(c)
  PROVE  Numbered' /\ \E t \in Trk, k \in Ops \X Sigs :
                        Contract!Join(c, t, k) \/ Contract!Refuse(c, t, k)
<1>1. PICK op \in Ops, sig \in Sigs, t \in Trk, tmo \in TimeoutGiven, collect \in CollectGiven :
        /\ LandsOn(t, op, sig)
        /\ MayCall(c, t, sig)
        /\ LET r == Joined(t, c, op, sig, tmo, collect) IN
             \/ ContributeWait(c, t, r)
             \/ ContributeLocal(c, t, r)
             \/ ContributeUnsupported(c, t, r)
             \/ ContributeNoBucket(c, t, r)
             \/ ContributeUp(c, t, r)
  BY DEF Contribute
<1> DEFINE r == Joined(t, c, op, sig, tmo, collect)
           k == <<op, sig>>
           q == CancelTimer(r)
           Mine(x) == x.linked /\ x.type = op /\ x.pcs = sig
                        /\ x.local_cbs = trk[t].local_cbs \cup {c}
           Goal == Numbered' /\ (Contract!Join(c, t, k) \/ Contract!Refuse(c, t, k))
<1>2. /\ Idle(r) /\ Mine(r) /\ c \notin trk[t].local_cbs
      /\ t <= ntrk + 1 /\ call[c] = "new" /\ Contract!Admits(t, k) /\ TypeOK
  <2>1. tmo \in BOOLEAN /\ collect \in BOOLEAN
    BY ConstantsAssumption
  <2> HIDE DEF r
  <2>2. r = Joined(t, c, op, sig, tmo, collect)
    BY DEF r
  <2>3. LandsOn(t, op, sig) /\ MayCall(c, t, sig)
    BY <1>1
  <2>4. /\ Idle(r) /\ r.type = op /\ r.pcs = sig
        /\ r.local_cbs = trk[t].local_cbs \cup {c} /\ c \notin trk[t].local_cbs
        /\ t <= ntrk + 1 /\ call[c] = "new" /\ Contract!Admits(t, <<op, sig>>)
    BY <2>1, <2>2, <2>3, CallAdmitted
  <2> QED
    BY <2>4 DEF IInv, Idle
<1>3. \/ ContributeWait(c, t, r)
      \/ ContributeLocal(c, t, r)
      \/ ContributeUnsupported(c, t, r)
      \/ ContributeNoBucket(c, t, r)
      \/ ContributeUp(c, t, r)
  BY <1>1
<1> SUFFICES Goal
  BY DEF Goal
<1> HIDE DEF r
<1>4. ASSUME NEW x, NEW y, Alike(x, y), Mine(y)
      PROVE  Mine(x)
  BY <1>4 DEF Alike
<1>5. ASSUME NEW x, Parked(c, t, x), Mine(x)
      PROVE  Goal
  BY <1>2, <1>5, ParkedJoins
<1>6. ASSUME NEW x, Free(x), Mine(x), NEW err \in Status \ {"SUCCESS"}, Rejected(c, t, x, err)
      PROVE  Goal
  BY <1>2, <1>6, RejectedRefuses
<1>7. "NOT_SUPPORTED" \in Status \ {"SUCCESS"} /\ "ERROR" \in Status \ {"SUCCESS"}
  BY DEF Status
<1> HIDE DEF Mine, Goal
<1>8. q \in TrackerType /\ Free(q) /\ Mine(q)
  BY <1>2, <1>4, CancelTimerFree, AlikeOps, Zenon DEF Idle, Free
<1> HIDE DEF q
<1>9. Unhosted(q) \in TrackerType /\ Free(Unhosted(q)) /\ Mine(Unhosted(q))
  BY <1>4, <1>8, UnhostedFree, AlikeOps, Zenon DEF Free
<1>10. CASE ContributeWait(c, t, r)
  BY <1>2, <1>5, <1>10 DEF ContributeWait
<1>11. CASE ContributeLocal(c, t, r)
  <2>1. Mine(Drive(q, OwnStatus(r))) /\ Mine(Drive(Unhosted(q), OwnStatus(r)))
    BY <1>4, <1>8, <1>9, AlikeOps, Zenon
  <2> QED
    BY <1>5, <1>11, <2>1 DEF ContributeLocal, q
<1>12. CASE ContributeUnsupported(c, t, r)
  BY <1>6, <1>7, <1>9, <1>12 DEF ContributeUnsupported, q
<1>13. CASE ContributeNoBucket(c, t, r)
  BY <1>6, <1>7, <1>8, <1>13 DEF ContributeNoBucket, q
<1>14. CASE ContributeUp(c, t, r)
  <2> DEFINE u == UpCall(r, CollectData(r))
  <2>1. PICK rc \in HostReturns : IF rc = "ERROR" THEN Rejected(c, t, Unhosted(u), "ERROR")
                                 ELSE Parked(c, t, AfterUpCall(u, rc, OwnStatus(r)))
    BY <1>14 DEF ContributeUp
  <2>2. u \in TrackerType /\ Free(u) /\ Mine(u)
    <3>1. r \in TrackerType
      BY <1>2 DEF Idle
    <3>2. CollectData(r) \in SUBSET Names
      BY <3>1, CollectDataType
    <3>3. Free(u)
      BY <1>2, <3>2, UpCallFree, Zenon
    <3>4. Alike(u, r)
      BY <3>1, AlikeOps, Zenon
    <3> HIDE DEF u
    <3> QED
      BY <1>2, <1>4, <3>3, <3>4 DEF Free
  <2> HIDE DEF u
  <2>3. Unhosted(u) \in TrackerType /\ Free(Unhosted(u)) /\ Mine(Unhosted(u))
    BY <1>4, <2>2, UnhostedFree, AlikeOps, Zenon DEF Free
  <2>4. CASE rc = "ERROR"
    BY <1>6, <1>7, <2>1, <2>3, <2>4
  <2>5. CASE rc = "OPERATION_SUCCEEDED"
    <3>1. Mine(DriveBack(u, OwnStatus(r)))
      BY <1>4, <2>3, AlikeOps, Zenon DEF DriveBack
    <3> QED
      BY <1>5, <2>1, <2>5, <3>1 DEF AfterUpCall
  <2>6. CASE rc = "SUCCESS"
    <3>1. Mine([u EXCEPT !.owed = @ + 1])
      BY <1>4, <2>2, AlikeOps, Zenon
    <3> QED
      BY <1>5, <2>1, <2>6, <3>1 DEF AfterUpCall
  <2> QED
    BY <2>4, <2>5, <2>6, ConstantsAssumption
<1> QED
  BY <1>3, <1>10, <1>11, <1>12, <1>13, <1>14

\* Every step is a step of the contract or a stutter.
LEMMA ContractStep ==
  ASSUME NoClones, ~Duplicates, LossAccepted, IInv, FitInv, Numbered, [Next]_vars
  PROVE  Numbered' /\ [Contract!Next]_<<Instances, call, result>>
<1>1. IInv' /\ FitInv'
  BY IInvStep, FitStep
<1>2. Contract!Close => Contract!Next
  BY DEF Contract!Next
<1>3. CASE UNCHANGED <<trk, ntrk, call, result>>
  <2>1. \A t \in Trk : Closes(trk'[t], trk[t])
    BY <1>3 DEF Closes, Alike
  <2> QED
    BY <1>1, <1>2, <1>3, <2>1, ClosingStep
<1>4. CASE UNCHANGED vars
  BY <1>3, <1>4 DEF vars
<1>5. CASE Next
  <2>1. CASE (\E p \in Peers : Connect(p) \/ Finalize(p)) \/ (\E n \in Names : DeregisterClient(n))
    <3>1. UNCHANGED <<trk, ntrk, call, result>>
      BY <2>1, Zenon DEF Connect, Finalize, DeregisterClient
    <3> QED
      BY <1>3, <3>1
  <2>2. CASE \E t \in Trk : Timeout(t) \/ HostCallback(t)
    BY <1>1, <1>2, <2>2, TimeoutCloses, HostCallbackCloses
  <2>3. CASE \E p \in Peers : LostConnection(p)
    BY <1>1, <1>2, <2>3, LostConnectionCloses
  <2>4. CASE \E t \in Trk : CompletionHandler(t)
    <3>1. PICK t \in Trk : CompletionHandler(t)
      BY <2>4
    <3>2. Numbered' /\ Contract!Deliver(t)
      BY <3>1, CompletionHandlerDelivers
    <3> QED
      BY <3>2 DEF Contract!Next
  <2>5. CASE \E c \in Calls : Contribute(c)
    <3>1. PICK c \in Calls : Contribute(c)
      BY <2>5
    <3>2. Numbered' /\ \E t \in Trk, k \in Ops \X Sigs :
                        Contract!Join(c, t, k) \/ Contract!Refuse(c, t, k)
      BY <1>1, <3>1, ContributeJoins
    <3> QED
      BY <3>2 DEF Contract!Next
  <2> QED
    BY <1>5, <2>1, <2>2, <2>3, <2>4, <2>5, NothingToExecute, NothingToRegister DEF Next
<1> QED
  BY <1>4, <1>5

\* The tracker engine implements CollectiveContract: a call joins the one open instance of
\* its operation or opens it, an instance closes once and is given one outcome, and
\* everyone who joined it is answered with that outcome and nobody else is.
THEOREM KeepsContract ==
  ASSUME Preregistered, NoClones, ~Duplicates, LossAccepted
  PROVE  Spec => ImplementsContract
<1>1. Init => IInv /\ FitInv /\ Numbered /\ Contract!Init
  BY IInvInit, FitInit, NumberedInit, ContractInit
<1>2. IInv /\ FitInv /\ Numbered /\ [Next]_vars
        => (IInv /\ FitInv /\ Numbered)' /\ [Contract!Next]_<<Instances, call, result>>
  BY IInvStep, FitStep, ContractStep
<1> QED
  BY <1>1, <1>2, PTL DEF Spec, ImplementsContract, Contract!Spec

=============================================================================
