---------------------- MODULE ServerCollectivesProofs -----------------------
(***************************************************************************)
(* What the server's tracker engine guarantees for every set of clients,   *)
(* every set of participant arrays and every host: its state keeps its     *)
(* types, one collective is never split over two trackers, and every       *)
(* client that is blocked in a collective is on exactly one tracker.       *)
(***************************************************************************)
EXTENDS ServerCollectives, FiniteSetTheorems, TLAPS

-----------------------------------------------------------------------------
(* The operators on trackers keep a tracker a tracker.                     *)

\* A tracker that was not created has the type of a tracker.
LEMMA UnusedType == Unused \in TrackerType
BY DEF Unused, TrackerType, CollectType, Status, Events

\* So has a tracker whose timer was stopped,
LEMMA CancelTimerType ==
  ASSUME NEW r \in TrackerType
  PROVE  CancelTimer(r) \in TrackerType
BY Zenon DEF CancelTimer, TrackerType

\* one that is taken back from the host,
LEMMA UnhostedType ==
  ASSUME NEW r \in TrackerType
  PROVE  Unhosted(r) \in TrackerType
BY Zenon DEF Unhosted, TrackerType

\* one whose completion was driven,
LEMMA DriveType ==
  ASSUME NEW r \in TrackerType, NEW s \in Status
  PROVE  Drive(r, s) \in TrackerType /\ DriveBack(r, s) \in TrackerType
<1>1. [ev |-> "complete", status |-> s] \in Events
  BY DEF Events
<1>2. ASSUME NEW q \in TrackerType
      PROVE  Drive(q, s) \in TrackerType
  <2>1. q.queue \in Seq(Events)
    BY DEF TrackerType
  <2>2. Append(q.queue, [ev |-> "complete", status |-> s]) \in Seq(Events)
    BY <1>1, <2>1
  <2> QED
    BY <2>2, Zenon DEF Drive, TrackerType
<1> QED
  BY <1>2, UnhostedType DEF DriveBack

\* The contributors of a tracker are names.
LEMMA ContributedType ==
  ASSUME NEW r \in TrackerType
  PROVE  Contributed(r) \in SUBSET Names
BY ConstantsAssumption DEF Contributed, NameOf, TrackerType, Names

\* A tracker that goes up to the host keeps the type,
LEMMA UpCallType ==
  ASSUME NEW r \in TrackerType, NEW data \in SUBSET Names
  PROVE  UpCall(r, data) \in TrackerType
<1>1. ASSUME NEW q \in TrackerType, NEW u \in Nat
      PROVE  [q EXCEPT !.host_called = TRUE, !.upcalls = u, !.bucket = data]
               \in TrackerType
  BY Zenon DEF TrackerType
<1>2. CancelTimer(r).upcalls + 1 \in Nat
  BY CancelTimerType DEF TrackerType
<1> QED
  BY <1>1, <1>2, CancelTimerType, Zenon DEF UpCall

\* and the count of callbacks owed stays a natural number.
LEMMA OwedType ==
  ASSUME NEW r \in TrackerType
  PROVE  /\ [r EXCEPT !.owed = @ + 1] \in TrackerType
         /\ r.owed > 0 => [r EXCEPT !.owed = @ - 1] \in TrackerType
<1>1. ASSUME NEW k \in Nat
      PROVE  [r EXCEPT !.owed = k] \in TrackerType
  BY Zenon DEF TrackerType
<1>2. r.owed \in Nat
  BY DEF TrackerType
<1>3. r.owed + 1 \in Nat /\ (r.owed > 0 => r.owed - 1 \in Nat)
  BY <1>2
<1> QED
  BY <1>1, <1>3

\* So does the tracker after the host returned.
LEMMA AfterUpCallType ==
  ASSUME NEW r \in TrackerType, NEW rc \in HostReturns, NEW s \in Status
  PROVE  AfterUpCall(r, rc, s) \in TrackerType
<1>1. [r EXCEPT !.owed = @ + 1] \in TrackerType
  BY OwedType, Zenon
<1>2. "ERROR" \in Status
  BY DEF Status
<1>3. DriveBack(r, s) \in TrackerType /\ DriveBack(r, "ERROR") \in TrackerType
  BY <1>2, DriveType
<1> QED
  BY <1>1, <1>3, ConstantsAssumption DEF AfterUpCall

\* The data collected for the host is that of names.
LEMMA CollectDataType ==
  ASSUME NEW r \in TrackerType
  PROVE  CollectData(r) \in SUBSET Names
BY ContributedType DEF CollectData

\* What the server completes a collective with is a status.
LEMMA OwnStatusType ==
  ASSUME NEW r \in TrackerType
  PROVE  OwnStatus(r) \in Status
BY DEF OwnStatus, TrackerType, Status

\* A released tracker keeps the type.
LEMMA ReleasedType ==
  ASSUME NEW r \in TrackerType
  PROVE  Released(r) \in TrackerType
BY Zenon DEF Released, TrackerType

\* An entry of the participant array adds a count that fits a size_t.
LEMMA EntryCountType ==
  ASSUME TypeOK, NEW sig \in Sigs, NEW e \in sig
  PROVE  EntryCount(e) \in 0..SIZE_MAX
<1>1. e[1] \in NSpaces
  BY ConstantsAssumption
<1>2. nspace[e[1]].nlocalprocs \in 0..SIZE_MAX
  BY <1>1 DEF TypeOK, NSpaceType
<1>3. SIZE_MAX \in Nat /\ 0 <= SIZE_MAX
  BY ConstantsAssumption
<1>4. CASE nspace[e[1]].nlocalprocs = 0 \/ nspace[e[1]].nlocalprocs = SIZE_MAX
           \/ ~nspace[e[1]].known
  BY <1>2, <1>3, <1>4 DEF EntryCount
<1>5. CASE nspace[e[1]].nlocalprocs # 0 /\ nspace[e[1]].nlocalprocs # SIZE_MAX
           /\ nspace[e[1]].known
  <2>1. 1 \in 0..SIZE_MAX
    BY <1>2, <1>3, <1>5
  <2> QED
    BY <2>1, <1>2, <1>3, <1>5 DEF EntryCount
<1> QED
  BY <1>4, <1>5

\* A participant array stands for finitely many local participants.
LEMMA SlotsFinite ==
  ASSUME TypeOK, NEW sig \in Sigs
  PROVE  /\ IsFiniteSet(Slots(sig))
         /\ Cardinality(Slots(sig)) \in Nat
<1>1. IsFiniteSet(NSpaces \X (Ranks \cup {WILDCARD}))
  BY FS_AddElement, FS_Product, ConstantsAssumption, Zenon
<1>2. sig \in SUBSET (NSpaces \X (Ranks \cup {WILDCARD}))
  BY ConstantsAssumption
<1>3. IsFiniteSet(sig)
  BY <1>1, <1>2, FS_Subset
<1>4. SIZE_MAX \in Int /\ 1 \in Int
  BY ConstantsAssumption
<1>5. IsFiniteSet(1..SIZE_MAX)
  BY <1>4, FS_Interval
<1>6. IsFiniteSet(sig \X (1..SIZE_MAX))
  BY <1>3, <1>5, FS_Product, Zenon
<1>7. \A e \in sig : 1..EntryCount(e) \subseteq 1..SIZE_MAX
  BY EntryCountType, ConstantsAssumption
<1>8. Slots(sig) \in SUBSET (sig \X (1..SIZE_MAX))
  BY <1>7 DEF Slots
<1> QED
  BY <1>6, <1>8, FS_Subset, FS_CardinalityType

\* A new tracker is a tracker,
LEMMA NewTrackerType ==
  ASSUME TypeOK, NEW op \in Ops, NEW sig \in Sigs
  PROVE  NewTracker(op, sig) \in TrackerType
<1>1. ASSUME NEW r \in TrackerType, NEW l \in SUBSET NSpaces, NEW n \in Nat,
             NEW d \in BOOLEAN, NEW o \in BOOLEAN
      PROVE  [r EXCEPT !.linked = TRUE, !.type = op, !.pcs = sig, !.nslist = l,
                       !.nlocal = n, !.def_complete = d, !.local = o] \in TrackerType
  BY Zenon DEF TrackerType
<1>2. Cardinality(Slots(sig)) \in Nat
  BY SlotsFinite
<1> QED
  BY <1>1, <1>2, UnusedType, Zenon DEF NewTracker

\* so is one with another caller,
LEMMA JoinedType ==
  ASSUME TypeOK, NEW t \in Trk, NEW c \in Calls, NEW op \in Ops, NEW sig \in Sigs,
         NEW tmo \in BOOLEAN, NEW collect \in BOOLEAN
  PROVE  Joined(t, c, op, sig, tmo, collect) \in TrackerType
<1> DEFINE fresh == t = ntrk + 1
           r == IF fresh THEN NewTracker(op, sig) ELSE trk[t]
<1>1. r \in TrackerType
  BY NewTrackerType DEF TypeOK
<1>2. ASSUME NEW q \in TrackerType, NEW l \in SUBSET Calls, NEW ct \in CollectType,
             NEW ea \in BOOLEAN, NEW ar \in BOOLEAN
      PROVE  [q EXCEPT !.local_cbs = l, !.collect_type = ct, !.event_active = ea,
                       !.armed = ar] \in TrackerType
  BY Zenon DEF TrackerType
<1>3. r.local_cbs \cup {c} \in SUBSET Calls
  BY <1>1 DEF TrackerType
<1>4. (IF op = FENCE THEN MergeCollect(r.collect_type, fresh, collect)
       ELSE r.collect_type) \in CollectType
  BY <1>1 DEF TrackerType, MergeCollect, CollectType
<1>5. (r.event_active \/ tmo) \in BOOLEAN /\ (r.armed \/ (tmo /\ ~r.event_active)) \in BOOLEAN
  BY <1>1 DEF TrackerType
<1> HIDE DEF r
<1> QED
  BY <1>1, <1>2, <1>3, <1>4, <1>5, ZenonT(30) DEF Joined, r

\* one with a departed member,
LEMMA DepartedType ==
  ASSUME NEW r \in TrackerType, NEW n \in Names
  PROVE  Departed(r, n) \in TrackerType
<1>1. ASSUME NEW q \in TrackerType, NEW s \in Status
      PROVE  [q EXCEPT !.status = s] \in TrackerType
  BY Zenon DEF TrackerType
<1>2. [r EXCEPT !.departed = @ \cup {n}] \in TrackerType
  BY Zenon DEF TrackerType
<1>3. "PARTIAL_SUCCESS" \in Status /\ "LOST_CONNECTION" \in Status
  BY DEF Status
<1> QED
  BY <1>1, <1>2, <1>3, Zenon DEF Departed

\* one that the sweep for a lost client went over,
LEMMA LoseInType ==
  ASSUME NEW r \in TrackerType, NEW n \in Names, NEW rc
  PROVE  LoseIn(r, n, rc) \in TrackerType
<1> DEFINE d == Departed(r, n)
<1>1. d \in TrackerType
  BY DepartedType
<1> HIDE DEF d
<1>2. d.status \in Status
  BY <1>1 DEF TrackerType
<1>3. Drive(CancelTimer(d), d.status) \in TrackerType
  BY <1>1, <1>2, CancelTimerType, DriveType
<1>4. {} \in SUBSET Names
  OBVIOUS
<1>5. UpCall(d, {}) \in TrackerType
  BY <1>1, <1>4, UpCallType
<1> QED
  BY <1>1, <1>3, <1>5, OwedType, ReleasedType, Zenon DEF LoseIn, d

\* and one that a registration recounted.
LEMMA RecheckType ==
  ASSUME NEW r \in TrackerType, NEW nsp, NEW add \in Nat
  PROVE  Recheck(r, nsp, add) \in TrackerType
<1> DEFINE e == [ev |-> "execute", status |-> "SUCCESS"]
           d == [r EXCEPT !.nlocal = @ + add, !.def_complete = Defined(r, nsp)]
<1>1. Defined(r, nsp) \in BOOLEAN
  BY DEF Defined
<1>2. r.nlocal + add \in Nat
  BY DEF TrackerType
<1>3. d \in TrackerType
  BY <1>1, <1>2, Zenon DEF TrackerType
<1>4. e \in Events
  BY DEF Events, Status
<1>5. ASSUME NEW q \in TrackerType
      PROVE  [q EXCEPT !.queue = Append(@, e)] \in TrackerType
  <2>1. q.queue \in Seq(Events)
    BY DEF TrackerType
  <2>2. Append(q.queue, e) \in Seq(Events)
    BY <1>4, <2>1
  <2> HIDE DEF e
  <2> QED
    BY <2>2, Zenon DEF TrackerType
<1> HIDE DEF d
<1> QED
  BY <1>3, <1>5, Zenon DEF Recheck, d

-----------------------------------------------------------------------------
(* Type correctness.                                                       *)

\* The initial state is well typed.
LEMMA TypeInit == Init => TypeOK
<1> SUFFICES ASSUME Init PROVE TypeOK
  OBVIOUS
<1>1. \A ns \in NSpaces : Cardinality(Local[ns]) \in 0..SIZE_MAX
  <2> TAKE ns \in NSpaces
  <2>1. IsFiniteSet(Local[ns])
    BY ConstantsAssumption, FS_Subset
  <2> QED
    BY <2>1, ConstantsAssumption, FS_CardinalityType
<1>2. SIZE_MAX \in 0..SIZE_MAX
  BY ConstantsAssumption
<1>3. nspace \in [NSpaces -> NSpaceType]
  BY <1>1, <1>2, ConstantsAssumption DEF Init, NSpaceType
<1>4. trk \in [Trk -> TrackerType]
  BY UnusedType DEF Init
<1>5. /\ peer \in [Peers -> {"absent", "connected", "finalized", "lost", "removed"}]
      /\ peerid \in [Names -> Peers \cup {NOBODY}]
  BY DEF Init
<1>6. /\ call \in [Calls -> {"new", "parked", "answered"}]
      /\ result \in [Calls -> Status \cup {"NONE"}]
  BY DEF Init
<1>7. ntrk \in 0..MaxTrk /\ running \in BOOLEAN
  BY ConstantsAssumption DEF Init
<1> QED
  BY <1>3, <1>4, <1>5, <1>6, <1>7 DEF TypeOK

\* Parking a caller keeps the types.
LEMMA ParkedTypeStep ==
  ASSUME TypeOK, NEW c \in Calls, NEW t \in Trk, NEW r \in TrackerType, Parked(c, t, r)
  PROVE  TypeOK'
BY ConstantsAssumption DEF Parked, TypeOK, Trk

\* Refusing a caller keeps the types.
LEMMA RejectedTypeStep ==
  ASSUME TypeOK, NEW c \in Calls, NEW t \in Trk, NEW r \in TrackerType,
         NEW err \in Status, Rejected(c, t, r, err)
  PROVE  TypeOK'
<1> DEFINE others == [r EXCEPT !.local_cbs = @ \ {c}]
<1>1. others \in TrackerType
  BY Zenon DEF TrackerType
<1>2. /\ trk' = [trk EXCEPT ![t] = Drive(others, err)]
      /\ ntrk' = IF t > ntrk THEN t ELSE ntrk
      /\ call' = [call EXCEPT ![c] = "answered"]
      /\ result' = [result EXCEPT ![c] = err]
      /\ UNCHANGED <<nspace, peer, peerid, running>>
  BY DEF Rejected
<1> HIDE DEF others
<1>3. Drive(others, err) \in TrackerType
  BY <1>1, DriveType
<1> QED
  BY <1>2, <1>3, ConstantsAssumption DEF TypeOK, Trk

\* A contribution keeps the types.
LEMMA ContributeTypeStep ==
  ASSUME TypeOK, NEW c \in Calls, Contribute(c)
  PROVE  TypeOK'
<1> PICK op \in Ops, sig \in Sigs, t \in Trk, tmo \in TimeoutGiven, collect \in CollectGiven :
      LET r == Joined(t, c, op, sig, tmo, collect) IN
         \/ ContributeWait(c, t, r)
         \/ ContributeLocal(c, t, r)
         \/ ContributeUnsupported(c, t, r)
         \/ ContributeNoBucket(c, t, r)
         \/ ContributeUp(c, t, r)
  BY DEF Contribute
<1> DEFINE r == Joined(t, c, op, sig, tmo, collect)
<1>1. r \in TrackerType
  BY JoinedType, ConstantsAssumption
<1> HIDE DEF r
<1>2. "NOT_SUPPORTED" \in Status /\ "ERROR" \in Status
  BY DEF Status
<1>3. CASE ContributeWait(c, t, r)
  BY <1>1, <1>3, ParkedTypeStep DEF ContributeWait
<1>4. CASE ContributeLocal(c, t, r)
  <2>1. /\ Drive(CancelTimer(r), OwnStatus(r)) \in TrackerType
        /\ Drive(Unhosted(CancelTimer(r)), OwnStatus(r)) \in TrackerType
    BY <1>1, CancelTimerType, UnhostedType, DriveType, OwnStatusType, Zenon
  <2> QED
    BY <1>4, <2>1, ParkedTypeStep DEF ContributeLocal
<1>5. CASE ContributeUnsupported(c, t, r) \/ ContributeNoBucket(c, t, r)
  BY <1>1, <1>2, <1>5, CancelTimerType, UnhostedType, RejectedTypeStep
     DEF ContributeUnsupported, ContributeNoBucket
<1>6. CASE ContributeUp(c, t, r)
  <2>1. PICK rc \in HostReturns :
          LET sent == UpCall(r, CollectData(r)) IN
          IF rc = "ERROR" THEN Rejected(c, t, Unhosted(sent), "ERROR")
          ELSE Parked(c, t, AfterUpCall(sent, rc, OwnStatus(r)))
    BY <1>6 DEF ContributeUp
  <2>2. UpCall(r, CollectData(r)) \in TrackerType
    BY <1>1, CollectDataType, UpCallType
  <2>3. AfterUpCall(UpCall(r, CollectData(r)), rc, OwnStatus(r)) \in TrackerType
    BY <1>1, <2>2, OwnStatusType, AfterUpCallType
  <2> QED
    BY <1>2, <2>1, <2>2, <2>3, UnhostedType, ParkedTypeStep, RejectedTypeStep
<1> QED
  BY <1>3, <1>4, <1>5, <1>6 DEF r

\* A step on one tracker keeps the types.
LEMMA TrackerStepType ==
  ASSUME TypeOK, NEW t \in Trk, NEW r \in TrackerType, TrackerStep(t, r)
  PROVE  TypeOK'
<1>1. trk[t].linked \in BOOLEAN
  BY DEF TypeOK, TrackerType
<1> QED
  BY <1>1 DEF TrackerStep, TypeOK

\* A timer that expires keeps the types.
LEMMA TimeoutTypeStep ==
  ASSUME TypeOK, NEW t \in Trk, Timeout(t)
  PROVE  TypeOK'
<1>1. trk[t] \in TrackerType
  BY DEF TypeOK
<1>2. [trk[t] EXCEPT !.armed = FALSE] \in TrackerType
  BY <1>1, Zenon DEF TrackerType
<1>3. "TIMEOUT" \in Status
  BY DEF Status
<1>4. Drive([trk[t] EXCEPT !.armed = FALSE], "TIMEOUT") \in TrackerType
  BY <1>2, <1>3, DriveType
<1> QED
  BY <1>1, <1>4, CancelTimerType, TrackerStepType DEF Timeout

\* The host calling back keeps the types.
LEMMA HostCallbackTypeStep ==
  ASSUME TypeOK, NEW t \in Trk, HostCallback(t)
  PROVE  TypeOK'
<1>1. trk[t] \in TrackerType /\ trk[t].owed > 0
  BY DEF TypeOK, HostCallback
<1>2. [trk[t] EXCEPT !.owed = @ - 1] \in TrackerType
  BY <1>1, OwedType, Zenon
<1>3. {"SUCCESS", "ERROR"} \subseteq Status
  BY DEF Status
<1>4. PICK s \in {"SUCCESS", "ERROR"} :
        TrackerStep(t, Drive([trk[t] EXCEPT !.owed = @ - 1], s))
  BY DEF HostCallback
<1>5. Drive([trk[t] EXCEPT !.owed = @ - 1], s) \in TrackerType
  BY <1>2, <1>3, DriveType
<1> QED
  BY <1>4, <1>5, TrackerStepType

\* Taking the first event off the queue of a tracker.
LEMMA TailType ==
  ASSUME NEW r \in TrackerType, r.queue # <<>>
  PROVE  /\ [r EXCEPT !.queue = Tail(@)] \in TrackerType
         /\ Head(r.queue) \in Events
         /\ Tail(r.queue) \in Seq(Events)
<1>1. r.queue \in Seq(Events)
  BY DEF TrackerType
<1>2. Tail(r.queue) \in Seq(Events) /\ Head(r.queue) \in Events
  BY <1>1
<1> QED
  BY <1>2, Zenon DEF TrackerType

\* What the participants are sent is a status.
LEMMA AnswerInStatus ==
  ASSUME NEW r \in TrackerType, NEW s \in Status
  PROVE  Answer(r, s) \in Status
BY DEF Answer, Status

\* The completion handler keeps the types.
LEMMA CompletionHandlerTypeStep ==
  ASSUME TypeOK, NEW t \in Trk, CompletionHandler(t)
  PROVE  TypeOK'
<1> DEFINE r == trk[t]
           s == Answer(r, Head(r.queue).status)
           q == [Released(r) EXCEPT !.armed = @ /\ ~r.event_active, !.queue = Tail(@)]
<1>1. r \in TrackerType /\ r.queue # <<>>
  BY DEF TypeOK, CompletionHandler, NextEvent
<1>2. Head(r.queue).status \in Status
  BY <1>1, TailType, Zenon DEF Events
<1>3. s \in Status
  BY <1>1, <1>2, AnswerInStatus
<1>4. Released(r) \in TrackerType /\ Released(r).queue = r.queue
  BY <1>1, ReleasedType, Zenon DEF Released, TrackerType
<1>5. ASSUME NEW p \in TrackerType, NEW ar \in BOOLEAN, NEW qu \in Seq(Events)
      PROVE  [p EXCEPT !.armed = ar, !.queue = qu] \in TrackerType
  BY Zenon DEF TrackerType
<1>6. q \in TrackerType
  BY <1>1, <1>4, <1>5, TailType, Zenon
<1>7. r.linked \in BOOLEAN
  BY <1>1 DEF TrackerType
<1>8. /\ call' = [c \in Calls |-> IF c \in r.local_cbs THEN "answered" ELSE call[c]]
      /\ result' = [c \in Calls |-> IF c \in r.local_cbs THEN s ELSE result[c]]
      /\ trk' = [trk EXCEPT ![t] = q]
      /\ running' = r.linked
      /\ UNCHANGED <<nspace, peer, peerid, ntrk>>
  BY DEF CompletionHandler
<1> HIDE DEF r, s, q
<1> QED
  BY <1>3, <1>6, <1>7, <1>8 DEF TypeOK

\* A shifted execution keeps the types.
LEMMA ExecuteTypeStep ==
  ASSUME TypeOK, NEW t \in Trk, ExecuteCollective(t) \/ ExecuteRetired(t)
  PROVE  TypeOK'
<1> DEFINE r == [trk[t] EXCEPT !.queue = Tail(@)]
<1>1. r \in TrackerType
  BY TailType DEF TypeOK, ExecuteCollective, ExecuteRetired, NextEvent
<1>2. CASE ExecuteRetired(t)
  BY <1>1, <1>2 DEF ExecuteRetired, TypeOK
<1>3. CASE ExecuteCollective(t)
  <2> HIDE DEF r
  <2>1. CancelTimer(r) \in TrackerType
    BY <1>1, CancelTimerType
  <2>2. "NOT_SUPPORTED" \in Status /\ "ERROR" \in Status
    BY DEF Status
  <2>3. r.status \in Status
    BY <1>1 DEF TrackerType
  <2>4. UpCall(r, CollectData(r)) \in TrackerType
    BY <1>1, CollectDataType, UpCallType
  <2>5. \A rc \in HostReturns :
          AfterUpCall(UpCall(r, CollectData(r)), rc, r.status) \in TrackerType
    BY <2>3, <2>4, AfterUpCallType
  <2>6. /\ DriveBack(CancelTimer(r), "NOT_SUPPORTED") \in TrackerType
        /\ DriveBack(CancelTimer(r), "ERROR") \in TrackerType
    BY <2>1, <2>2, DriveType
  <2>7. \E q \in TrackerType : TrackerStep(t, q)
    BY <1>3, <2>5, <2>6, Zenon DEF ExecuteCollective, r
  <2> QED
    BY <2>7, TrackerStepType
<1> QED
  BY <1>2, <1>3

\* Clients that connect or finalize keep the types.
LEMMA PeerTypeStep ==
  ASSUME TypeOK, NEW p \in Peers, Connect(p) \/ Finalize(p)
  PROVE  TypeOK'
<1>1. Name[p] \in Names
  BY ConstantsAssumption
<1>2. CASE Connect(p)
  BY <1>1, <1>2 DEF Connect, TypeOK
<1>3. CASE Finalize(p)
  BY <1>3 DEF Finalize, TypeOK
<1> QED
  BY <1>2, <1>3

\* The loss of a client keeps the types.
LEMMA LostConnectionTypeStep ==
  ASSUME TypeOK, NEW p \in Peers, LostConnection(p)
  PROVE  TypeOK'
<1>1. Name[p] \in Names /\ Name[p][1] \in NSpaces
  BY ConstantsAssumption DEF Names
<1>2. PICK rc : trk' = [t \in Trk |-> IF t \in Collectives
                                     THEN LoseIn(trk[t], Name[p], rc[t]) ELSE trk[t]]
  BY DEF LostConnection
<1>3. trk' \in [Trk -> TrackerType]
  BY <1>1, <1>2, LoseInType DEF TypeOK
<1>4. nspace' \in [NSpaces -> NSpaceType]
  <2>1. ASSUME NEW n \in NSpaceType, NEW k \in 0..SIZE_MAX
        PROVE  [n EXCEPT !.nlocalprocs = k] \in NSpaceType
    BY DEF NSpaceType
  <2>2. nspace[Name[p][1]] \in NSpaceType
    BY <1>1 DEF TypeOK
  <2> DEFINE k == nspace[Name[p][1]].nlocalprocs
  <2>3. k \in 0..SIZE_MAX /\ SIZE_MAX \in Nat
    BY <2>2, ConstantsAssumption DEF NSpaceType
  <2>4. (IF k > 0 THEN k - 1 ELSE 0) \in 0..SIZE_MAX
    BY <2>3
  <2>5. nspace' = [nspace EXCEPT ![Name[p][1]] =
                     [@ EXCEPT !.nlocalprocs = IF k > 0 THEN k - 1 ELSE 0]]
    BY <1>1 DEF LostConnection
  <2> HIDE DEF k
  <2> QED
    BY <2>1, <2>2, <2>4, <2>5, Zenon DEF TypeOK
<1>5. peer' \in [Peers -> {"absent", "connected", "finalized", "lost", "removed"}]
  BY DEF LostConnection, TypeOK
<1>6. running' \in BOOLEAN
  BY DEF LostConnection
<1> QED
  BY <1>3, <1>4, <1>5, <1>6 DEF LostConnection, TypeOK

\* Registering a namespace keeps the types.
LEMMA RegisterNspaceTypeStep ==
  ASSUME TypeOK, NEW ns \in NSpaces, RegisterNspace(ns)
  PROVE  TypeOK'
<1> DEFINE n == Cardinality(Local[ns])
           nptr(nodata) ==
             [nspace[ns] EXCEPT
                !.known = TRUE, !.nlocalprocs = n, !.job_info_recvd = ~nodata,
                !.nprocs = IF nodata THEN @ ELSE NProcs[ns],
                !.all_registered = @ \/ n = Cardinality(nspace[ns].ranks)]
<1>1. PICK nodata \in BOOLEAN :
        /\ nspace' = [nspace EXCEPT ![ns] = nptr(nodata)]
        /\ trk' = [t \in Trk |-> IF t \in Collectives /\ ~nodata
                                 THEN NspaceIn(trk[t], ns, nspace') ELSE trk[t]]
  BY Zenon DEF RegisterNspace
<1>2. n \in 0..SIZE_MAX
  BY ConstantsAssumption, FS_Subset, FS_CardinalityType
<1>3. nspace[ns] \in NSpaceType
  BY DEF TypeOK
<1>4. nptr(nodata) \in NSpaceType /\ nptr(nodata).nlocalprocs = n
  <2>1. (nspace[ns].all_registered \/ n = Cardinality(nspace[ns].ranks)) \in BOOLEAN
    BY <1>3 DEF NSpaceType
  <2>2. (IF nodata THEN nspace[ns].nprocs ELSE NProcs[ns]) \in Nat
    BY <1>3, ConstantsAssumption DEF NSpaceType
  <2> HIDE DEF n
  <2> QED
    BY <1>2, <1>3, <2>1, <2>2, Zenon DEF NSpaceType
<1> HIDE DEF nptr
<1>5. nspace' \in [NSpaces -> NSpaceType] /\ nspace'[ns].nlocalprocs = n
  BY <1>1, <1>4 DEF TypeOK
<1>6. ASSUME NEW r \in TrackerType
      PROVE  NspaceIn(r, ns, nspace') \in TrackerType
  <2>1. ASSUME NEW l \in SUBSET NSpaces, NEW o \in BOOLEAN
        PROVE  [r EXCEPT !.nslist = l, !.local = o] \in TrackerType
    BY Zenon DEF TrackerType
  <2>2. r.nslist \in SUBSET NSpaces /\ r.nslist \cup {ns} \in SUBSET NSpaces
    BY DEF TrackerType
  <2>3. (r.local /\ (<<ns, WILDCARD>> \in r.pcs
                      => nspace'[ns].nprocs = nspace'[ns].nlocalprocs)) \in BOOLEAN
    BY DEF TrackerType
  <2>4. nspace'[ns].nlocalprocs \in Nat /\ 0 \in Nat
    BY <1>2, <1>5
  <2> QED
    BY <2>1, <2>2, <2>3, <2>4, RecheckType, Zenon DEF NspaceIn
<1>7. trk' \in [Trk -> TrackerType]
  BY <1>1, <1>6, Zenon DEF TypeOK
<1>8. UNCHANGED <<peer, peerid, ntrk, call, result, running>>
  BY DEF RegisterNspace
<1> QED
  BY <1>5, <1>7, <1>8 DEF TypeOK

\* Registering a client keeps the types.
LEMMA RegisterClientTypeStep ==
  ASSUME TypeOK, NEW n \in Names, RegisterClient(n)
  PROVE  TypeOK'
<1> DEFINE ranks == nspace[n[1]].ranks \cup {n[2]}
           full == /\ nspace[n[1]].nlocalprocs # SIZE_MAX
                   /\ nspace[n[1]].nlocalprocs = Cardinality(ranks)
           nptr == [nspace[n[1]] EXCEPT !.known = TRUE, !.ranks = ranks,
                                        !.all_registered = @ \/ full]
           nsp == [nspace EXCEPT ![n[1]] = nptr]
<1>1. n[1] \in NSpaces /\ n[2] \in Ranks
  BY DEF Names
<1>2. ASSUME NEW q \in NSpaceType, NEW rs \in SUBSET Ranks, NEW al \in BOOLEAN
      PROVE  [q EXCEPT !.known = TRUE, !.ranks = rs, !.all_registered = al] \in NSpaceType
  BY Zenon DEF NSpaceType
<1>3. nspace[n[1]] \in NSpaceType
  BY <1>1 DEF TypeOK
<1>4. ranks \in SUBSET Ranks /\ (nspace[n[1]].all_registered \/ full) \in BOOLEAN
  BY <1>1, <1>3 DEF NSpaceType
<1>5. nsp \in [NSpaces -> NSpaceType]
  <2> HIDE DEF ranks, full
  <2> QED
    BY <1>1, <1>2, <1>3, <1>4, Zenon DEF TypeOK
<1>6. /\ nspace' = nsp
      /\ trk' = [t \in Trk |-> IF full /\ t \in Collectives
                               THEN ClientIn(trk[t], n, nsp) ELSE trk[t]]
      /\ UNCHANGED <<peer, peerid, ntrk, call, result, running>>
  BY DEF RegisterClient
<1> HIDE DEF nsp, full
<1>7. ASSUME NEW r \in TrackerType
      PROVE  ClientIn(r, n, nsp) \in TrackerType
  BY RecheckType DEF ClientIn
<1>8. trk' \in [Trk -> TrackerType]
  BY <1>6, <1>7 DEF TypeOK
<1> QED
  BY <1>5, <1>6, <1>8 DEF TypeOK

\* Deregistering a client keeps the types.
LEMMA DeregisterClientTypeStep ==
  ASSUME TypeOK, NEW n \in Names, DeregisterClient(n)
  PROVE  TypeOK'
<1>1. n[1] \in NSpaces /\ n[2] \in Ranks
  BY DEF Names
<1> DEFINE nptr == [nspace[n[1]] EXCEPT !.ranks = @ \ {n[2]}, !.departed = @ \cup {n[2]}]
<1>2. nptr \in NSpaceType
  BY <1>1, ZenonT(30) DEF TypeOK, NSpaceType
<1>3. nspace' \in [NSpaces -> NSpaceType]
  <2>1. nspace' = [nspace EXCEPT ![n[1]] = nptr]
    BY DEF DeregisterClient
  <2> HIDE DEF nptr
  <2> QED
    BY <1>1, <1>2, <2>1 DEF TypeOK
<1>4. /\ peer' \in [Peers -> {"absent", "connected", "finalized", "lost", "removed"}]
      /\ peerid' \in [Names -> Peers \cup {NOBODY}]
  BY DEF TypeOK, DeregisterClient
<1> QED
  BY <1>3, <1>4 DEF TypeOK, DeregisterClient

\* Every step keeps the types.
LEMMA TypeStep == TypeOK /\ [Next]_vars => TypeOK'
<1> SUFFICES ASSUME TypeOK, [Next]_vars PROVE TypeOK'
  OBVIOUS
<1>1. CASE UNCHANGED vars
  BY <1>1 DEF vars, TypeOK
<1>2. CASE Next
  BY <1>2, ContributeTypeStep, TimeoutTypeStep, HostCallbackTypeStep,
     CompletionHandlerTypeStep, ExecuteTypeStep, PeerTypeStep, LostConnectionTypeStep,
     RegisterNspaceTypeStep, RegisterClientTypeStep, DeregisterClientTypeStep DEF Next
<1> QED
  BY <1>1, <1>2

\* Every tracker, namespace, peer and call keeps the type the code gives it, whatever
\* clients, hosts, timers and losses do; in particular the counts stay natural numbers.
THEOREM TypeCorrect == Spec => []TypeOK
<1>1. Init => TypeOK
  BY TypeInit
<1>2. TypeOK /\ [Next]_vars => TypeOK'
  BY TypeStep
<1> QED
  BY <1>1, <1>2, PTL DEF Spec

\* Every tracker starts unused.
LEMMA InitUnused ==
  Init => \A t \in Trk : /\ trk[t].linked = FALSE /\ trk[t].armed = FALSE
                         /\ trk[t].departed = {} /\ trk[t].local_cbs = {}
                         /\ trk[t].queue = <<>> /\ trk[t].owed = 0
<1>1. Init => trk = [t \in Trk |-> Unused]
  BY DEF Init
<1>2. /\ Unused.linked = FALSE /\ Unused.armed = FALSE
      /\ Unused.departed = {} /\ Unused.local_cbs = {}
      /\ Unused.queue = <<>> /\ Unused.owed = 0
  BY DEF Unused
<1> HIDE DEF Unused
<1> QED
  BY <1>1, <1>2

-----------------------------------------------------------------------------
(* What a step may do to the callers of a tracker.                         *)

\* Tracker q is for the same operation as r, has the same callers, and its completion was
\* driven if that of r was.
Alike(q, r) ==
  /\ q.linked = r.linked /\ q.type = r.type /\ q.pcs = r.pcs /\ q.local_cbs = r.local_cbs
  /\ r.completion_fired => q.completion_fired

\* Being alike is transitive.
LEMMA AlikeTrans ==
  ASSUME NEW p, NEW q, NEW r, Alike(p, q), Alike(q, r)
  PROVE  Alike(p, r)
BY DEF Alike

\* The operators on one tracker that complete it or hand it up leave its callers alone.
LEMMA AlikeOps ==
  ASSUME NEW r \in TrackerType
  PROVE  /\ Alike(CancelTimer(r), r)
         /\ Alike(Unhosted(r), r)
         /\ Alike([r EXCEPT !.owed = @ + 1], r)
         /\ \A s : Alike(Drive(r, s), r) /\ Drive(r, s).completion_fired = TRUE
         /\ \A data : Alike(UpCall(r, data), r)
<1>1. ASSUME NEW s
      PROVE  Alike(Drive(r, s), r) /\ Drive(r, s).completion_fired = TRUE
  BY DEF Drive, TrackerType, Alike
<1>2. ASSUME NEW data
      PROVE  Alike(UpCall(r, data), r)
  <2> DEFINE q == CancelTimer(r)
  <2>1. q \in TrackerType /\ Alike(q, r)
    BY CancelTimerType, Zenon DEF CancelTimer, TrackerType, Alike
  <2> HIDE DEF q
  <2>2. Alike([q EXCEPT !.host_called = TRUE, !.upcalls = @ + 1, !.bucket = data], q)
    BY <2>1 DEF TrackerType, Alike
  <2> QED
    BY <2>1, <2>2, AlikeTrans DEF UpCall, q
<1>3. /\ Alike(CancelTimer(r), r) /\ Alike(Unhosted(r), r)
      /\ Alike([r EXCEPT !.owed = @ + 1], r)
  BY DEF CancelTimer, Unhosted, TrackerType, Alike
<1> QED
  BY <1>1, <1>2, <1>3, Zenon

\* So does whatever follows the host's return.
LEMMA AfterUpCallAlike ==
  ASSUME NEW r \in TrackerType, NEW data \in SUBSET Names, NEW rc \in HostReturns, NEW s
  PROVE  Alike(AfterUpCall(UpCall(r, data), rc, s), r)
<1> DEFINE u == UpCall(r, data)
<1>1. u \in TrackerType /\ Alike(u, r)
  BY UpCallType, AlikeOps, Zenon
<1> HIDE DEF u
<1>2. Unhosted(u) \in TrackerType /\ Alike(Unhosted(u), u) /\ Alike([u EXCEPT !.owed = @ + 1], u)
  BY <1>1, UnhostedType, AlikeOps, Zenon
<1>3. \A x : Alike(Drive(Unhosted(u), x), Unhosted(u))
  BY <1>2, AlikeOps, Zenon
<1>4. rc \in {"SUCCESS", "OPERATION_SUCCEEDED", "ERROR"}
  BY ConstantsAssumption
<1>5. Alike(AfterUpCall(u, rc, s), u)
  BY <1>2, <1>3, <1>4, AlikeTrans DEF AfterUpCall, DriveBack
<1> QED
  BY <1>1, <1>5, AlikeTrans DEF u

\* So does the loss of a client, unless the host refuses what it completes: then the
\* tracker is released.
LEMMA LoseInAlike ==
  ASSUME NEW r \in TrackerType, NEW n \in Names, NEW rc
  PROVE  Alike(LoseIn(r, n, rc), r) \/ (rc # "SUCCESS" /\ LoseIn(r, n, rc).linked = FALSE)
<1> DEFINE d == Departed(r, n)
<1>1. d \in TrackerType
  BY DepartedType
<1>2. Alike(d, r) /\ Alike(r, r)
  BY DEF Departed, TrackerType, Alike
<1> HIDE DEF d
<1>3. CancelTimer(d) \in TrackerType /\ Alike(CancelTimer(d), d)
  BY <1>1, CancelTimerType, AlikeOps, Zenon
<1>4. Alike(Drive(CancelTimer(d), d.status), CancelTimer(d))
  BY <1>3, AlikeOps, Zenon
<1>5. Alike(Drive(CancelTimer(d), d.status), r)
  BY <1>2, <1>3, <1>4, AlikeTrans
<1>6. {} \in SUBSET Names
  OBVIOUS
<1>7. UpCall(d, {}) \in TrackerType /\ Alike(UpCall(d, {}), d)
  BY <1>1, <1>6, UpCallType, AlikeOps, Zenon
<1>8. Alike([UpCall(d, {}) EXCEPT !.owed = @ + 1], UpCall(d, {}))
  BY <1>7, AlikeOps, Zenon
<1>9. Alike([UpCall(d, {}) EXCEPT !.owed = @ + 1], r)
  BY <1>2, <1>7, <1>8, AlikeTrans
<1>10. Released(UpCall(d, {})).linked = FALSE
  BY <1>7 DEF Released, TrackerType
<1> QED
  BY <1>2, <1>5, <1>9, <1>10 DEF LoseIn, d

\* Registrations recount a tracker and leave its callers alone.
LEMMA RecheckAlike ==
  ASSUME NEW r \in TrackerType, NEW nsp, NEW add \in Nat
  PROVE  Alike(Recheck(r, nsp, add), r)
<1> DEFINE d == [r EXCEPT !.nlocal = @ + add, !.def_complete = Defined(r, nsp)]
<1>1. Alike(d, r)
  BY DEF TrackerType, Alike
<1>2. d \in TrackerType
  <2>1. Defined(r, nsp) \in BOOLEAN /\ r.nlocal + add \in Nat
    BY DEF Defined, TrackerType
  <2> QED
    BY <2>1, Zenon DEF TrackerType
<1> HIDE DEF d
<1>3. ASSUME NEW x
      PROVE  Alike([d EXCEPT !.queue = x], d)
  BY <1>2 DEF TrackerType, Alike
<1> QED
  BY <1>1, <1>3, AlikeTrans, Zenon DEF Recheck, d

-----------------------------------------------------------------------------
(* What each step does to them.                                            *)

\* A step that moves no caller and creates no tracker.
Stays == (\A t \in Trk : Alike(trk'[t], trk[t])) /\ UNCHANGED <<ntrk, call>>

\* A call c that landed on tracker t and made it q is parked there, or it was taken off
\* again and answered.
Lands(c, t, r, q) ==
  /\ trk' = [trk EXCEPT ![t] = q]
  /\ ntrk' = IF t > ntrk THEN t ELSE ntrk
  /\ q.linked = r.linked /\ q.type = r.type /\ q.pcs = r.pcs
  /\ \/ q.local_cbs = r.local_cbs /\ call' = [call EXCEPT ![c] = "parked"]
     \/ q.local_cbs = r.local_cbs \ {c} /\ call' = [call EXCEPT ![c] = "answered"]

\* A step on one tracker that moves no caller.
LEMMA OneStays ==
  ASSUME TypeOK, NEW t \in Trk, NEW q, trk' = [trk EXCEPT ![t] = q],
         Alike(q, trk[t]), UNCHANGED <<ntrk, call>>
  PROVE  Stays
<1>1. \A u \in Trk : Alike(trk'[u], trk[u])
  BY DEF TypeOK, Alike
<1> QED
  BY <1>1 DEF Stays

\* The timer, the host and a shifted execution move no caller.
LEMMA TrackerStepStays ==
  ASSUME TypeOK, NEW t \in Trk,
         Timeout(t) \/ HostCallback(t) \/ ExecuteRetired(t) \/ ExecuteCollective(t)
  PROVE  Stays
<1> DEFINE r == trk[t]
<1>1. r \in TrackerType
  BY DEF TypeOK
<1>2. ASSUME NEW q, TrackerStep(t, q), Alike(q, r)
      PROVE  Stays
  BY <1>2, OneStays, Zenon DEF TrackerStep
<1>3. CASE Timeout(t)
  <2> DEFINE o == [r EXCEPT !.armed = FALSE]
  <2>1. o \in TrackerType /\ Alike(o, r)
    BY <1>1, Zenon DEF TrackerType, Alike
  <2>2. TrackerStep(t, IF r.completion_fired THEN CancelTimer(r) ELSE Drive(o, "TIMEOUT"))
    BY <1>3 DEF Timeout
  <2> HIDE DEF o
  <2>3. Alike(Drive(o, "TIMEOUT"), o) /\ Alike(CancelTimer(r), r)
    BY <1>1, <2>1, AlikeOps, Zenon
  <2>4. Alike(Drive(o, "TIMEOUT"), r)
    BY <2>1, <2>3, AlikeTrans
  <2> QED
    BY <1>2, <2>2, <2>3, <2>4
<1>4. CASE HostCallback(t)
  <2>1. PICK s \in {"SUCCESS", "ERROR"} : TrackerStep(t, Drive([r EXCEPT !.owed = @ - 1], s))
    BY <1>4 DEF HostCallback
  <2>2. [r EXCEPT !.owed = @ - 1] \in TrackerType /\ Alike([r EXCEPT !.owed = @ - 1], r)
    BY <1>1, <1>4, OwedType, Zenon DEF HostCallback, TrackerType, Alike
  <2>3. Alike(Drive([r EXCEPT !.owed = @ - 1], s), r)
    BY <2>2, AlikeOps, AlikeTrans, Zenon
  <2> QED
    BY <1>2, <2>1, <2>3
<1>5. ASSUME NextEvent(t, "execute")
      PROVE  /\ [r EXCEPT !.queue = Tail(@)] \in TrackerType
             /\ Alike([r EXCEPT !.queue = Tail(@)], r)
  BY <1>1, <1>5, TailType, Zenon DEF NextEvent, TrackerType, Alike
<1>6. CASE ExecuteRetired(t)
  <2>1. /\ trk' = [trk EXCEPT ![t] = [r EXCEPT !.queue = Tail(@)]]
        /\ UNCHANGED <<ntrk, call>>
        /\ Alike([r EXCEPT !.queue = Tail(@)], r)
    BY <1>5, <1>6 DEF ExecuteRetired
  <2> QED
    BY <2>1, OneStays, Zenon
<1>7. CASE ExecuteCollective(t)
  <2> DEFINE e == [r EXCEPT !.queue = Tail(@)]
  <2>1. e \in TrackerType /\ Alike(e, r)
    BY <1>5, <1>7 DEF ExecuteCollective
  <2>2. \/ \E s : TrackerStep(t, DriveBack(CancelTimer(e), s))
        \/ \E rc \in HostReturns :
             TrackerStep(t, AfterUpCall(UpCall(e, CollectData(e)), rc, e.status))
    BY <1>7, Zenon DEF ExecuteCollective
  <2> HIDE DEF e
  <2>3. CollectData(e) \in SUBSET Names
    BY <2>1, CollectDataType
  <2>4. \A rc \in HostReturns : Alike(AfterUpCall(UpCall(e, CollectData(e)), rc, e.status), r)
    BY <2>1, <2>3, AfterUpCallAlike, AlikeTrans
  <2>5. /\ Unhosted(CancelTimer(e)) \in TrackerType
        /\ Alike(Unhosted(CancelTimer(e)), r)
    <3>1. CancelTimer(e) \in TrackerType /\ Alike(CancelTimer(e), r)
      <4>1. CancelTimer(e) \in TrackerType /\ Alike(CancelTimer(e), e)
        BY <2>1, CancelTimerType, AlikeOps, Zenon
      <4> QED
        BY <2>1, <4>1, AlikeTrans
    <3>2. /\ Unhosted(CancelTimer(e)) \in TrackerType
          /\ Alike(Unhosted(CancelTimer(e)), CancelTimer(e))
      BY <3>1, UnhostedType, AlikeOps, Zenon
    <3> QED
      BY <3>1, <3>2, AlikeTrans
  <2>6. \A s : Alike(DriveBack(CancelTimer(e), s), r)
    BY <2>5, AlikeOps, AlikeTrans, Zenon DEF DriveBack
  <2> QED
    BY <1>2, <2>2, <2>4, <2>6
<1> QED
  BY <1>3, <1>4, <1>6, <1>7

\* Nor does a registration.
LEMMA RegisterStays ==
  ASSUME TypeOK,
         (\E ns \in NSpaces : RegisterNspace(ns)) \/ (\E n \in Names : RegisterClient(n))
  PROVE  Stays
<1>1. \A t \in Trk : trk[t] \in TrackerType
  BY DEF TypeOK
<1>2. UNCHANGED <<ntrk, call>>
  BY Zenon DEF RegisterNspace, RegisterClient
<1>3. CASE \E n \in Names : RegisterClient(n)
  <2>0. PICK n \in Names : RegisterClient(n)
    BY <1>3
  <2>1. \A t \in Trk : trk'[t] \in {trk[t], ClientIn(trk[t], n, nspace')}
    BY <2>0, Zenon DEF RegisterClient
  <2>2. \A t \in Trk : Alike(ClientIn(trk[t], n, nspace'), trk[t]) /\ Alike(trk[t], trk[t])
    <3> SUFFICES ASSUME NEW t \in Trk
                 PROVE  Alike(ClientIn(trk[t], n, nspace'), trk[t]) /\ Alike(trk[t], trk[t])
      OBVIOUS
    <3>1. Alike(trk[t], trk[t])
      BY Zenon DEF Alike
    <3> QED
      BY <1>1, <3>1, RecheckAlike DEF ClientIn
  <2>3. \A t \in Trk : Alike(trk'[t], trk[t])
    BY <2>1, <2>2
  <2> QED
    BY <1>2, <2>3 DEF Stays
<1>4. CASE \E ns \in NSpaces : RegisterNspace(ns)
  <2>1. PICK ns \in NSpaces : RegisterNspace(ns)
    BY <1>4
  <2>2. \A t \in Trk : trk'[t] \in {trk[t], NspaceIn(trk[t], ns, nspace')}
    BY <2>1, Zenon DEF RegisterNspace
  <2>3. nspace'[ns].nlocalprocs \in Nat
    BY <2>1, RegisterNspaceTypeStep DEF TypeOK, NSpaceType
  <2>4. ASSUME NEW r \in TrackerType
        PROVE  Alike(NspaceIn(r, ns, nspace'), r) /\ Alike(r, r)
    <3>1. ASSUME NEW l \in SUBSET NSpaces, NEW o \in BOOLEAN
          PROVE  /\ [r EXCEPT !.nslist = l, !.local = o] \in TrackerType
                 /\ Alike([r EXCEPT !.nslist = l, !.local = o], r)
      BY Zenon DEF TrackerType, Alike
    <3>2. ASSUME NEW l \in SUBSET NSpaces, NEW o \in BOOLEAN, NEW k \in Nat
          PROVE  Alike(Recheck([r EXCEPT !.nslist = l, !.local = o], nspace', k), r)
      BY <3>1, RecheckAlike, AlikeTrans, Zenon
    <3>3. r.nslist \in SUBSET NSpaces /\ r.nslist \cup {ns} \in SUBSET NSpaces
      BY DEF TrackerType
    <3>4. (r.local /\ (<<ns, WILDCARD>> \in r.pcs
                        => nspace'[ns].nprocs = nspace'[ns].nlocalprocs)) \in BOOLEAN
      BY DEF TrackerType
    <3>5. Alike(r, r)
      BY DEF Alike
    <3> QED
      BY <2>3, <3>2, <3>3, <3>4, <3>5, Zenon DEF NspaceIn
  <2>5. \A t \in Trk : Alike(trk'[t], trk[t])
    BY <1>1, <2>2, <2>4
  <2> QED
    BY <1>2, <2>5 DEF Stays
<1> QED
  BY <1>3, <1>4

\* Clients that come and go in order, and the host deregistering one, touch no tracker.
LEMMA PeerStays ==
  ASSUME (\E p \in Peers : Connect(p) \/ Finalize(p)) \/ (\E n \in Names : DeregisterClient(n))
  PROVE  Stays
<1>1. UNCHANGED <<trk, ntrk, call>>
  BY Zenon DEF Connect, Finalize, DeregisterClient
<1> QED
  BY <1>1 DEF Stays, Alike

\* A contribution lands on the tracker of its operation.
LEMMA ContributeLands ==
  ASSUME TypeOK, NEW c \in Calls, Contribute(c)
  PROVE  \E op \in Ops, sig \in Sigs, t \in Trk, tmo \in BOOLEAN, collect \in BOOLEAN :
           /\ LandsOn(t, op, sig) /\ call[c] = "new"
           /\ \E q : Lands(c, t, Joined(t, c, op, sig, tmo, collect), q)
<1>1. PICK op \in Ops, sig \in Sigs, t \in Trk, tmo \in TimeoutGiven, collect \in CollectGiven :
        /\ LandsOn(t, op, sig)
        /\ MayCall(c, t, sig)
        /\ LET r == Joined(t, c, op, sig, tmo, collect) IN
             \/ ContributeWait(c, t, r)
             \/ ContributeLocal(c, t, r)
             \/ ContributeUnsupported(c, t, r)
             \/ ContributeNoBucket(c, t, r)
             \/ ContributeUp(c, t, r)
  BY DEF Contribute
<1> DEFINE r == Joined(t, c, op, sig, tmo, collect)
<1>2. r \in TrackerType
  BY JoinedType, ConstantsAssumption
<1>3. \/ ContributeWait(c, t, r)
      \/ ContributeLocal(c, t, r)
      \/ ContributeUnsupported(c, t, r)
      \/ ContributeNoBucket(c, t, r)
      \/ ContributeUp(c, t, r)
  BY <1>1
<1> HIDE DEF r
<1>4. call[c] = "new" /\ tmo \in BOOLEAN /\ collect \in BOOLEAN
  BY <1>1, ConstantsAssumption DEF MayCall
<1> SUFFICES \E q : Lands(c, t, r, q)
  BY <1>1, <1>4 DEF r
<1>5. ASSUME NEW q, Alike(q, r), Parked(c, t, q)
      PROVE  Lands(c, t, r, q)
  BY <1>5 DEF Parked, Alike, Lands
<1>6. ASSUME NEW x \in TrackerType, Alike(x, r), NEW err, Rejected(c, t, x, err)
      PROVE  \E q : Lands(c, t, r, q)
  <2> DEFINE others == [x EXCEPT !.local_cbs = @ \ {c}]
             q == Drive(others, err)
  <2>1. /\ others \in TrackerType
        /\ others.linked = r.linked /\ others.type = r.type /\ others.pcs = r.pcs
        /\ others.local_cbs = r.local_cbs \ {c}
    BY <1>6, Zenon DEF TrackerType, Alike
  <2>2. /\ trk' = [trk EXCEPT ![t] = q]
        /\ ntrk' = IF t > ntrk THEN t ELSE ntrk
        /\ call' = [call EXCEPT ![c] = "answered"]
    BY <1>6 DEF Rejected
  <2> HIDE DEF others
  <2>3. /\ q.linked = r.linked /\ q.type = r.type /\ q.pcs = r.pcs
        /\ q.local_cbs = r.local_cbs \ {c}
    <3>1. Alike(q, others)
      BY <2>1, AlikeOps, Zenon
    <3> QED
      BY <2>1, <3>1 DEF Alike
  <2> HIDE DEF q
  <2> QED
    BY <2>2, <2>3, Zenon DEF Lands
<1>7. /\ CancelTimer(r) \in TrackerType
      /\ Alike(CancelTimer(r), r) /\ Alike(r, r)
      /\ Unhosted(CancelTimer(r)) \in TrackerType
      /\ Alike(Unhosted(CancelTimer(r)), r)
  <2>1. CancelTimer(r) \in TrackerType /\ Alike(CancelTimer(r), r)
    BY <1>2, CancelTimerType, AlikeOps, Zenon
  <2>2. /\ Unhosted(CancelTimer(r)) \in TrackerType
        /\ Alike(Unhosted(CancelTimer(r)), CancelTimer(r))
    BY <2>1, UnhostedType, AlikeOps, Zenon
  <2>3. Alike(r, r)
    BY DEF Alike
  <2> QED
    BY <2>1, <2>2, <2>3, AlikeTrans
<1>8. CASE ContributeWait(c, t, r)
  BY <1>5, <1>7, <1>8 DEF ContributeWait
<1>9. CASE ContributeLocal(c, t, r)
  <2>1. \A s : /\ Alike(Drive(CancelTimer(r), s), r)
               /\ Alike(Drive(Unhosted(CancelTimer(r)), s), r)
    BY <1>7, AlikeOps, AlikeTrans, Zenon
  <2> QED
    BY <1>5, <1>9, <2>1 DEF ContributeLocal
<1>10. CASE ContributeUnsupported(c, t, r) \/ ContributeNoBucket(c, t, r)
  BY <1>6, <1>7, <1>10 DEF ContributeUnsupported, ContributeNoBucket
<1>11. CASE ContributeUp(c, t, r)
  <2> DEFINE u == UpCall(r, CollectData(r))
  <2>1. CollectData(r) \in SUBSET Names
    BY <1>2, CollectDataType
  <2>2. u \in TrackerType /\ Alike(u, r)
    BY <1>2, <2>1, UpCallType, AlikeOps, Zenon
  <2>3. PICK rc \in HostReturns : IF rc = "ERROR" THEN Rejected(c, t, Unhosted(u), "ERROR")
                                 ELSE Parked(c, t, AfterUpCall(u, rc, OwnStatus(r)))
    BY <1>11 DEF ContributeUp
  <2>4. Alike(AfterUpCall(u, rc, OwnStatus(r)), r)
    BY <1>2, <2>1, AfterUpCallAlike
  <2> HIDE DEF u
  <2>5. Unhosted(u) \in TrackerType /\ Alike(Unhosted(u), r)
    BY <2>2, UnhostedType, AlikeOps, AlikeTrans, Zenon
  <2> QED
    BY <1>5, <1>6, <2>3, <2>4, <2>5
<1> QED
  BY <1>3, <1>8, <1>9, <1>10, <1>11

\* The completion handler answers everyone it takes off the tracker.
LEMMA CompletionHandlerAnswers ==
  ASSUME TypeOK, NEW t \in Trk, CompletionHandler(t)
  PROVE  \E q : /\ q.linked = FALSE /\ q.local_cbs = {}
               /\ trk' = [trk EXCEPT ![t] = q] /\ ntrk' = ntrk
               /\ call' = [c \in Calls |-> IF c \in trk[t].local_cbs THEN "answered" ELSE call[c]]
<1> DEFINE r == trk[t]
           over == [Released(r) EXCEPT !.armed = @ /\ ~r.event_active, !.queue = Tail(@)]
<1>0. r \in TrackerType
  BY DEF TypeOK
<1>1. /\ call' = [c \in Calls |-> IF c \in r.local_cbs THEN "answered" ELSE call[c]]
      /\ trk' = [trk EXCEPT ![t] = over]
      /\ ntrk' = ntrk
  BY DEF CompletionHandler
<1> HIDE DEF r
<1>2. Released(r) \in TrackerType /\ Released(r).linked = FALSE /\ Released(r).local_cbs = {}
  BY <1>0, ReleasedType DEF Released, TrackerType
<1>3. over.linked = FALSE /\ over.local_cbs = {}
  BY <1>2 DEF TrackerType
<1> HIDE DEF over
<1> QED
  BY <1>1, <1>3, Zenon DEF r

\* A loss moves no caller, or releases trackers: those for which the host refused.
LEMMA LostConnectionStays ==
  ASSUME TypeOK, NEW p \in Peers, LostConnection(p)
  PROVE  /\ UNCHANGED <<ntrk, call>>
         /\ MaxLosses # 0
         /\ \A t \in Trk : \/ Alike(trk'[t], trk[t])
                           \/ trk'[t].linked = FALSE /\ ~(HostReturns \subseteq {"SUCCESS"})
<1>1. MaxLosses # 0
  <2>1. Losses \in Nat
    <3>1. {q \in Peers : peer[q] = "lost"} \in SUBSET Peers
      OBVIOUS
    <3> QED
      BY <3>1, FS_Subset, FS_CardinalityType, ConstantsAssumption DEF Losses
  <2> QED
    BY <2>1 DEF LostConnection
<1>2. PICK rc \in [Collectives -> HostReturns] :
        trk' = [t \in Trk |-> IF t \in Collectives THEN LoseIn(trk[t], Name[p], rc[t])
                              ELSE trk[t]]
  BY DEF LostConnection
<1>3. \A t \in Trk : trk[t] \in TrackerType /\ Name[p] \in Names
  BY ConstantsAssumption DEF TypeOK
<1>4. ASSUME NEW t \in Trk
      PROVE  \/ Alike(trk'[t], trk[t])
             \/ trk'[t].linked = FALSE /\ ~(HostReturns \subseteq {"SUCCESS"})
  <2>1. CASE t \in Collectives
    <3>1. trk'[t] = LoseIn(trk[t], Name[p], rc[t]) /\ rc[t] \in HostReturns
      BY <1>2, <2>1
    <3>2. \/ Alike(LoseIn(trk[t], Name[p], rc[t]), trk[t])
          \/ rc[t] # "SUCCESS" /\ LoseIn(trk[t], Name[p], rc[t]).linked = FALSE
      BY <1>3, LoseInAlike, Zenon
    <3> QED
      BY <3>1, <3>2
  <2>2. CASE t \notin Collectives
    BY <1>2, <2>2 DEF Alike
  <2> QED
    BY <2>1, <2>2, Zenon
<1>5. UNCHANGED <<ntrk, call>>
  BY DEF LostConnection
<1> QED
  BY <1>1, <1>4, <1>5, Zenon

-----------------------------------------------------------------------------
(* The participants of one collective are never split over two trackers.   *)

\* A tracker that pmix_server_get_tracker may return.
Open(r) == r.linked /\ ~r.completion_fired

\* If tracker q is open then it was when it was r, and for the same operation.
Inherits(q, r) == Open(q) => Open(r) /\ q.type = r.type /\ q.pcs = r.pcs

\* Two trackers open for the same operation.
Rivals(q, r) == Open(q) /\ Open(r) /\ q.type = r.type /\ q.pcs = r.pcs

NoRivals == \A t, u \in Trk : Rivals(trk[t], trk[u]) => t = u

\* OneOpenTracker says that there are no rivals.
LEMMA OneOpenIs == OneOpenTracker <=> NoRivals
<1>1. ASSUME NEW t, NEW u
      PROVE  Rivals(trk[t], trk[u]) <=> /\ Matches(u, trk[t].type, trk[t].pcs)
                                        /\ Matches(t, trk[t].type, trk[t].pcs)
  BY Zenon DEF Rivals, Matches, Open
<1> QED
  BY <1>1, Zenon DEF OneOpenTracker, NoRivals

\* A step that opens no tracker makes no rivals.
LEMMA InheritStep ==
  ASSUME NoRivals, \A t \in Trk : Inherits(trk'[t], trk[t])
  PROVE  NoRivals'
<1>1. ASSUME NEW t \in Trk, NEW u \in Trk, Rivals(trk'[t], trk'[u])
      PROVE  Rivals(trk[t], trk[u])
  BY <1>1 DEF Inherits, Rivals
<1> QED
  BY <1>1 DEF NoRivals

\* A call lands on the open tracker of its operation, or there is none.
LEMMA ContributeOpens ==
  ASSUME TypeOK, NoRivals, NEW c \in Calls, NEW op \in Ops, NEW sig \in Sigs,
         NEW t \in Trk, NEW tmo \in BOOLEAN, NEW collect \in BOOLEAN, LandsOn(t, op, sig),
         NEW q, Lands(c, t, Joined(t, c, op, sig, tmo, collect), q)
  PROVE  NoRivals'
<1> DEFINE r == IF t = ntrk + 1 THEN NewTracker(op, sig) ELSE trk[t]
           j == Joined(t, c, op, sig, tmo, collect)
<1>1. r \in TrackerType
  BY NewTrackerType DEF TypeOK
<1>2. r.type = op /\ r.pcs = sig
  <2>1. CASE t = ntrk + 1
    BY <2>1 DEF NewTracker, Unused
  <2>2. CASE t # ntrk + 1
    BY <2>2 DEF LandsOn, GetTracker, Matches
  <2> QED
    BY <2>1, <2>2
<1>3. j.type = r.type /\ j.pcs = r.pcs
  <2> HIDE DEF r
  <2> QED
    BY <1>1 DEF Joined, TrackerType, r
<1> HIDE DEF r, j
<1>4. Open(q) => q.type = op /\ q.pcs = sig
  BY <1>2, <1>3 DEF Lands, j
<1>5. \A u \in Trk : u # t => trk'[u] = trk[u]
  BY DEF Lands, TypeOK
<1>6. trk'[t] = q
  BY DEF Lands, TypeOK
<1>7. \A u \in Trk : u # t => ~(Open(trk[u]) /\ trk[u].type = op /\ trk[u].pcs = sig)
  <2> SUFFICES ASSUME NEW u \in Trk, Open(trk[u]), trk[u].type = op, trk[u].pcs = sig
               PROVE  u = t
    OBVIOUS
  <2>1. Matches(u, op, sig)
    BY DEF Matches, Open
  <2>2. Matches(t, op, sig)
    BY <2>1 DEF LandsOn, GetTracker
  <2>3. Rivals(trk[u], trk[t])
    BY <2>1, <2>2 DEF Matches, Open, Rivals
  <2> QED
    BY <2>3 DEF NoRivals
<1>8. ASSUME NEW u \in Trk, NEW v \in Trk, Rivals(trk'[u], trk'[v])
      PROVE  u = v
  <2>1. CASE u # t /\ v # t
    BY <1>5, <1>8, <2>1 DEF NoRivals
  <2>2. CASE u = t /\ v # t
    BY <1>4, <1>5, <1>6, <1>7, <1>8, <2>2 DEF Rivals
  <2>3. CASE u # t /\ v = t
    BY <1>4, <1>5, <1>6, <1>7, <1>8, <2>3 DEF Rivals
  <2> QED
    BY <2>1, <2>2, <2>3
<1> QED
  BY <1>8 DEF NoRivals

\* At most one tracker is open to the callers of one operation at any time, whatever the
\* registrations, losses, clones and repeated calls: pmix_server_get_tracker never has a
\* choice, and one collective is never split over two trackers.
THEOREM NeverSplit == Spec => []OneOpenTracker
<1>1. Init => NoRivals
  <2>1. Init => \A t \in Trk : trk[t].linked = FALSE
    BY InitUnused
  <2> QED
    BY <2>1 DEF NoRivals, Rivals, Open
<1>2. TypeOK /\ NoRivals /\ [Next]_vars => NoRivals'
  <2> SUFFICES ASSUME TypeOK, NoRivals, [Next]_vars PROVE NoRivals'
    OBVIOUS
  <2>1. CASE Stays
    <3>1. \A t \in Trk : Inherits(trk'[t], trk[t])
      BY <2>1 DEF Stays, Alike, Inherits, Open
    <3> QED
      BY <3>1, InheritStep
  <2>2. CASE UNCHANGED vars
    BY <2>2 DEF vars, NoRivals
  <2>3. CASE \E c \in Calls : Contribute(c)
    BY <2>3, ContributeLands, ContributeOpens
  <2>4. CASE \E t \in Trk : CompletionHandler(t)
    <3>0. PICK t \in Trk : CompletionHandler(t)
      BY <2>4
    <3>1. PICK q : q.linked = FALSE /\ trk' = [trk EXCEPT ![t] = q]
      BY <3>0, CompletionHandlerAnswers, Zenon
    <3>2. \A u \in Trk : Inherits(trk'[u], trk[u])
      BY <3>1 DEF TypeOK, Inherits, Open
    <3> QED
      BY <3>2, InheritStep
  <2>5. CASE \E p \in Peers : LostConnection(p)
    <3>1. \A t \in Trk : Alike(trk'[t], trk[t]) \/ trk'[t].linked = FALSE
      BY <2>5, LostConnectionStays, Zenon
    <3>2. \A t \in Trk : Inherits(trk'[t], trk[t])
      BY <3>1 DEF Alike, Inherits, Open
    <3> QED
      BY <3>2, InheritStep
  <2> QED
    BY <2>1, <2>2, <2>3, <2>4, <2>5, TrackerStepStays, RegisterStays, PeerStays DEF Next
<1>3. NoRivals => OneOpenTracker
  BY OneOpenIs
<1> QED
  BY <1>1, <1>2, <1>3, TypeCorrect, PTL DEF Spec

-----------------------------------------------------------------------------
(* Every blocked client is on exactly one linked tracker.                  *)

\* The inductive invariant: the trackers that were not created are unlinked, only a linked
\* tracker holds callers, those that wait are the ones held, and no two trackers share one.
Held ==
  /\ \A t \in Trk : t > ntrk => ~trk[t].linked
  /\ \A t \in Trk : trk[t].local_cbs # {} => trk[t].linked
  /\ \A c \in Calls : call[c] = "parked" <=> \E t \in Trk : c \in trk[t].local_cbs
  /\ \A c \in Calls : \A t, u \in Trk :
       c \in trk[t].local_cbs /\ c \in trk[u].local_cbs => t = u

\* What is invariant is the property.
LEMMA HeldIs ==
  ASSUME TypeOK, Held
  PROVE  ParkedIsHeld
<1> SUFFICES ASSUME NEW c \in Calls
             PROVE  call[c] = "parked" <=>
                      \E t \in Collectives : /\ c \in trk[t].local_cbs
                                             /\ \A u \in Trk : c \in trk[u].local_cbs => u = t
  BY DEF ParkedIsHeld
<1>1. ASSUME NEW t \in Trk, c \in trk[t].local_cbs
      PROVE  t \in Collectives /\ \A u \in Trk : c \in trk[u].local_cbs => u = t
  BY <1>1 DEF Held, Collectives
<1>2. call[c] = "parked" <=> \E t \in Trk : c \in trk[t].local_cbs
  BY DEF Held
<1> QED
  BY <1>1, <1>2 DEF Collectives

\* A step that moves no caller.
LEMMA StaysHeld ==
  ASSUME Held, Stays
  PROVE  Held'
<1>1. \A t \in Trk : trk'[t].linked = trk[t].linked /\ trk'[t].local_cbs = trk[t].local_cbs
  BY DEF Stays, Alike
<1> QED
  BY <1>1 DEF Held, Stays

\* A call that lands on tracker t: it joins the callers of t, if there are any, and is left
\* there or taken off again.
LEMMA CallHeld ==
  ASSUME TypeOK, Held, NEW c \in Calls, NEW op \in Ops, NEW sig \in Sigs,
         NEW t \in Trk, NEW tmo \in BOOLEAN, NEW collect \in BOOLEAN,
         LandsOn(t, op, sig), call[c] = "new",
         NEW r, r = Joined(t, c, op, sig, tmo, collect), NEW q, Lands(c, t, r, q)
  PROVE  Held'
<1>1. \A u \in Trk : c \notin trk[u].local_cbs
  BY DEF Held
<1>11. /\ \A u \in Trk : u > ntrk => ~trk[u].linked
      /\ \A u \in Trk : trk[u].local_cbs # {} => trk[u].linked
  BY DEF Held
<1>12. ntrk \in Nat /\ \A u \in Trk : u \in Nat
  BY ConstantsAssumption DEF TypeOK, Trk
<1>2. r.linked /\ r.local_cbs = trk[t].local_cbs \cup {c} /\ t <= ntrk + 1
  <2> DEFINE b == IF t = ntrk + 1 THEN NewTracker(op, sig) ELSE trk[t]
  <2>1. b \in TrackerType
    BY NewTrackerType DEF TypeOK
  <2>2. r.linked = b.linked /\ r.local_cbs = b.local_cbs \cup {c}
    <3> HIDE DEF b
    <3> QED
      BY <2>1 DEF Joined, TrackerType, b
  <2>3. CASE t = ntrk + 1
    <3>1. ~trk[t].linked
      BY <1>11, <1>12, <2>3
    <3>2. trk[t].local_cbs = {}
      BY <1>11, <3>1
    <3>3. b.linked /\ b.local_cbs = {}
      BY <2>3 DEF NewTracker, Unused
    <3>4. t <= ntrk + 1
      BY <1>12, <2>3
    <3> HIDE DEF b
    <3> QED
      BY <2>2, <3>2, <3>3, <3>4, Zenon
  <2>4. CASE t # ntrk + 1
    <3>1. trk[t].linked
      BY <2>4 DEF LandsOn, GetTracker, Matches
    <3>2. ~(t > ntrk) /\ b = trk[t]
      BY <1>11, <2>4, <3>1
    <3> HIDE DEF b
    <3> QED
      BY <1>12, <2>2, <3>1, <3>2
  <2> QED
    BY <2>3, <2>4
<1>3. /\ trk'[t] = q
      /\ \A u \in Trk : u # t => trk'[u] = trk[u]
      /\ \A d \in Calls : d # c => call'[d] = call[d]
      /\ q.linked /\ ntrk' = IF t > ntrk THEN t ELSE ntrk
      /\ \/ q.local_cbs = trk[t].local_cbs \cup {c} /\ call'[c] = "parked"
         \/ q.local_cbs = trk[t].local_cbs /\ call'[c] = "answered"
  <2>1. /\ trk'[t] = q
        /\ \A u \in Trk : u # t => trk'[u] = trk[u]
        /\ q.linked /\ ntrk' = IF t > ntrk THEN t ELSE ntrk
    BY <1>2 DEF Lands, TypeOK
  <2>2. \A d \in Calls : d # c => call'[d] = call[d]
    BY DEF Lands, TypeOK
  <2>3. \/ q.local_cbs = trk[t].local_cbs \cup {c} /\ call'[c] = "parked"
        \/ q.local_cbs = trk[t].local_cbs /\ call'[c] = "answered"
    <3>1. \/ q.local_cbs = r.local_cbs /\ call'[c] = "parked"
          \/ q.local_cbs = r.local_cbs \ {c} /\ call'[c] = "answered"
      BY DEF Lands, TypeOK
    <3>2. r.local_cbs \ {c} = trk[t].local_cbs
      BY <1>1, <1>2
    <3> QED
      BY <1>2, <3>1, <3>2, Zenon
  <2> QED
    BY <2>1, <2>2, <2>3
<1>4. \A u \in Trk : u > ntrk' => ~trk'[u].linked
  <2> SUFFICES ASSUME NEW u \in Trk, u > ntrk'
               PROVE  ~trk'[u].linked
    OBVIOUS
  <2>1. u # t /\ u > ntrk
    <3>1. ntrk' = IF t > ntrk THEN t ELSE ntrk
      BY <1>3, Zenon
    <3> QED
      BY <1>12, <3>1
  <2> QED
    BY <1>3, <1>11, <2>1, Zenon
<1>5. \A u \in Trk : trk'[u].local_cbs # {} => trk'[u].linked
  BY <1>3, <1>11
<1>6. ASSUME NEW d \in Calls, d # c
      PROVE  \A u \in Trk : d \in trk'[u].local_cbs <=> d \in trk[u].local_cbs
  <2> SUFFICES ASSUME NEW u \in Trk
               PROVE  d \in trk'[u].local_cbs <=> d \in trk[u].local_cbs
    OBVIOUS
  <2>1. CASE u = t
    BY <1>3, <1>6, <2>1
  <2>2. CASE u # t
    BY <1>3, <2>2
  <2> QED
    BY <2>1, <2>2
<1>7. \A u \in Trk : c \in trk'[u].local_cbs => u = t
  BY <1>1, <1>3
<1>8. call'[c] = "parked" <=> \E u \in Trk : c \in trk'[u].local_cbs
  <2>1. CASE call'[c] = "parked"
    BY <1>3, <2>1
  <2>2. CASE call'[c] = "answered"
    BY <1>1, <1>3, <1>7, <2>2
  <2> QED
    BY <1>3, <2>1, <2>2
<1>9. \A d \in Calls : call'[d] = "parked" <=> \E u \in Trk : d \in trk'[u].local_cbs
  <2> SUFFICES ASSUME NEW d \in Calls, d # c
               PROVE  call'[d] = "parked" <=> \E u \in Trk : d \in trk'[u].local_cbs
    BY <1>8
  <2>1. call[d] = "parked" <=> \E u \in Trk : d \in trk[u].local_cbs
    BY DEF Held
  <2> QED
    BY <1>3, <1>6, <2>1
<1>10. \A d \in Calls : \A u, v \in Trk :
         d \in trk'[u].local_cbs /\ d \in trk'[v].local_cbs => u = v
  <2> SUFFICES ASSUME NEW d \in Calls, d # c, NEW u \in Trk, NEW v \in Trk,
                      d \in trk'[u].local_cbs, d \in trk'[v].local_cbs
               PROVE  u = v
    BY <1>7
  <2>1. d \in trk[u].local_cbs /\ d \in trk[v].local_cbs
    BY <1>6
  <2> QED
    BY <2>1 DEF Held
<1> QED
  BY <1>4, <1>5, <1>9, <1>10 DEF Held

\* The completion handler answers everyone it takes off the tracker.
LEMMA CompletionHandlerHeld ==
  ASSUME TypeOK, Held, NEW t \in Trk, CompletionHandler(t)
  PROVE  Held'
<1>1. PICK over : /\ over.linked = FALSE /\ over.local_cbs = {}
                  /\ trk' = [trk EXCEPT ![t] = over] /\ ntrk' = ntrk
                  /\ call' = [c \in Calls |-> IF c \in trk[t].local_cbs THEN "answered"
                                              ELSE call[c]]
  BY CompletionHandlerAnswers, Zenon
<1>2. over.linked = FALSE /\ over.local_cbs = {} /\ trk' = [trk EXCEPT ![t] = over]
  BY <1>1
<1>3. ntrk' = ntrk /\ call' = [c \in Calls |-> IF c \in trk[t].local_cbs THEN "answered"
                                              ELSE call[c]]
  BY <1>1
<1>4. /\ trk'[t] = over
      /\ \A u \in Trk : u # t => trk'[u] = trk[u]
  BY <1>2 DEF TypeOK
<1>5. \A u \in Trk : (u > ntrk' => ~trk'[u].linked) /\ (trk'[u].local_cbs # {} => trk'[u].linked)
  BY <1>2, <1>3, <1>4 DEF Held
<1>6. ASSUME NEW c \in Calls
      PROVE  call'[c] = "parked" <=> \E u \in Trk : c \in trk'[u].local_cbs
  <2>1. CASE c \in trk[t].local_cbs
    <3>1. \A u \in Trk : c \notin trk'[u].local_cbs
      BY <1>2, <1>4, <2>1 DEF Held
    <3> QED
      BY <1>3, <2>1, <3>1
  <2>2. CASE c \notin trk[t].local_cbs
    <3>1. \A u \in Trk : c \in trk'[u].local_cbs <=> c \in trk[u].local_cbs
      BY <1>2, <1>4, <2>2
    <3> QED
      BY <1>3, <2>2, <3>1 DEF Held
  <2> QED
    BY <2>1, <2>2
<1>7. \A c \in Calls : \A u, v \in Trk :
        c \in trk'[u].local_cbs /\ c \in trk'[v].local_cbs => u = v
  BY <1>2, <1>4 DEF Held
<1> QED
  BY <1>5, <1>6, <1>7 DEF Held

\* No loss of a client makes the server give up a collective without an answer: no client
\* is lost, or the host accepts what a loss completes.
LossAccepted == MaxLosses = 0 \/ HostReturns \subseteq {"SUCCESS"}

\* Every client blocked in a fence, connect or disconnect is on the list of exactly one
\* linked tracker, and everybody on such a list is blocked, whatever the registrations,
\* clones and repeated calls, as long as the host accepts a collective that a loss
\* completes: pmix_server_trk_peer_lost releases the tracker otherwise.
THEOREM BlockedIsHeld ==
  ASSUME LossAccepted
  PROVE  Spec => []ParkedIsHeld
<1>1. Init => Held
  <2>1. Init => \A t \in Trk : trk[t].linked = FALSE /\ trk[t].local_cbs = {}
    BY InitUnused
  <2>2. Init => \A c \in Calls : call[c] # "parked"
    BY DEF Init
  <2> QED
    BY <2>1, <2>2 DEF Held
<1>2. TypeOK /\ Held /\ [Next]_vars => Held'
  <2> SUFFICES ASSUME TypeOK, Held, [Next]_vars PROVE Held'
    OBVIOUS
  <2>1. CASE UNCHANGED vars
    BY <2>1 DEF vars, Held
  <2>2. CASE \E c \in Calls : Contribute(c)
    BY <2>2, ContributeLands, CallHeld
  <2>3. CASE \E p \in Peers : LostConnection(p)
    <3>1. Stays
      BY <2>3, LostConnectionStays, Zenon DEF LossAccepted, Stays
    <3> QED
      BY <3>1, StaysHeld
  <2> QED
    BY <2>1, <2>2, <2>3, CompletionHandlerHeld, TrackerStepStays, RegisterStays, PeerStays,
       StaysHeld DEF Next
<1>3. TypeOK /\ Held => ParkedIsHeld
  BY HeldIs
<1> QED
  BY <1>1, <1>2, <1>3, TypeCorrect, PTL DEF Spec

=============================================================================
