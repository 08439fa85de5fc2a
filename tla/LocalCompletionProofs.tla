----------------------- MODULE LocalCompletionProofs ------------------------
(***************************************************************************)
(* A collective never leaves its local phase early, at most one party is   *)
(* on its way to completing it, and a fence that lost a participant says   *)
(* so.  This is proved for jobs that the host registered before it launched *)
(* them, in which every name has one process and nobody calls twice:       *)
(* without any of the three the first property fails.                      *)
(***************************************************************************)
EXTENDS TrackerSoundProofs

\* A queue of length 0 is the empty one.
LEMMA EmptyQueue ==
  ASSUME NEW S, NEW s \in Seq(S), Len(s) = 0
  PROVE  s = <<>>
OBVIOUS

\* The ranks of a namespace that are live are no more when fewer names are live.
LEMMA RanksShrink ==
  ASSUME NEW L, NEW K \in SUBSET L, NEW ns
  PROVE  /\ IsFiniteSet(RanksIn(L, ns)) /\ Cardinality(RanksIn(L, ns)) \in Nat
         /\ IsFiniteSet(RanksIn(K, ns)) /\ Cardinality(RanksIn(K, ns)) \in Nat
         /\ Cardinality(RanksIn(K, ns)) <= Cardinality(RanksIn(L, ns))
<1>1. RanksIn(L, ns) \in SUBSET Ranks /\ RanksIn(K, ns) \in SUBSET RanksIn(L, ns)
  BY DEF RanksIn
<1>2. IsFiniteSet(RanksIn(L, ns))
  BY <1>1, FS_Subset, ConstantsAssumption
<1> QED
  BY <1>1, <1>2, FS_Subset, FS_CardinalityType

\* With one process per name, the loss of a client takes its name out of the live ones.
LEMMA LostIsNotLive ==
  ASSUME IInv, NoClones, NEW p \in Peers, LostConnection(p)
  PROVE  Name[p] \in LiveNames /\ LiveNames' \in SUBSET (LiveNames \ {Name[p]})
<1>1. peer[p] = "connected" /\ peer' = [peer EXCEPT ![p] = "lost"]
  BY DEF LostConnection
<1>2. Name[p] \in Names /\ Name[p][1] \in NSpaces
  BY ConstantsAssumption DEF Names
<1>3. \A q \in Peers : peer'[q] = IF q = p THEN "lost" ELSE peer[q]
  BY <1>1 DEF IInv, TypeOK
<1>4. \A ns \in NSpaces : nspace'[ns].departed = nspace[ns].departed
  <2>1. nspace \in [NSpaces -> NSpaceType]
    BY DEF IInv, TypeOK
  <2> QED
    BY <2>1, <1>2 DEF LostConnection, NSpaceType
<1>5. Name[p] \in LiveNames
  <2>1. Name[p][2] \in Local[Name[p][1]] \ nspace[Name[p][1]].departed
    BY <1>1, <1>2 DEF IInv, Current, Ready
  <2> QED
    BY <1>1, <1>2, <2>1 DEF LiveNames, Live
<1>6. ASSUME NEW n \in Names, Live(n)'
      PROVE  Live(n) /\ n # Name[p]
  <2>1. PICK q \in Peers : Name[q] = n /\ peer'[q] \notin {"lost", "removed"}
    BY <1>6 DEF Live
  <2>2. q # p /\ peer[q] \notin {"lost", "removed"}
    BY <1>3, <2>1
  <2>3. n # Name[p]
    BY <2>1, <2>2 DEF NoClones
  <2>4. n[1] \in NSpaces
    BY DEF Names
  <2>5. n[2] \in Local[n[1]] \ nspace[n[1]].departed
    BY <1>4, <1>6, <2>4 DEF Live
  <2> QED
    BY <2>1, <2>2, <2>3, <2>5 DEF Live
<1> QED
  BY <1>5, <1>6 DEF LiveNames

\* A lost client is no longer live, and every tracker it was awaited on knows.
LEMMA LostConnectionStep ==
  ASSUME IInv, TypeOK', NoClones, NEW p \in Peers, LostConnection(p)
  PROVE  IInv'
<1> DEFINE L == LiveNames
           n == Name[p]
           K == L \ {n}
<1>1. n \in L /\ L \in SUBSET Names /\ K \in SUBSET Names /\ LiveNames' \in SUBSET K
  BY LostIsNotLive DEF LiveNames
<1>2. n \in Names /\ n[1] \in NSpaces /\ n[2] \in Ranks /\ n = <<n[1], n[2]>>
  BY ConstantsAssumption DEF Names
<1>3. \A t \in Trk : Sound(LiveNames', trk'[t])
  <2> TAKE t \in Trk
  <2>1. PICK rc : trk' = [u \in Trk |-> IF u \in Collectives THEN LoseIn(trk[u], n, rc[u])
                                       ELSE trk[u]]
    BY DEF LostConnection
  <2>2. trk[t] \in TrackerType /\ trk'[t] \in TrackerType /\ Sound(L, trk[t])
    BY DEF IInv, TypeOK
  <2>3. CASE t \in Collectives
    <3>1. Sound(K, LoseIn(trk[t], n, rc[t]))
      BY <1>1, <2>2, <2>3, LoseSound DEF Collectives
    <3> QED
      BY <1>1, <2>1, <2>2, <2>3, <3>1, SoundShrinks
  <2>4. CASE t \notin Collectives
    BY <1>1, <2>1, <2>2, <2>4, SoundShrinks
  <2> QED
    BY <2>3, <2>4
<1>4. \A ns \in NSpaces : Ready(LiveNames, ns)'
  <2> TAKE ns \in NSpaces
  <2> DEFINE k == nspace[ns].nlocalprocs
  <2>1. nspace \in [NSpaces -> NSpaceType] /\ k \in Nat /\ SIZE_MAX \in Nat
    BY ConstantsAssumption DEF IInv, TypeOK, NSpaceType
  <2>2. /\ nspace'[ns].known = nspace[ns].known
        /\ nspace'[ns].job_info_recvd = nspace[ns].job_info_recvd
        /\ nspace'[ns].all_registered = nspace[ns].all_registered
        /\ nspace'[ns].ranks = nspace[ns].ranks
        /\ nspace'[ns].departed = nspace[ns].departed
        /\ nspace'[ns].nlocalprocs = IF ns = n[1] THEN (IF k > 0 THEN k - 1 ELSE 0) ELSE k
    BY <1>2, <2>1 DEF LostConnection, NSpaceType
  <2>3. Ready(L, ns)
    BY DEF IInv
  <2>4. /\ Cardinality(RanksIn(LiveNames', ns)) \in Nat /\ Cardinality(RanksIn(L, ns)) \in Nat
        /\ Cardinality(RanksIn(K, ns)) \in Nat /\ IsFiniteSet(RanksIn(L, ns))
        /\ Cardinality(RanksIn(LiveNames', ns)) <= Cardinality(RanksIn(K, ns))
        /\ Cardinality(RanksIn(K, ns)) <= Cardinality(RanksIn(L, ns))
    <3>1. K \in SUBSET L
      OBVIOUS
    <3> HIDE DEF K, L
    <3> QED
      BY <1>1, <3>1, RanksShrink
  <2>5. ns = n[1] => Cardinality(RanksIn(K, ns)) = Cardinality(RanksIn(L, ns)) - 1
    <3> SUFFICES ASSUME ns = n[1]
                 PROVE  Cardinality(RanksIn(K, ns)) = Cardinality(RanksIn(L, ns)) - 1
      OBVIOUS
    <3>1. RanksIn(K, ns) = RanksIn(L, ns) \ {n[2]} /\ n[2] \in RanksIn(L, ns)
      BY <1>1, <1>2 DEF RanksIn
    <3>2. ASSUME NEW S, IsFiniteSet(S), NEW x \in S
          PROVE  Cardinality(S \ {x}) = Cardinality(S) - 1
      BY <3>2, FS_RemoveElement, Zenon
    <3>3. Cardinality(RanksIn(L, ns) \ {n[2]}) = Cardinality(RanksIn(L, ns)) - 1
      <4> HIDE DEF K, L
      <4> QED
        BY <2>4, <3>1, <3>2
    <3> HIDE DEF K, L
    <3> QED
      BY <3>1, <3>3
  <2>6. Cardinality(RanksIn(LiveNames', ns)) <= nspace'[ns].nlocalprocs
    <3>1. Cardinality(RanksIn(L, ns)) <= k
      BY <2>3 DEF Ready
    <3> HIDE DEF K, L, k
    <3> QED
      BY <2>1, <2>2, <2>4, <2>5, <3>1
  <2>7. nspace'[ns].nlocalprocs < SIZE_MAX
    <3>1. k < SIZE_MAX
      BY <2>3 DEF Ready
    <3>2. k \in Nat /\ SIZE_MAX \in Nat
      BY <2>1
    <3>3. nspace'[ns].nlocalprocs \in {k, k - 1, 0} /\ (nspace'[ns].nlocalprocs = 0 \/ k >= 0)
      <4> HIDE DEF k
      <4> QED
        BY <2>2, <3>2
    <3> HIDE DEF k
    <3> QED
      BY <3>1, <3>2, <3>3
  <2> QED
    BY <2>2, <2>3, <2>6, <2>7 DEF Ready
<1>5. \A q \in Peers : Current(q)'
  <2> TAKE q \in Peers
  <2>1. \A ns \in NSpaces : nspace'[ns].ranks = nspace[ns].ranks
    <3>1. nspace \in [NSpaces -> NSpaceType]
      BY DEF IInv, TypeOK
    <3> QED
      BY <1>2, <3>1 DEF LostConnection, NSpaceType
  <2>2. Name[q][1] \in NSpaces
    BY ConstantsAssumption DEF Names
  <2>3. peer'[q] = "connected" => peer[q] = "connected"
    BY DEF LostConnection, IInv, TypeOK
  <2>4. UNCHANGED peerid
    BY DEF LostConnection
  <2> QED
    BY <2>1, <2>2, <2>3, <2>4 DEF Current, IInv
<1> QED
  BY <1>3, <1>4, <1>5 DEF IInv

-----------------------------------------------------------------------------
(* Clients connect and leave in order.                                     *)

\* A step that leaves the trackers alone and makes nobody live.
LEMMA PeersStep ==
  ASSUME IInv, TypeOK', UNCHANGED trk, LiveNames' \in SUBSET LiveNames,
         \A ns \in NSpaces :
            /\ nspace'[ns].known = nspace[ns].known
            /\ nspace'[ns].job_info_recvd = nspace[ns].job_info_recvd
            /\ nspace'[ns].all_registered = nspace[ns].all_registered
            /\ nspace'[ns].nlocalprocs = nspace[ns].nlocalprocs
            /\ nspace'[ns].ranks = Local[ns] \ nspace'[ns].departed,
         \A p \in Peers : Current(p)'
  PROVE  IInv'
<1>1. \A t \in Trk : Sound(LiveNames', trk'[t])
  BY SoundShrinks, Zenon DEF IInv, TypeOK, LiveNames
<1>2. ASSUME NEW ns \in NSpaces
      PROVE  Ready(LiveNames, ns)'
  <2>1. Ready(LiveNames, ns) /\ nspace[ns].nlocalprocs \in Nat
    <3>1. nspace \in [NSpaces -> NSpaceType] /\ SIZE_MAX \in Nat
      BY ConstantsAssumption DEF IInv, TypeOK
    <3>2. nspace[ns].nlocalprocs \in 0..SIZE_MAX
      BY <3>1 DEF NSpaceType
    <3>3. Ready(LiveNames, ns)
      BY DEF IInv
    <3> QED
      BY <3>1, <3>2, <3>3
  <2>2. /\ Cardinality(RanksIn(LiveNames', ns)) <= Cardinality(RanksIn(LiveNames, ns))
        /\ Cardinality(RanksIn(LiveNames', ns)) \in Nat
        /\ Cardinality(RanksIn(LiveNames, ns)) \in Nat
    BY RanksShrink
  <2>3. Cardinality(RanksIn(LiveNames', ns)) <= nspace'[ns].nlocalprocs
    <3>1. Cardinality(RanksIn(LiveNames, ns)) <= nspace[ns].nlocalprocs
      BY <2>1 DEF Ready
    <3>2. nspace'[ns].nlocalprocs = nspace[ns].nlocalprocs
      OBVIOUS
    <3> QED
      BY <2>1, <2>2, <3>1, <3>2
  <2> QED
    BY <2>1, <2>3 DEF Ready
<1> QED
  BY <1>1, <1>2 DEF IInv

\* A client that connects or finalizes stays awaited.
LEMMA ConnectStep ==
  ASSUME IInv, TypeOK', NoClones, NEW p \in Peers, Connect(p) \/ Finalize(p)
  PROVE  IInv'
<1>1. UNCHANGED <<nspace, trk>> /\ peer[p] \in {"absent", "connected", "finalized"}
  BY DEF Connect, Finalize
<1>2. \A q \in Peers : q # p => peer'[q] = peer[q]
  BY DEF Connect, Finalize, IInv, TypeOK
<1>3. LiveNames' \in SUBSET LiveNames
  BY <1>1, <1>2 DEF LiveNames, Live
<1>4. \A ns \in NSpaces : nspace[ns].ranks = Local[ns] \ nspace[ns].departed
  BY DEF IInv, Ready
<1>5. \A q \in Peers : Name[q] \in Names
  BY ConstantsAssumption
<1>6. CASE Connect(p)
  <2>1. peerid' = [peerid EXCEPT ![Name[p]] = p] /\ Name[p][2] \in nspace[Name[p][1]].ranks
    BY <1>6 DEF Connect
  <2>2. \A q \in Peers : q # p => peerid'[Name[q]] = peerid[Name[q]]
    BY <1>5, <2>1 DEF NoClones, IInv, TypeOK
  <2>3. peerid'[Name[p]] = p
    BY <1>5, <2>1 DEF IInv, TypeOK
  <2>4. \A q \in Peers : Current(q)'
    BY <1>1, <1>2, <2>1, <2>2, <2>3 DEF Current, IInv
  <2> QED
    BY <1>1, <1>3, <1>4, <2>4, PeersStep
<1>7. CASE Finalize(p)
  <2>1. peer'[p] = "finalized" /\ UNCHANGED peerid
    BY <1>7 DEF Finalize, IInv, TypeOK
  <2>2. \A q \in Peers : Current(q)'
    BY <1>1, <1>2, <2>1 DEF Current, IInv
  <2> QED
    BY <1>1, <1>3, <1>4, <2>2, PeersStep
<1> QED
  BY <1>6, <1>7

\* A client that the host deregistered is no longer awaited.
LEMMA DeregisterClientStep ==
  ASSUME IInv, TypeOK', NEW n \in Names, DeregisterClient(n)
  PROVE  IInv'
<1> DEFINE nptr == [nspace[n[1]] EXCEPT !.ranks = @ \ {n[2]}, !.departed = @ \cup {n[2]}]
<1>1. /\ nspace' = [nspace EXCEPT ![n[1]] = nptr]
      /\ peer' = [q \in Peers |-> IF q = peerid[n] THEN "removed" ELSE peer[q]]
      /\ peerid' = [peerid EXCEPT ![n] = NOBODY]
      /\ UNCHANGED trk
  BY DEF DeregisterClient
<1>2. n[1] \in NSpaces /\ n[2] \in Ranks /\ n = <<n[1], n[2]>>
  BY DEF Names
<1>3. nspace \in [NSpaces -> NSpaceType]
  BY DEF IInv, TypeOK
<1>4. /\ nptr.known = nspace[n[1]].known
      /\ nptr.job_info_recvd = nspace[n[1]].job_info_recvd
      /\ nptr.all_registered = nspace[n[1]].all_registered
      /\ nptr.nlocalprocs = nspace[n[1]].nlocalprocs
      /\ nptr.ranks = nspace[n[1]].ranks \ {n[2]}
      /\ nptr.departed = nspace[n[1]].departed \cup {n[2]}
  BY <1>2, <1>3 DEF NSpaceType
<1> HIDE DEF nptr
<1>5. \A ns \in NSpaces :
         /\ nspace'[ns].known = nspace[ns].known
         /\ nspace'[ns].job_info_recvd = nspace[ns].job_info_recvd
         /\ nspace'[ns].all_registered = nspace[ns].all_registered
         /\ nspace'[ns].nlocalprocs = nspace[ns].nlocalprocs
         /\ nspace'[ns].ranks = IF ns = n[1] THEN nspace[ns].ranks \ {n[2]} ELSE nspace[ns].ranks
         /\ nspace'[ns].departed = IF ns = n[1] THEN nspace[ns].departed \cup {n[2]}
                                   ELSE nspace[ns].departed
  BY <1>1, <1>2, <1>3, <1>4, Zenon
<1>6. \A ns \in NSpaces : nspace'[ns].ranks = Local[ns] \ nspace'[ns].departed
  <2>1. \A ns \in NSpaces : nspace[ns].ranks = Local[ns] \ nspace[ns].departed
    BY DEF IInv, Ready
  <2> QED
    BY <1>5, <2>1, Zenon
<1>7. LiveNames' \in SUBSET LiveNames
  <2>1. ASSUME NEW m \in Names, Live(m)'
        PROVE  Live(m)
    <3>1. m[1] \in NSpaces
      BY DEF Names
    <3>2. m[2] \in Local[m[1]] \ nspace[m[1]].departed
      BY <1>5, <2>1, <3>1, Zenon DEF Live
    <3>3. \E q \in Peers : Name[q] = m /\ peer[q] \notin {"lost", "removed"}
      BY <1>1, <2>1 DEF Live
    <3> QED
      BY <3>2, <3>3 DEF Live
  <2> QED
    BY <2>1 DEF LiveNames
<1>8. ASSUME NEW q \in Peers
      PROVE  Current(q)'
  <2> SUFFICES ASSUME peer'[q] = "connected"
               PROVE  peerid'[Name[q]] = q /\ Name[q][2] \in nspace'[Name[q][1]].ranks
    BY DEF Current
  <2>1. q # peerid[n] /\ peer[q] = "connected"
    BY <1>1
  <2>2. peerid[Name[q]] = q /\ Name[q][2] \in nspace[Name[q][1]].ranks
    BY <2>1 DEF IInv, Current
  <2>3. Name[q] # n /\ Name[q] \in Names
    BY <2>1, <2>2, ConstantsAssumption
  <2>4. peerid'[Name[q]] = q
    BY <1>1, <2>2, <2>3 DEF IInv, TypeOK
  <2>5. Name[q][1] \in NSpaces /\ Name[q] = <<Name[q][1], Name[q][2]>>
    BY <2>3 DEF Names
  <2>6. Name[q][1] = n[1] => Name[q][2] # n[2]
    BY <1>2, <2>3, <2>5
  <2> QED
    BY <1>5, <2>2, <2>4, <2>5, <2>6, Zenon
<1> QED
  BY <1>1, <1>5, <1>6, <1>7, <1>8, PeersStep, Zenon

-----------------------------------------------------------------------------
\* The invariant holds initially.
LEMMA IInvInit == Preregistered /\ Init => IInv
<1> SUFFICES ASSUME Preregistered, Init PROVE IInv
  OBVIOUS
<1>1. TypeOK
  BY TypeInit
<1>2. ASSUME NEW ns \in NSpaces
      PROVE  Ready(LiveNames, ns)
  <2>1. nspace[ns] = [known |-> TRUE, job_info_recvd |-> TRUE,
                      nlocalprocs |-> Cardinality(Local[ns]), nprocs |-> NProcs[ns],
                      ranks |-> Local[ns], all_registered |-> TRUE, departed |-> {}]
    BY DEF Init
  <2>2. RanksIn(LiveNames, ns) \in SUBSET Local[ns]
    BY DEF RanksIn, LiveNames, Live
  <2>3. IsFiniteSet(Local[ns])
    BY ConstantsAssumption, FS_Subset
  <2>4. Cardinality(RanksIn(LiveNames, ns)) <= Cardinality(Local[ns])
    BY <2>2, <2>3, FS_Subset
  <2>5. Cardinality(Local[ns]) < SIZE_MAX
    BY ConstantsAssumption
  <2>6. /\ nspace[ns].known /\ nspace[ns].job_info_recvd /\ nspace[ns].all_registered
        /\ nspace[ns].nlocalprocs = Cardinality(Local[ns])
        /\ nspace[ns].ranks = Local[ns] /\ nspace[ns].departed = {}
    BY <2>1
  <2> QED
    BY <2>4, <2>5, <2>6 DEF Ready
<1>3. \A p \in Peers : Current(p)
  BY DEF Init, Current
<1>4. \A t \in Trk : Sound(LiveNames, trk[t])
  <2>1. \A t \in Trk : /\ trk[t].linked = FALSE /\ trk[t].departed = {}
                       /\ trk[t].queue = <<>>
    BY InitUnused
  <2> QED
    BY <2>1 DEF Sound, OnlyCompletions
<1> QED
  BY <1>1, <1>2, <1>3, <1>4 DEF IInv

\* Every step preserves the invariant.
LEMMA IInvStep ==
  ASSUME NoClones, ~Duplicates
  PROVE  IInv /\ [Next]_vars => IInv'
<1> SUFFICES ASSUME IInv, [Next]_vars PROVE IInv'
  OBVIOUS
<1>1. TypeOK'
  BY TypeStep DEF IInv
<1>2. CASE UNCHANGED vars
  <2>1. \A t \in Trk : Sound(LiveNames, trk'[t])
    BY <1>2 DEF vars, IInv
  <2> QED
    BY <1>1, <1>2, <2>1, TrackersStep DEF vars
<1>3. CASE Next
  BY <1>1, <1>3, ContributeStep, TimeoutStep, HostCallbackStep, CompletionHandlerStep,
     NothingToExecute, NothingToRegister, ConnectStep, LostConnectionStep,
     DeregisterClientStep DEF Next
<1> QED
  BY <1>2, <1>3

\* The invariant implies the property.
LEMMA IInvImplies == IInv => NoEarlyCompletion
<1> SUFFICES ASSUME IInv, NEW t \in Collectives, LocallyDone(trk[t])
             PROVE  Awaited(trk[t]) = {}
  BY DEF NoEarlyCompletion
<1>1. Sound(LiveNames, trk[t]) /\ trk[t].linked
  BY DEF IInv, Collectives
<1>2. AwaitedIn(LiveNames, trk[t]) = {}
  BY <1>1 DEF Sound
<1> QED
  BY <1>2 DEF Awaited, AwaitedIn, LiveNames

\* No collective leaves its local phase while a live member has still to contribute,
\* however contributions, timeouts, host callbacks, lost connections, finalizations and
\* deregistrations interleave, for jobs of any size registered before their launch.
THEOREM NeverEarly ==
  ASSUME Preregistered, NoClones, ~Duplicates
  PROVE  Spec => []NoEarlyCompletion
<1>1. Init => IInv
  BY IInvInit
<1>2. IInv /\ [Next]_vars => IInv'
  BY IInvStep
<1>3. IInv => NoEarlyCompletion
  BY IInvImplies
<1> QED
  BY <1>1, <1>2, <1>3, PTL DEF Spec

-----------------------------------------------------------------------------
(* One party completes a tracker.                                          *)

\* Who is on the way to completing tracker r: nobody once it was released; the shifted
\* handler once the completion was driven; the host once it was asked; else the timer.
Claim(r) ==
  /\ ~r.linked => r.owed = 0 /\ r.queue = <<>> /\ r.armed = FALSE
  /\ r.linked /\ r.completion_fired => r.owed = 0 /\ Len(r.queue) = 1 /\ r.armed = FALSE
  /\ r.linked /\ ~r.completion_fired =>
       /\ r.queue = <<>>
       /\ r.host_called => r.owed = 1 /\ r.armed = FALSE
       /\ ~r.host_called => r.owed = 0

\* The losses of a collective show in its status, also in the one that the server drove
\* the completion of a fence with.
Health(r) ==
  /\ r.departed # {} => r.status # "SUCCESS"
  /\ /\ r.linked /\ r.completion_fired /\ ~r.host_called /\ r.type = FENCE
     /\ r.queue[1].status = "SUCCESS"
     => r.departed = {}

Fit(r) == Claim(r) /\ Health(r)

\* A tracker that nothing has completed: the one a call joined, or a loss completes.
Idle(r) ==
  /\ r \in TrackerType
  /\ r.linked /\ r.completion_fired = FALSE /\ r.host_called = FALSE /\ r.owed = 0
  /\ r.queue = <<>>
  /\ r.departed # {} => r.status # "SUCCESS"

\* An idle tracker that the completion of can be driven, whoever was called for it.
Free(r) ==
  /\ r \in TrackerType
  /\ r.linked /\ r.owed = 0 /\ r.queue = <<>> /\ r.armed = FALSE
  /\ r.departed # {} => r.status # "SUCCESS"

\* A tracker that nobody completes yet is fit,
LEMMA IdleIsFit ==
  ASSUME NEW r, Idle(r)
  PROVE  Fit(r)
BY DEF Idle, Fit, Claim, Health

\* and a fit one that is open is such a tracker.
LEMMA FitIsIdle ==
  ASSUME NEW r \in TrackerType, Fit(r), r.linked, ~r.completion_fired, ~r.host_called
  PROVE  Idle(r)
<1>1. r.completion_fired \in BOOLEAN /\ r.host_called \in BOOLEAN
  BY DEF TrackerType
<1> QED
  BY <1>1 DEF Idle, Fit, Claim, Health

\* Driving the completion of a free tracker claims it, and tells of its losses.
LEMMA DriveFit ==
  ASSUME NEW r, Free(r), NEW s \in Status,
         ~r.host_called /\ r.type = FENCE /\ s = "SUCCESS" => r.departed = {}
  PROVE  Fit(Drive(r, s))
<1> DEFINE e == [ev |-> "complete", status |-> s]
           q == Drive(r, s)
<1>1. r \in TrackerType
  BY DEF Free
<1>2. /\ q.linked = r.linked /\ q.owed = r.owed /\ q.armed = r.armed
      /\ q.departed = r.departed /\ q.status = r.status /\ q.type = r.type
      /\ q.host_called = r.host_called /\ q.completion_fired = TRUE
      /\ q.queue = Append(r.queue, e)
  BY <1>1 DEF Drive, TrackerType
<1>3. e.status = s
  OBVIOUS
<1> HIDE DEF e, q
<1>4. Append(<<>>, e) = <<e>> /\ Len(<<e>>) = 1 /\ <<e>>[1] = e
  OBVIOUS
<1>5. Len(q.queue) = 1 /\ q.queue[1].status = s
  BY <1>2, <1>3, <1>4 DEF Free
<1> QED
  BY <1>2, <1>5 DEF Free, Fit, Claim, Health, q

\* Stopping the timer leaves nobody on the way to completing it.
LEMMA CancelTimerFree ==
  ASSUME NEW r, Idle(r)
  PROVE  /\ Free(CancelTimer(r)) /\ CancelTimer(r).departed = r.departed
         /\ CancelTimer(r).type = r.type /\ CancelTimer(r).host_called = FALSE
<1>1. r \in TrackerType /\ CancelTimer(r) \in TrackerType
  BY CancelTimerType DEF Idle
<1>2. /\ CancelTimer(r).linked = r.linked /\ CancelTimer(r).owed = r.owed
      /\ CancelTimer(r).queue = r.queue /\ CancelTimer(r).armed = FALSE
      /\ CancelTimer(r).departed = r.departed /\ CancelTimer(r).status = r.status
      /\ CancelTimer(r).type = r.type /\ CancelTimer(r).host_called = r.host_called
      /\ CancelTimer(r).completion_fired = r.completion_fired
  BY <1>1 DEF CancelTimer, TrackerType
<1> QED
  BY <1>1, <1>2 DEF Idle, Free

\* Taking it back from the host does not change that.
LEMMA UnhostedFree ==
  ASSUME NEW r, Free(r)
  PROVE  /\ Free(Unhosted(r)) /\ Unhosted(r).departed = r.departed
         /\ Unhosted(r).type = r.type /\ Unhosted(r).host_called = FALSE
<1>1. r \in TrackerType /\ Unhosted(r) \in TrackerType
  BY UnhostedType DEF Free
<1>2. /\ Unhosted(r).linked = r.linked /\ Unhosted(r).owed = r.owed
      /\ Unhosted(r).queue = r.queue /\ Unhosted(r).armed = r.armed
      /\ Unhosted(r).departed = r.departed /\ Unhosted(r).status = r.status
      /\ Unhosted(r).type = r.type /\ Unhosted(r).host_called = FALSE
  BY <1>1 DEF Unhosted, TrackerType
<1> QED
  BY <1>1, <1>2 DEF Free

\* The host was called for an idle tracker: the timer is off, and the tracker is free
\* until the host accepts it.
LEMMA UpCallFree ==
  ASSUME NEW r, Idle(r), NEW data \in SUBSET Names
  PROVE  /\ Free(UpCall(r, data)) /\ UpCall(r, data).departed = r.departed
         /\ UpCall(r, data).type = r.type /\ UpCall(r, data).host_called = TRUE
         /\ UpCall(r, data).completion_fired = FALSE
<1> DEFINE q == CancelTimer(r)
           u == [q EXCEPT !.host_called = TRUE, !.upcalls = @ + 1, !.bucket = data]
<1>1. /\ Free(q) /\ q.departed = r.departed /\ q.type = r.type
      /\ q.completion_fired = FALSE
  BY CancelTimerFree, CancelTimerFields, Zenon DEF Idle
<1>2. UpCall(r, data) = u /\ u \in TrackerType
  BY UpCallType, Zenon DEF UpCall, Idle
<1> HIDE DEF q
<1>3. /\ u.linked = q.linked /\ u.owed = q.owed /\ u.queue = q.queue /\ u.armed = q.armed
      /\ u.departed = q.departed /\ u.status = q.status /\ u.type = q.type
      /\ u.host_called = TRUE /\ u.completion_fired = q.completion_fired
  BY <1>1, Zenon DEF TrackerType, Free
<1> HIDE DEF u
<1> QED
  BY <1>1, <1>2, <1>3 DEF Free

\* The host accepted the operation: its callback is the only releaser.
LEMMA AcceptedFit ==
  ASSUME NEW r, Free(r), r.host_called, r.completion_fired = FALSE
  PROVE  Fit([r EXCEPT !.owed = @ + 1])
<1> DEFINE q == [r EXCEPT !.owed = @ + 1]
<1>1. /\ q.linked = r.linked /\ q.owed = r.owed + 1 /\ q.queue = r.queue /\ q.armed = r.armed
      /\ q.departed = r.departed /\ q.status = r.status
      /\ q.host_called = r.host_called /\ q.completion_fired = r.completion_fired
  BY Zenon DEF TrackerType, Free
<1> HIDE DEF q
<1>2. q.owed = 1
  BY <1>1 DEF Free
<1>3. Fit(q)
  BY <1>1, <1>2 DEF Free, Fit, Claim, Health
<1> QED
  BY <1>3 DEF q

\* A tracker that was released from a free one has no releaser left.
LEMMA ReleasedFit ==
  ASSUME NEW r, Free(r)
  PROVE  Fit(Released(r))
<1>1. /\ Released(r).linked = FALSE /\ Released(r).owed = r.owed
      /\ Released(r).queue = r.queue /\ Released(r).armed = r.armed
      /\ Released(r).departed = r.departed /\ Released(r).status = r.status
  BY DEF Released, Free, TrackerType
<1> QED
  BY <1>1 DEF Free, Fit, Claim, Health

-----------------------------------------------------------------------------
(* Every step keeps every tracker fit.                                     *)

FitInv == \A t \in Trk : Fit(trk[t])

\* A step on one tracker.
LEMMA OneTrackerFit ==
  ASSUME TypeOK, FitInv, NEW t \in Trk, NEW r, trk' = [trk EXCEPT ![t] = r], Fit(r)
  PROVE  FitInv'
<1>1. \A u \in Trk : trk'[u] = IF u = t THEN r ELSE trk[u]
  BY DEF TypeOK
<1> QED
  BY <1>1 DEF FitInv

\* A call joins a tracker that nothing has completed.
LEMMA JoinedIdle ==
  ASSUME IInv, FitInv, NoClones, ~Duplicates, NEW t \in Trk, NEW c \in Calls, NEW op \in Ops,
         NEW sig \in Sigs, NEW tmo \in BOOLEAN, NEW collect \in BOOLEAN,
         LandsOn(t, op, sig), MayCall(c, t, sig)
  PROVE  Idle(Joined(t, c, op, sig, tmo, collect))
<1> DEFINE r == IF t = ntrk + 1 THEN NewTracker(op, sig) ELSE trk[t]
           q == Joined(t, c, op, sig, tmo, collect)
<1>1. q \in TrackerType /\ Joining(LiveNames, q)
  BY JoinedIsJoining
<1>2. r \in TrackerType
  BY NewTrackerType DEF IInv, TypeOK
<1>3. q.departed = r.departed /\ q.status = r.status /\ q.queue = r.queue
  <2> DEFINE a == IF op = FENCE THEN MergeCollect(r.collect_type, t = ntrk + 1, collect)
                  ELSE r.collect_type
             b == r.event_active \/ tmo
             e == r.armed \/ (tmo /\ ~r.event_active)
             u == [r EXCEPT !.local_cbs = @ \cup {c}, !.collect_type = a,
                            !.event_active = b, !.armed = e]
  <2>1. q = u
    BY DEF Joined
  <2> HIDE DEF r, q, a, b, e
  <2>2. u.departed = r.departed /\ u.status = r.status /\ u.queue = r.queue
    BY <1>2 DEF TrackerType
  <2> HIDE DEF u
  <2> QED
    BY <2>1, <2>2
<1>4. r.queue = <<>> /\ (r.departed # {} => r.status # "SUCCESS")
  <2>1. CASE t = ntrk + 1
    BY <2>1 DEF NewTracker, Unused
  <2>2. CASE t # ntrk + 1
    <3>1. r = trk[t] /\ Matches(t, op, sig)
      BY <2>2 DEF LandsOn, GetTracker
    <3> HIDE DEF r
    <3> QED
      BY <3>1 DEF Matches, FitInv, Fit, Claim, Health
  <2> QED
    BY <2>1, <2>2
<1> HIDE DEF r, q
<1>5. q.completion_fired \in BOOLEAN /\ q.host_called \in BOOLEAN
  BY <1>1 DEF TrackerType
<1>6. Idle(q)
  BY <1>1, <1>3, <1>4, <1>5 DEF Idle, Joining
<1> QED
  BY <1>6 DEF q

\* The status of a fence that the server completes by itself tells of its losses.
LEMMA OwnStatusHonest ==
  ASSUME NEW r, Idle(r)
  PROVE  OwnStatus(r) \in Status /\ (r.type = FENCE /\ OwnStatus(r) = "SUCCESS" => r.departed = {})
BY OwnStatusType DEF Idle, OwnStatus

\* A refused caller leaves a tracker whose completion was driven once.
LEMMA RejectedFit ==
  ASSUME TypeOK, FitInv, NEW c \in Calls, NEW t \in Trk, NEW r, Free(r),
         NEW err \in Status \ {"SUCCESS"}, Rejected(c, t, r, err)
  PROVE  FitInv'
<1> DEFINE others == [r EXCEPT !.local_cbs = @ \ {c}]
<1>1. trk' = [trk EXCEPT ![t] = Drive(others, err)]
  BY DEF Rejected
<1>2. /\ others \in TrackerType /\ others.departed = r.departed /\ others.queue = r.queue
      /\ others.owed = r.owed /\ others.linked = r.linked /\ others.armed = r.armed
      /\ others.status = r.status
  BY Zenon DEF Free, TrackerType
<1> HIDE DEF others
<1>3. Free(others)
  BY <1>2 DEF Free
<1>4. Fit(Drive(others, err))
  BY <1>3, DriveFit
<1> QED
  BY <1>1, <1>4, OneTrackerFit, Zenon

\* A contribution keeps every tracker fit.
LEMMA ContributeFit ==
  ASSUME IInv, FitInv, NoClones, ~Duplicates, NEW c \in Calls, Contribute(c)
  PROVE  FitInv'
<1>1. PICK op \in Ops, sig \in Sigs, t \in Trk, tmo \in TimeoutGiven, collect \in CollectGiven :
        /\ LandsOn(t, op, sig)
        /\ MayCall(c, t, sig)
        /\ LET r == Joined(t, c, op, sig, tmo, collect) IN
             \/ ContributeWait(c, t, r)
             \/ ContributeLocal(c, t, r)
             \/ ContributeUnsupported(c, t, r)
             \/ ContributeNoBucket(c, t, r)
             \/ ContributeUp(c, t, r)
  BY DEF Contribute
<1> DEFINE r == Joined(t, c, op, sig, tmo, collect)
           q == CancelTimer(r)
<1>2. Idle(r) /\ TypeOK
  BY <1>1, JoinedIdle, ConstantsAssumption DEF IInv
<1>3. \/ ContributeWait(c, t, r)
      \/ ContributeLocal(c, t, r)
      \/ ContributeUnsupported(c, t, r)
      \/ ContributeNoBucket(c, t, r)
      \/ ContributeUp(c, t, r)
  BY <1>1
<1> HIDE DEF r
<1>4. ASSUME NEW x, Parked(c, t, x), Fit(x)
      PROVE  FitInv'
  BY <1>2, <1>4, OneTrackerFit, Zenon DEF Parked
<1>5. "NOT_SUPPORTED" \in Status \ {"SUCCESS"} /\ "ERROR" \in Status \ {"SUCCESS"}
  BY DEF Status
<1>6. /\ OwnStatus(r) \in Status
      /\ r.type = FENCE /\ OwnStatus(r) = "SUCCESS" => r.departed = {}
  BY <1>2, OwnStatusHonest
<1>7. /\ Free(q) /\ q.departed = r.departed /\ q.type = r.type
  BY <1>2, CancelTimerFree, Zenon
<1> HIDE DEF q
<1>8. /\ Free(Unhosted(q)) /\ Unhosted(q).departed = r.departed /\ Unhosted(q).type = r.type
  BY <1>7, UnhostedFree, Zenon
<1>9. CASE ContributeWait(c, t, r)
  BY <1>2, <1>4, <1>9, IdleIsFit DEF ContributeWait
<1>10. CASE ContributeLocal(c, t, r)
  <2>1. Fit(Drive(q, OwnStatus(r))) /\ Fit(Drive(Unhosted(q), OwnStatus(r)))
    BY <1>6, <1>7, <1>8, DriveFit
  <2> QED
    BY <1>4, <1>10, <2>1 DEF ContributeLocal, q
<1>11. CASE ContributeUnsupported(c, t, r)
  BY <1>2, <1>5, <1>8, <1>11, RejectedFit DEF ContributeUnsupported, q
<1>12. CASE ContributeNoBucket(c, t, r)
  BY <1>2, <1>5, <1>7, <1>12, RejectedFit DEF ContributeNoBucket, q
<1>13. CASE ContributeUp(c, t, r)
  <2> DEFINE u == UpCall(r, CollectData(r))
  <2>1. PICK rc \in HostReturns : IF rc = "ERROR" THEN Rejected(c, t, Unhosted(u), "ERROR")
                                 ELSE Parked(c, t, AfterUpCall(u, rc, OwnStatus(r)))
    BY <1>13 DEF ContributeUp
  <2>2. /\ Free(u) /\ u.departed = r.departed /\ u.type = r.type /\ u.host_called = TRUE
        /\ u.completion_fired = FALSE
    <3>1. CollectData(r) \in SUBSET Names
      BY <1>2, CollectDataType DEF Idle
    <3> QED
      BY <1>2, <3>1, UpCallFree, Zenon
  <2> HIDE DEF u
  <2>3. Free(Unhosted(u)) /\ Unhosted(u).departed = r.departed /\ Unhosted(u).type = r.type
    BY <2>2, UnhostedFree, Zenon
  <2>4. CASE rc = "ERROR"
    BY <1>2, <1>5, <2>1, <2>3, <2>4, RejectedFit
  <2>5. CASE rc = "OPERATION_SUCCEEDED"
    <3>1. Fit(DriveBack(u, OwnStatus(r)))
      BY <1>6, <2>3, DriveFit DEF DriveBack
    <3> QED
      BY <1>4, <2>1, <2>5, <3>1 DEF AfterUpCall
  <2>6. CASE rc = "SUCCESS"
    <3>1. Fit([u EXCEPT !.owed = @ + 1])
      BY <2>2, AcceptedFit, Zenon
    <3> QED
      BY <1>4, <2>1, <2>6, <3>1 DEF AfterUpCall
  <2> QED
    BY <2>4, <2>5, <2>6, ConstantsAssumption
<1> QED
  BY <1>3, <1>9, <1>10, <1>11, <1>12, <1>13

\* A timer completes only a tracker that nobody completes yet.
LEMMA TimeoutFit ==
  ASSUME IInv, FitInv, NEW t \in Trk, Timeout(t)
  PROVE  FitInv'
<1> DEFINE r == trk[t]
           q == [r EXCEPT !.armed = FALSE]
<1>1. r \in TrackerType /\ Fit(r) /\ TypeOK /\ r.armed
  BY DEF IInv, TypeOK, FitInv, Timeout
<1>2. r.linked /\ r.completion_fired = FALSE /\ r.host_called = FALSE
  BY <1>1 DEF Fit, Claim, TrackerType
<1>3. trk' = [trk EXCEPT ![t] = Drive(q, "TIMEOUT")]
  BY <1>2, Zenon DEF Timeout, TrackerStep
<1>4. Idle(r)
  BY <1>1, <1>2, FitIsIdle
<1> HIDE DEF r
<1>5. /\ q \in TrackerType /\ q.linked = r.linked /\ q.owed = r.owed /\ q.queue = r.queue
      /\ q.armed = FALSE /\ q.departed = r.departed /\ q.status = r.status
  BY <1>1, Zenon DEF TrackerType
<1> HIDE DEF q
<1>6. Free(q)
  BY <1>4, <1>5 DEF Idle, Free
<1>7. "TIMEOUT" \in Status /\ "TIMEOUT" # "SUCCESS"
  BY DEF Status
<1>8. Fit(Drive(q, "TIMEOUT"))
  BY <1>6, <1>7, DriveFit
<1> QED
  BY <1>1, <1>3, <1>8, OneTrackerFit, Zenon

\* The callback that the host owes turns into one driven completion.
LEMMA HostCallbackFit ==
  ASSUME IInv, FitInv, NEW t \in Trk, HostCallback(t)
  PROVE  FitInv'
<1> DEFINE r == trk[t]
           q == [r EXCEPT !.owed = @ - 1]
<1>1. r \in TrackerType /\ Fit(r) /\ TypeOK /\ r.owed > 0
  BY DEF IInv, TypeOK, FitInv, HostCallback
<1>2. r.linked /\ ~r.completion_fired /\ r.host_called /\ r.owed = 1 /\ r.queue = <<>>
      /\ r.armed = FALSE
  <2> HIDE DEF r
  <2>1. r.owed # 0
    BY <1>1
  <2> QED
    BY <1>1, <2>1 DEF Fit, Claim
<1>3. PICK s \in {"SUCCESS", "ERROR"} : TrackerStep(t, Drive(q, s))
  BY DEF HostCallback
<1> HIDE DEF r
<1>4. /\ q.linked = r.linked /\ q.owed = r.owed - 1 /\ q.queue = r.queue
      /\ q.armed = r.armed /\ q.departed = r.departed /\ q.status = r.status
      /\ q.host_called = r.host_called
  BY <1>1 DEF TrackerType
<1>5. q \in TrackerType
  BY <1>1, OwedType, Zenon
<1> HIDE DEF q
<1>6. Free(q)
  BY <1>1, <1>2, <1>4, <1>5 DEF Free, Fit, Health
<1>7. s \in Status
  BY DEF Status
<1>8. Fit(Drive(q, s))
  BY <1>2, <1>4, <1>6, <1>7, DriveFit, Zenon
<1> QED
  BY <1>1, <1>3, <1>8, OneTrackerFit, Zenon DEF TrackerStep

\* The handler that runs was the only releaser, and it leaves none.
LEMMA CompletionHandlerFit ==
  ASSUME IInv, FitInv, NEW t \in Trk, CompletionHandler(t)
  PROVE  FitInv'
<1> DEFINE r == trk[t]
           over == [Released(r) EXCEPT !.armed = @ /\ ~r.event_active, !.queue = Tail(@)]
<1>1. r \in TrackerType /\ Fit(r) /\ TypeOK /\ r.queue # <<>>
  BY DEF IInv, TypeOK, FitInv, CompletionHandler, NextEvent
<1>2. r.linked /\ r.owed = 0 /\ Len(r.queue) = 1 /\ r.armed = FALSE
  BY <1>1 DEF Fit, Claim
<1>3. trk' = [trk EXCEPT ![t] = over]
  BY DEF CompletionHandler
<1> HIDE DEF r
<1>4. /\ Released(r) \in TrackerType /\ Released(r).linked = FALSE
      /\ Released(r).departed = r.departed /\ Released(r).queue = r.queue
      /\ Released(r).owed = r.owed /\ Released(r).status = r.status
      /\ Released(r).armed = r.armed
  BY <1>1, ReleasedType, Zenon DEF Released, TrackerType
<1>5. /\ over.linked = FALSE /\ over.departed = r.departed /\ over.queue = Tail(r.queue)
      /\ over.owed = r.owed /\ over.status = r.status /\ over.armed = (r.armed /\ ~r.event_active)
  BY <1>4 DEF TrackerType
<1> HIDE DEF over
<1>6. Tail(r.queue) = <<>>
  <2>1. r.queue \in Seq(Events)
    BY <1>1 DEF TrackerType
  <2>2. Tail(r.queue) \in Seq(Events) /\ Len(Tail(r.queue)) = 0
    BY <1>1, <1>2, <2>1
  <2> QED
    BY <2>2, EmptyQueue
<1>7. Fit(over)
  BY <1>1, <1>2, <1>5, <1>6, Zenon DEF Fit, Claim, Health
<1> QED
  BY <1>1, <1>3, <1>7, OneTrackerFit, Zenon

\* The loss of member n: a completion that the server drove with success had nobody left
\* to lose, and an idle tracker that the loss completes is claimed once.
LEMMA LoseFit ==
  ASSUME NEW L \in SUBSET Names, NEW n \in L, NEW r \in TrackerType, Sound(L, r), Fit(r),
         r.linked, NEW rc
  PROVE  Fit(LoseIn(r, n, rc))
<1> DEFINE d == Departed(r, n)
<1>1. CASE ~LosesMember(r, n)
  BY <1>1 DEF LoseIn
<1>2. CASE LosesMember(r, n)
  <2>1. d \in TrackerType
    BY DepartedType
  <2>2. /\ d.linked = r.linked /\ d.departed = r.departed \cup {n} /\ d.owed = r.owed
        /\ d.host_called = r.host_called /\ d.completion_fired = r.completion_fired
        /\ d.queue = r.queue /\ d.armed = r.armed /\ d.type = r.type
        /\ d.status # "SUCCESS"
    BY Zenon DEF Departed, TrackerType
  <2>3. n \in AwaitedIn(L, r)
    BY <1>2 DEF Sound, AwaitedIn, LosesMember
  <2>4. ~LocallyDone(r)
    BY <2>3 DEF Sound
  <2> HIDE DEF d
  <2>5. Fit(d)
    <3>1. Claim(d)
      BY <2>2 DEF Fit, Claim
    <3>2. ~(r.completion_fired /\ r.queue[1].status = "SUCCESS")
      <4> SUFFICES ASSUME r.completion_fired, r.queue[1].status = "SUCCESS"
                   PROVE  LocallyDone(r)
        BY <2>4
      <4>1. 1 \in 1..Len(r.queue)
        BY DEF Fit, Claim
      <4>2. 1 \in Completions(r)
        BY <4>1 DEF Sound, OnlyCompletions, Completions
      <4> QED
        BY <4>2 DEF LocallyDone
    <3> QED
      BY <2>2, <3>1, <3>2 DEF Fit, Health
  <2>6. CASE ~LossCompletes(r, n)
    BY <1>2, <2>5, <2>6 DEF LoseIn, d
  <2>7. CASE LossCompletes(r, n)
    <3>1. ~r.host_called /\ ~r.completion_fired
      BY <2>7 DEF LossCompletes
    <3>2. Idle(d)
      BY <2>1, <2>2, <2>5, <3>1, FitIsIdle, Zenon
    <3>3. {} \in SUBSET Names
      OBVIOUS
    <3>4. /\ Free(UpCall(d, {})) /\ UpCall(d, {}).host_called = TRUE
          /\ UpCall(d, {}).completion_fired = FALSE
      BY <3>2, <3>3, UpCallFree, Zenon
    <3>5. Fit([UpCall(d, {}) EXCEPT !.owed = @ + 1]) /\ Fit(Released(UpCall(d, {})))
      BY <3>4, AcceptedFit, ReleasedFit, Zenon
    <3>6. Fit(Drive(CancelTimer(d), d.status))
      <4>1. Free(CancelTimer(d))
        BY <3>2, CancelTimerFree, Zenon
      <4>2. d.status \in Status
        BY <2>1 DEF TrackerType
      <4> QED
        BY <2>2, <4>1, <4>2, DriveFit
    <3> QED
      BY <1>2, <2>7, <3>5, <3>6 DEF LoseIn, d
  <2> QED
    BY <2>6, <2>7
<1> QED
  BY <1>1, <1>2

\* A lost client completes only trackers that nobody completes yet.
LEMMA LostConnectionFit ==
  ASSUME IInv, FitInv, NoClones, NEW p \in Peers, LostConnection(p)
  PROVE  FitInv'
<1>1. Name[p] \in LiveNames /\ LiveNames \in SUBSET Names
  BY LostIsNotLive DEF LiveNames
<1>2. PICK rc : trk' = [t \in Trk |-> IF t \in Collectives
                                     THEN LoseIn(trk[t], Name[p], rc[t]) ELSE trk[t]]
  BY DEF LostConnection
<1>3. ASSUME NEW t \in Trk
      PROVE  Fit(trk'[t])
  <2>1. trk[t] \in TrackerType /\ Sound(LiveNames, trk[t]) /\ Fit(trk[t])
    BY DEF IInv, TypeOK, FitInv
  <2>2. CASE t \in Collectives
    <3>1. Fit(LoseIn(trk[t], Name[p], rc[t]))
      BY <1>1, <2>1, <2>2, LoseFit DEF Collectives
    <3> QED
      BY <1>2, <2>2, <3>1
  <2>3. CASE t \notin Collectives
    BY <1>2, <2>1, <2>3
  <2> QED
    BY <2>2, <2>3
<1> QED
  BY <1>3 DEF FitInv

\* Initially there are no trackers to complete.
LEMMA FitInit == Init => FitInv
<1>1. Init => \A t \in Trk : /\ trk[t].linked = FALSE /\ trk[t].departed = {}
                             /\ trk[t].queue = <<>> /\ trk[t].owed = 0 /\ trk[t].armed = FALSE
  BY InitUnused
<1>2. ASSUME NEW t \in Trk, trk[t].linked = FALSE, trk[t].departed = {}, trk[t].queue = <<>>,
             trk[t].owed = 0, trk[t].armed = FALSE
      PROVE  Fit(trk[t])
  BY <1>2 DEF Fit, Claim, Health
<1> QED
  BY <1>1, <1>2, Zenon DEF FitInv

\* Every step keeps every tracker fit.
LEMMA FitStep ==
  ASSUME NoClones, ~Duplicates
  PROVE  IInv /\ FitInv /\ [Next]_vars => FitInv'
<1> SUFFICES ASSUME IInv, FitInv, [Next]_vars PROVE FitInv'
  OBVIOUS
<1>1. CASE UNCHANGED trk
  BY <1>1 DEF FitInv
<1>2. CASE UNCHANGED vars
  BY <1>1, <1>2 DEF vars
<1>3. CASE Next
  <2>1. (\E p \in Peers : Connect(p) \/ Finalize(p)) \/ (\E n \in Names : DeregisterClient(n))
          => UNCHANGED trk
    BY Zenon DEF Connect, Finalize, DeregisterClient
  <2> QED
    BY <1>1, <1>3, <2>1, ContributeFit, TimeoutFit, HostCallbackFit, CompletionHandlerFit,
       LostConnectionFit, NothingToExecute, NothingToRegister DEF Next
<1> QED
  BY <1>2, <1>3

\* The completions that were driven for a fit tracker: the one at the head of the queue.
LEMMA FitCompletions ==
  ASSUME NEW r \in TrackerType, NEW L, Sound(L, r), Fit(r)
  PROVE  /\ r.linked /\ r.completion_fired => Completions(r) = {1}
         /\ ~(r.linked /\ r.completion_fired) => Completions(r) = {}
<1>1. CASE r.linked /\ r.completion_fired
  <2>1. Len(r.queue) = 1
    BY <1>1 DEF Fit, Claim
  <2>2. 1..1 = {1}
    OBVIOUS
  <2> QED
    BY <1>1, <2>1, <2>2 DEF Completions, Sound, OnlyCompletions
<1>2. CASE ~(r.linked /\ r.completion_fired)
  <2>1. r.queue = <<>>
    BY <1>2 DEF Fit, Claim
  <2>2. 1..Len(r.queue) = {}
    BY <2>1
  <2> QED
    BY <1>2, <2>2 DEF Completions
<1> QED
  BY <1>1, <1>2

\* One party at most is on its way to completing a tracker, and none is once it was
\* released, whatever the interleaving of the last contribution, the timer, the loss of a
\* client, the host's callback and the shifted handlers: the completion function of a
\* collective runs once and no event finds the tracker freed.
THEOREM CompletedByOne ==
  ASSUME Preregistered, NoClones, ~Duplicates
  PROVE  Spec => []OneReleaser
<1>1. Init => IInv /\ FitInv
  BY IInvInit, FitInit
<1>2. IInv /\ FitInv /\ [Next]_vars => (IInv /\ FitInv)'
  BY IInvStep, FitStep
<1>3. IInv /\ FitInv => OneReleaser
  <2> SUFFICES ASSUME IInv, FitInv, NEW t \in Trk
               PROVE  Releasers(trk[t]) <= IF trk[t].linked THEN 1 ELSE 0
    BY DEF OneReleaser
  <2> DEFINE r == trk[t]
  <2>1. r \in TrackerType /\ Sound(LiveNames, r) /\ Fit(r)
    BY DEF IInv, TypeOK, FitInv
  <2> HIDE DEF r
  <2>2. Cardinality({1}) = 1 /\ Cardinality({}) = 0
    BY FS_EmptySet, FS_Singleton, Zenon
  <2>3. CASE r.linked /\ r.completion_fired
    <3>1. Cardinality(Completions(r)) = 1 /\ r.owed = 0 /\ ~r.armed
      BY <2>1, <2>2, <2>3, FitCompletions, Zenon DEF Fit, Claim
    <3> QED
      BY <2>3, <3>1 DEF Releasers, r
  <2>4. CASE ~(r.linked /\ r.completion_fired)
    <3>1. Cardinality(Completions(r)) = 0
      BY <2>1, <2>2, <2>4, FitCompletions
    <3>2. /\ ~r.linked => r.owed = 0 /\ ~r.armed
          /\ r.linked => r.owed = 0 \/ (r.owed = 1 /\ ~r.armed)
      BY <2>1, <2>4 DEF Fit, Claim
    <3> QED
      BY <2>4, <3>1, <3>2 DEF Releasers, r
  <2> QED
    BY <2>3, <2>4
<1> QED
  BY <1>1, <1>2, <1>3, PTL DEF Spec

\* The participants of a fence that the server completes by itself are never told of
\* success when a participant was lost before it contributed, whenever it was lost.
THEOREM LossIsReported ==
  ASSUME Preregistered, NoClones, ~Duplicates
  PROVE  Spec => []DegradedFenceIsReported
<1>1. Init => IInv /\ FitInv
  BY IInvInit, FitInit
<1>2. IInv /\ FitInv /\ [Next]_vars => (IInv /\ FitInv)'
  BY IInvStep, FitStep
<1>3. IInv /\ FitInv => DegradedFenceIsReported
  <2> SUFFICES ASSUME IInv, FitInv, NEW t \in Collectives, NEW i \in Completions(trk[t]),
                      trk[t].type = FENCE, ~trk[t].host_called,
                      trk[t].queue[i].status = "SUCCESS"
               PROVE  trk[t].departed = {}
    BY DEF DegradedFenceIsReported
  <2>1. /\ trk[t] \in TrackerType /\ Sound(LiveNames, trk[t]) /\ Fit(trk[t])
        /\ trk[t].linked
    BY DEF IInv, TypeOK, FitInv, Collectives
  <2>2. trk[t].completion_fired /\ i = 1
    BY <2>1, FitCompletions
  <2> QED
    BY <2>1, <2>2 DEF Fit, Health
<1> QED
  BY <1>1, <1>2, <1>3, PTL DEF Spec

=============================================================================
