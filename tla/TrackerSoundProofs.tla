------------------------- MODULE TrackerSoundProofs -------------------------
(***************************************************************************)
(* The inductive invariant behind NeverEarly, and what happens to it on one *)
(* tracker: its members are counted, it is created and joined, its         *)
(* completion is driven, it is handed to the host, a member is lost.       *)
(***************************************************************************)
EXTENDS ServerCollectivesProofs

\* Every name has one process: no client forks a clone of itself.
NoClones == \A p, q \in Peers : Name[p] = Name[q] => p = q

LiveNames == {n \in Names : Live(n)}

\* The members that tracker r still waits for, when L is the set of live names.
AwaitedIn(L, r) == {n \in L : IsMember(n, r.pcs) /\ n \notin Contributed(r) \cup r.departed}

RanksIn(L, ns) == {k \in Ranks : <<ns, k>> \in L}

\* The namespace is registered completely, and its count covers its live ranks.
Ready(L, ns) ==
  /\ nspace[ns].known /\ nspace[ns].job_info_recvd /\ nspace[ns].all_registered
  /\ nspace[ns].nlocalprocs < SIZE_MAX
  /\ nspace[ns].ranks = Local[ns] \ nspace[ns].departed
  /\ Cardinality(RanksIn(L, ns)) <= nspace[ns].nlocalprocs

\* A connected peer is the one that the rank's entry names.
Current(p) ==
  peer[p] = "connected" => /\ peerid[Name[p]] = p
                           /\ Name[p][2] \in nspace[Name[p][1]].ranks

\* Nobody is counted twice: those who contributed, those who departed and those who are
\* still awaited fit together into the count of the tracker.
Counted(L, r) ==
  Cardinality(r.local_cbs) + Cardinality(r.departed) + Cardinality(AwaitedIn(L, r)) <= r.nlocal

OnlyCompletions(r) == \A i \in 1..Len(r.queue) : r.queue[i].ev = "complete"

\* What holds of every tracker.
Sound(L, r) ==
  /\ r.departed \cap L = {}
  /\ OnlyCompletions(r)
  /\ r.linked => /\ r.owed > 0 => r.host_called
                 /\ ~r.completion_fired => Counted(L, r)
                 /\ LocallyDone(r) => AwaitedIn(L, r) = {}

\* The inductive invariant.
IInv ==
  /\ TypeOK
  /\ \A ns \in NSpaces : Ready(LiveNames, ns)
  /\ \A p \in Peers : Current(p)
  /\ \A t \in Trk : Sound(LiveNames, trk[t])

-----------------------------------------------------------------------------
(* Counting.                                                               *)

\* There are finitely many names, so counting heads makes sense.
LEMMA NamesFinite == IsFiniteSet(Names)
BY ConstantsAssumption, FS_Product DEF Names

\* The sets that a tracker counts are finite.
LEMMA TrackerFinite ==
  ASSUME NEW r \in TrackerType, NEW L \in SUBSET Names
  PROVE  /\ IsFiniteSet(r.local_cbs) /\ Cardinality(r.local_cbs) \in Nat
         /\ IsFiniteSet(r.departed) /\ Cardinality(r.departed) \in Nat
         /\ IsFiniteSet(AwaitedIn(L, r)) /\ Cardinality(AwaitedIn(L, r)) \in Nat
<1>1. r.local_cbs \in SUBSET Calls /\ r.departed \in SUBSET Names
  BY DEF TrackerType
<1>2. AwaitedIn(L, r) \in SUBSET Names
  BY DEF AwaitedIn
<1> QED
  BY <1>1, <1>2, NamesFinite, ConstantsAssumption, FS_Subset, FS_CardinalityType

\* pmix_server_trk_complete is satisfied only when nobody is awaited.
LEMMA CompleteMeansNobodyAwaited ==
  ASSUME NEW r \in TrackerType, NEW L \in SUBSET Names, Counted(L, r), Complete(r)
  PROVE  AwaitedIn(L, r) = {}
<1>1. r.nlocal \in Nat
  BY DEF TrackerType
<1>2. Cardinality(AwaitedIn(L, r)) = 0
  BY <1>1, TrackerFinite DEF Counted, Complete
<1> QED
  BY <1>2, TrackerFinite, FS_EmptySet

\* Fewer live names, fewer members to wait for.
LEMMA AwaitedShrinks ==
  ASSUME NEW L, NEW K \in SUBSET L, NEW r
  PROVE  AwaitedIn(K, r) \subseteq AwaitedIn(L, r)
BY DEF AwaitedIn

\* A tracker stays sound when fewer names are live.
LEMMA SoundShrinks ==
  ASSUME NEW L \in SUBSET Names, NEW K \in SUBSET L, NEW r \in TrackerType, Sound(L, r)
  PROVE  Sound(K, r)
<1>1. AwaitedIn(K, r) \in SUBSET AwaitedIn(L, r)
  BY AwaitedShrinks
<1>2. Cardinality(AwaitedIn(K, r)) <= Cardinality(AwaitedIn(L, r))
  BY <1>1, TrackerFinite, FS_Subset
<1>3. r.nlocal \in Nat /\ K \in SUBSET Names
  BY DEF TrackerType
<1>4. Counted(L, r) => Counted(K, r)
  BY <1>2, <1>3, TrackerFinite DEF Counted
<1> QED
  BY <1>1, <1>4 DEF Sound

\* What the awaited members depend on.
LEMMA AwaitedSame ==
  ASSUME NEW L, NEW r, NEW q, q.pcs = r.pcs, q.local_cbs = r.local_cbs,
         q.departed = r.departed
  PROVE  AwaitedIn(L, q) = AwaitedIn(L, r)
BY DEF AwaitedIn, Contributed

-----------------------------------------------------------------------------
(* Driving a completion.                                                   *)

Good == {"SUCCESS", "PARTIAL_SUCCESS", "LOST_CONNECTION"}

\* Driving the completion touches the claim and the queue only.
LEMMA DriveFields ==
  ASSUME NEW r \in TrackerType, NEW s \in Status
  PROVE  /\ Drive(r, s).linked = r.linked /\ Drive(r, s).pcs = r.pcs
         /\ Drive(r, s).local_cbs = r.local_cbs /\ Drive(r, s).departed = r.departed
         /\ Drive(r, s).owed = r.owed /\ Drive(r, s).host_called = r.host_called
         /\ Drive(r, s).completion_fired = TRUE
         /\ Drive(r, s).queue = Append(r.queue, [ev |-> "complete", status |-> s])
BY DEF Drive, TrackerType

\* A completion with a good status was driven.
GoodDriven(r) == \E i \in Completions(r) : r.queue[i].status \in Good

\* What driving a completion does to the queue of events.
LEMMA DriveQueue ==
  ASSUME NEW r \in TrackerType, NEW s \in Status, OnlyCompletions(r)
  PROVE  /\ OnlyCompletions(Drive(r, s))
         /\ GoodDriven(Drive(r, s)) => GoodDriven(r) \/ s \in Good
<1> DEFINE q == Drive(r, s)
           e == [ev |-> "complete", status |-> s]
<1>1. q.queue = Append(r.queue, e)
  BY DriveFields, Zenon
<1>2. e \in Events /\ e.ev = "complete" /\ e.status = s
  BY DEF Events
<1>3. r.queue \in Seq(Events)
  BY DEF TrackerType
<1> HIDE DEF q, e
<1>4. /\ Len(q.queue) = Len(r.queue) + 1 /\ Len(r.queue) \in Nat
      /\ q.queue[Len(r.queue) + 1] = e
      /\ \A i \in 1..Len(r.queue) : q.queue[i] = r.queue[i]
  BY <1>1, <1>2, <1>3
<1>5. \A i \in 1..Len(q.queue) : i \in 1..Len(r.queue) \/ i = Len(r.queue) + 1
  BY <1>4
<1>6. OnlyCompletions(q)
  BY <1>2, <1>4, <1>5 DEF OnlyCompletions
<1>7. GoodDriven(q) => GoodDriven(r) \/ s \in Good
  BY <1>2, <1>4, <1>5 DEF GoodDriven, Completions
<1> QED
  BY <1>6, <1>7 DEF q

\* The local phase has ended exactly if this holds of the tracker.
LEMMA LocallyDoneIs ==
  ASSUME NEW r
  PROVE  LocallyDone(r) <=> r.host_called \/ GoodDriven(r)
BY DEF LocallyDone, GoodDriven, Good

\* A tracker stays sound when its completion is driven, with a good status only if nobody
\* is awaited.
LEMMA DriveSound ==
  ASSUME NEW L \in SUBSET Names, NEW r \in TrackerType, NEW s \in Status, Sound(L, r),
         r.linked /\ s \in Good => AwaitedIn(L, r) = {}
  PROVE  Sound(L, Drive(r, s))
<1> DEFINE q == Drive(r, s)
<1>1. /\ q.linked = r.linked /\ q.pcs = r.pcs /\ q.local_cbs = r.local_cbs
      /\ q.departed = r.departed /\ q.owed = r.owed /\ q.host_called = r.host_called
      /\ q.completion_fired = TRUE
  BY DriveFields, Zenon
<1>2. OnlyCompletions(q) /\ (GoodDriven(q) => GoodDriven(r) \/ s \in Good)
  BY DriveQueue DEF Sound
<1> HIDE DEF q
<1>3. LocallyDone(q) => LocallyDone(r) \/ s \in Good
  BY <1>1, <1>2, LocallyDoneIs
<1>4. AwaitedIn(L, q) = AwaitedIn(L, r)
  BY <1>1, AwaitedSame
<1> QED
  BY <1>1, <1>2, <1>3, <1>4 DEF Sound, q

\* A tracker stays sound when only its timer changes.
LEMMA TimerSound ==
  ASSUME NEW L \in SUBSET Names, NEW r \in TrackerType, NEW q, Sound(L, r),
         q.linked = r.linked, q.pcs = r.pcs, q.local_cbs = r.local_cbs,
         q.departed = r.departed, q.owed = r.owed, q.host_called = r.host_called,
         q.completion_fired = r.completion_fired, q.queue = r.queue, q.nlocal = r.nlocal
  PROVE  Sound(L, q)
<1>1. AwaitedIn(L, q) = AwaitedIn(L, r)
  BY AwaitedSame
<1>2. LocallyDone(q) <=> LocallyDone(r)
  BY DEF LocallyDone, Completions
<1> QED
  BY <1>1, <1>2 DEF Sound, OnlyCompletions, Counted

-----------------------------------------------------------------------------
(* A call joins a tracker.                                                 *)

\* A tracker that a call has just joined: nothing has completed it yet.
Joining(L, r) ==
  /\ r.linked /\ ~r.completion_fired /\ ~r.host_called /\ r.owed = 0
  /\ r.departed \cap L = {}
  /\ OnlyCompletions(r)
  /\ ~LocallyDone(r)
  /\ Counted(L, r)

\* The tracker of a call that it awaits is joined: one more contributed and one less is
\* awaited.
LEMMA JoinCounted ==
  ASSUME NEW L \in SUBSET Names, NEW r \in TrackerType, NEW q \in TrackerType, NEW c \in Calls,
         Sound(L, r), r.linked, ~r.completion_fired, NameOf(c) \in AwaitedIn(L, r),
         q.linked = r.linked, q.pcs = r.pcs, q.local_cbs = r.local_cbs \cup {c},
         q.departed = r.departed, q.owed = r.owed, q.host_called = r.host_called,
         q.completion_fired = r.completion_fired, q.queue = r.queue, q.nlocal = r.nlocal
  PROVE  Joining(L, q)
<1>1. ~LocallyDone(r)
  BY DEF Sound
<1>2. ~LocallyDone(q) /\ ~r.host_called
  BY <1>1 DEF LocallyDone, Completions
<1>3. Contributed(q) = Contributed(r) \cup {NameOf(c)}
  BY DEF Contributed
<1>4. AwaitedIn(L, q) = AwaitedIn(L, r) \ {NameOf(c)}
  BY <1>3 DEF AwaitedIn
<1>5. Cardinality(AwaitedIn(L, q)) = Cardinality(AwaitedIn(L, r)) - 1
  BY <1>4, TrackerFinite, FS_RemoveElement, Zenon
<1>6. Cardinality(q.local_cbs) <= Cardinality(r.local_cbs) + 1
  <2>1. IsFiniteSet(r.local_cbs) /\ Cardinality(r.local_cbs) \in Nat
    BY TrackerFinite
  <2>2. Cardinality(r.local_cbs \cup {c}) \in {Cardinality(r.local_cbs), Cardinality(r.local_cbs) + 1}
    BY <2>1, FS_AddElement, Zenon
  <2> QED
    BY <2>1, <2>2
<1>7. Counted(L, r) /\ r.nlocal \in Nat
  BY DEF Sound, TrackerType
<1>8. Counted(L, q)
  <2>1. /\ Cardinality(r.local_cbs) \in Nat /\ Cardinality(q.local_cbs) \in Nat
        /\ Cardinality(r.departed) \in Nat /\ Cardinality(AwaitedIn(L, r)) \in Nat
    BY TrackerFinite
  <2> QED
    BY <1>5, <1>6, <1>7, <2>1 DEF Counted
<1>9. r.owed = 0
  BY <1>2 DEF Sound, TrackerType
<1> QED
  BY <1>2, <1>8, <1>9 DEF Joining, Sound, OnlyCompletions

\* A member that joins keeps the tracker sound.
LEMMA JoiningSound ==
  ASSUME NEW L \in SUBSET Names, NEW r \in TrackerType, Joining(L, r)
  PROVE  Sound(L, r)
BY DEF Joining, Sound

-----------------------------------------------------------------------------
(* A new tracker.                                                          *)

\* A finite set of at most n elements can be numbered from 1 to n.
LEMMA Numbering ==
  ASSUME NEW S, IsFiniteSet(S), NEW n \in Nat, Cardinality(S) <= n
  PROVE  \E g : g \in [S -> 1..n] /\ \A x, y \in S : g[x] = g[y] => x = y
<1> DEFINE k == Cardinality(S)
<1>1. k \in Nat
  BY FS_CardinalityType
<1>2. IsFiniteSet(1..k) /\ Cardinality(1..k) = k
  BY <1>1, FS_Interval
<1>3. ExistsBijection(S, 1..k)
  BY <1>2, FS_SameCardinalityBij
<1>4. PICK g : g \in Bijection(S, 1..k)
  BY <1>3 DEF ExistsBijection
<1>5. g \in [S -> 1..k] /\ \A x, y \in S : g[x] = g[y] => x = y
  BY <1>4 DEF Bijection, Injection, IsInjective
<1>6. 1..k \subseteq 1..n
  BY <1>1
<1> QED
  BY <1>5, <1>6

\* pmix_server_new_tracker counts at least as many participants as are live members.
LEMMA SlotsCoverMembers ==
  ASSUME IInv, NEW sig \in Sigs
  PROVE  Cardinality({n \in LiveNames : IsMember(n, sig)}) <= Cardinality(Slots(sig))
<1> DEFINE M == {n \in LiveNames : IsMember(n, sig)}
           Pos(ns) == CHOOSE g : /\ g \in [RanksIn(LiveNames, ns) -> 1..nspace[ns].nlocalprocs]
                                 /\ \A x, y \in RanksIn(LiveNames, ns) : g[x] = g[y] => x = y
           f == [n \in M |-> IF <<n[1], WILDCARD>> \in sig
                             THEN <<<<n[1], WILDCARD>>, Pos(n[1])[n[2]]>> ELSE <<n, 1>>]
<1>1. ASSUME NEW n \in M
      PROVE  /\ n[1] \in NSpaces /\ n[2] \in Ranks /\ n = <<n[1], n[2]>>
             /\ n[2] \in RanksIn(LiveNames, n[1])
             /\ n[2] \in nspace[n[1]].ranks
             /\ n[2] # WILDCARD
  <2>1. n \in Names /\ Live(n)
    BY DEF LiveNames
  <2>2. n[1] \in NSpaces /\ n[2] \in Ranks /\ n = <<n[1], n[2]>>
    BY <2>1 DEF Names
  <2>3. n[2] \in Local[n[1]] \ nspace[n[1]].departed
    BY <2>1 DEF Live
  <2> QED
    BY <2>2, <2>3, ConstantsAssumption, Zenon DEF RanksIn, IInv, Ready
<1>2. ASSUME NEW ns \in NSpaces
      PROVE  /\ nspace[ns].known /\ nspace[ns].all_registered
             /\ nspace[ns].nlocalprocs \in Nat /\ nspace[ns].nlocalprocs # SIZE_MAX
             /\ IsFiniteSet(RanksIn(LiveNames, ns))
             /\ Cardinality(RanksIn(LiveNames, ns)) <= nspace[ns].nlocalprocs
  <2>1. RanksIn(LiveNames, ns) \in SUBSET Ranks
    BY DEF RanksIn
  <2>2. nspace[ns].nlocalprocs \in Nat
    BY DEF IInv, TypeOK, NSpaceType
  <2> QED
    BY <2>1, <2>2, FS_Subset, ConstantsAssumption DEF IInv, Ready
<1>3. ASSUME NEW ns \in NSpaces
      PROVE  /\ Pos(ns) \in [RanksIn(LiveNames, ns) -> 1..nspace[ns].nlocalprocs]
             /\ \A x, y \in RanksIn(LiveNames, ns) : Pos(ns)[x] = Pos(ns)[y] => x = y
  BY <1>2, Numbering
<1> HIDE DEF Pos, M
<1>4. ASSUME NEW n \in M
      PROVE  f[n] \in Slots(sig)
  <2> DEFINE e == <<n[1], WILDCARD>>
  <2>1. CASE e \in sig
    <3>1. e[1] = n[1] /\ e[2] = WILDCARD
      OBVIOUS
    <3>2. EntryCount(e) = nspace[n[1]].nlocalprocs
      BY <1>1, <1>2, <3>1 DEF EntryCount
    <3>3. Pos(n[1])[n[2]] \in 1..EntryCount(e)
      BY <1>1, <1>3, <3>2
    <3> QED
      BY <2>1, <3>3 DEF Slots
  <2>2. CASE e \notin sig
    <3>1. n \in sig
      BY <2>2 DEF M, IsMember
    <3>2. nspace[n[1]].nlocalprocs # 0
      <4>1. RanksIn(LiveNames, n[1]) # {}
        BY <1>1
      <4>2. Cardinality(RanksIn(LiveNames, n[1])) # 0
        BY <1>1, <1>2, <4>1, FS_EmptySet
      <4>3. Cardinality(RanksIn(LiveNames, n[1])) \in Nat
        BY <1>1, <1>2, FS_CardinalityType
      <4> QED
        BY <1>1, <1>2, <4>2, <4>3
    <3>3. EntryCount(n) = 1
      BY <1>1, <1>2, <3>2 DEF EntryCount
    <3>4. 1 \in 1..EntryCount(n)
      BY <3>3
    <3>5. f[n] = <<n, 1>>
      BY <2>2
    <3>6. <<n, 1>> \in {n} \X (1..EntryCount(n))
      BY <3>4
    <3> QED
      BY <3>1, <3>5, <3>6 DEF Slots
  <2> QED
    BY <2>1, <2>2
<1>5. ASSUME NEW m \in M, NEW n \in M, f[m] = f[n]
      PROVE  m = n
  BY <1>1, <1>3, <1>5
<1>6. f \in Injection(M, Slots(sig))
  BY <1>4, <1>5, Zenon DEF Injection, IsInjective
<1>7. IsFiniteSet(Slots(sig))
  BY SlotsFinite DEF IInv
<1> QED
  BY <1>6, <1>7, FS_Injection DEF M

-----------------------------------------------------------------------------
(* A contribution.                                                         *)

\* A new tracker is sound: it waits for every live member.
LEMMA NewTrackerSound ==
  ASSUME IInv, NEW op \in Ops, NEW sig \in Sigs
  PROVE  /\ Sound(LiveNames, NewTracker(op, sig))
         /\ AwaitedIn(LiveNames, NewTracker(op, sig)) = {n \in LiveNames : IsMember(n, sig)}
         /\ NewTracker(op, sig).linked /\ ~NewTracker(op, sig).completion_fired
<1> DEFINE r == NewTracker(op, sig)
<1>1. /\ r.linked /\ ~r.completion_fired /\ ~r.host_called /\ r.owed = 0 /\ r.pcs = sig
      /\ r.local_cbs = {} /\ r.departed = {} /\ r.queue = <<>>
      /\ r.nlocal = Cardinality(Slots(sig))
  BY DEF NewTracker, Unused
<1> HIDE DEF r
<1>2. AwaitedIn(LiveNames, r) = {n \in LiveNames : IsMember(n, sig)}
  BY <1>1 DEF AwaitedIn, Contributed
<1>3. Cardinality(AwaitedIn(LiveNames, r)) <= r.nlocal
  BY <1>1, <1>2, SlotsCoverMembers
<1>4. Cardinality(r.local_cbs) = 0 /\ Cardinality(r.departed) = 0
  BY <1>1, FS_EmptySet
<1>5. r.nlocal \in Nat /\ Cardinality(AwaitedIn(LiveNames, r)) \in Nat
  <2>1. r \in TrackerType
    BY NewTrackerType DEF IInv, r
  <2>2. LiveNames \in SUBSET Names
    BY DEF LiveNames
  <2> QED
    BY <2>1, <2>2, TrackerFinite DEF TrackerType
<1>6. Counted(LiveNames, r)
  BY <1>3, <1>4, <1>5 DEF Counted
<1>7. OnlyCompletions(r) /\ ~LocallyDone(r)
  BY <1>1 DEF OnlyCompletions, LocallyDone, Completions
<1> QED
  BY <1>1, <1>2, <1>6, <1>7 DEF Sound, r

\* A connected client is one of those that its collective awaits.
LEMMA CallerIsLive ==
  ASSUME IInv, NEW c \in Calls, peer[Caller[c]] = "connected"
  PROVE  NameOf(c) \in LiveNames
<1>1. Caller[c] \in Peers /\ NameOf(c) \in Names /\ NameOf(c) = Name[Caller[c]]
  BY ConstantsAssumption DEF NameOf
<1>2. NameOf(c)[1] \in NSpaces
  BY <1>1 DEF Names
<1>3. NameOf(c)[2] \in Local[NameOf(c)[1]] \ nspace[NameOf(c)[1]].departed
  BY <1>1, <1>2 DEF IInv, Current, Ready
<1> QED
  BY <1>1, <1>3 DEF LiveNames, Live

\* A contribution is a member joining.
LEMMA JoinedIsJoining ==
  ASSUME IInv, NoClones, ~Duplicates, NEW t \in Trk, NEW c \in Calls, NEW op \in Ops, NEW sig \in Sigs,
         NEW tmo \in BOOLEAN, NEW collect \in BOOLEAN,
         LandsOn(t, op, sig), MayCall(c, t, sig)
  PROVE  /\ Joined(t, c, op, sig, tmo, collect) \in TrackerType
         /\ Joining(LiveNames, Joined(t, c, op, sig, tmo, collect))
<1> DEFINE r == IF t = ntrk + 1 THEN NewTracker(op, sig) ELSE trk[t]
           q == Joined(t, c, op, sig, tmo, collect)
<1>1. r \in TrackerType /\ q \in TrackerType
  BY NewTrackerType, JoinedType DEF IInv, TypeOK
<1>2. /\ q.linked = r.linked /\ q.pcs = r.pcs /\ q.local_cbs = r.local_cbs \cup {c}
      /\ q.departed = r.departed /\ q.owed = r.owed /\ q.host_called = r.host_called
      /\ q.completion_fired = r.completion_fired /\ q.queue = r.queue /\ q.nlocal = r.nlocal
  <2> DEFINE a == IF op = FENCE THEN MergeCollect(r.collect_type, t = ntrk + 1, collect)
                  ELSE r.collect_type
             b == r.event_active \/ tmo
             e == r.armed \/ (tmo /\ ~r.event_active)
             u == [r EXCEPT !.local_cbs = @ \cup {c}, !.collect_type = a,
                            !.event_active = b, !.armed = e]
  <2>1. q = u
    BY DEF Joined
  <2> HIDE DEF r, q, a, b, e
  <2>2. /\ u.linked = r.linked /\ u.pcs = r.pcs /\ u.local_cbs = r.local_cbs \cup {c}
        /\ u.departed = r.departed /\ u.owed = r.owed /\ u.host_called = r.host_called
        /\ u.completion_fired = r.completion_fired /\ u.queue = r.queue /\ u.nlocal = r.nlocal
    BY <1>1 DEF TrackerType
  <2> HIDE DEF u
  <2> QED
    BY <2>1, <2>2
<1>3. LiveNames \in SUBSET Names /\ NameOf(c) \in LiveNames
  BY CallerIsLive DEF LiveNames, MayCall
<1>4. /\ Sound(LiveNames, r) /\ r.linked /\ ~r.completion_fired
      /\ NameOf(c) \in AwaitedIn(LiveNames, r)
  <2>1. CASE t = ntrk + 1
    BY <1>3, <2>1, NewTrackerSound DEF MayCall
  <2>2. CASE t # ntrk + 1
    <3>1. r = trk[t] /\ Matches(t, op, sig)
      BY <2>2 DEF LandsOn, GetTracker
    <3>2. Sound(LiveNames, r) /\ r.linked /\ ~r.completion_fired /\ r.pcs = sig
      BY <3>1 DEF Matches, IInv
    <3>3. NameOf(c) \notin Contributed(r)
      <4>1. \A d \in r.local_cbs : Caller[d] # Caller[c]
        BY <3>1 DEF MayCall
      <4>2. \A d \in r.local_cbs : d \in Calls
        BY <1>1 DEF TrackerType
      <4>3. \A d \in r.local_cbs : NameOf(d) # NameOf(c)
        BY <4>1, <4>2, ConstantsAssumption DEF NoClones, NameOf
      <4> QED
        BY <4>3 DEF Contributed
    <3>4. NameOf(c) \notin r.departed
      BY <1>3, <3>2 DEF Sound
    <3> QED
      BY <1>3, <3>2, <3>3, <3>4 DEF AwaitedIn, MayCall
  <2> QED
    BY <2>1, <2>2
<1> HIDE DEF r, q
<1>5. Joining(LiveNames, q)
  BY <1>1, <1>2, <1>3, <1>4, JoinCounted, Zenon
<1> QED
  BY <1>1, <1>5 DEF q

\* The completion that the server drives because an operation failed, or was done by the
\* host on the spot: good only if nobody is awaited.
LEMMA DriveUnhostedSound ==
  ASSUME NEW L \in SUBSET Names, NEW r \in TrackerType, NEW s \in Status,
         r.departed \cap L = {}, OnlyCompletions(r), r.owed = 0, ~GoodDriven(r),
         r.host_called = FALSE, s \in Good => AwaitedIn(L, r) = {}
  PROVE  Sound(L, Drive(r, s))
<1> DEFINE q == Drive(r, s)
<1>3. OnlyCompletions(q) /\ (GoodDriven(q) => s \in Good)
  BY DriveQueue
<1>4. /\ q.pcs = r.pcs /\ q.local_cbs = r.local_cbs /\ q.departed = r.departed
      /\ q.owed = 0 /\ q.host_called = FALSE /\ q.completion_fired = TRUE
  BY DriveFields, Zenon
<1> HIDE DEF q
<1>5. LocallyDone(q) => s \in Good
  BY <1>3, <1>4, LocallyDoneIs
<1>6. AwaitedIn(L, q) = AwaitedIn(L, r)
  BY <1>4, AwaitedSame
<1>7. Sound(L, q)
  BY <1>3, <1>4, <1>5, <1>6 DEF Sound
<1> QED
  BY <1>7 DEF q

\* Taking a tracker back from the host touches one field.
LEMMA UnhostedFields ==
  ASSUME NEW r \in TrackerType
  PROVE  /\ Unhosted(r) \in TrackerType /\ Unhosted(r).host_called = FALSE
         /\ Unhosted(r).pcs = r.pcs /\ Unhosted(r).local_cbs = r.local_cbs
         /\ Unhosted(r).departed = r.departed /\ Unhosted(r).owed = r.owed
         /\ Unhosted(r).queue = r.queue
BY Zenon DEF Unhosted, TrackerType

\* Driving the completion the host will not call back for keeps it sound.
LEMMA DriveBackSound ==
  ASSUME NEW L \in SUBSET Names, NEW r \in TrackerType, NEW s \in Status,
         r.departed \cap L = {}, OnlyCompletions(r), r.owed = 0, ~GoodDriven(r),
         s \in Good => AwaitedIn(L, r) = {}
  PROVE  Sound(L, DriveBack(r, s))
<1> DEFINE h == Unhosted(r)
<1>1. /\ h \in TrackerType /\ h.host_called = FALSE /\ h.pcs = r.pcs
      /\ h.local_cbs = r.local_cbs /\ h.departed = r.departed /\ h.owed = 0
      /\ h.queue = r.queue
  BY UnhostedFields, Zenon
<1> HIDE DEF h
<1>2. OnlyCompletions(h) /\ ~GoodDriven(h) /\ AwaitedIn(L, h) = AwaitedIn(L, r)
  BY <1>1, AwaitedSame DEF OnlyCompletions, GoodDriven, Completions
<1>3. Sound(L, Drive(h, s))
  BY <1>1, <1>2, DriveUnhostedSound, Zenon
<1> QED
  BY <1>3 DEF DriveBack, h

\* Stopping the timer touches the timer only.
LEMMA CancelTimerFields ==
  ASSUME NEW r \in TrackerType
  PROVE  /\ CancelTimer(r).linked = r.linked /\ CancelTimer(r).pcs = r.pcs
         /\ CancelTimer(r).local_cbs = r.local_cbs /\ CancelTimer(r).departed = r.departed
         /\ CancelTimer(r).owed = r.owed /\ CancelTimer(r).host_called = r.host_called
         /\ CancelTimer(r).completion_fired = r.completion_fired
         /\ CancelTimer(r).queue = r.queue /\ CancelTimer(r).nlocal = r.nlocal
BY DEF CancelTimer, TrackerType

\* The up-call touches the timer and the host's fields only.
LEMMA UpCallFields ==
  ASSUME NEW r \in TrackerType, NEW data
  PROVE  /\ UpCall(r, data).linked = r.linked /\ UpCall(r, data).pcs = r.pcs
         /\ UpCall(r, data).local_cbs = r.local_cbs /\ UpCall(r, data).departed = r.departed
         /\ UpCall(r, data).owed = r.owed /\ UpCall(r, data).host_called = TRUE
         /\ UpCall(r, data).completion_fired = r.completion_fired
         /\ UpCall(r, data).queue = r.queue /\ UpCall(r, data).nlocal = r.nlocal
<1> DEFINE q == CancelTimer(r)
           u == [q EXCEPT !.host_called = TRUE, !.upcalls = @ + 1, !.bucket = data]
<1>1. q \in TrackerType
  BY CancelTimerType
<1> HIDE DEF q
<1>2. /\ u.linked = q.linked /\ u.pcs = q.pcs /\ u.local_cbs = q.local_cbs
      /\ u.departed = q.departed /\ u.owed = q.owed /\ u.host_called = TRUE
      /\ u.completion_fired = q.completion_fired /\ u.queue = q.queue /\ u.nlocal = q.nlocal
  BY <1>1 DEF TrackerType
<1>3. UpCall(r, data) = u
  BY DEF UpCall, q
<1> HIDE DEF u
<1> QED
  BY <1>2, <1>3, CancelTimerFields DEF q

\* A completed collective that the host was handed.
LEMMA HandedUpSound ==
  ASSUME NEW L \in SUBSET Names, NEW r \in TrackerType, NEW data \in SUBSET Names,
         r.departed \cap L = {}, OnlyCompletions(r), Counted(L, r), AwaitedIn(L, r) = {}
  PROVE  Sound(L, [UpCall(r, data) EXCEPT !.owed = @ + 1])
<1> DEFINE u == UpCall(r, data)
           q == [u EXCEPT !.owed = @ + 1]
<1>1. u \in TrackerType
  BY UpCallType
<1>2. /\ u.pcs = r.pcs /\ u.local_cbs = r.local_cbs /\ u.departed = r.departed
      /\ u.host_called = TRUE /\ u.queue = r.queue /\ u.nlocal = r.nlocal
  BY UpCallFields, Zenon
<1> HIDE DEF u
<1>3. /\ q.pcs = r.pcs /\ q.local_cbs = r.local_cbs /\ q.departed = r.departed
      /\ q.host_called = TRUE /\ q.queue = r.queue /\ q.nlocal = r.nlocal
  BY <1>1, <1>2 DEF TrackerType
<1> HIDE DEF q
<1>4. AwaitedIn(L, q) = AwaitedIn(L, r)
  BY <1>3, AwaitedSame
<1>5. OnlyCompletions(q) /\ Counted(L, q)
  BY <1>3, <1>4 DEF OnlyCompletions, Counted
<1>6. Sound(L, q)
  BY <1>3, <1>4, <1>5 DEF Sound
<1> QED
  BY <1>6 DEF q, u

-----------------------------------------------------------------------------
(* Every step preserves the invariant.                                     *)

\* A step on the trackers alone.
LEMMA TrackersStep ==
  ASSUME IInv, TypeOK', UNCHANGED <<nspace, peer, peerid>>,
         \A t \in Trk : Sound(LiveNames, trk'[t])
  PROVE  IInv'
<1>1. LiveNames' = LiveNames
  BY DEF LiveNames, Live
<1>2. \A ns \in NSpaces : Ready(LiveNames, ns)'
  BY <1>1 DEF IInv, Ready
<1>3. \A p \in Peers : Current(p)'
  BY DEF IInv, Current
<1>4. \A t \in Trk : Sound(LiveNames, trk[t])'
  BY <1>1
<1> QED
  BY <1>2, <1>3, <1>4 DEF IInv

\* A step on one tracker.
LEMMA OneTrackerStep ==
  ASSUME IInv, TypeOK', UNCHANGED <<nspace, peer, peerid>>, NEW t \in Trk, NEW r,
         trk' = [trk EXCEPT ![t] = r], Sound(LiveNames, r)
  PROVE  IInv'
<1>1. \A u \in Trk : trk'[u] = IF u = t THEN r ELSE trk[u]
  BY DEF IInv, TypeOK
<1>2. \A u \in Trk : Sound(LiveNames, trk'[u])
  BY <1>1 DEF IInv
<1> QED
  BY <1>2, TrackersStep

\* A refused call: the tracker ends with an error, and the caller leaves it.
LEMMA RejectedStep ==
  ASSUME IInv, TypeOK', NEW c \in Calls, NEW t \in Trk, NEW r \in TrackerType,
         NEW err \in Status \ Good, Rejected(c, t, r, err), r.departed \cap LiveNames = {},
         OnlyCompletions(r), r.owed = 0, ~GoodDriven(r), r.host_called = FALSE
  PROVE  IInv'
<1> DEFINE others == [r EXCEPT !.local_cbs = @ \ {c}]
<1>1. /\ others \in TrackerType /\ others.departed = r.departed
      /\ others.queue = r.queue /\ others.owed = r.owed
      /\ others.host_called = FALSE
  BY DEF TrackerType
<1>2. /\ trk' = [trk EXCEPT ![t] = Drive(others, err)]
      /\ UNCHANGED <<nspace, peer, peerid>>
  BY DEF Rejected
<1> HIDE DEF others
<1>3. OnlyCompletions(others) /\ ~GoodDriven(others)
  BY <1>1 DEF OnlyCompletions, GoodDriven, Completions
<1>4. LiveNames \in SUBSET Names
  BY DEF LiveNames
<1>5. Sound(LiveNames, Drive(others, err))
  BY <1>1, <1>3, <1>4, DriveUnhostedSound, Zenon
<1> QED
  BY <1>2, <1>5, OneTrackerStep, Zenon

\* A contribution keeps every tracker sound.
LEMMA ContributeStep ==
  ASSUME IInv, TypeOK', NoClones, ~Duplicates, NEW c \in Calls, Contribute(c)
  PROVE  IInv'
<1>1. PICK op \in Ops, sig \in Sigs, t \in Trk, tmo \in TimeoutGiven, collect \in CollectGiven :
        /\ LandsOn(t, op, sig)
        /\ MayCall(c, t, sig)
        /\ LET r == Joined(t, c, op, sig, tmo, collect) IN
             \/ ContributeWait(c, t, r)
             \/ ContributeLocal(c, t, r)
             \/ ContributeUnsupported(c, t, r)
             \/ ContributeNoBucket(c, t, r)
             \/ ContributeUp(c, t, r)
  BY DEF Contribute
<1> DEFINE L == LiveNames
           r == Joined(t, c, op, sig, tmo, collect)
<1>2. r \in TrackerType /\ Joining(L, r) /\ L \in SUBSET Names
  BY <1>1, JoinedIsJoining, ConstantsAssumption DEF LiveNames
<1>3. \/ ContributeWait(c, t, r)
      \/ ContributeLocal(c, t, r)
      \/ ContributeUnsupported(c, t, r)
      \/ ContributeNoBucket(c, t, r)
      \/ ContributeUp(c, t, r)
  BY <1>1
<1> HIDE DEF r
<1>4. /\ r.departed \cap L = {} /\ OnlyCompletions(r) /\ r.owed = 0 /\ Counted(L, r)
      /\ ~GoodDriven(r) /\ r.host_called = FALSE
  <2>1. r.host_called \in BOOLEAN
    BY <1>2 DEF TrackerType
  <2> QED
    BY <1>2, <2>1, LocallyDoneIs DEF Joining
<1>5. Complete(r) => AwaitedIn(L, r) = {}
  BY <1>2, <1>4, CompleteMeansNobodyAwaited
<1>6. Sound(L, r)
  BY <1>2, JoiningSound
<1>7. /\ "NOT_SUPPORTED" \in Status \ Good /\ "ERROR" \in Status \ Good
      /\ OwnStatus(r) \in Status
  BY <1>2, OwnStatusType DEF Status, Good
<1>8. ASSUME NEW q, Parked(c, t, q), Sound(L, q)
      PROVE  IInv'
  BY <1>8, OneTrackerStep, Zenon DEF Parked
<1>9. /\ CancelTimer(r) \in TrackerType /\ CancelTimer(r).departed = r.departed
      /\ CancelTimer(r).owed = r.owed /\ CancelTimer(r).queue = r.queue
      /\ CancelTimer(r).host_called = r.host_called
  BY <1>2, CancelTimerType, CancelTimerFields
<1>10. CASE ContributeWait(c, t, r)
  BY <1>6, <1>8, <1>10 DEF ContributeWait
<1>11. CASE ContributeLocal(c, t, r)
  <2> DEFINE q == CancelTimer(r)
  <2>1. Sound(L, q)
    BY <1>2, <1>6, CancelTimerFields, TimerSound
  <2>2. AwaitedIn(L, q) = AwaitedIn(L, r)
    BY <1>2, CancelTimerFields, AwaitedSame
  <2>3. Complete(r)
    BY <1>11 DEF ContributeLocal
  <2> HIDE DEF q
  <2>4. Sound(L, Drive(q, OwnStatus(r)))
    BY <1>2, <1>5, <1>7, <1>9, <2>1, <2>2, <2>3, DriveSound DEF q
  <2>5. OnlyCompletions(q) /\ ~GoodDriven(q)
    BY <1>4, <1>9 DEF OnlyCompletions, GoodDriven, Completions, q
  <2>6. Sound(L, DriveBack(q, OwnStatus(r)))
    BY <1>2, <1>4, <1>5, <1>7, <1>9, <2>2, <2>3, <2>5, DriveBackSound DEF q
  <2> QED
    BY <1>8, <1>11, <2>4, <2>6 DEF ContributeLocal, DriveBack, q
<1>12. CASE ContributeUnsupported(c, t, r) \/ ContributeNoBucket(c, t, r)
  <2> DEFINE q == CancelTimer(r)
  <2>1. OnlyCompletions(q) /\ ~GoodDriven(q)
    BY <1>4, <1>9 DEF OnlyCompletions, GoodDriven, Completions
  <2>2. OnlyCompletions(Unhosted(q)) /\ ~GoodDriven(Unhosted(q))
    <3>1. Unhosted(q).queue = q.queue
      BY <1>9, UnhostedFields, Zenon
    <3> QED
      BY <2>1, <3>1 DEF OnlyCompletions, GoodDriven, Completions
  <2>3. Rejected(c, t, Unhosted(q), "NOT_SUPPORTED") \/ Rejected(c, t, q, "ERROR")
    BY <1>12 DEF ContributeUnsupported, ContributeNoBucket
  <2>4. CASE Rejected(c, t, Unhosted(q), "NOT_SUPPORTED")
    BY <1>4, <1>7, <1>9, <2>2, <2>4, UnhostedFields, RejectedStep, Zenon
  <2>5. CASE Rejected(c, t, q, "ERROR")
    BY <1>4, <1>7, <1>9, <2>1, <2>5, RejectedStep, Zenon
  <2> QED
    BY <2>3, <2>4, <2>5
<1>13. CASE ContributeUp(c, t, r)
  <2> DEFINE u == UpCall(r, CollectData(r))
  <2>1. PICK rc \in HostReturns : IF rc = "ERROR" THEN Rejected(c, t, Unhosted(u), "ERROR")
                                 ELSE Parked(c, t, AfterUpCall(u, rc, OwnStatus(r)))
    BY <1>13 DEF ContributeUp
  <2>2. /\ CollectData(r) \in SUBSET Names /\ u \in TrackerType
        /\ u.departed = r.departed /\ u.owed = r.owed /\ u.queue = r.queue
        /\ u.pcs = r.pcs /\ u.local_cbs = r.local_cbs
    BY <1>2, CollectDataType, UpCallType, UpCallFields, Zenon
  <2>3. OnlyCompletions(u) /\ ~GoodDriven(u)
    BY <1>4, <2>2 DEF OnlyCompletions, GoodDriven, Completions
  <2>4. AwaitedIn(L, u) = {}
    <3>1. AwaitedIn(L, u) = AwaitedIn(L, r)
      BY <2>2, AwaitedSame
    <3> QED
      BY <1>5, <1>13, <3>1 DEF ContributeUp
  <2>5. CASE rc = "ERROR"
    <3> HIDE DEF u
    <3>1. OnlyCompletions(Unhosted(u)) /\ ~GoodDriven(Unhosted(u))
      <4>1. Unhosted(u).queue = u.queue
        BY <2>2, UnhostedFields, Zenon
      <4> QED
        BY <2>3, <4>1 DEF OnlyCompletions, GoodDriven, Completions
    <3> QED
      BY <1>4, <1>7, <2>1, <2>2, <2>5, <3>1, UnhostedFields, RejectedStep, Zenon
  <2>6. CASE rc = "OPERATION_SUCCEEDED"
    <3>1. Sound(L, DriveBack(u, OwnStatus(r)))
      <4> HIDE DEF u
      <4> QED
        BY <1>2, <1>4, <1>7, <2>2, <2>3, <2>4, DriveBackSound
    <3> QED
      BY <1>8, <2>1, <2>6, <3>1 DEF AfterUpCall
  <2>7. CASE rc = "SUCCESS"
    <3>1. Complete(r)
      BY <1>13 DEF ContributeUp
    <3>2. Sound(L, [u EXCEPT !.owed = @ + 1])
      BY <1>2, <1>4, <1>5, <2>2, <3>1, HandedUpSound
    <3> QED
      BY <1>8, <2>1, <2>7, <3>2 DEF AfterUpCall
  <2> QED
    BY <2>5, <2>6, <2>7, ConstantsAssumption
<1> QED
  BY <1>3, <1>10, <1>11, <1>12, <1>13

\* A timer that expires does.
LEMMA TimeoutStep ==
  ASSUME IInv, TypeOK', NEW t \in Trk, Timeout(t)
  PROVE  IInv'
<1> DEFINE L == LiveNames
           q == [trk[t] EXCEPT !.armed = FALSE]
<1>1. L \in SUBSET Names /\ trk[t] \in TrackerType /\ Sound(L, trk[t])
  BY DEF LiveNames, IInv, TypeOK
<1>2. Sound(L, CancelTimer(trk[t]))
  BY <1>1, CancelTimerFields, TimerSound
<1>3. /\ q \in TrackerType /\ q.linked = trk[t].linked /\ q.pcs = trk[t].pcs
      /\ q.local_cbs = trk[t].local_cbs /\ q.departed = trk[t].departed
      /\ q.owed = trk[t].owed /\ q.host_called = trk[t].host_called
      /\ q.completion_fired = trk[t].completion_fired /\ q.queue = trk[t].queue
      /\ q.nlocal = trk[t].nlocal
  BY <1>1, Zenon DEF TrackerType
<1> HIDE DEF q
<1>4. Sound(L, q)
  BY <1>1, <1>3, TimerSound
<1>5. "TIMEOUT" \in Status /\ "TIMEOUT" \notin Good
  BY DEF Status, Good
<1>6. Sound(L, Drive(q, "TIMEOUT"))
  BY <1>1, <1>3, <1>4, <1>5, DriveSound
<1>7. \E r : TrackerStep(t, r) /\ Sound(L, r)
  BY <1>2, <1>6 DEF Timeout, q
<1> QED
  BY <1>7, OneTrackerStep, Zenon DEF TrackerStep

\* The host calls back only for a collective that nobody is awaited in.
LEMMA HostCallbackStep ==
  ASSUME IInv, TypeOK', NEW t \in Trk, HostCallback(t)
  PROVE  IInv'
<1> DEFINE L == LiveNames
           r == trk[t]
           q == [r EXCEPT !.owed = @ - 1]
<1>1. L \in SUBSET Names /\ r \in TrackerType /\ Sound(L, r) /\ r.owed > 0
  BY DEF LiveNames, IInv, TypeOK, HostCallback
<1>2. PICK s \in {"SUCCESS", "ERROR"} : TrackerStep(t, Drive(q, s))
  BY DEF HostCallback
<1> HIDE DEF r
<1>3. /\ q.linked = r.linked /\ q.pcs = r.pcs /\ q.local_cbs = r.local_cbs
      /\ q.departed = r.departed /\ q.host_called = r.host_called
      /\ q.completion_fired = r.completion_fired /\ q.queue = r.queue
      /\ q.nlocal = r.nlocal
  BY <1>1 DEF TrackerType
<1>4. q \in TrackerType
  BY <1>1, OwedType, Zenon
<1> HIDE DEF q
<1>5. r.linked => r.host_called /\ AwaitedIn(L, r) = {}
  BY <1>1, LocallyDoneIs DEF Sound
<1>6. AwaitedIn(L, q) = AwaitedIn(L, r)
  BY <1>3, AwaitedSame
<1>7. LocallyDone(q) <=> LocallyDone(r)
  BY <1>3 DEF LocallyDone, Completions
<1>8. Sound(L, q)
  BY <1>1, <1>3, <1>5, <1>6, <1>7 DEF Sound, OnlyCompletions, Counted
<1>9. s \in Status
  BY DEF Status
<1>10. Sound(L, Drive(q, s))
  BY <1>1, <1>3, <1>4, <1>5, <1>6, <1>8, <1>9, DriveSound
<1> QED
  BY <1>2, <1>10, OneTrackerStep, Zenon DEF TrackerStep

\* The completion handler does.
LEMMA CompletionHandlerStep ==
  ASSUME IInv, TypeOK', NEW t \in Trk, CompletionHandler(t)
  PROVE  IInv'
<1> DEFINE L == LiveNames
           r == trk[t]
           over == [Released(r) EXCEPT !.armed = @ /\ ~r.event_active, !.queue = Tail(@)]
<1>1. r \in TrackerType /\ Sound(L, r) /\ r.queue # <<>>
  BY DEF IInv, TypeOK, CompletionHandler, NextEvent
<1>2. trk' = [trk EXCEPT ![t] = over] /\ UNCHANGED <<nspace, peer, peerid>>
  BY DEF CompletionHandler
<1> HIDE DEF r
<1>3. /\ Released(r) \in TrackerType /\ Released(r).linked = FALSE
      /\ Released(r).departed = r.departed /\ Released(r).queue = r.queue
  BY <1>1, ReleasedType, Zenon DEF Released, TrackerType
<1>4. over.linked = FALSE /\ over.departed = r.departed /\ over.queue = Tail(r.queue)
  BY <1>3 DEF TrackerType
<1>5. r.queue \in Seq(Events)
  BY <1>1 DEF TrackerType
<1> HIDE DEF over
<1>6. OnlyCompletions(over)
  <2>1. /\ Len(Tail(r.queue)) = Len(r.queue) - 1 /\ Len(r.queue) \in Nat
        /\ \A i \in 1..Len(Tail(r.queue)) : Tail(r.queue)[i] = r.queue[i + 1]
    BY <1>1, <1>5
  <2>2. \A i \in 1..Len(Tail(r.queue)) : i + 1 \in 1..Len(r.queue)
    BY <2>1
  <2> QED
    BY <1>1, <1>4, <2>1, <2>2 DEF OnlyCompletions, Sound
<1>7. Sound(L, over)
  BY <1>1, <1>4, <1>6 DEF Sound
<1> QED
  BY <1>2, <1>7, OneTrackerStep, Zenon

\* No registration is late, so that no execution was ever shifted.
LEMMA NothingToExecute ==
  ASSUME IInv, NEW t \in Trk
  PROVE  ~ExecuteCollective(t) /\ ~ExecuteRetired(t)
<1>1. trk[t].queue \in Seq(Events) /\ OnlyCompletions(trk[t])
  BY DEF IInv, TypeOK, TrackerType, Sound
<1>2. trk[t].queue # <<>> => 1 \in 1..Len(trk[t].queue) /\ Head(trk[t].queue) = trk[t].queue[1]
  BY <1>1
<1> QED
  BY <1>1, <1>2 DEF ExecuteCollective, ExecuteRetired, NextEvent, OnlyCompletions

\* Nothing registers later where everything was registered before the launch.
LEMMA NothingToRegister ==
  ASSUME IInv
  PROVE  /\ \A ns \in NSpaces : ~RegisterNspace(ns)
         /\ \A n \in Names : ~RegisterClient(n)
<1>1. ASSUME NEW ns \in NSpaces
      PROVE  ~RegisterNspace(ns)
  BY Zenon DEF IInv, Ready, RegisterNspace
<1>2. ASSUME NEW n \in Names
      PROVE  ~RegisterClient(n)
  <2>1. n[1] \in NSpaces
    BY DEF Names
  <2>2. nspace[n[1]].ranks = Local[n[1]] \ nspace[n[1]].departed
    BY <2>1 DEF IInv, Ready
  <2> QED
    BY <2>2 DEF RegisterClient
<1> QED
  BY <1>1, <1>2, Zenon


-----------------------------------------------------------------------------
(* A client is lost.                                                       *)

\* Recording a departed member touches the departed and the status only.
LEMMA DepartedFields ==
  ASSUME NEW r \in TrackerType, NEW n \in Names
  PROVE  /\ Departed(r, n).linked = r.linked /\ Departed(r, n).pcs = r.pcs
         /\ Departed(r, n).local_cbs = r.local_cbs
         /\ Departed(r, n).departed = r.departed \cup {n}
         /\ Departed(r, n).owed = r.owed /\ Departed(r, n).host_called = r.host_called
         /\ Departed(r, n).completion_fired = r.completion_fired
         /\ Departed(r, n).queue = r.queue /\ Departed(r, n).nlocal = r.nlocal
BY DEF Departed, TrackerType

\* pmix_server_trk_peer_lost keeps a tracker sound: one more departed and one less is
\* awaited.
LEMMA LoseSound ==
  ASSUME NEW L \in SUBSET Names, NEW n \in L, NEW r \in TrackerType, Sound(L, r), r.linked,
         NEW rc
  PROVE  Sound(L \ {n}, LoseIn(r, n, rc))
<1> DEFINE K == L \ {n}
           d == Departed(r, n)
<1>1. K \in SUBSET Names /\ K \in SUBSET L /\ n \in Names
  OBVIOUS
<1>2. CASE ~LosesMember(r, n)
  BY <1>1, <1>2, SoundShrinks DEF LoseIn
<1>3. CASE LosesMember(r, n)
  <2>1. /\ d \in TrackerType /\ d.linked = r.linked /\ d.pcs = r.pcs
        /\ d.local_cbs = r.local_cbs /\ d.departed = r.departed \cup {n}
        /\ d.owed = r.owed /\ d.host_called = r.host_called
        /\ d.completion_fired = r.completion_fired
        /\ d.queue = r.queue /\ d.nlocal = r.nlocal
    BY <1>1, DepartedType, DepartedFields, Zenon
  <2> HIDE DEF d
  <2>2. n \notin r.departed /\ n \in AwaitedIn(L, r)
    BY <1>3 DEF Sound, AwaitedIn, LosesMember
  <2>3. AwaitedIn(K, d) = AwaitedIn(L, r) \ {n}
    BY <2>1 DEF AwaitedIn, Contributed
  <2>4. d.departed \cap K = {} /\ OnlyCompletions(d)
    BY <2>1 DEF Sound, OnlyCompletions
  <2>5. Counted(L, r) => Counted(K, d)
    <3>1. /\ IsFiniteSet(r.departed) /\ Cardinality(r.departed) \in Nat
          /\ IsFiniteSet(AwaitedIn(L, r)) /\ Cardinality(AwaitedIn(L, r)) \in Nat
          /\ Cardinality(r.local_cbs) \in Nat
      BY TrackerFinite
    <3>2. Cardinality(d.departed) = Cardinality(r.departed) + 1
      BY <2>1, <2>2, <3>1, FS_AddElement, Zenon
    <3>3. Cardinality(AwaitedIn(K, d)) = Cardinality(AwaitedIn(L, r)) - 1
      <4>1. Cardinality(AwaitedIn(L, r) \ {n}) = Cardinality(AwaitedIn(L, r)) - 1
        BY <2>2, <3>1, FS_RemoveElement, Zenon
      <4> HIDE DEF K
      <4> QED
        BY <2>3, <4>1
    <3>4. r.nlocal \in Nat
      BY DEF TrackerType
    <3> QED
      BY <2>1, <3>1, <3>2, <3>3, <3>4 DEF Counted
  <2>6. LocallyDone(d) <=> LocallyDone(r)
    BY <2>1 DEF LocallyDone, Completions
  <2>7. Sound(K, d)
    BY <2>1, <2>3, <2>4, <2>5, <2>6 DEF Sound
  <2>8. CASE ~LossCompletes(r, n)
    BY <1>3, <2>7, <2>8 DEF LoseIn, d
  <2>9. CASE LossCompletes(r, n)
    <3>1. Counted(K, d)
      BY <2>5, <2>9 DEF LossCompletes, Sound
    <3>2. AwaitedIn(K, d) = {}
      BY <1>1, <2>1, <2>9, <3>1, CompleteMeansNobodyAwaited DEF LossCompletes, d
    <3>3. CASE d.local
      <4> DEFINE q == CancelTimer(d)
      <4>1. q \in TrackerType /\ Sound(K, q)
        BY <1>1, <2>1, <2>7, CancelTimerType, CancelTimerFields, TimerSound
      <4>2. AwaitedIn(K, q) = {}
        BY <2>1, <3>2, CancelTimerFields, AwaitedSame, Zenon
      <4>3. d.status \in Status
        BY <2>1 DEF TrackerType
      <4> HIDE DEF q
      <4>4. Sound(K, Drive(q, d.status))
        BY <1>1, <4>1, <4>2, <4>3, DriveSound
      <4> QED
        BY <1>3, <2>9, <3>3, <4>4 DEF LoseIn, d, q
    <3>4. CASE ~d.local /\ rc = "SUCCESS"
      <4>1. {} \in SUBSET Names
        OBVIOUS
      <4>2. Sound(K, [UpCall(d, {}) EXCEPT !.owed = @ + 1])
        BY <1>1, <2>1, <2>4, <3>1, <3>2, <4>1, HandedUpSound, Zenon
      <4> QED
        BY <1>3, <2>9, <3>4, <4>2 DEF LoseIn, d
    <3>5. CASE ~d.local /\ rc # "SUCCESS"
      <4> DEFINE u == UpCall(d, {})
                 q == Released(u)
      <4>1. {} \in SUBSET Names
        OBVIOUS
      <4>2. u \in TrackerType /\ u.departed = d.departed /\ u.queue = d.queue
        BY <2>1, <4>1, UpCallType, UpCallFields, Zenon
      <4> HIDE DEF u
      <4>3. q.linked = FALSE /\ q.departed = d.departed /\ q.queue = d.queue
        BY <4>2 DEF Released, TrackerType
      <4>4. Sound(K, q)
        BY <2>4, <4>3 DEF Sound, OnlyCompletions
      <4> QED
        BY <1>3, <2>9, <3>5, <4>4 DEF LoseIn, d, u
    <3> QED
      BY <3>3, <3>4, <3>5
  <2> QED
    BY <2>8, <2>9
<1> QED
  BY <1>2, <1>3


=============================================================================
