----------------------- MODULE GroupCollectivesProofs -----------------------
(***************************************************************************)
(* Proofs about group construct and destruct: a completion never finds its *)
(* block gone, and the host is never handed a block that still waits for a *)
(* member.  Both follow from one invariant, whose core is a count: as long *)
(* as a block is not passed up, the members that have called, have         *)
(* departed or can still do either are no more than its nlocal.            *)
(***************************************************************************)
EXTENDS GroupCollectives, FiniteSetTheorems, TLAPS

NoTimer(s) == \A info \in s.directives : "TIMEOUT" \notin info
Both(s) == s.leaves # 0 /\ s.losses # 0

\* What is asked of the members and of the host.  A member that left does not construct the
\* group again; the host does not complete a bootstrap call at once, before the others have
\* called; members whose directives do not aggregate set no timer; and where members both
\* leave and die there is no timer and the directives aggregate.
Orderly ==
  \A s \in Scenarios :
    /\ ~s.rejoin
    /\ s.bootstrap => "OPERATION_SUCCEEDED" \notin s.returns
    /\ s.mismatch => NoTimer(s)
    /\ Both(s) => NoTimer(s) /\ ~s.mismatch

-----------------------------------------------------------------------------
(* The invariant.                                                          *)

\* The members and what they know of one another.
Standing ==
  /\ scenario.leaves = 0 => \A p \in Procs : member[p] # "left"
  /\ scenario.losses = 0 => alive = Procs
  /\ nlocalprocs = Cardinality(alive)
  /\ ~scenario.bootstrap =>
       /\ \A p \in Able : member[p] = "in" => Able \subseteq membership
       /\ NoTimer(scenario) => \A p, q \in Able : member[p] = member[q]

\* The members that block B counts, or may yet count.
Reach(B) ==
  B.mbrs \cup B.departed \cup Able \cup IF Both(scenario) THEN alive \cap B.expected ELSE {}

\* A block that collects calls.
Sound(B) ==
  /\ \A p \in B.mbrs : (p \in parked \/ p \notin alive) /\ member[p] # "left"
  /\ B.mbrs \cap B.departed = {} /\ B.departed \cap Able = {}
  /\ B.mbrs \subseteq B.expected
  /\ NoTimer(scenario) => ~B.event_active
  /\ Both(scenario) => \A p \in Able : IF member[p] = "in" THEN membership \subseteq B.expected
                                       ELSE B.expected = Procs
  /\ ~B.def_complete => B.nlocal = 0 /\ B.departed = {}
  /\ B.def_complete /\ ~B.host_called => Cardinality(Reach(B)) <= B.nlocal

\* The blocks: only those on the list are in use, and one at most unless members bootstrap.
Blocks ==
  /\ \A b \in Blk : ~blk[b].linked => blk[b] = Unused
  /\ ~scenario.bootstrap =>
       /\ \A b \in Linked : Sound(blk[b])
       /\ \A b, c \in Linked : b = c
  /\ scenario.bootstrap =>
       \A b \in Linked : ~blk[b].event_active /\ blk[b].expected \subseteq blk[b].mbrs

\* Everybody who can still call has called on B.
Full(B) == Able \subseteq B.mbrs

\* The completion e of block B, shifted: nothing else will complete B.
Shifted(B, e) ==
  /\ B.linked
  /\ ~scenario.bootstrap =>
       /\ B.host_called \/ (scenario.mismatch /\ Full(B))
       /\ (e.status = "TIMEOUT" /\ ~NoTimer(scenario)) \/ Full(B)
  /\ scenario.bootstrap => \A p \in alive : p \in parked \/ calls[p] = MaxCalls

\* What is on its way to complete a block: the host's callback, or one shifted completion.
Pending ==
  /\ \A b \in host :
       /\ blk[b].linked
       /\ ~scenario.bootstrap => blk[b].host_called /\ ~blk[b].event_active /\ Full(blk[b])
  /\ shifted # <<>> => host = {} /\ Len(shifted) = 1 /\ Shifted(blk[shifted[1].blk], shifted[1])

GroupInv == TypeOK /\ Standing /\ Blocks /\ Pending

-----------------------------------------------------------------------------
(* Counting.                                                               *)

\* A set of members is finite.
LEMMA Finite ==
  ASSUME NEW S \in SUBSET Procs
  PROVE  IsFiniteSet(S) /\ Cardinality(S) \in Nat
BY GroupAssumption, FS_Subset, FS_CardinalityType

\* When those who called and those who departed are as many as those who may do either,
\* there is nobody else.
LEMMA AllCounted ==
  ASSUME NEW M \in SUBSET Procs, NEW D \in SUBSET Procs, NEW R \in SUBSET Procs, NEW n \in Nat,
         M \cap D = {}, M \cup D \subseteq R,
         Cardinality(R) <= n, Cardinality(M) + Cardinality(D) >= n
  PROVE  R \subseteq M \cup D
<1>1. Cardinality(M \cup D) = Cardinality(M) + Cardinality(D)
  <2>1. Cardinality({}) = 0
    BY FS_EmptySet
  <2>2. Cardinality(M \cup D) = Cardinality(M) + Cardinality(D) - Cardinality(M \cap D)
    BY Finite, FS_Union
  <2>3. QED
    BY <2>1, <2>2, Finite
<1>2. Cardinality(M \cup D) = Cardinality(R) => M \cup D = R
  BY Finite, FS_Subset
<1>3. Cardinality(M \cup D) <= Cardinality(R)
  BY Finite, FS_Subset
<1>4. Cardinality(M) \in Nat /\ Cardinality(D) \in Nat /\ Cardinality(R) \in Nat
  BY Finite
<1>5. QED
  BY <1>1, <1>2, <1>3, <1>4

\* A namespace counted k times over is enough for its processes and for k - 1 that are gone.
LEMMA CountedTimes ==
  ASSUME NEW k \in Nat, NEW n \in Nat, k > 0, n > 0
  PROVE  k * n >= n /\ k * n >= (k - 1) + n
<1>1. PICK j \in Nat, m \in Nat : k = j + 1 /\ n = m + 1
  <2>1. k - 1 \in Nat /\ n - 1 \in Nat /\ k = (k - 1) + 1 /\ n = (n - 1) + 1
    OBVIOUS
  <2>2. QED
    BY <2>1
<1>2. k * n = j * m + j + m + 1 /\ j * m \in Nat
  BY <1>1
<1>3. QED
  BY <1>1, <1>2

-----------------------------------------------------------------------------
(* What the operators return.                                              *)

\* N is block B after a call of p that names procs: one caller more, the members it names
\* expected, and the count fixed at the first call made when everybody is registered.
Called(N, B, p, procs, wildcard) ==
  /\ N.linked /\ N.mbrs = B.mbrs \cup {p} /\ N.expected = B.expected \cup procs
  /\ N.departed = B.departed /\ N.host_called = B.host_called
  /\ B.def_complete => N.def_complete /\ N.nlocal = B.nlocal
  /\ ~B.def_complete /\ ~registered => ~N.def_complete /\ N.nlocal = B.nlocal
  /\ ~B.def_complete /\ registered =>
       /\ N.def_complete
       /\ N.nlocal = Cardinality(N.mbrs) * IF wildcard THEN nlocalprocs ELSE Cardinality(N.expected)

\* Join makes that block, and leaves the timer alone.
LEMMA JoinFields ==
  ASSUME TypeOK, NEW B \in BlockType, NEW p \in Procs, NEW procs \in SUBSET Procs,
         NEW wildcard \in BOOLEAN, NEW J, J = Join(B, p, procs, wildcard)
  PROVE  J \in BlockType /\ Called(J, B, p, procs, wildcard) /\ J.event_active = B.event_active
<1> DEFINE since == IF B.linked THEN B.since ELSE Able
<1>1. PICK K : K = [B EXCEPT !.linked = TRUE, !.mbrs = @ \cup {p}, !.expected = @ \cup procs,
                             !.since = since]
  OBVIOUS
<1>2. since \in SUBSET Procs
  BY DEF TypeOK, BlockType, Able
<1> HIDE DEF since
<1>3. /\ K \in BlockType /\ K.linked /\ K.mbrs = B.mbrs \cup {p} /\ K.expected = B.expected \cup procs
      /\ K.departed = B.departed /\ K.event_active = B.event_active
      /\ K.host_called = B.host_called /\ K.def_complete = B.def_complete /\ K.nlocal = B.nlocal
  BY <1>1, <1>2, Zenon DEF BlockType
<1>4. J = check_definition_complete(K, wildcard)
  BY <1>1 DEF Join, since
<1>5. PICK n : n = IF wildcard THEN nlocalprocs ELSE Cardinality(K.expected)
  OBVIOUS
<1>6. PICK c : c = Cardinality(K.mbrs) * n
  OBVIOUS
<1>7. c \in Nat
  <2>1. Cardinality(K.mbrs) \in Nat /\ Cardinality(K.expected) \in Nat
    BY <1>3, Finite DEF BlockType
  <2>2. n \in Nat
    BY <1>5, <2>1 DEF TypeOK
  <2>3. QED
    BY <1>6, <2>1, <2>2
<1>8. CASE K.def_complete \/ ~registered
  <2>1. J = K
    BY <1>4, <1>8 DEF check_definition_complete
  <2>2. QED
    BY <1>3, <1>8, <2>1 DEF Called
<1>9. CASE ~(K.def_complete \/ ~registered)
  <2>1. J = [K EXCEPT !.def_complete = TRUE, !.nlocal = c]
    BY <1>4, <1>5, <1>6, <1>9 DEF check_definition_complete
  <2>2. /\ J \in BlockType /\ J.linked = K.linked /\ J.mbrs = K.mbrs /\ J.expected = K.expected
        /\ J.departed = K.departed /\ J.event_active = K.event_active
        /\ J.host_called = K.host_called /\ J.def_complete /\ J.nlocal = c
    <3>1. J \in BlockType
      BY <1>3, <1>7, <2>1 DEF BlockType
    <3>2. /\ J.linked = K.linked /\ J.mbrs = K.mbrs /\ J.expected = K.expected
          /\ J.departed = K.departed /\ J.event_active = K.event_active
          /\ J.host_called = K.host_called /\ J.def_complete /\ J.nlocal = c
      BY <1>3, <2>1, Zenon DEF BlockType
    <3>3. QED
      BY <3>1, <3>2, Zenon
  <2>3. QED
    BY <1>3, <1>5, <1>6, <1>9, <2>2 DEF Called
<1>10. QED
  BY <1>8, <1>9

\* What a call makes of block b.
Op(p) == IF member[p] = "in" THEN "DESTRUCT" ELSE "CONSTRUCT"
Named(p) == IF Op(p) = "CONSTRUCT" THEN Procs ELSE membership
Joined(b, p) == Join(blk[b], p, Named(p), Op(p) = "CONSTRUCT" /\ scenario.wildcard)
Arrived(b, p, info) ==
  [Joined(b, p) EXCEPT !.grpop = Op(p), !.info = @ \cup info,
                       !.event_active = @ \/ "TIMEOUT" \in info]

\* Two values of a block that count alike.
Alike(N, B) ==
  /\ N.linked = B.linked /\ N.expected = B.expected /\ N.mbrs = B.mbrs /\ N.departed = B.departed
  /\ N.def_complete = B.def_complete /\ N.nlocal = B.nlocal
  /\ N.event_active => B.event_active
  /\ B.host_called => N.host_called

\* Block b is left as N: not frozen, with one completion shifted; or frozen, and the host
\* has it or one completion is shifted.
PassedUp(b, N) ==
  \/ /\ scenario.mismatch /\ host' = host
     /\ shifted' = Append(shifted, [blk |-> b, status |-> "MISMATCH"])
  \/ /\ N.host_called /\ ~N.event_active
     /\ \/ /\ host' = host
           /\ \E st \in Status \ {"TIMEOUT"} : shifted' = Append(shifted, [blk |-> b, status |-> st])
        \/ host' = host \cup {b} /\ shifted' = shifted

\* A frozen block counts what it did.
LEMMA FrozenFields ==
  ASSUME NEW B \in BlockType
  PROVE  /\ Frozen(B) \in BlockType /\ Alike(Frozen(B), B)
         /\ Frozen(B).host_called /\ ~Frozen(B).event_active
BY Zenon DEF Frozen, BlockType, Alike

\* The one element of a sequence of length one.
LEMMA OneElement ==
  ASSUME NEW S, NEW s \in Seq(S), Len(s) = 1
  PROVE  s[1] \in S /\ Head(s) = s[1] /\ Tail(s) = <<>> /\ 1 \in DOMAIN s
<1>1. s[1] \in S /\ Head(s) = s[1] /\ 1 \in DOMAIN s
  OBVIOUS
<1>2. Tail(s) \in Seq(S) /\ Len(Tail(s)) = 0
  OBVIOUS
<1>3. \A r \in Seq(S) : Len(r) = 0 => r = <<>>
  OBVIOUS
<1>4. QED
  BY <1>1, <1>2, <1>3, Zenon

\* The first element of a sequence, the rest, and one element more.
LEMMA Elements ==
  ASSUME NEW S, NEW s \in Seq(S)
  PROVE  /\ s # <<>> => Head(s) \in S /\ Tail(s) \in Seq(S)
         /\ \A e \in S : Append(s, e) \in Seq(S)
OBVIOUS

\* Passing block B up leaves what it counts alone.
LEMMA ForwardEffect ==
  ASSUME NEW b \in Blk, NEW B \in BlockType, Forward(b, B)
  PROVE  \E N \in BlockType : blk' = [blk EXCEPT ![b] = N] /\ Alike(N, B) /\ PassedUp(b, N)
<1> DEFINE degraded == B.departed # {}
           excused == B.grpop = "DESTRUCT" /\ "NOTIFY_TERMINATION" \in B.info
           up == [Frozen(B) EXCEPT !.status = IF degraded /\ ~excused THEN "LOST_CONNECTION" ELSE @]
<1>1. Frozen(B) \in BlockType /\ Alike(Frozen(B), B) /\ Frozen(B).host_called /\ ~Frozen(B).event_active
  BY FrozenFields
<1>2. up \in BlockType /\ Alike(up, B) /\ up.host_called /\ ~up.event_active
  BY Zenon DEF Frozen, BlockType, Alike
<1>3. CASE blk' = [blk EXCEPT ![b] = B] /\ scenario.mismatch /\ Shift(b, "MISMATCH") /\ UNCHANGED host
  <2>1. Alike(B, B)
    BY DEF Alike
  <2>2. QED
    BY <1>3, <2>1, Zenon DEF PassedUp, Shift
<1>4. CASE abort_construct(b, B, "CONSTRUCT_ABORT")
  BY <1>1, <1>4, Zenon DEF abort_construct, PassedUp, Shift, Status
<1>5. CASE /\ blk' = [blk EXCEPT ![b] = up]
           /\ \E r \in scenario.returns :
                \/ r = "SUCCESS" /\ host' = host \cup {b} /\ UNCHANGED shifted
                \/ r = "OPERATION_SUCCEEDED" /\ Shift(b, "SUCCESS") /\ UNCHANGED host
                \/ r = "ERROR" /\ Shift(b, "ERROR") /\ UNCHANGED host
  <2> HIDE DEF up
  <2>1. PassedUp(b, up)
    BY <1>2, <1>5 DEF PassedUp, Shift, Status
  <2>2. QED
    BY <1>2, <1>5, <2>1, Zenon
<1>6. QED
  BY <1>3, <1>4, <1>5 DEF Forward

\* A call for the group arrives at block b, which is passed up when that completes it.
LEMMA CallEffect ==
  ASSUME NEW p \in Procs, pmix_server_group(p)
  PROVE  \E info \in scenario.directives : \E b \in IF Linked = {} THEN Fresh ELSE Linked :
           LET B == Arrived(b, p, info)
           IN \/ /\ B.host_called \/ ~grp_blk_locally_complete(B)
                 /\ blk' = [blk EXCEPT ![b] = B] /\ UNCHANGED <<shifted, host>>
              \/ ~B.host_called /\ grp_blk_locally_complete(B) /\ Forward(b, B)
BY Zenon DEF pmix_server_group, Arrived, Joined, Named, Op

\* The block after a call, seen from the block before it.
LEMMA ArrivedFields ==
  ASSUME TypeOK, NEW b \in Blk, NEW p \in Procs, NEW info \in scenario.directives,
         NEW B, B = Arrived(b, p, info)
  PROVE  /\ B \in BlockType
         /\ Called(B, blk[b], p, Named(p), Op(p) = "CONSTRUCT" /\ scenario.wildcard)
         /\ B.event_active => blk[b].event_active \/ "TIMEOUT" \in info
<1>1. PICK w : w = (Op(p) = "CONSTRUCT" /\ scenario.wildcard)
  OBVIOUS
<1>2. PICK J : J = Joined(b, p)
  OBVIOUS
<1>3. blk[b] \in BlockType /\ Named(p) \in SUBSET Procs /\ w \in BOOLEAN /\ info \in SUBSET Directives
  BY <1>1, GroupAssumption DEF TypeOK, Named, ScenarioType, Directives
<1>4. J = Join(blk[b], p, Named(p), w)
  BY <1>1, <1>2 DEF Joined
<1>5. /\ J \in BlockType /\ Called(J, blk[b], p, Named(p), w)
      /\ J.event_active = blk[b].event_active
  BY <1>3, <1>4, JoinFields
<1>6. B = [J EXCEPT !.grpop = Op(p), !.info = @ \cup info,
                    !.event_active = @ \/ "TIMEOUT" \in info]
  BY <1>2 DEF Arrived
<1>7. /\ B \in BlockType /\ B.linked = J.linked /\ B.mbrs = J.mbrs /\ B.expected = J.expected
      /\ B.departed = J.departed /\ B.host_called = J.host_called
      /\ B.event_active = (J.event_active \/ "TIMEOUT" \in info)
      /\ B.def_complete = J.def_complete /\ B.nlocal = J.nlocal
  <2>1. Op(p) \in {"NONE", "CONSTRUCT", "DESTRUCT"}
    BY DEF Op
  <2>2. PICK timed \in BOOLEAN : timed = (J.event_active \/ "TIMEOUT" \in info)
    BY <1>5, Zenon DEF BlockType
  <2>3. PICK given \in SUBSET Directives : given = J.info \cup info
    BY <1>3, <1>5, Zenon DEF BlockType
  <2>4. B = [J EXCEPT !.grpop = Op(p), !.info = given, !.event_active = timed]
    BY <1>6, <2>2, <2>3
  <2>5. /\ B \in BlockType /\ B.linked = J.linked /\ B.mbrs = J.mbrs /\ B.expected = J.expected
        /\ B.departed = J.departed /\ B.host_called = J.host_called /\ B.event_active = timed
        /\ B.def_complete = J.def_complete /\ B.nlocal = J.nlocal
    BY <1>5, <2>1, <2>4, Zenon DEF BlockType
  <2>6. QED
    BY <2>2, <2>5
<1>8. Called(B, blk[b], p, Named(p), w)
  BY <1>5, <1>7 DEF Called
<1>9. QED
  BY <1>1, <1>5, <1>7, <1>8, Zenon

\* p departs from block b.
Without(b, p) == [blk[b] EXCEPT !.departed = @ \cup {p}]

\* A departure is not recorded, or it is and the block waits on, or it is and the block is
\* passed up.
LEMMA DepartEffect ==
  ASSUME TypeOK, NEW p \in Procs, Depart(p)
  PROVE  \/ UNCHANGED <<blk, shifted, host>>
         \/ /\ ~scenario.bootstrap
            /\ \E b \in Linked :
                 /\ blk[b].nlocal # 0 /\ ~blk[b].host_called
                 /\ p \in blk[b].expected /\ p \notin blk[b].mbrs
                 /\ \/ blk' = [blk EXCEPT ![b] = Without(b, p)] /\ UNCHANGED <<shifted, host>>
                    \/ grp_blk_locally_complete(Without(b, p)) /\ Forward(b, Without(b, p))
BY DEF Depart, account_departed, Without

\* B is block C but for the departure of p.
Deprived(B, C, p) ==
  /\ B.departed = C.departed \cup {p}
  /\ B.linked = C.linked /\ B.expected = C.expected /\ B.mbrs = C.mbrs
  /\ B.def_complete = C.def_complete /\ B.nlocal = C.nlocal
  /\ B.event_active = C.event_active /\ B.host_called = C.host_called

\* What it leaves of the block.
LEMMA WithoutFields ==
  ASSUME TypeOK, NEW b \in Blk, NEW p \in Procs, NEW B, B = Without(b, p)
  PROVE  B \in BlockType /\ Deprived(B, blk[b], p)
<1>1. blk[b] \in BlockType /\ B = [blk[b] EXCEPT !.departed = blk[b].departed \cup {p}]
  BY DEF Without, TypeOK
<1>2. QED
  BY <1>1 DEF BlockType, Deprived

-----------------------------------------------------------------------------
(* Types.                                                                  *)

\* The block, the shifted completions and the host's blocks after block b was passed up.
LEMMA PassedType ==
  ASSUME TypeOK, NEW b \in Blk, NEW N \in BlockType, blk' = [blk EXCEPT ![b] = N], PassedUp(b, N)
  PROVE  /\ blk' \in [Blk -> BlockType] /\ host' \subseteq Blk
         /\ shifted' \in Seq([blk : Blk, status : Status])
<1>1. \A st \in Status : Append(shifted, [blk |-> b, status |-> st]) \in Seq([blk : Blk, status : Status])
  BY DEF TypeOK
<1>2. "MISMATCH" \in Status
  BY DEF Status
<1>3. blk' \in [Blk -> BlockType]
  BY DEF TypeOK
<1>4. shifted' \in Seq([blk : Blk, status : Status])
  BY <1>1, <1>2, Zenon DEF PassedUp, TypeOK
<1>5. host' \subseteq Blk
  BY DEF PassedUp, TypeOK
<1>6. QED
  BY <1>3, <1>4, <1>5

\* The handlers keep the types of the blocks and of what is under way.
LEMMA CallType ==
  ASSUME TypeOK, NEW p \in Procs, pmix_server_group(p) \/ Depart(p)
  PROVE  /\ blk' \in [Blk -> BlockType] /\ host' \subseteq Blk
         /\ shifted' \in Seq([blk : Blk, status : Status])
<1>1. ASSUME NEW b \in Blk, NEW B \in BlockType, Forward(b, B)
      PROVE  /\ blk' \in [Blk -> BlockType] /\ host' \subseteq Blk
             /\ shifted' \in Seq([blk : Blk, status : Status])
  <2>1. PICK N \in BlockType : blk' = [blk EXCEPT ![b] = N] /\ PassedUp(b, N)
    BY <1>1, ForwardEffect
  <2>2. QED
    BY <2>1, PassedType, Zenon
<1>2. ASSUME NEW b \in Blk, NEW B \in BlockType, blk' = [blk EXCEPT ![b] = B],
             UNCHANGED <<shifted, host>>
      PROVE  /\ blk' \in [Blk -> BlockType] /\ host' \subseteq Blk
             /\ shifted' \in Seq([blk : Blk, status : Status])
  BY <1>2 DEF TypeOK
<1>3. CASE pmix_server_group(p)
  <2>1. PICK info \in scenario.directives, b \in IF Linked = {} THEN Fresh ELSE Linked :
          \/ blk' = [blk EXCEPT ![b] = Arrived(b, p, info)] /\ UNCHANGED <<shifted, host>>
          \/ Forward(b, Arrived(b, p, info))
    BY <1>3, CallEffect
  <2>2. b \in Blk
    BY DEF Linked, Fresh
  <2>3. Arrived(b, p, info) \in BlockType
    BY <2>2, ArrivedFields, Zenon
  <2>4. QED
    BY <1>1, <1>2, <2>1, <2>2, <2>3, Zenon
<1>4. CASE Depart(p)
  <2>1. CASE UNCHANGED <<blk, shifted, host>>
    BY <2>1 DEF TypeOK
  <2>2. CASE \E b \in Linked :
               \/ blk' = [blk EXCEPT ![b] = Without(b, p)] /\ UNCHANGED <<shifted, host>>
               \/ Forward(b, Without(b, p))
    <3>1. PICK b \in Linked :
               \/ blk' = [blk EXCEPT ![b] = Without(b, p)] /\ UNCHANGED <<shifted, host>>
               \/ Forward(b, Without(b, p))
      BY <2>2
    <3>2. b \in Blk
      BY DEF Linked
    <3>3. Without(b, p) \in BlockType
      BY <3>2, WithoutFields
    <3>4. QED
      BY <1>1, <1>2, <3>1, <3>2, <3>3, Zenon
  <2>3. QED
    BY <1>4, <2>1, <2>2, DepartEffect
<1>5. QED
  BY <1>3, <1>4

\* Unused is a block.
LEMMA UnusedType == Unused \in BlockType
BY DEF Unused, BlockType

\* Every step keeps the types.
LEMMA TypeStep ==
  ASSUME TypeOK, [Next]_vars
  PROVE  TypeOK'
<1>1. ASSUME NEW p \in Procs, pmix_server_group(p)
      PROVE  TypeOK'
  <2>1. /\ blk' \in [Blk -> BlockType] /\ host' \subseteq Blk
        /\ shifted' \in Seq([blk : Blk, status : Status])
    BY <1>1, CallType, Zenon
  <2>2. calls' \in [Procs -> 0..MaxCalls] /\ parked' \subseteq Procs
    BY <1>1, GroupAssumption DEF pmix_server_group, MayCall, TypeOK
  <2>3. UNCHANGED <<scenario, registered, nlocalprocs, member, alive, membership, told>>
    BY <1>1 DEF pmix_server_group
  <2>4. QED
    BY <2>1, <2>2, <2>3 DEF TypeOK
<1>2. ASSUME NEW p \in Procs, pmix_server_group_bootstrap(p)
      PROVE  TypeOK'
  <2> DEFINE B == [Unused EXCEPT !.linked = TRUE, !.grpop = "CONSTRUCT", !.mbrs = {p},
                                 !.expected = {p}, !.def_complete = TRUE, !.since = {p}]
  <2>1. B \in BlockType
    BY Zenon DEF Unused, BlockType
  <2> HIDE DEF B
  <2>2. PICK b \in Fresh, r \in scenario.returns :
          /\ blk' = [blk EXCEPT ![b] = IF r = "ERROR" THEN Unused ELSE B]
          /\ host' = IF r = "SUCCESS" THEN host \cup {b} ELSE host
          /\ IF r = "OPERATION_SUCCEEDED" THEN Shift(b, "SUCCESS") ELSE UNCHANGED shifted
          /\ parked' = IF r = "ERROR" THEN parked ELSE parked \cup {p}
    BY <1>2, Zenon DEF pmix_server_group_bootstrap, B
  <2>3. b \in Blk /\ "SUCCESS" \in Status
    BY DEF Fresh, Status
  <2>4. blk' \in [Blk -> BlockType]
    BY <2>1, <2>2, <2>3, UnusedType DEF TypeOK
  <2>5. shifted' \in Seq([blk : Blk, status : Status])
    <3>1. [blk |-> b, status |-> "SUCCESS"] \in [blk : Blk, status : Status]
      BY <2>3
    <3>2. shifted \in Seq([blk : Blk, status : Status])
      BY DEF TypeOK
    <3>3. Append(shifted, [blk |-> b, status |-> "SUCCESS"]) \in Seq([blk : Blk, status : Status])
      BY <3>1, <3>2
    <3>4. QED
      BY <2>2, <3>2, <3>3, Zenon DEF Shift
  <2>6. calls' \in [Procs -> 0..MaxCalls]
    BY <1>2, GroupAssumption DEF pmix_server_group_bootstrap, MayCall, TypeOK
  <2>7. UNCHANGED <<scenario, registered, nlocalprocs, member, alive, membership, told>>
    BY <1>2 DEF pmix_server_group_bootstrap
  <2>8. host' \subseteq Blk /\ parked' \subseteq Procs
    BY <2>2, <2>3 DEF TypeOK
  <2>9. QED
    BY <2>4, <2>5, <2>6, <2>7, <2>8 DEF TypeOK
<1>3. ASSUME NEW p \in Procs, pmix_server_grp_peer_lost(p)
      PROVE  TypeOK'
  <2>1. /\ blk' \in [Blk -> BlockType] /\ host' \subseteq Blk
        /\ shifted' \in Seq([blk : Blk, status : Status])
    BY <1>3, CallType, Zenon DEF pmix_server_grp_peer_lost
  <2>2. nlocalprocs' \in 0..Cardinality(Procs)
    BY <1>3, Finite DEF pmix_server_grp_peer_lost, TypeOK
  <2>3. QED
    BY <1>3, <2>1, <2>2 DEF pmix_server_grp_peer_lost, TypeOK
<1>4. ASSUME NEW p \in Procs, pmix_server_grp_member_left(p)
      PROVE  TypeOK'
  <2>1. /\ blk' \in [Blk -> BlockType] /\ host' \subseteq Blk
        /\ shifted' \in Seq([blk : Blk, status : Status])
    BY <1>4, CallType, Zenon DEF pmix_server_grp_member_left
  <2>2. QED
    BY <1>4, <2>1 DEF pmix_server_grp_member_left, TypeOK
<1>5. ASSUME NEW b \in Blk, group_timeout(b)
      PROVE  TypeOK'
  <2>1. Frozen(blk[b]) \in BlockType
    BY FrozenFields DEF TypeOK
  <2>2. blk' \in [Blk -> BlockType]
    BY <1>5, <2>1 DEF group_timeout, abort_construct, TypeOK
  <2>3. shifted' \in Seq([blk : Blk, status : Status])
    BY <1>5 DEF group_timeout, abort_construct, Shift, Status, TypeOK
  <2>4. UNCHANGED <<scenario, registered, nlocalprocs, host, member, alive, parked, calls, membership, told>>
    BY <1>5 DEF group_timeout, abort_construct
  <2>5. QED
    BY <2>2, <2>3, <2>4 DEF TypeOK
<1>6. ASSUME NEW b \in Blk, NEW st \in {"SUCCESS", "ERROR"}, HostCallback(b, st)
      PROVE  TypeOK'
  <2>1. shifted' \in Seq([blk : Blk, status : Status])
    BY <1>6 DEF HostCallback, Shift, Status, TypeOK
  <2>2. QED
    BY <1>6, <2>1 DEF HostCallback, TypeOK
<1>7. CASE grpcbfunc
  <2>1. blk' \in [Blk -> BlockType]
    BY <1>7, UnusedType DEF grpcbfunc
  <2>2. shifted' \in Seq([blk : Blk, status : Status])
    BY <1>7 DEF grpcbfunc, TypeOK
  <2>3. Head(shifted) \in [blk : Blk, status : Status]
    BY <1>7, Elements, Zenon DEF grpcbfunc, TypeOK
  <2> DEFINE done == Head(shifted)
             B == blk[done.blk]
             answered == UNION {blk[b].mbrs : b \in Linked}
             lost == UNION {blk[b].departed : b \in Linked}
             notify == done.status = "SUCCESS" /\ \/ B.grpop = "CONSTRUCT"
                                                  \/ B.grpop = "DESTRUCT" /\ "NOTIFY_TERMINATION" \in B.info
  <2>4. B \in BlockType /\ answered \subseteq Procs /\ lost \subseteq Procs
    BY <2>3 DEF TypeOK, BlockType, Linked
  <2>5. /\ parked' = parked \ answered
        /\ member' = [p \in Procs |->
             IF p \notin answered THEN member[p]
             ELSE IF done.status = "SUCCESS" /\ B.grpop = "CONSTRUCT" THEN "in" ELSE "out"]
        /\ membership' = IF done.status = "SUCCESS" /\ B.grpop = "CONSTRUCT" THEN answered ELSE membership
        /\ told' = [op |-> B.grpop, status |-> done.status, shown |-> B.status,
                    missing |-> (B.expected \cap B.since) \ answered,
                    events |-> IF notify THEN lost ELSE {}]
    BY <1>7 DEF grpcbfunc
  <2> HIDE DEF done, B, answered, lost, notify
  <2>6. told' \in [op : {"NONE", "CONSTRUCT", "DESTRUCT"}, status : Status,
                   shown : {"SUCCESS", "LOST_CONNECTION"},
                   missing : SUBSET Procs, events : SUBSET Procs]
    <3>1. (IF notify THEN lost ELSE {}) \in SUBSET Procs /\ (B.expected \cap B.since) \ answered \in SUBSET Procs
      BY <2>4 DEF BlockType
    <3>2. done.status \in Status /\ B.grpop \in {"NONE", "CONSTRUCT", "DESTRUCT"}
          /\ B.status \in {"SUCCESS", "LOST_CONNECTION"}
      BY <2>3, <2>4 DEF done, BlockType
    <3>3. QED
      BY <2>5, <3>1, <3>2
  <2>7. member' \in [Procs -> {"out", "in", "left"}] /\ parked' \subseteq Procs /\ membership' \subseteq Procs
    BY <2>4, <2>5 DEF TypeOK
  <2>8. UNCHANGED <<scenario, registered, nlocalprocs, host, alive, calls>>
    BY <1>7 DEF grpcbfunc
  <2>9. QED
    BY <2>1, <2>2, <2>6, <2>7, <2>8 DEF TypeOK
<1>8. CASE Register
  BY <1>8 DEF Register, TypeOK
<1>9. CASE UNCHANGED vars
  BY <1>9 DEF vars, TypeOK
<1>10. QED
  BY <1>1, <1>2, <1>3, <1>4, <1>5, <1>6, <1>7, <1>8, <1>9 DEF Next

-----------------------------------------------------------------------------
(* What keeps the invariant.                                               *)

\* What the hypothesis says of the scenario at hand.
LEMMA Allowed ==
  ASSUME TypeOK, Orderly
  PROVE  /\ ~scenario.rejoin /\ scenario.losses \in Nat /\ scenario.leaves \in Nat
         /\ scenario.bootstrap => "OPERATION_SUCCEEDED" \notin scenario.returns
         /\ scenario.mismatch => NoTimer(scenario)
         /\ Both(scenario) => NoTimer(scenario) /\ ~scenario.mismatch
BY GroupAssumption DEF TypeOK, Orderly, ScenarioType

\* A block that is complete has everybody who can still call.
LEMMA CompleteIsFull ==
  ASSUME TypeOK', NEW B \in BlockType, Sound(B)', ~B.host_called, grp_blk_locally_complete(B)
  PROVE  Able' \subseteq B.mbrs
<1>1. /\ B.mbrs \cap B.departed = {} /\ B.departed \cap Able' = {}
      /\ Cardinality(Reach(B)') <= B.nlocal
      /\ Cardinality(B.mbrs) + Cardinality(B.departed) >= B.nlocal
  BY DEF Sound, grp_blk_locally_complete
<1>2. /\ B.mbrs \in SUBSET Procs /\ B.departed \in SUBSET Procs /\ B.nlocal \in Nat
      /\ Reach(B)' \in SUBSET Procs
      /\ Able' \subseteq Reach(B)' /\ B.mbrs \cup B.departed \subseteq Reach(B)'
  BY DEF BlockType, TypeOK, Reach, Able
<1>3. Reach(B)' \subseteq B.mbrs \cup B.departed
  BY <1>1, <1>2, AllCounted
<1>4. QED
  BY <1>1, <1>2, <1>3

\* Passing up a full block, with nothing else under way, leaves one thing to complete it.
LEMMA ForwardPending ==
  ASSUME TypeOK, ~scenario.bootstrap, scenario' = scenario, host = {}, shifted = <<>>,
         NEW b \in Blk, NEW N \in BlockType, blk' = [blk EXCEPT ![b] = N], PassedUp(b, N),
         N.linked, Able' \subseteq N.mbrs
  PROVE  Pending'
<1>1. blk'[b] = N
  BY DEF TypeOK
<1>2. CASE host' = {b} /\ shifted' = <<>> /\ N.host_called /\ ~N.event_active
  BY <1>1, <1>2 DEF Pending, Full
<1>3. ASSUME NEW st \in Status \ {"TIMEOUT"}, host' = {},
             shifted' = Append(<<>>, [blk |-> b, status |-> st]),
             N.host_called \/ scenario.mismatch
      PROVE  Pending'
  <2> DEFINE e == [blk |-> b, status |-> st]
  <2>1. Len(shifted') = 1 /\ shifted'[1] = e /\ e.blk = b /\ e.status = st
    BY <1>3
  <2>2. Shifted(N, e)'
    BY <1>3 DEF Shifted, Full
  <2>3. Shifted(blk[shifted[1].blk], shifted[1])'
    BY <1>1, <2>1, <2>2
  <2>4. QED
    BY <1>3, <2>1, <2>3 DEF Pending
<1>4. "MISMATCH" \in Status \ {"TIMEOUT"}
  BY DEF Status
<1>5. QED
  BY <1>2, <1>3, <1>4 DEF PassedUp

\* A block that counts as a sound one does is sound.
LEMMA AlikeSound ==
  ASSUME NEW N \in BlockType, NEW B \in BlockType, Alike(N, B), Sound(B)'
  PROVE  Sound(N)'
BY DEF Sound, Alike, Reach

\* The one block that is on the list changes.
LEMMA OneChanges ==
  ASSUME TypeOK, Blocks, ~scenario.bootstrap, scenario' = scenario,
         NEW b \in IF Linked = {} THEN Fresh ELSE Linked,
         NEW N \in BlockType, blk' = [blk EXCEPT ![b] = N], N.linked, Sound(N)'
  PROVE  Blocks'
<1>1. b \in Blk /\ blk'[b] = N
  BY DEF Linked, Fresh, TypeOK
<1>2. \A c \in Blk \ {b} : ~blk[c].linked /\ blk'[c] = blk[c]
  BY <1>1 DEF Linked, Blocks, TypeOK
<1>3. Linked' = {b}
  BY <1>1, <1>2 DEF Linked
<1>4. \A c \in Blk : ~blk'[c].linked => blk'[c] = Unused
  BY <1>1, <1>2 DEF Blocks
<1>5. QED
  BY <1>1, <1>3, <1>4 DEF Blocks

\* A block not on the list has nothing to it but what Sound asks, and is not counting.
LEMMA BeforeCall ==
  ASSUME TypeOK, Blocks, ~scenario.bootstrap, NEW b \in IF Linked = {} THEN Fresh ELSE Linked
  PROVE  /\ blk[b] \in BlockType
         /\ \A q \in blk[b].mbrs : (q \in parked \/ q \notin alive) /\ member[q] # "left"
         /\ blk[b].mbrs \cap blk[b].departed = {} /\ blk[b].departed \cap Able = {}
         /\ blk[b].mbrs \subseteq blk[b].expected
         /\ NoTimer(scenario) => ~blk[b].event_active
         /\ ~blk[b].def_complete => blk[b].nlocal = 0 /\ blk[b].departed = {}
         /\ blk[b].def_complete => Sound(blk[b])
<1>1. b \in Blk /\ blk[b] \in BlockType
  BY DEF Linked, Fresh, TypeOK
<1>2. CASE blk[b].linked
  <2>1. Sound(blk[b])
    BY <1>1, <1>2 DEF Blocks, Linked
  <2>2. QED
    BY <1>1, <2>1 DEF Sound
<1>3. CASE ~blk[b].linked
  <2>1. blk[b] = Unused
    BY <1>1, <1>3 DEF Blocks
  <2>2. QED
    BY <1>1, <2>1 DEF Unused
<1>4. QED
  BY <1>2, <1>3

\* A caller is one who can call, and it names everybody who can.
LEMMA Caller ==
  ASSUME TypeOK, Orderly, Standing, ~scenario.bootstrap, NEW p \in Procs, MayCall(p)
  PROVE  /\ p \in Able /\ p \notin parked /\ member[p] # "left"
         /\ Able \subseteq Named(p) /\ Named(p) \subseteq Procs
         /\ member[p] = "in" => Named(p) = membership
         /\ member[p] # "in" => Named(p) = Procs
<1>1. p \in Able /\ p \notin parked /\ member[p] # "left"
  BY Allowed DEF MayCall, Able
<1>2. Able \subseteq Procs /\ membership \subseteq Procs
  BY DEF Able, TypeOK
<1>3. CASE member[p] = "in"
  BY <1>1, <1>2, <1>3 DEF Standing, Named, Op
<1>4. CASE member[p] # "in"
  BY <1>1, <1>2, <1>4 DEF Named, Op
<1>5. QED
  BY <1>1, <1>2, <1>3, <1>4

\* When its definition completes, a block counts everybody it may ever count: by rank each
\* one it names, by wildcard each one alive besides the callers that are gone.
LEMMA DefinedCount ==
  ASSUME NEW M \in SUBSET Procs, NEW A \in SUBSET Procs, NEW E \in SUBSET Procs,
         NEW R \in SUBSET Procs, NEW p \in M, p \in A, M \subseteq E
  PROVE  /\ R \subseteq E => Cardinality(R) <= Cardinality(M) * Cardinality(E)
         /\ R \subseteq M \cup A => Cardinality(R) <= Cardinality(M) * Cardinality(A)
<1>1. /\ Cardinality(M) \in Nat /\ Cardinality(A) \in Nat /\ Cardinality(E) \in Nat
      /\ Cardinality(R) \in Nat /\ Cardinality(M \cap A) \in Nat
  BY Finite
<1>2. \A S \in SUBSET Procs : p \in S => Cardinality(S) > 0
  <2>1. TAKE S \in SUBSET Procs
  <2>2. HAVE p \in S
  <2>3. IsFiniteSet(S) /\ Cardinality(S) \in Nat
    BY Finite
  <2>4. Cardinality(S) = 0 <=> S = {}
    BY <2>3, FS_EmptySet
  <2>5. QED
    BY <2>2, <2>3, <2>4
<1>3. Cardinality(M) > 0 /\ Cardinality(A) > 0 /\ Cardinality(E) > 0 /\ Cardinality(M \cap A) > 0
  BY <1>2
<1>4. ASSUME R \subseteq E
      PROVE  Cardinality(R) <= Cardinality(M) * Cardinality(E)
  <2>1. Cardinality(R) <= Cardinality(E)
    BY <1>4, Finite, FS_Subset
  <2>2. Cardinality(M) * Cardinality(E) >= Cardinality(E)
    BY <1>1, <1>3, CountedTimes
  <2>3. Cardinality(M) * Cardinality(E) \in Nat
    BY <1>1
  <2>4. QED
    BY <1>1, <2>1, <2>2, <2>3
<1>5. ASSUME R \subseteq M \cup A
      PROVE  Cardinality(R) <= Cardinality(M) * Cardinality(A)
  <2>1. Cardinality(M \cup A) = Cardinality(M) + Cardinality(A) - Cardinality(M \cap A)
    BY Finite, FS_Union
  <2>2. Cardinality(R) <= Cardinality(M \cup A)
    BY <1>5, Finite, FS_Subset
  <2>3. Cardinality(M) * Cardinality(A) >= (Cardinality(M) - 1) + Cardinality(A)
    BY <1>1, <1>3, CountedTimes
  <2>4. Cardinality(M) * Cardinality(A) \in Nat /\ Cardinality(M \cup A) \in Nat
    BY <1>1, Finite
  <2>5. QED
    BY <1>1, <1>3, <2>1, <2>2, <2>3, <2>4
<1>6. QED
  BY <1>4, <1>5

\* A call leaves the block sound.
LEMMA ArrivedSound ==
  ASSUME TypeOK, Orderly, Standing, Blocks, ~scenario.bootstrap, NEW p \in Procs, MayCall(p),
         NEW info \in scenario.directives, NEW b \in IF Linked = {} THEN Fresh ELSE Linked,
         parked' = parked \cup {p}, UNCHANGED <<scenario, member, alive, membership>>,
         NEW B, B = Arrived(b, p, info)
  PROVE  Sound(B)'
<1>0. PICK C, w : C = blk[b] /\ w = (Op(p) = "CONSTRUCT" /\ scenario.wildcard)
  OBVIOUS
<1>1. /\ p \in Able /\ p \notin parked /\ member[p] # "left"
      /\ Able \subseteq Named(p) /\ Named(p) \subseteq Procs
      /\ member[p] = "in" => Named(p) = membership
      /\ member[p] # "in" => Named(p) = Procs
  BY Caller
<1>2. Able' = Able /\ Able \subseteq alive /\ alive \subseteq Procs /\ b \in Blk
  BY DEF Able, TypeOK, Linked, Fresh
<1>3. /\ C \in BlockType
      /\ \A q \in C.mbrs : (q \in parked \/ q \notin alive) /\ member[q] # "left"
      /\ C.mbrs \cap C.departed = {} /\ C.departed \cap Able = {}
      /\ C.mbrs \subseteq C.expected
      /\ NoTimer(scenario) => ~C.event_active
      /\ ~C.def_complete => C.nlocal = 0 /\ C.departed = {}
      /\ C.def_complete => Sound(C)
  BY <1>0, BeforeCall, Zenon
<1>4. /\ B \in BlockType
      /\ B.mbrs = C.mbrs \cup {p} /\ B.expected = C.expected \cup Named(p)
      /\ B.departed = C.departed /\ B.host_called = C.host_called
      /\ B.event_active => C.event_active \/ "TIMEOUT" \in info
      /\ C.def_complete => B.def_complete /\ B.nlocal = C.nlocal
      /\ ~C.def_complete /\ ~registered => ~B.def_complete /\ B.nlocal = C.nlocal
      /\ ~C.def_complete /\ registered =>
           /\ B.def_complete
           /\ B.nlocal = Cardinality(B.mbrs) * IF w THEN nlocalprocs ELSE Cardinality(B.expected)
  <2>1. B \in BlockType /\ Called(B, C, p, Named(p), w)
        /\ (B.event_active => C.event_active \/ "TIMEOUT" \in info)
    BY <1>0, <1>2, ArrivedFields, Zenon
  <2>2. QED
    BY <2>1, Zenon DEF Called
<1>5. \A q \in B.mbrs : (q \in parked' \/ q \notin alive') /\ member'[q] # "left"
  BY <1>1, <1>3, <1>4
<1>6. B.mbrs \cap B.departed = {} /\ B.departed \cap Able' = {} /\ B.mbrs \subseteq B.expected
  BY <1>1, <1>2, <1>3, <1>4
<1>7. NoTimer(scenario) => ~B.event_active
  BY <1>3, <1>4 DEF NoTimer
<1>8. Both(scenario) => \A q \in Able : member[q] = member[p]
  BY <1>1, Allowed DEF Standing
<1>9. Both(scenario) => \A q \in Able : IF member[q] = "in" THEN membership \subseteq B.expected
                                        ELSE B.expected = Procs
  <2>1. B.expected \subseteq Procs
    BY <1>4 DEF BlockType
  <2>2. QED
    BY <1>1, <1>4, <1>8, <2>1
<1>10. ~B.def_complete => B.nlocal = 0 /\ B.departed = {}
  BY <1>3, <1>4
<1>11. ASSUME B.def_complete, ~B.host_called
       PROVE  Cardinality(Reach(B)') <= B.nlocal
  <2>1. CASE C.def_complete
    <3>1. Both(scenario) => B.expected = C.expected
      <4>1. Both(scenario) => IF member[p] = "in" THEN membership \subseteq C.expected
                              ELSE C.expected = Procs
        BY <1>1, <1>3, <2>1, Zenon DEF Sound
      <4>2. QED
        BY <1>1, <1>4, <4>1
    <3>2. Reach(B)' = Reach(C)
      BY <1>1, <1>2, <1>4, <3>1 DEF Reach
    <3>3. Cardinality(Reach(C)) <= C.nlocal
      BY <1>3, <1>4, <1>11, <2>1 DEF Sound
    <3>4. QED
      BY <1>4, <2>1, <3>2, <3>3
  <2>2. CASE ~C.def_complete
    <3>1. /\ B.nlocal = Cardinality(B.mbrs) * IF w THEN nlocalprocs ELSE Cardinality(B.expected)
          /\ B.departed = {}
      BY <1>3, <1>4, <1>11, <2>2, Zenon
    <3>2. Reach(B)' = B.mbrs \cup Able \cup IF Both(scenario) THEN alive \cap B.expected ELSE {}
      BY <1>2, <3>1 DEF Reach
    <3>3. /\ B.mbrs \in SUBSET Procs /\ B.expected \in SUBSET Procs /\ alive \in SUBSET Procs
          /\ p \in B.mbrs /\ p \in alive
      BY <1>1, <1>2, <1>4 DEF BlockType
    <3>4. Reach(B)' \subseteq B.mbrs \cup alive /\ Reach(B)' \in SUBSET Procs
      BY <1>2, <3>2, <3>3
    <3>5. Reach(B)' \subseteq B.expected
      BY <1>1, <1>4, <1>6, <3>2
    <3>6. CASE w
      <4>1. B.nlocal = Cardinality(B.mbrs) * Cardinality(alive)
        BY <3>1, <3>6 DEF Standing
      <4>2. QED
        BY <1>6, <3>3, <3>4, <4>1, DefinedCount
    <3>7. CASE ~w
      <4>1. B.nlocal = Cardinality(B.mbrs) * Cardinality(B.expected)
        BY <3>1, <3>7
      <4>2. QED
        BY <1>6, <3>3, <3>4, <3>5, <4>1, DefinedCount
    <3>8. QED
      BY <3>6, <3>7
  <2>3. QED
    BY <2>1, <2>2
<1>12. QED
  BY <1>2, <1>5, <1>6, <1>7, <1>9, <1>10, <1>11 DEF Sound

\* Nothing completes a block that somebody can still call on, but for a timer that is past.
LEMMA CallFindsNothing ==
  ASSUME TypeOK, Blocks, Pending, ~scenario.bootstrap, NEW p \in Able, p \notin parked,
         NEW b \in IF Linked = {} THEN Fresh ELSE Linked
  PROVE  /\ p \notin blk[b].mbrs /\ host = {}
         /\ shifted # <<>> => /\ shifted[1].blk = b /\ blk[b].host_called
                              /\ shifted[1].status = "TIMEOUT" /\ ~NoTimer(scenario)
<1>1. \A c \in Linked : p \notin blk[c].mbrs
  BY DEF Blocks, Sound, Able
<1>2. p \notin blk[b].mbrs
  BY <1>1 DEF Linked, Fresh, Blocks, Unused
<1>3. \A c \in Linked : c = b
  BY DEF Blocks
<1>4. ASSUME NEW c \in host
      PROVE  FALSE
  <2>1. c \in Linked /\ p \in blk[c].mbrs
    BY <1>4 DEF Pending, Full, Linked, TypeOK
  <2>2. QED
    BY <1>1, <2>1
<1>5. ASSUME shifted # <<>>
      PROVE  /\ shifted[1].blk = b /\ blk[b].host_called
             /\ shifted[1].status = "TIMEOUT" /\ ~NoTimer(scenario)
  <2>1. Shifted(blk[shifted[1].blk], shifted[1]) /\ Len(shifted) = 1
    BY <1>5 DEF Pending
  <2>2. shifted[1] \in [blk : Blk, status : Status]
    BY <2>1, OneElement, Zenon DEF TypeOK
  <2>3. shifted[1].blk \in Linked
    BY <2>1, <2>2 DEF Shifted, Linked
  <2>4. shifted[1].blk = b /\ ~Full(blk[b])
    BY <1>1, <1>3, <2>3 DEF Full
  <2>5. QED
    BY <2>1, <2>4 DEF Shifted
<1>6. QED
  BY <1>2, <1>4, <1>5

-----------------------------------------------------------------------------
(* The steps.                                                              *)

\* A call: on a block that waits, on one whose timer has run out, or the last one it waits
\* for.
LEMMA CallKeeps ==
  ASSUME GroupInv, Orderly, TypeOK', NEW p \in Procs, pmix_server_group(p)
  PROVE  Standing' /\ Blocks' /\ Pending'
<1>1. /\ ~scenario.bootstrap /\ MayCall(p) /\ parked' = parked \cup {p}
      /\ UNCHANGED <<scenario, registered, nlocalprocs, member, alive, membership>>
  BY DEF pmix_server_group
<1>2. Able' = Able /\ p \in Able /\ p \notin parked
  BY <1>1, Caller DEF GroupInv, Able
<1>3. Standing'
  BY <1>1, <1>2 DEF GroupInv, Standing
<1>4. PICK info \in scenario.directives, b \in IF Linked = {} THEN Fresh ELSE Linked :
        LET B == Arrived(b, p, info)
        IN \/ /\ B.host_called \/ ~grp_blk_locally_complete(B)
              /\ blk' = [blk EXCEPT ![b] = B] /\ UNCHANGED <<shifted, host>>
           \/ ~B.host_called /\ grp_blk_locally_complete(B) /\ Forward(b, B)
  BY CallEffect
<1>5. b \in Blk
  BY DEF Linked, Fresh
<1>0. PICK B : B = Arrived(b, p, info)
  OBVIOUS
<1>6. B \in BlockType /\ B.linked /\ B.host_called = blk[b].host_called
  BY <1>0, <1>5, ArrivedFields DEF GroupInv, Called
<1>7. Sound(B)'
  BY <1>0, <1>1, ArrivedSound, Zenon DEF GroupInv
<1>8. /\ host = {}
      /\ shifted # <<>> => /\ shifted[1].blk = b /\ blk[b].host_called
                           /\ shifted[1].status = "TIMEOUT" /\ ~NoTimer(scenario)
  BY <1>1, <1>2, CallFindsNothing DEF GroupInv
<1>9. CASE blk' = [blk EXCEPT ![b] = B] /\ UNCHANGED <<shifted, host>>
  <2>1. Blocks'
    BY <1>1, <1>6, <1>7, <1>9, OneChanges, Zenon DEF GroupInv
  <2>2. blk'[b] = B
    BY <1>5, <1>9 DEF GroupInv, TypeOK
  <2>3. shifted # <<>> => Len(shifted) = 1
    BY DEF GroupInv, Pending
  <2>4. shifted # <<>> => Shifted(blk[shifted[1].blk], shifted[1])'
    BY <1>1, <1>6, <1>8, <1>9, <2>2 DEF Shifted
  <2>5. Pending'
    BY <1>8, <1>9, <2>3, <2>4 DEF Pending
  <2>6. QED
    BY <1>3, <2>1, <2>5
<1>10. CASE ~B.host_called /\ grp_blk_locally_complete(B) /\ Forward(b, B)
  <2>1. PICK N \in BlockType : blk' = [blk EXCEPT ![b] = N] /\ Alike(N, B) /\ PassedUp(b, N)
    BY <1>5, <1>6, <1>10, ForwardEffect
  <2>2. N.linked /\ N.mbrs = B.mbrs
    BY <1>6, <2>1 DEF Alike
  <2>3. Sound(N)'
    BY <1>6, <1>7, <2>1, AlikeSound
  <2>4. Blocks'
    BY <1>1, <2>1, <2>2, <2>3, OneChanges, Zenon DEF GroupInv
  <2>5. Able' \subseteq N.mbrs
    BY <1>6, <1>7, <1>10, <2>2, CompleteIsFull
  <2>6. shifted = <<>>
    BY <1>6, <1>8, <1>10
  <2>7. Pending'
    BY <1>1, <1>5, <1>8, <2>1, <2>2, <2>5, <2>6, ForwardPending, Zenon DEF GroupInv
  <2>8. QED
    BY <1>3, <2>4, <2>7
<1>11. QED
  BY <1>0, <1>4, <1>9, <1>10

\* A bootstrap call.
LEMMA BootstrapKeeps ==
  ASSUME GroupInv, Orderly, TypeOK', NEW p \in Procs, pmix_server_group_bootstrap(p)
  PROVE  Standing' /\ Blocks' /\ Pending'
<1>1. /\ scenario.bootstrap /\ MayCall(p) /\ member[p] = "out"
      /\ UNCHANGED <<scenario, registered, nlocalprocs, member, alive, membership>>
  BY DEF pmix_server_group_bootstrap
<1>2. Standing'
  BY <1>1 DEF GroupInv, Standing
<1>3. shifted = <<>>
  <2>1. SUFFICES ASSUME shifted # <<>>
                 PROVE  FALSE
    OBVIOUS
  <2>2. \A q \in alive : q \in parked \/ calls[q] = MaxCalls
    BY <1>1, <2>1 DEF GroupInv, Pending, Shifted
  <2>3. p \in alive /\ p \notin parked /\ calls[p] < MaxCalls
    BY <1>1 DEF MayCall
  <2>4. QED
    BY <2>2, <2>3, GroupAssumption DEF GroupInv, TypeOK
<1> DEFINE B == [Unused EXCEPT !.linked = TRUE, !.grpop = "CONSTRUCT", !.mbrs = {p},
                               !.expected = {p}, !.def_complete = TRUE, !.since = {p}]
<1>4. B.linked /\ ~B.event_active /\ B.expected = B.mbrs
  BY DEF Unused
<1> HIDE DEF B
<1>5. PICK b \in Fresh, r \in scenario.returns :
        /\ blk' = [blk EXCEPT ![b] = IF r = "ERROR" THEN Unused ELSE B]
        /\ host' = IF r = "SUCCESS" THEN host \cup {b} ELSE host
        /\ IF r = "OPERATION_SUCCEEDED" THEN Shift(b, "SUCCESS") ELSE UNCHANGED shifted
  BY Zenon DEF pmix_server_group_bootstrap, B
<1>6. r # "OPERATION_SUCCEEDED"
  BY <1>1, Allowed DEF GroupInv
<1>7. b \in Blk /\ ~blk[b].linked /\ b \notin host
  BY DEF Fresh, Coming
<1>8. /\ blk'[b] = IF r = "ERROR" THEN Unused ELSE B
      /\ \A c \in Blk \ {b} : blk'[c] = blk[c]
  BY <1>5, <1>7 DEF GroupInv, TypeOK
<1>9. ~Unused.linked
  BY DEF Unused
<1>10. \A c \in Blk : ~blk'[c].linked => blk'[c] = Unused
  BY <1>4, <1>8 DEF GroupInv, Blocks
<1>11. \A c \in Linked' : ~blk'[c].event_active /\ blk'[c].expected \subseteq blk'[c].mbrs
  BY <1>1, <1>4, <1>8, <1>9, Zenon DEF GroupInv, Blocks, Linked
<1>12. Blocks'
  BY <1>1, <1>10, <1>11 DEF Blocks
<1>13. \A c \in host' : blk'[c].linked
  BY <1>4, <1>5, <1>7, <1>8, Zenon DEF GroupInv, Pending, TypeOK
<1>14. Pending'
  BY <1>1, <1>3, <1>5, <1>6, <1>13 DEF Pending
<1>15. QED
  BY <1>2, <1>12, <1>14

\* A member that dies or leaves: nobody gains, and nobody else loses.
Shrinks(p) ==
  /\ UNCHANGED <<scenario, calls>>
  /\ p \in alive /\ alive' \subseteq alive /\ Able' = Able \ {p}
  /\ \A q \in alive' : q \in parked => q \in parked'
  /\ \A q \in Procs : member'[q] # member[q] => q = p /\ p \notin parked
  /\ membership' \subseteq membership
  /\ p \in Able \/ Both(scenario)

\* Blocks that do not change stay sound.
LEMMA StillSound ==
  ASSUME TypeOK, Orderly, NEW p \in Procs, Shrinks(p), NEW B \in BlockType, Sound(B)
  PROVE  Sound(B)' /\ Reach(B)' \subseteq Reach(B)
<1>1. /\ scenario' = scenario /\ p \in alive /\ alive' \subseteq alive /\ Able' \subseteq Able
      /\ alive \subseteq Procs /\ B.mbrs \subseteq Procs /\ B.departed \subseteq Procs
      /\ Able \subseteq Procs
  BY DEF Shrinks, TypeOK, BlockType, Able
<1>2. Reach(B)' \subseteq Reach(B) /\ Reach(B) \in SUBSET Procs /\ Reach(B)' \in SUBSET Procs
  BY <1>1, Zenon DEF Reach
<1>3. \A q \in B.mbrs : (q \in parked' \/ q \notin alive') /\ member'[q] # "left"
  BY <1>1 DEF Sound, Shrinks
<1>4. B.mbrs \cap B.departed = {} /\ B.departed \cap Able' = {} /\ B.mbrs \subseteq B.expected
  BY <1>1 DEF Sound
<1>5. Both(scenario) => \A q \in Able' : IF member'[q] = "in" THEN membership' \subseteq B.expected
                                         ELSE B.expected = Procs
  <2>1. \A q \in Able' : q \in Able /\ member'[q] = member[q]
    BY <1>1 DEF Shrinks
  <2>2. membership' \subseteq membership
    BY DEF Shrinks
  <2>3. QED
    BY <2>1, <2>2 DEF Sound
<1>6. B.def_complete /\ ~B.host_called => Cardinality(Reach(B)') <= B.nlocal
  <2>1. Cardinality(Reach(B)') <= Cardinality(Reach(B))
    BY <1>2, Finite, FS_Subset
  <2>2. Cardinality(Reach(B)) \in Nat /\ Cardinality(Reach(B)') \in Nat /\ B.nlocal \in Nat
    BY <1>2, Finite DEF BlockType
  <2>3. QED
    BY <2>1, <2>2 DEF Sound
<1>7. QED
  BY <1>1, <1>2, <1>3, <1>4, <1>5, <1>6, Zenon DEF Sound

\* A departure that is recorded takes the place of a call that will not come.
LEMMA WithoutSound ==
  ASSUME TypeOK, Orderly, NEW p \in Procs, Shrinks(p), NEW b \in Blk, Sound(blk[b]),
         p \in blk[b].expected, p \notin blk[b].mbrs, blk[b].nlocal # 0,
         NEW B, B = Without(b, p)
  PROVE  Sound(B)'
<1>0. PICK C : C = blk[b]
  OBVIOUS
<1>1. C \in BlockType
  BY <1>0, Zenon DEF TypeOK
<1>2. /\ B \in BlockType /\ B.departed = C.departed \cup {p}
      /\ B.linked = C.linked /\ B.expected = C.expected /\ B.mbrs = C.mbrs
      /\ B.def_complete = C.def_complete /\ B.nlocal = C.nlocal
      /\ B.event_active = C.event_active /\ B.host_called = C.host_called
  <2>1. B \in BlockType /\ Deprived(B, C, p)
    BY <1>0, WithoutFields, Zenon
  <2>2. QED
    BY <2>1, Zenon DEF Deprived
<1>4. Sound(C) /\ p \in C.expected /\ p \notin C.mbrs /\ C.nlocal # 0
  BY <1>0, Zenon
<1>3. Sound(C)' /\ Reach(C)' \subseteq Reach(C)
  BY <1>1, <1>4, StillSound
<1>5. Reach(B)' \subseteq Reach(C) /\ Reach(C) \in SUBSET Procs
  <2>1. p \in Reach(C)
    BY <1>4, Zenon DEF Shrinks, Reach
  <2>2. Reach(B)' = Reach(C)' \cup {p}
    BY <1>2 DEF Reach
  <2>3. Reach(C) \in SUBSET Procs
    BY <1>1 DEF Reach, BlockType, TypeOK, Able
  <2>4. QED
    BY <1>3, <2>1, <2>2, <2>3
<1>6. B.def_complete /\ ~B.host_called => Cardinality(Reach(B)') <= B.nlocal
  <2> SUFFICES ASSUME B.def_complete, ~B.host_called
               PROVE  Cardinality(Reach(B)') <= B.nlocal
    OBVIOUS
  <2>1. Cardinality(Reach(B)') <= Cardinality(Reach(C)) /\ Reach(B)' \in SUBSET Procs
    BY <1>5, Finite, FS_Subset, Zenon
  <2>2. Cardinality(Reach(C)) \in Nat /\ Cardinality(Reach(B)') \in Nat /\ C.nlocal \in Nat
    BY <1>1, <1>5, <2>1, Finite, Zenon DEF BlockType
  <2>3. Cardinality(Reach(C)) <= C.nlocal /\ B.nlocal = C.nlocal
    BY <1>2, <1>4, Zenon DEF Sound
  <2>4. PICK r \in Nat, n \in Nat : r = Cardinality(Reach(B)') /\ n = Cardinality(Reach(C))
    BY <2>2, Zenon
  <2>5. QED
    BY <2>1, <2>2, <2>3, <2>4
<1>7. B.mbrs \cap B.departed = {} /\ B.departed \cap Able' = {}
  <2>1. C.mbrs \cap C.departed = {} /\ C.departed \cap Able' = {}
    BY <1>3, Zenon DEF Sound
  <2>2. p \notin Able'
    BY Zenon DEF Shrinks
  <2>3. QED
    BY <1>2, <1>4, <2>1, <2>2
<1>8. B.def_complete
  BY <1>2, <1>4, Zenon DEF Sound
<1>9. QED
  BY <1>2, <1>3, <1>6, <1>7, <1>8, Zenon DEF Sound

\* What is under way stays so when a block goes on with the same callers.
LEMMA StillPending ==
  ASSUME TypeOK, Pending, NEW p \in Procs, Shrinks(p), UNCHANGED <<shifted, host>>,
         \A c \in Blk : /\ blk'[c].linked = blk[c].linked /\ blk'[c].mbrs = blk[c].mbrs
                        /\ blk'[c].host_called = blk[c].host_called
                        /\ blk'[c].event_active = blk[c].event_active
  PROVE  Pending'
<1>1. Able' \subseteq Able /\ scenario' = scenario /\ calls' = calls /\ host \subseteq Blk
  BY Zenon DEF Shrinks, TypeOK
<1>2. \A c \in Blk : Full(blk[c]) => Full(blk[c])'
  BY <1>1 DEF Full
<1>3. \A c \in host' : /\ blk'[c].linked
                       /\ ~scenario.bootstrap =>
                            blk'[c].host_called /\ ~blk'[c].event_active /\ Full(blk[c])'
  BY <1>1, <1>2, Zenon DEF Pending
<1>4. ASSUME shifted # <<>>
      PROVE  host' = {} /\ Len(shifted') = 1 /\ Shifted(blk[shifted[1].blk], shifted[1])'
  <2>1. host = {} /\ Len(shifted) = 1 /\ Shifted(blk[shifted[1].blk], shifted[1])
    BY <1>4 DEF Pending
  <2>2. shifted[1].blk \in Blk
    <3>1. shifted[1] \in [blk : Blk, status : Status]
      BY <2>1, OneElement, Zenon DEF TypeOK
    <3>2. QED
      BY <3>1
  <2>3. \A q \in alive' : q \in parked' \/ (q \notin parked /\ q \in alive)
    BY DEF Shrinks
  <2>4. scenario.bootstrap => \A q \in alive' : q \in parked' \/ calls'[q] = MaxCalls
    BY <1>1, <2>1, <2>3, Zenon DEF Shifted
  <2>5. Shifted(blk[shifted[1].blk], shifted[1])'
    BY <1>1, <1>2, <2>1, <2>2, <2>4, Zenon DEF Shifted
  <2>6. QED
    BY <2>1, <2>5
<1>5. QED
  BY <1>1, <1>3, <1>4, Zenon DEF Pending

\* A departure, recorded or not.
LEMMA DepartKeeps ==
  ASSUME GroupInv, Orderly, TypeOK', NEW p \in Procs, Shrinks(p), Depart(p)
  PROVE  Blocks' /\ Pending'
<1>1. scenario' = scenario
  BY DEF Shrinks
<1>2. CASE UNCHANGED <<blk, shifted, host>>
  <2>1. Pending'
    BY <1>2, StillPending DEF GroupInv
  <2>2. Linked' = Linked
    BY <1>2 DEF Linked
  <2>3. ~scenario.bootstrap => \A b \in Linked : Sound(blk[b])'
    <3>1. ASSUME ~scenario.bootstrap, NEW b \in Linked
          PROVE  Sound(blk[b])'
      <4>1. PICK C : C = blk[b]
        OBVIOUS
      <4>2. C \in BlockType /\ Sound(C) /\ blk'[b] = C
        BY <1>2, <3>1, <4>1, Zenon DEF GroupInv, TypeOK, Blocks, Linked
      <4>3. Sound(C)'
        BY <4>2, StillSound DEF GroupInv
      <4>4. QED
        BY <4>2, <4>3
    <3>2. QED
      BY <3>1
  <2>4. Blocks'
    BY <1>1, <1>2, <2>2, <2>3 DEF GroupInv, Blocks
  <2>5. QED
    BY <2>1, <2>4
<1>3. ASSUME ~scenario.bootstrap, NEW b \in Linked, blk[b].nlocal # 0, ~blk[b].host_called,
             p \in blk[b].expected, p \notin blk[b].mbrs,
             \/ blk' = [blk EXCEPT ![b] = Without(b, p)] /\ UNCHANGED <<shifted, host>>
             \/ grp_blk_locally_complete(Without(b, p)) /\ Forward(b, Without(b, p))
      PROVE  Blocks' /\ Pending'
  <2>0. PICK B : B = Without(b, p)
    OBVIOUS
  <2>1. b \in Blk /\ blk[b].linked /\ Sound(blk[b]) /\ \A c \in Linked : c = b
    BY <1>3, Zenon DEF Linked, GroupInv, Blocks
  <2>2. /\ B \in BlockType /\ B.linked /\ B.linked = blk[b].linked /\ B.mbrs = blk[b].mbrs
        /\ B.event_active = blk[b].event_active /\ B.host_called = blk[b].host_called
    <3>1. /\ B \in BlockType /\ B.linked = blk[b].linked /\ B.mbrs = blk[b].mbrs
          /\ B.event_active = blk[b].event_active /\ B.host_called = blk[b].host_called
      <4>1. B \in BlockType /\ Deprived(B, blk[b], p)
        BY <2>0, <2>1, WithoutFields DEF GroupInv
      <4>2. QED
        BY <4>1, Zenon DEF Deprived
    <3>2. QED
      BY <2>1, <3>1
  <2>3. Sound(B)'
    BY <1>3, <2>0, <2>1, WithoutSound, Zenon DEF GroupInv
  <2>4. b \in IF Linked = {} THEN Fresh ELSE Linked
    BY <1>3, Zenon
  <2>5. CASE blk' = [blk EXCEPT ![b] = B] /\ UNCHANGED <<shifted, host>>
    <3>1. Blocks'
      BY <1>1, <1>3, <2>2, <2>3, <2>4, <2>5, OneChanges, Zenon DEF GroupInv
    <3>2. blk'[b] = B /\ \A c \in Blk \ {b} : blk'[c] = blk[c]
      BY <2>1, <2>5 DEF GroupInv, TypeOK
    <3>3. Pending'
      BY <2>1, <2>2, <2>5, <3>2, StillPending, Zenon DEF GroupInv
    <3>4. QED
      BY <3>1, <3>3
  <2>6. CASE grp_blk_locally_complete(B) /\ Forward(b, B)
    <3>1. PICK N \in BlockType : blk' = [blk EXCEPT ![b] = N] /\ Alike(N, B) /\ PassedUp(b, N)
      BY <2>1, <2>2, <2>6, ForwardEffect
    <3>2. N.linked /\ N.mbrs = B.mbrs
      BY <2>2, <3>1 DEF Alike
    <3>3. Sound(N)'
      BY <2>2, <2>3, <3>1, AlikeSound
    <3>4. Blocks'
      BY <1>1, <1>3, <2>4, <3>1, <3>2, <3>3, OneChanges, Zenon DEF GroupInv
    <3>5. Able' \subseteq N.mbrs
      BY <1>3, <2>2, <2>3, <2>6, <3>2, CompleteIsFull, Zenon
    <3>6. host = {}
      <4>1. ASSUME NEW c \in host
            PROVE  FALSE
        <5>1. c \in Linked /\ blk[c].host_called
          BY <1>3, <4>1, Zenon DEF GroupInv, Pending, Linked, TypeOK
        <5>2. QED
          BY <1>3, <2>1, <5>1, Zenon
      <4>2. QED
        BY <4>1
    <3>7. shifted = <<>>
      <4>1. SUFFICES ASSUME shifted # <<>>
                     PROVE  FALSE
        OBVIOUS
      <4>2. Len(shifted) = 1 /\ Shifted(blk[shifted[1].blk], shifted[1])
        BY <4>1 DEF GroupInv, Pending
      <4>3. shifted[1].blk \in Linked
        <5>1. shifted[1] \in [blk : Blk, status : Status]
          BY <4>2, OneElement, Zenon DEF GroupInv, TypeOK
        <5>2. QED
          BY <4>2, <5>1 DEF Shifted, Linked
      <4>4. scenario.mismatch /\ Full(blk[b])
        BY <1>3, <2>1, <4>2, <4>3, Zenon DEF Shifted
      <4>5. p \notin Able
        BY <1>3, <4>4 DEF Full
      <4>6. QED
        BY <4>4, <4>5, Allowed, Zenon DEF Shrinks, GroupInv
    <3>8. Pending'
      BY <1>1, <1>3, <2>1, <3>1, <3>2, <3>5, <3>6, <3>7, ForwardPending, Zenon DEF GroupInv
    <3>9. QED
      BY <3>4, <3>8
  <2>7. QED
    BY <1>3, <2>0, <2>5, <2>6
<1>4. QED
  BY <1>2, <1>3, DepartEffect, Zenon DEF GroupInv

\* A member dies.
LEMMA LostKeeps ==
  ASSUME GroupInv, Orderly, TypeOK', NEW p \in Procs, pmix_server_grp_peer_lost(p)
  PROVE  Standing' /\ Blocks' /\ Pending'
<1>1. /\ p \in alive /\ Cardinality(Procs \ alive) < scenario.losses /\ Depart(p)
      /\ alive' = alive \ {p} /\ parked' = parked \ {p}
      /\ nlocalprocs' = IF nlocalprocs > 0 THEN nlocalprocs - 1 ELSE 0
      /\ UNCHANGED <<scenario, registered, member, calls, membership>>
  BY DEF pmix_server_grp_peer_lost
<1>2. scenario.losses # 0
  <2>1. Cardinality(Procs \ alive) \in Nat
    BY Finite
  <2>2. QED
    BY <1>1, <2>1
<1>3. Able' = Able \ {p}
  BY <1>1 DEF Able
<1>4. p \in Able \/ Both(scenario)
  BY <1>1, <1>2 DEF Able, Both, GroupInv, Standing
<1>5. Shrinks(p)
  BY <1>1, <1>3, <1>4 DEF Shrinks
<1>6. Blocks' /\ Pending'
  BY <1>1, <1>5, DepartKeeps
<1>7. nlocalprocs' = Cardinality(alive')
  <2>1. alive \in SUBSET Procs /\ nlocalprocs = Cardinality(alive)
    BY DEF GroupInv, TypeOK, Standing
  <2>2. IsFiniteSet(alive) /\ Cardinality(alive) \in Nat /\ Cardinality(alive \ {p}) \in Nat
    BY <2>1, Finite
  <2>3. Cardinality(alive \ {p}) = Cardinality(alive) - 1
    BY <1>1, <2>2, FS_RemoveElement, Zenon
  <2>4. QED
    BY <1>1, <2>1, <2>2, <2>3
<1>8. Standing'
  BY <1>1, <1>2, <1>3, <1>7 DEF GroupInv, Standing
<1>9. QED
  BY <1>6, <1>8

\* A member leaves.
LEMMA LeftKeeps ==
  ASSUME GroupInv, Orderly, TypeOK', NEW p \in Procs, pmix_server_grp_member_left(p)
  PROVE  Standing' /\ Blocks' /\ Pending'
<1>1. /\ p \in alive /\ p \notin parked /\ member[p] = "in" /\ Depart(p)
      /\ Cardinality({q \in Procs : member[q] = "left"}) < scenario.leaves
      /\ member' = [member EXCEPT ![p] = "left"]
      /\ membership' \in {membership, membership \ {p}}
      /\ UNCHANGED <<scenario, registered, nlocalprocs, alive, parked, calls>>
  BY DEF pmix_server_grp_member_left
<1>2. scenario.leaves # 0
  <2>1. Cardinality({q \in Procs : member[q] = "left"}) \in Nat
    BY Finite
  <2>2. QED
    BY <1>1, <2>1
<1>3. \A q \in Procs : member'[q] = IF q = p THEN "left" ELSE member[q]
  BY <1>1 DEF GroupInv, TypeOK
<1>4. Able' = Able \ {p} /\ p \in Able
  BY <1>1, <1>3 DEF Able, GroupInv, TypeOK
<1>5. Shrinks(p)
  BY <1>1, <1>3, <1>4 DEF Shrinks
<1>6. Blocks' /\ Pending'
  BY <1>1, <1>5, DepartKeeps
<1>7. \A q \in Able' : q \in Able /\ member'[q] = member[q]
  BY <1>3, <1>4 DEF Able, GroupInv, TypeOK
<1>8. Standing'
  BY <1>1, <1>2, <1>4, <1>7 DEF GroupInv, Standing
<1>9. QED
  BY <1>6, <1>8

\* The timer runs out: the block was still collecting, and nothing else completes it.
LEMMA TimeoutKeeps ==
  ASSUME GroupInv, Orderly, TypeOK', NEW b \in Blk, group_timeout(b)
  PROVE  Standing' /\ Blocks' /\ Pending'
<1>1. /\ b \in Linked /\ blk[b].event_active
      /\ ~(blk[b].host_called /\ \E i \in DOMAIN shifted : shifted[i].blk = b)
      /\ blk' = [blk EXCEPT ![b] = Frozen(blk[b])]
      /\ shifted' = Append(shifted, [blk |-> b, status |-> "TIMEOUT"])
      /\ UNCHANGED <<scenario, registered, nlocalprocs, host, member, alive, parked, calls, membership>>
  BY Zenon DEF group_timeout, abort_construct, Shift
<1>2. ~scenario.bootstrap /\ Sound(blk[b]) /\ \A c \in Linked : c = b
  BY <1>1, Zenon DEF GroupInv, Blocks
<1>3. ~NoTimer(scenario)
  BY <1>1, <1>2, Zenon DEF Sound
<1>4. host = {}
  <2>1. ASSUME NEW c \in host
        PROVE  FALSE
    <3>1. c \in Linked /\ ~blk[c].event_active
      BY <1>2, <2>1 DEF GroupInv, Pending, Linked, TypeOK
    <3>2. QED
      BY <1>1, <1>2, <3>1
  <2>2. QED
    BY <2>1
<1>5. shifted = <<>>
  <2>1. SUFFICES ASSUME shifted # <<>>
                 PROVE  FALSE
    OBVIOUS
  <2>2. Len(shifted) = 1 /\ Shifted(blk[shifted[1].blk], shifted[1])
    BY <2>1 DEF GroupInv, Pending
  <2>3. shifted[1].blk \in Linked /\ 1 \in DOMAIN shifted
    <3>1. shifted[1] \in [blk : Blk, status : Status] /\ 1 \in DOMAIN shifted
      BY <2>2, OneElement, Zenon DEF GroupInv, TypeOK
    <3>2. QED
      BY <2>2, <3>1 DEF Shifted, Linked
  <2>4. shifted[1].blk = b /\ ~blk[b].host_called
    BY <1>1, <1>2, <2>3
  <2>5. scenario.mismatch
    BY <1>2, <2>2, <2>4 DEF Shifted
  <2>6. QED
    BY <1>3, <2>5, Allowed DEF GroupInv
<1>0. PICK N : N = Frozen(blk[b])
  OBVIOUS
<1>6. N \in BlockType /\ Alike(N, blk[b]) /\ N.host_called
  BY <1>0, FrozenFields DEF GroupInv, TypeOK
<1>7. N.linked /\ blk[b] \in BlockType
  BY <1>1, <1>6 DEF Alike, Linked, GroupInv, TypeOK
<1>8. Able' = Able
  BY <1>1 DEF Able
<1>9. Sound(N)'
  <2>1. Sound(N)
    BY <1>2, <1>6, Zenon DEF Sound, Alike, Reach
  <2>2. QED
    BY <1>1, <1>8, <2>1, Zenon DEF Sound, Reach
<1>10. b \in IF Linked = {} THEN Fresh ELSE Linked
  BY <1>1
<1>11. Blocks'
  BY <1>0, <1>1, <1>2, <1>6, <1>7, <1>9, <1>10, OneChanges, Zenon DEF GroupInv
<1>12. blk'[b] = N
  BY <1>0, <1>1 DEF GroupInv, TypeOK
<1>13. Len(shifted') = 1 /\ shifted'[1] = [blk |-> b, status |-> "TIMEOUT"] /\ host' = {}
  BY <1>1, <1>4, <1>5
<1>14. Shifted(blk[shifted[1].blk], shifted[1])'
  <2>1. blk'[shifted'[1].blk] = N /\ shifted'[1].status = "TIMEOUT" /\ scenario' = scenario
    BY <1>1, <1>12, <1>13
  <2>2. QED
    BY <1>2, <1>3, <1>6, <1>7, <2>1 DEF Shifted, NoTimer
<1>15. Pending'
  BY <1>13, <1>14 DEF Pending
<1>16. Standing'
  BY <1>1, <1>8 DEF GroupInv, Standing
<1>17. QED
  BY <1>11, <1>15, <1>16

\* The host calls back.
LEMMA CallbackKeeps ==
  ASSUME GroupInv, Orderly, TypeOK', NEW b \in Blk, NEW st \in {"SUCCESS", "ERROR"},
         HostCallback(b, st)
  PROVE  Standing' /\ Blocks' /\ Pending'
<1>1. /\ b \in host
      /\ scenario.bootstrap => \A p \in alive : p \in parked \/ calls[p] = MaxCalls
      /\ host' = IF scenario.bootstrap THEN {} ELSE host \ {b}
      /\ shifted' = Append(shifted, [blk |-> b, status |-> st])
      /\ UNCHANGED <<scenario, registered, nlocalprocs, blk, member, alive, parked, calls, membership>>
  BY DEF HostCallback, Shift
<1>2. Able' = Able /\ Linked' = Linked
  BY <1>1 DEF Able, Linked
<1>3. Standing'
  BY <1>1, <1>2, Zenon DEF GroupInv, Standing
<1>4. Blocks'
  BY <1>1, <1>2, Zenon DEF GroupInv, Blocks, Sound, Reach
<1>5. shifted = <<>>
  BY <1>1, Zenon DEF GroupInv, Pending
<1>6. host' = {}
  <2>1. host \subseteq Linked /\ (~scenario.bootstrap => \A c \in Linked : c = b)
    BY <1>1, Zenon DEF GroupInv, Pending, Blocks, Linked, TypeOK
  <2>2. QED
    BY <1>1, <2>1
<1>7. Len(shifted') = 1 /\ shifted'[1] = [blk |-> b, status |-> st]
  BY <1>1, <1>5
<1>8. blk[b].linked /\ (~scenario.bootstrap => blk[b].host_called /\ Full(blk[b]))
  BY <1>1, Zenon DEF GroupInv, Pending
<1>9. Shifted(blk[shifted[1].blk], shifted[1])'
  <2>1. blk'[shifted'[1].blk] = blk[b]
    BY <1>1, <1>7
  <2>2. QED
    BY <1>1, <1>2, <1>8, <2>1, Zenon DEF Shifted, Full
<1>10. Pending'
  BY <1>6, <1>7, <1>9, Zenon DEF Pending
<1>11. QED
  BY <1>3, <1>4, <1>10

\* The completion: every block of the identifier goes, and nothing is left under way.
LEMMA CompletionKeeps ==
  ASSUME GroupInv, Orderly, TypeOK', grpcbfunc
  PROVE  Standing' /\ Blocks' /\ Pending'
<1> DEFINE answered == UNION {blk[b].mbrs : b \in Linked}
           ok == Head(shifted).status = "SUCCESS"
           formed == ok /\ blk[Head(shifted).blk].grpop = "CONSTRUCT"
<1>1. /\ shifted # <<>> /\ shifted' = Tail(shifted) /\ blk' = [b \in Blk |-> Unused]
      /\ member' = [p \in Procs |-> IF p \notin answered THEN member[p]
                                    ELSE IF formed THEN "in" ELSE "out"]
      /\ membership' = IF formed THEN answered ELSE membership
      /\ UNCHANGED <<scenario, registered, nlocalprocs, host, alive, calls>>
  BY Zenon DEF grpcbfunc
<1>2. host = {} /\ Len(shifted) = 1 /\ Shifted(blk[shifted[1].blk], shifted[1])
  BY <1>1 DEF GroupInv, Pending
<1>3. shifted' = <<>>
  BY <1>1, <1>2, OneElement, Zenon DEF GroupInv, TypeOK
<1>4. Pending'
  BY <1>1, <1>2, <1>3, Zenon DEF Pending
<1>5. Blocks'
  <2>1. Linked' = {}
    BY <1>1, Zenon DEF Linked, Unused
  <2>2. QED
    BY <1>1, <2>1, Zenon DEF Blocks
<1>6. shifted[1] = Head(shifted) /\ shifted[1].blk \in Linked /\ shifted[1].status \in Status
  <2>1. shifted[1] \in [blk : Blk, status : Status] /\ shifted[1] = Head(shifted)
    BY <1>2, OneElement, Zenon DEF GroupInv, TypeOK
  <2>2. QED
    BY <1>2, <2>1 DEF Shifted, Linked
<1> HIDE DEF answered, formed, ok
<1>7. \A p \in Procs : member'[p] = IF p \notin answered THEN member[p]
                                    ELSE IF formed THEN "in" ELSE "out"
  BY <1>1
<1>8. scenario.leaves = 0 => \A p \in Procs : member'[p] # "left"
  BY <1>7, Zenon DEF GroupInv, Standing
<1>9. ASSUME ~scenario.bootstrap
      PROVE  /\ \A p \in Able' : member'[p] = "in" => Able' \subseteq membership'
             /\ NoTimer(scenario) => \A p, q \in Able' : member'[p] = member'[q]
  <2>1. \A c \in Linked : c = shifted[1].blk
    BY <1>6, <1>9 DEF GroupInv, Blocks
  <2>2. answered = blk[shifted[1].blk].mbrs
    BY <1>6, <2>1 DEF answered
  <2>3. \A p \in answered : member[p] # "left"
    BY <1>6, <1>9, <2>2, Zenon DEF GroupInv, Blocks, Sound
  <2>4. Able' = Able /\ Able \subseteq Procs
    BY <1>1, <1>7, <2>3 DEF Able, GroupInv, TypeOK
  <2>5. (shifted[1].status = "TIMEOUT" /\ ~NoTimer(scenario)) \/ Able \subseteq answered
    BY <1>2, <1>9, <2>2, Zenon DEF Shifted, Full
  <2>6. formed => Able \subseteq answered
    BY <1>6, <2>5 DEF formed, ok
  <2>7. \A p \in Able' : member'[p] = "in" => Able' \subseteq membership'
    <3>1. CASE formed
      BY <1>1, <2>4, <2>6, <3>1
    <3>2. CASE ~formed
      BY <1>1, <1>7, <1>9, <2>4, <3>2 DEF GroupInv, Standing
    <3>3. QED
      BY <3>1, <3>2
  <2>8. NoTimer(scenario) => \A p, q \in Able' : member'[p] = member'[q]
    BY <1>7, <2>4, <2>5
  <2>9. QED
    BY <2>7, <2>8
<1>10. Standing'
  BY <1>1, <1>8, <1>9, Zenon DEF GroupInv, Standing
<1>11. QED
  BY <1>4, <1>5, <1>10

\* Steps that touch nothing the invariant speaks of.
LEMMA OthersKeep ==
  ASSUME GroupInv, Register \/ UNCHANGED vars
  PROVE  Standing' /\ Blocks' /\ Pending'
<1>1. UNCHANGED <<scenario, nlocalprocs, blk, shifted, host, member, alive, parked, calls, membership>>
  BY DEF Register, vars
<1>2. Able' = Able /\ Linked' = Linked
  BY <1>1 DEF Able, Linked
<1>3. Standing'
  BY <1>1, <1>2 DEF GroupInv, Standing
<1>4. Blocks'
  BY <1>1, <1>2, Zenon DEF GroupInv, Blocks, Sound, Reach
<1>5. Pending'
  BY <1>1, <1>2, Zenon DEF GroupInv, Pending, Shifted, Full
<1>6. QED
  BY <1>3, <1>4, <1>5

-----------------------------------------------------------------------------
(* The theorems.                                                           *)

\* The invariant holds at the start.
LEMMA GroupInit == Init => GroupInv
<1> SUFFICES ASSUME Init
             PROVE  GroupInv
  OBVIOUS
<1>1. TypeOK
  <2>1. Cardinality(Procs) \in Nat
    BY Finite
  <2>2. scenario.registered \in BOOLEAN
    BY GroupAssumption DEF Init, ScenarioType
  <2>3. blk \in [Blk -> BlockType]
    BY UnusedType DEF Init
  <2>4. shifted \in Seq([blk : Blk, status : Status])
    BY DEF Init
  <2>5. calls \in [Procs -> 0..MaxCalls] /\ nlocalprocs \in 0..Cardinality(Procs)
    BY <2>1, GroupAssumption DEF Init
  <2>6. told \in [op : {"NONE", "CONSTRUCT", "DESTRUCT"}, status : Status,
                  shown : {"SUCCESS", "LOST_CONNECTION"},
                  missing : SUBSET Procs, events : SUBSET Procs]
    BY DEF Init, Status
  <2>7. QED
    BY <2>2, <2>3, <2>4, <2>5, <2>6, Zenon DEF Init, TypeOK
<1>2. Linked = {}
  BY Zenon DEF Init, Linked, Unused
<1>3. Standing
  BY DEF Init, Standing, Able
<1>4. Blocks
  BY <1>2, Zenon DEF Init, Blocks
<1>5. Pending
  BY DEF Init, Pending
<1>6. QED
  BY <1>1, <1>3, <1>4, <1>5 DEF GroupInv

\* Every step keeps the invariant.
LEMMA GroupStep ==
  ASSUME GroupInv, Orderly, [Next]_vars
  PROVE  GroupInv'
<1>1. TypeOK'
  BY TypeStep DEF GroupInv
<1>2. Standing' /\ Blocks' /\ Pending'
  BY <1>1, CallKeeps, BootstrapKeeps, LostKeeps, LeftKeeps, TimeoutKeeps, CallbackKeeps,
     CompletionKeeps, OthersKeep DEF Next
<1>3. QED
  BY <1>1, <1>2 DEF GroupInv

\* The completion of a block, shifted or still owed by the host, finds the block on the list:
\* for any number of members, calls, losses and departures, if the members and the host are
\* orderly, _grpcbfunc is never handed a block that an earlier completion released.
THEOREM CompletionFindsItsBlock == Orderly => (Spec => []BlockOutlivesItsCompletions)
<1> SUFFICES ASSUME Orderly
             PROVE  Spec => []BlockOutlivesItsCompletions
  OBVIOUS
<1>1. Init => GroupInv
  BY GroupInit
<1>2. GroupInv /\ [Next]_vars => GroupInv'
  BY GroupStep
<1>3. GroupInv => BlockOutlivesItsCompletions
  <2> SUFFICES ASSUME GroupInv, NEW b \in Blk, Coming(b)
               PROVE  blk[b].linked
    BY DEF BlockOutlivesItsCompletions
  <2>1. CASE b \in host
    BY <2>1, Zenon DEF GroupInv, Pending
  <2>2. CASE \E i \in DOMAIN shifted : shifted[i].blk = b
    <3>1. PICK i \in DOMAIN shifted : shifted[i].blk = b
      BY <2>2
    <3>2. shifted # <<>> /\ i \in 1..Len(shifted)
      BY <3>1 DEF GroupInv, TypeOK
    <3>3. Len(shifted) = 1 /\ blk[shifted[1].blk].linked
      BY <3>2, Zenon DEF GroupInv, Pending, Shifted
    <3>4. QED
      BY <3>1, <3>2, <3>3
  <2>3. QED
    BY <2>1, <2>2 DEF Coming
<1>4. QED
  BY <1>1, <1>2, <1>3, PTL DEF Spec

\* The host is handed a block only when each member it names has called, has died or has
\* left: grp_blk_locally_complete counts, and the count never runs ahead of the members.
THEOREM HostNotCalledEarly == Orderly => (Spec => []NeverEarly)
<1> SUFFICES ASSUME Orderly
             PROVE  Spec => []NeverEarly
  OBVIOUS
<1>1. Init => GroupInv
  BY GroupInit
<1>2. GroupInv /\ [Next]_vars => GroupInv'
  BY GroupStep
<1>3. GroupInv => NeverEarly
  <2> SUFFICES ASSUME GroupInv, NEW b \in host, NEW p \in blk[b].expected \cap blk[b].since
               PROVE  p \in blk[b].mbrs \/ p \notin alive \/ member[p] = "left"
    BY DEF NeverEarly
  <2>1. b \in Blk /\ blk[b].linked
    BY Zenon DEF GroupInv, Pending, TypeOK
  <2>2. CASE scenario.bootstrap
    BY <2>1, <2>2 DEF GroupInv, Blocks, Linked
  <2>3. CASE ~scenario.bootstrap
    BY <2>3 DEF GroupInv, Pending, Full, Able
  <2>4. QED
    BY <2>2, <2>3
<1>4. QED
  BY <1>1, <1>2, <1>3, PTL DEF Spec
=============================================================================
