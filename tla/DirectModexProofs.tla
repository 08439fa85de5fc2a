------------------------- MODULE DirectModexProofs -------------------------
(***************************************************************************)
(* Each PMIx_Get is answered once, nobody waits for nothing, and what the  *)
(* host asked for and waits for can still come.  A parked request is on    *)
(* exactly one tracker, and on a tracker there are only parked ones; each  *)
(* of them has a timer, an answer of the host or an event of its target    *)
(* that is still to come.                                                  *)
(***************************************************************************)
EXTENDS DirectModex, FiniteSetTheorems, TLAPS

TrackerType == [linked : BOOLEAN, target : Ranks \cup {NOBODY}, reqs : SUBSET Gets]
GetType == [state : {"new", "parked", "done"}, timer : BOOLEAN]

\* What the types of the request side are.
RequestType ==
  /\ trk \in [Trk -> TrackerType]
  /\ get \in [Gets -> GetType]
  /\ answers \in [Gets -> Nat]
  /\ shifted \in Seq([trk : Trk, status : Data])

\* A parked request is on one linked tracker; whatever is on a tracker is parked.
Held ==
  /\ \A k \in Trk : ~trk[k].linked => trk[k].reqs = {}
  /\ \A k \in Trk : \A g \in trk[k].reqs : get[g].state = "parked"
  /\ \A j, k \in Trk : trk[j].reqs \cap trk[k].reqs # {} => j = k
  /\ \A g \in Gets : get[g].state = "parked" => \E k \in Trk : g \in trk[k].reqs

RequestInv == RequestType /\ Held /\ AnsweredOnce
requests == <<trk, get, answers>>

-----------------------------------------------------------------------------
(* What the operators on trackers do.                                      *)

\* Requests that are on no tracker, or that leave theirs in the same step, are answered.
LEMMA DoneKeeps ==
  ASSUME RequestInv, NEW G \in SUBSET Gets, Done(G),
         \A g \in G : get[g].state # "done",
         trk' \in [Trk -> TrackerType],
         \A k \in Trk : trk'[k].reqs = trk[k].reqs \ G,
         \A k \in Trk : ~trk'[k].linked => trk'[k].reqs = {},
         shifted' \in Seq([trk : Trk, status : Data])
  PROVE  RequestInv'
<1> USE DEF RequestInv
<1>1. RequestType'
  BY DEF RequestType, Done, GetType
<1>2. AnsweredOnce'
  BY DEF AnsweredOnce, Done, RequestType, GetType
<1>3. Held'
  BY DEF Held, Done, RequestType, GetType, TrackerType
<1>4. QED
  BY <1>1, <1>2, <1>3

\* A request that is parked goes on one tracker, where there are only parked ones.
LEMMA ParkKeeps ==
  ASSUME RequestInv, NEW g \in Gets, get[g].state = "new",
         NEW t \in Ranks, NEW k \in Trk, NEW timer \in BOOLEAN,
         Park(g, t, k, timer), UNCHANGED shifted
  PROVE  RequestInv'
<1> USE DEF RequestInv
<1>1. RequestType'
  BY DEF RequestType, Park, GetType, TrackerType
<1>2. AnsweredOnce'
  BY DEF AnsweredOnce, Park, RequestType, GetType
<1>3. Held'
  BY DEF Held, Park, RequestType, GetType, TrackerType
<1>4. QED
  BY <1>1, <1>2, <1>3

\* Retiring trackers answers the requests on them and leaves those of the others.
LEMMA RetireKeeps ==
  ASSUME RequestInv, NEW K \in SUBSET Trk, Retire(K),
         shifted' \in Seq([trk : Trk, status : Data])
  PROVE  RequestInv'
<1> DEFINE G == UNION {trk[k].reqs : k \in K}
<1>1. /\ G \in SUBSET Gets
      /\ \A g \in G : get[g].state # "done"
  BY DEF RequestInv, RequestType, TrackerType, Held
<1>2. trk' \in [Trk -> TrackerType]
  BY DEF Retire, RequestInv, RequestType, TrackerType, Unused
<1>3. \A k \in Trk : trk'[k].reqs = trk[k].reqs \ G
  BY DEF Retire, Unused, RequestInv, Held
<1>4. \A k \in Trk : ~trk'[k].linked => trk'[k].reqs = {}
  BY DEF Retire, Unused, RequestInv, Held
<1>5. QED
  BY <1>1, <1>2, <1>3, <1>4, DoneKeeps, Zenon DEF Retire

-----------------------------------------------------------------------------
(* Every step keeps the invariant.                                         *)

\* The request invariant holds before anybody asks.
LEMMA InitRequest == Init => RequestInv
  BY DEF Init, RequestInv, RequestType, Held, AnsweredOnce, TrackerType, GetType, Unused

\* Nothing but the registry, the host's side or a queue entry changes.
LEMMA OthersKeep ==
  ASSUME RequestInv, UNCHANGED requests, shifted' \in Seq([trk : Trk, status : Data])
  PROVE  RequestInv'
  BY DEF RequestInv, RequestType, Held, AnsweredOnce, requests

\* A request that never waited is answered.
LEMMA AnsweredKeeps ==
  ASSUME RequestInv, NEW g \in Gets, get[g].state = "new", Done({g}), UNCHANGED <<trk, shifted>>
  PROVE  RequestInv'
<1>1. RequestType /\ \A k \in Trk : g \notin trk[k].reqs
  BY DEF RequestInv, Held
<1>2. \A k \in Trk : trk'[k].reqs = trk[k].reqs \ {g}
  BY <1>1
<1>3. trk' \in [Trk -> TrackerType] /\ shifted' \in Seq([trk : Trk, status : Data])
  BY <1>1 DEF RequestType
<1>4. \A k \in Trk : ~trk'[k].linked => trk'[k].reqs = {}
  BY DEF RequestInv, Held
<1>5. {g} \in SUBSET Gets /\ \A h \in {g} : get[h].state # "done"
  OBVIOUS
<1>6. QED
  BY <1>2, <1>3, <1>4, <1>5, DoneKeeps, Zenon

\* _defer and the tracker it finds or creates keep the request invariant.
LEMMA DeferKeeps ==
  ASSUME RequestInv, NEW g \in Gets, get[g].state = "new", NEW t \in Ranks,
         NEW kind \in Kinds, NEW timer \in BOOLEAN, UNCHANGED shifted,
         defer_response(g, t, kind, timer)
  PROVE  RequestInv'
<1>1. CASE Done({g}) /\ UNCHANGED trk
  BY <1>1, AnsweredKeeps
<1>2. CASE \E k \in IF For(t) = {} THEN Fresh ELSE For(t) : Park(g, t, k, timer)
  BY <1>2, ParkKeeps DEF Fresh, For, Linked
<1>3. QED
  BY <1>1, <1>2 DEF defer_response

\* A request passed on to the host or parked keeps the request invariant.
LEMMA RequestKeeps ==
  ASSUME RequestInv, NEW g \in Gets, get[g].state = "new", NEW t \in Ranks,
         NEW kind \in Kinds, UNCHANGED shifted, request(g, t, kind)
  PROVE  RequestInv'
<1>1. CASE Done({g}) /\ UNCHANGED trk
  BY <1>1, AnsweredKeeps
<1>2. CASE \E k \in Trk : Park(g, t, k, FALSE)
  BY <1>2, ParkKeeps, Zenon
<1>3. QED
  BY <1>1, <1>2, Zenon DEF request, For, Linked, Fresh

\* pmix_server_get keeps the request invariant.
LEMMA GetKeeps ==
  ASSUME RequestInv, NEW g \in Gets, NEW t \in Ranks, NEW kind \in Kinds,
         pmix_server_get(g, t, kind)
  PROVE  RequestInv'
<1>1. get[g].state = "new" /\ UNCHANGED shifted
  BY DEF pmix_server_get
<1>2. CASE Done({g}) /\ UNCHANGED trk
  BY <1>1, <1>2, AnsweredKeeps
<1>3. CASE request(g, t, kind)
  BY <1>1, <1>3, RequestKeeps
<1>4. CASE \E timer \in BOOLEAN : defer_response(g, t, kind, timer)
  BY <1>1, <1>4, DeferKeeps
<1>5. QED
  BY <1>2, <1>3, <1>4, Zenon DEF pmix_server_get

\* get_timeout answers a request that is still on its tracker.
LEMMA TimeoutKeeps ==
  ASSUME RequestInv, NEW g \in Gets, get_timeout(g)
  PROVE  RequestInv'
<1>1. Done({g}) /\ UNCHANGED shifted /\ get[g].state # "done"
  BY DEF get_timeout
<1>2. /\ trk' \in [Trk -> TrackerType]
      /\ \A k \in Trk : trk'[k].reqs = trk[k].reqs \ {g}
      /\ \A k \in Trk : trk'[k].linked = trk[k].linked
  BY Zenon DEF get_timeout, RequestInv, RequestType, TrackerType
<1>3. \A k \in Trk : ~trk'[k].linked => trk'[k].reqs = {}
  BY <1>2 DEF RequestInv, Held
<1>4. QED
  BY <1>1, <1>2, <1>3, DoneKeeps, Zenon DEF RequestInv, RequestType

\* The answer of the host that is handled next.
LEMMA HeadTyped ==
  ASSUME RequestInv, shifted # <<>>
  PROVE  /\ Head(shifted).trk \in Trk /\ Head(shifted).status \in Data
         /\ Tail(shifted) \in Seq([trk : Trk, status : Data])
<1> DEFINE Answer == [trk : Trk, status : Data]
<1>1. shifted \in Seq(Answer)
  BY DEF RequestInv, RequestType
<1>2. \A x \in Answer : x.trk \in Trk /\ x.status \in Data
  OBVIOUS
<1> HIDE DEF Answer
<1>3. Tail(shifted) \in Seq(Answer) /\ Head(shifted) \in Answer
  BY <1>1
<1>4. QED
  BY <1>2, <1>3 DEF Answer

\* process_dmdx_reply answers the requests of the tracker it was asked for.
LEMMA ReplyKeeps ==
  ASSUME RequestInv, process_dmdx_reply
  PROVE  RequestInv'
<1>1. shifted # <<>> /\ shifted' = Tail(shifted)
  BY DEF process_dmdx_reply
<1>2. shifted' \in Seq([trk : Trk, status : Data]) /\ Head(shifted).trk \in Trk
  BY <1>1, HeadTyped
<1>3. CASE Retire({Head(shifted).trk})
  BY <1>2, <1>3, RetireKeeps, Zenon
<1>4. CASE UNCHANGED requests
  BY <1>2, <1>4, OthersKeep
<1>5. QED
  BY <1>3, <1>4 DEF process_dmdx_reply, requests

\* pmix_pending_nspace_requests keeps the request invariant.
LEMMA PendingKeeps ==
  ASSUME RequestInv, UNCHANGED shifted, pmix_pending_nspace_requests
  PROVE  RequestInv'
<1>1. PICK K \in SUBSET Trk : Retire(K)
  BY DEF pmix_pending_nspace_requests, Linked
<1>2. QED
  BY <1>1, RetireKeeps, Zenon DEF RequestInv, RequestType

\* Every step keeps the request invariant.
LEMMA StepKeeps ==
  ASSUME RequestInv, Next
  PROVE  RequestInv'
<1>1. ASSUME NEW g \in Gets, get_timeout(g) PROVE RequestInv'
  BY <1>1, TimeoutKeeps
<1>2. ASSUME NEW g \in Gets, NEW t \in Ranks, NEW kind \in Kinds, pmix_server_get(g, t, kind)
      PROVE RequestInv'
  BY <1>2, GetKeeps
<1>3. ASSUME NEW k \in Trk, NEW st \in Data, dmdx_cbfunc(k, st) PROVE RequestInv'
  <2>1. shifted' \in Seq([trk : Trk, status : Data])
    BY <1>3 DEF dmdx_cbfunc, RequestInv, RequestType
  <2>2. QED
    BY <1>3, <2>1, OthersKeep DEF dmdx_cbfunc, requests
<1>4. CASE process_dmdx_reply
  BY <1>4, ReplyKeeps
<1>5. CASE register_nspace
  BY <1>5, PendingKeeps DEF register_nspace
<1>6. ASSUME NEW l \in Local, register_client(l) PROVE RequestInv'
  <2>1. CASE pmix_pending_nspace_requests
    BY <1>6, <2>1, PendingKeeps DEF register_client
  <2>2. CASE UNCHANGED requests
    BY <1>6, <2>2, OthersKeep DEF register_client, RequestInv, RequestType
  <2>3. QED
    BY <1>6, <2>1, <2>2 DEF register_client, requests
<1>7. ASSUME NEW l \in Local, connect(l) \/ deregister_client(l) \/ \E a \in Asks : dmodex_req(a, l)
      PROVE RequestInv'
  BY <1>7, OthersKeep DEF connect, deregister_client, dmodex_req, requests, RequestInv, RequestType
<1>8. ASSUME NEW l \in Local, purge_events(l) PROVE RequestInv'
  BY <1>8, RetireKeeps, Zenon DEF purge_events, For, Linked, RequestInv, RequestType
<1>9. ASSUME NEW l \in Local, NEW data \in Data, pmix_server_commit(l, data) PROVE RequestInv'
  BY <1>9, RetireKeeps, Zenon DEF pmix_server_commit, Linked, RequestInv, RequestType
<1>10. QED
  BY <1>1, <1>2, <1>3, <1>4, <1>5, <1>6, <1>7, <1>8, <1>9 DEF Next

\* pmix_server_get, get_timeout, process_dmdx_reply, pmix_pending_nspace_requests,
\* pmix_server_commit and pmix_server_purge_events answer a request and take it off its
\* tracker together, so that none of them answers one another has answered: for any
\* number of requests and trackers and any behaviour of the host.
THEOREM GetAnsweredOnce == Spec => []AnsweredOnce
<1>1. RequestInv /\ UNCHANGED vars => RequestInv'
  BY OthersKeep DEF vars, requests, RequestInv, RequestType
<1>2. RequestInv /\ [Next]_vars => RequestInv'
  BY <1>1, StepKeeps
<1>3. RequestInv => AnsweredOnce
  BY DEF RequestInv
<1>4. QED
  BY InitRequest, <1>2, <1>3, PTL DEF Spec

-----------------------------------------------------------------------------
(* The requests of the host.                                               *)

\* The ranks the registry knows, and what their life tells.
Registry ==
  /\ ranks \cup departed # {} => known
  /\ \A l \in Local : peer[l] = "connected" => l \in ranks
  /\ modex_recvd \subseteq ranks \cup departed
  /\ peer \in [Local -> {"absent", "connected", "finalized", "lost"}]
  /\ ask \in [Asks -> Local \cup {NOBODY}]
  /\ scenario \in Scenarios

\* The host does not ask for a process that went away and never committed.
AsksForPresent == \A s \in Scenarios : "gone" \notin s.asks

AskInv == Registry /\ HostAskAnswerable

\* Every step keeps the invariant of the requests of the host.
LEMMA AskStep ==
  ASSUME AsksForPresent, AskInv, Next
  PROVE  AskInv'
<1> USE DEF AskInv, Gone
<1>1. ASSUME NEW g \in Gets, \/ get_timeout(g)
                             \/ \E t \in Ranks, kind \in Kinds : pmix_server_get(g, t, kind)
      PROVE AskInv'
  BY <1>1, Zenon DEF get_timeout, pmix_server_get, registry, Registry, HostAskAnswerable
<1>2. ASSUME NEW k \in Trk, NEW st \in Data, dmdx_cbfunc(k, st) PROVE AskInv'
  BY <1>2 DEF dmdx_cbfunc, registry, Registry, HostAskAnswerable
<1>3. CASE process_dmdx_reply
  BY <1>3 DEF process_dmdx_reply, Registry, HostAskAnswerable
<1>4. CASE register_nspace
  BY <1>4 DEF register_nspace, Registry, HostAskAnswerable
<1>5. ASSUME NEW l \in Local, register_client(l) PROVE AskInv'
  BY <1>5 DEF register_client, Registry, HostAskAnswerable
<1>6. ASSUME NEW l \in Local, connect(l) PROVE AskInv'
  BY <1>6 DEF connect, Registry, HostAskAnswerable
<1>7. ASSUME NEW l \in Local, deregister_client(l) PROVE AskInv'
  BY <1>7 DEF deregister_client, Registry, HostAskAnswerable
<1>8. ASSUME NEW l \in Local, NEW a \in Asks, dmodex_req(a, l) PROVE AskInv'
  <2>1. Registry'
    BY <1>8 DEF dmodex_req, registry, Registry
  <2>2. CASE UNCHANGED ask
    BY <1>8, <2>1, <2>2 DEF dmodex_req, registry, HostAskAnswerable
  <2>3. CASE ask' = [ask EXCEPT ![a] = l] /\ ~(known /\ l \in (ranks \cap modex_recvd) \cup departed)
    <3>1. l \notin departed \cup modex_recvd
      BY <2>3 DEF Registry
    <3>2. ~Gone(l)
      BY <1>8, <3>1 DEF dmodex_req, AsksForPresent, Registry
    <3>3. HostAskAnswerable'
      BY <1>8, <2>3, <3>1, <3>2 DEF dmodex_req, registry, Registry, HostAskAnswerable
    <3>4. QED
      BY <2>1, <3>3
  <2>4. QED
    BY <1>8, <2>2, <2>3 DEF dmodex_req
<1>9. ASSUME NEW l \in Local, purge_events(l) PROVE AskInv'
  <2>0. scenario.departs \subseteq {"finalized", "lost"}
    BY ModexAssumption DEF Registry, ScenarioType
  <2>1. Registry'
    BY <1>9, <2>0 DEF purge_events, Registry
  <2>2. ASSUME NEW a \in Asks, ask'[a] # NOBODY
        PROVE  ask'[a] \notin departed' \cup modex_recvd' /\ peer'[ask'[a]] \notin {"finalized", "lost"}
    <3>1. ask'[a] = ask[a] /\ ask[a] # l /\ ask[a] \in Local
      BY <1>9, <2>2 DEF purge_events, Registry
    <3>2. peer'[ask[a]] = peer[ask[a]]
      BY <1>9, <3>1 DEF purge_events, Registry
    <3>3. QED
      BY <1>9, <2>2, <3>1, <3>2 DEF purge_events, HostAskAnswerable
  <2>3. QED
    BY <2>1, <2>2 DEF HostAskAnswerable
<1>10. ASSUME NEW l \in Local, NEW data \in Data, pmix_server_commit(l, data) PROVE AskInv'
  BY <1>10 DEF pmix_server_commit, Registry, HostAskAnswerable
<1>11. QED
  BY <1>1, <1>2, <1>3, <1>4, <1>5, <1>6, <1>7, <1>8, <1>9, <1>10 DEF Next

\* A direct modex request of the host that _dmodex_req parks on remote_pnd is for a process
\* that may still commit, provided the host does not ask for one that went away without
\* committing: pmix_server_commit and pmix_server_purge_events sweep the list, and
\* deregistration can leave nobody on it.
THEOREM AskStaysAnswerable ==
  ASSUME AsksForPresent
  PROVE  Spec => []HostAskAnswerable
<1>1. Init => AskInv
  BY Zenon DEF Init, AskInv, Registry, HostAskAnswerable
<1>2. AskInv /\ [Next]_vars => AskInv'
  <2>1. AskInv /\ UNCHANGED vars => AskInv'
    BY DEF vars, registry, AskInv, Registry, HostAskAnswerable, Gone
  <2>2. QED
    BY <2>1, AskStep
<1>3. AskInv => HostAskAnswerable
  BY DEF AskInv
<1>4. QED
  BY <1>1, <1>2, <1>3, PTL DEF Spec

-----------------------------------------------------------------------------
(* Nobody is forgotten.                                                    *)

\* The host has registered everybody before a process commits or goes away, and does not
\* deregister single processes while others ask for them.
RegistersFirst ==
  \A s \in Scenarios : ~s.early /\ ~s.deregister /\ (s.departs # {} => s.start = "all")

\* What the registry tells of the ranks.
RegistryInv ==
  /\ scenario \in Scenarios /\ nlocalprocs \in Nat
  /\ all_registered \in BOOLEAN /\ known \in BOOLEAN
  /\ ranks \subseteq Local
  /\ peer \in [Local -> {"absent", "connected", "finalized", "lost"}]
  /\ store \in [Ranks -> Data]
  /\ all_registered => known /\ ranks = Local /\ nlocalprocs <= Cardinality(Local)
  /\ ~all_registered => modex_recvd = {} /\ scenario.departs = {}
  /\ (\A l \in Local : ~Gone(l)) => nlocalprocs >= Cardinality(Local)
  /\ \A l \in Local : Gone(l) => scenario.departs # {}
  /\ \A l \in modex_recvd : l \in Local /\ peer[l] # "absent"

\* A tracker whose target has yet to be registered, to connect or to commit the key.
Open(t) ==
  \/ ~all_registered
  \/ t \in ranks /\ ~Gone(t) /\ (t \in modex_recvd => store[t] # "key")

\* One tracker for a target; once everybody is registered, a target that is not here was
\* asked of the host; and nobody waits without a timer for what will not come.
WaitInv ==
  /\ owed \in [Trk -> Nat]
  /\ \A k \in Linked : trk[k].target \in Ranks
  /\ \A j, k \in Linked : trk[j].target = trk[k].target => j = k
  /\ \A k \in Linked :
       all_registered /\ (trk[k].target \notin ranks \/ nlocalprocs = 0) => Coming(k)
  /\ \A k \in Linked : \A g \in trk[k].reqs :
       get[g].timer \/ Coming(k) \/ Open(trk[k].target)

ForgottenInv == RequestInv /\ RegistryInv /\ WaitInv

\* The ranks of the namespace that live here are finitely many.
LEMMA LocalCount ==
  Cardinality(Local) \in Nat /\ IsFiniteSet(Local)
  BY ModexAssumption, FS_Subset, FS_CardinalityType DEF Ranks

\* The invariant says of every request what it waits for.
LEMMA ForgottenImplies ==
  ForgottenInv => NobodyForgotten
<1> SUFFICES ASSUME ForgottenInv, NEW g \in Gets, get[g].state = "parked"
             PROVE  \E k \in Linked :
                      /\ g \in trk[k].reqs
                      /\ \/ get[g].timer \/ Coming(k)
                         \/ ~all_registered /\ nlocalprocs >= Cardinality(Local)
                         \/ /\ trk[k].target \in ranks /\ ~Gone(trk[k].target)
                            /\ trk[k].target \in modex_recvd => store[trk[k].target] # "key"
  BY DEF NobodyForgotten
<1>1. PICK k \in Linked : g \in trk[k].reqs
  BY DEF ForgottenInv, RequestInv, Held, Linked
<1>2. get[g].timer \/ Coming(k) \/ Open(trk[k].target)
  BY <1>1 DEF ForgottenInv, WaitInv
<1>3. ~all_registered => nlocalprocs >= Cardinality(Local)
  BY DEF ForgottenInv, RegistryInv
<1>4. QED
  BY <1>1, <1>2, <1>3 DEF Open

\* Every step keeps the registry in order: counts, names and connections agree.
LEMMA RegistryStep ==
  ASSUME RegistersFirst, RequestInv, RegistryInv, WaitInv, Next
  PROVE  RegistryInv'
<1> USE DEF Gone
<1>0. /\ scenario \in Scenarios /\ scenario.departs \subseteq {"finalized", "lost"}
      /\ ~scenario.early /\ ~scenario.deregister
      /\ scenario.departs # {} => all_registered
  BY ModexAssumption DEF ScenarioType, RegistersFirst, RegistryInv
<1>1. ASSUME NEW g \in Gets, \/ get_timeout(g)
                             \/ \E t \in Ranks, kind \in Kinds : pmix_server_get(g, t, kind)
      PROVE RegistryInv'
  <2>1. UNCHANGED <<registry, store>>
    BY <1>1, Zenon DEF get_timeout, pmix_server_get
  <2>2. QED
    BY <2>1 DEF registry, RegistryInv
<1>2. ASSUME NEW k \in Trk, NEW st \in Data, dmdx_cbfunc(k, st) PROVE RegistryInv'
  BY <1>2 DEF dmdx_cbfunc, registry, RegistryInv
<1>3. CASE process_dmdx_reply
  <2>1. Head(shifted).trk \in Trk /\ Head(shifted).status \in Data
    BY <1>3, HeadTyped DEF process_dmdx_reply
  <2>2. store' \in [Ranks -> Data]
    BY <1>3, <2>1 DEF process_dmdx_reply, RegistryInv, WaitInv, Linked, tracker_is_pending
  <2>3. /\ UNCHANGED <<scenario, nlocalprocs, ranks, all_registered, peer, modex_recvd>>
        /\ known' = TRUE \/ known' = known
    BY <1>3 DEF process_dmdx_reply
  <2>4. QED
    BY <2>2, <2>3, Zenon DEF RegistryInv
<1>4. CASE register_nspace
  <2>1. /\ UNCHANGED <<scenario, ranks, peer, modex_recvd, store>>
        /\ known' = TRUE /\ nlocalprocs' = Cardinality(Local) /\ all_registered' \in BOOLEAN
        /\ all_registered' => Cardinality(Local) = Cardinality(ranks)
    BY <1>4, Zenon DEF register_nspace
  <2>2. ~all_registered
    BY <1>4, LocalCount DEF register_nspace, RegistryInv, SIZE_MAX
  <2>3. all_registered' => ranks' = Local
    BY <2>1, LocalCount, FS_Subset DEF RegistryInv
  <2>4. QED
    BY <2>1, <2>2, <2>3, LocalCount DEF RegistryInv
<1>5. ASSUME NEW l \in Local, register_client(l) PROVE RegistryInv'
  <2>1. /\ UNCHANGED <<scenario, nlocalprocs, peer, modex_recvd, store>>
        /\ known' = TRUE /\ ranks' = ranks \cup {l}
        /\ \/ all_registered' = TRUE /\ nlocalprocs = Cardinality(ranks')
           \/ all_registered' = all_registered
    BY <1>5 DEF register_client
  <2>2. ranks' \subseteq Local
    BY <2>1 DEF RegistryInv
  <2>3. /\ Cardinality(ranks') \in Nat /\ Cardinality(ranks') <= Cardinality(Local)
        /\ Cardinality(ranks') = Cardinality(Local) => ranks' = Local
    BY <2>2, LocalCount, FS_Subset, FS_CardinalityType
  <2>4. \A x \in Local : Gone(x)' <=> Gone(x)
    BY <2>1
  <2>5. all_registered' => ranks' = Local /\ nlocalprocs' <= Cardinality(Local)
    <3>1. CASE all_registered
      BY <2>1, <3>1 DEF RegistryInv
    <3>2. CASE ~all_registered
      <4>1. nlocalprocs >= Cardinality(Local) /\ nlocalprocs \in Nat /\ nlocalprocs' = nlocalprocs
        BY <2>1, <3>2 DEF RegistryInv
      <4>2. all_registered' => Cardinality(ranks') = nlocalprocs
        BY <2>1, <3>2, Zenon
      <4>3. QED
        BY <2>3, <4>1, <4>2, LocalCount
    <3>3. QED
      BY <3>1, <3>2
  <2>6. QED
    BY <2>1, <2>2, <2>4, <2>5, Zenon DEF RegistryInv
<1>6. ASSUME NEW l \in Local, connect(l) PROVE RegistryInv'
  <2>1. /\ UNCHANGED <<scenario, known, nlocalprocs, ranks, all_registered, modex_recvd, store>>
        /\ peer' = [peer EXCEPT ![l] = "connected"] /\ peer[l] = "absent"
    BY <1>6 DEF connect
  <2>2. \A x \in Local : Gone(x)' <=> Gone(x)
    BY <2>1 DEF RegistryInv
  <2>3. QED
    BY <2>1, <2>2 DEF RegistryInv
<1>7. ASSUME NEW l \in Local, deregister_client(l) PROVE RegistryInv'
  BY <1>7, <1>0 DEF deregister_client
<1>8. ASSUME NEW l \in Local, NEW a \in Asks, dmodex_req(a, l) PROVE RegistryInv'
  BY <1>8 DEF dmodex_req, registry, RegistryInv
<1>9. ASSUME NEW l \in Local, purge_events(l) PROVE RegistryInv'
  <2>1. /\ UNCHANGED <<scenario, known, ranks, all_registered, modex_recvd, store>>
        /\ \A x \in Local : ~Gone(x)
    BY <1>9 DEF purge_events
  <2>2. PICK how \in scenario.departs :
          /\ peer' = [peer EXCEPT ![l] = how]
          /\ nlocalprocs' = nlocalprocs - IF how = "lost" THEN 1 ELSE 0
    BY <1>9, Zenon DEF purge_events
  <2>3. Cardinality(Local) > 0
    BY LocalCount, FS_EmptySet
  <2>4. nlocalprocs >= Cardinality(Local)
    BY <2>1 DEF RegistryInv
  <2>5. nlocalprocs' \in Nat /\ (all_registered => nlocalprocs' <= Cardinality(Local))
    BY <2>2, <2>3, <2>4, LocalCount DEF RegistryInv
  <2>6. peer' \in [Local -> {"absent", "connected", "finalized", "lost"}] /\ Gone(l)'
    BY <2>2, <1>0 DEF RegistryInv
  <2>7. \A x \in modex_recvd' : x \in Local /\ peer'[x] # "absent"
    BY <2>1, <2>2, <1>0 DEF RegistryInv
  <2>8. QED
    BY <2>1, <2>2, <2>5, <2>6, <2>7, <1>0 DEF RegistryInv
<1>10. ASSUME NEW l \in Local, NEW data \in Data, pmix_server_commit(l, data) PROVE RegistryInv'
  <2>1. /\ UNCHANGED <<scenario, known, nlocalprocs, ranks, all_registered, peer>>
        /\ all_registered /\ peer[l] = "connected" /\ modex_recvd' = modex_recvd \cup {l}
        /\ store' = [store EXCEPT ![l] = IF @ = "key" THEN @ ELSE data]
    BY <1>10, <1>0 DEF pmix_server_commit
  <2>2. store' \in [Ranks -> Data]
    BY <2>1 DEF RegistryInv, Ranks
  <2>3. QED
    BY <2>1, <2>2 DEF RegistryInv
<1>11. QED
  BY <1>1, <1>2, <1>3, <1>4, <1>5, <1>6, <1>7, <1>8, <1>9, <1>10 DEF Next

\* The trackers in K are retired and the others still have something to wait for.
LEMMA RetireWaits ==
  ASSUME RequestInv, WaitInv, NEW K \in SUBSET Trk, Retire(K),
         owed' \in [Trk -> Nat],
         \A k \in Linked \ K :
           all_registered' /\ (trk[k].target \notin ranks' \/ nlocalprocs' = 0) => Coming(k)',
         \A k \in Linked \ K : \A g \in trk[k].reqs :
           get[g].timer \/ Coming(k)' \/ Open(trk[k].target)'
  PROVE  WaitInv'
<1>1. \A k \in Trk : trk'[k] = IF k \in K THEN Unused ELSE trk[k]
  BY DEF Retire
<1>2. Linked' = Linked \ K
  BY <1>1 DEF Linked, Unused
<1>3. ASSUME NEW k \in Linked \ K, NEW g \in trk[k].reqs
      PROVE  get'[g] = get[g]
  <2>1. k \in Trk /\ k \notin K /\ trk[k].reqs \subseteq Gets
    BY <1>3 DEF RequestInv, RequestType, TrackerType, Linked
  <2>3. \A j \in K : g \notin trk[j].reqs
    BY <1>3, <2>1 DEF RequestInv, Held
  <2>2. QED
    BY <1>3, <2>1, <2>3 DEF Retire, Done
<1>4. QED
  BY <1>1, <1>2, <1>3 DEF WaitInv, Linked

\* What the host owes grows by what it is asked.
LEMMA OwedGrows ==
  ASSUME NEW f \in [Trk -> Nat], NEW k \in Trk
  PROVE  /\ \A j \in Trk : f[j] >= f[j]
         /\ [f EXCEPT ![k] = @ + 1] \in [Trk -> Nat]
         /\ \A j \in Trk : [f EXCEPT ![k] = @ + 1][j] >= f[j]
         /\ [f EXCEPT ![k] = @ + 1][k] > 0
OBVIOUS

\* A request joins the tracker of its target, or a new one, and has something to wait for.
LEMMA ParkWaits ==
  ASSUME RequestInv, WaitInv, NEW g \in Gets, get[g].state = "new", NEW t \in Ranks,
         NEW k \in IF For(t) = {} THEN Fresh ELSE For(t), NEW timer \in BOOLEAN,
         Park(g, t, k, timer), UNCHANGED <<registry, store, shifted>>,
         owed' \in [Trk -> Nat], \A j \in Trk : owed'[j] >= owed[j],
         timer \/ Coming(k)' \/ Open(t),
         all_registered /\ (t \notin ranks \/ nlocalprocs = 0) => Coming(k)'
  PROVE  WaitInv'
<1>1. k \in Trk /\ (trk[k].linked => trk[k].target = t)
  BY DEF For, Fresh, Linked
<1>2. Linked' = Linked \cup {k}
  BY <1>1 DEF Park, Linked, RequestInv, RequestType, TrackerType
<1>3. \A j \in Trk \ {k} : trk'[j] = trk[j]
  BY <1>1 DEF Park, RequestInv, RequestType
<1>4. trk'[k] = [linked |-> TRUE, target |-> t, reqs |-> trk[k].reqs \cup {g}]
  BY <1>1 DEF Park, RequestInv, RequestType
<1>5. \A j \in Trk : Coming(j) => Coming(j)'
  BY DEF Coming, WaitInv
<1>6. UNCHANGED <<all_registered, ranks, peer, modex_recvd, store>>
  BY DEF registry
<1>7. \A h \in Gets : get'[h] = IF h = g THEN [state |-> "parked", timer |-> timer] ELSE get[h]
  BY DEF Park, RequestInv, RequestType
<1>8. \A j \in Trk : g \notin trk[j].reqs /\ trk[j].reqs \subseteq Gets
  BY DEF RequestInv, Held, RequestType, TrackerType
<1>9. \A i, j \in Linked' : trk'[i].target = trk'[j].target => i = j
  <2>1. ASSUME NEW i \in Linked, i # k PROVE trk[i].target # t
    <3>1. CASE For(t) = {}
      BY <2>1, <3>1 DEF For
    <3>2. CASE For(t) # {}
      BY <2>1, <3>2, <1>1 DEF For, WaitInv
    <3>3. QED
      BY <3>1, <3>2
  <2>2. QED
    <3>1. \A i \in Linked : i # k => trk'[i] = trk[i] /\ trk[i].target # t
      BY <2>1, <1>3 DEF Linked
    <3>2. trk'[k].target = t
      BY <1>4
    <3>3. \A i, j \in Linked : trk[i].target = trk[j].target => i = j
      BY DEF WaitInv
    <3>4. ASSUME NEW i \in Linked', NEW j \in Linked', trk'[i].target = trk'[j].target
          PROVE  i = j
      <4>1. CASE i # k /\ j # k
        BY <1>2, <3>1, <3>3, <3>4, <4>1
      <4>2. CASE i = k \/ j = k
        BY <1>2, <3>1, <3>2, <3>4, <4>2
      <4>3. QED
        BY <4>1, <4>2
    <3>5. QED
      BY <3>4
<1>10. ASSUME NEW j \in Linked'
       PROVE  /\ trk'[j].target \in Ranks
              /\ all_registered' /\ (trk'[j].target \notin ranks' \/ nlocalprocs' = 0) => Coming(j)'
  <2>1. CASE j = k
    BY <2>1, <1>4 DEF registry
  <2>2. CASE j # k
    BY <2>2, <1>2, <1>3, <1>5 DEF registry, WaitInv, Linked
  <2>3. QED
    BY <2>1, <2>2
<1>11. ASSUME NEW j \in Linked', NEW h \in trk'[j].reqs
       PROVE  get'[h].timer \/ Coming(j)' \/ Open(trk[j].target)'
  <2>1. CASE j # k
    <3>1. j \in Linked /\ h \in trk[j].reqs /\ j \in Trk
      BY <1>11, <2>1, <1>2, <1>3 DEF Linked
    <3>2. h # g /\ h \in Gets /\ trk[j].target \in Ranks
      BY <3>1, <1>8 DEF WaitInv
    <3>3. QED
      BY <2>1, <3>1, <3>2, <1>3, <1>5, <1>6, <1>7 DEF WaitInv, Open, Gone
  <2>2. CASE j = k /\ h = g
    BY <2>2, <1>4, <1>6, <1>7 DEF Open, Gone
  <2>3. CASE j = k /\ h # g
    <3>1. h \in trk[k].reqs /\ h \in Gets
      <4>1. trk'[k].reqs = trk[k].reqs \cup {g}
        BY <1>4
      <4>2. QED
        BY <1>11, <2>3, <1>1, <4>1, <1>8
    <3>2. k \in Linked
      BY <3>1, <1>1 DEF RequestInv, Held, Linked
    <3>3. get[h].timer \/ Coming(k) \/ Open(t)
      BY <3>1, <3>2, <1>1 DEF WaitInv, Linked
    <3>4. QED
      <4>1. get'[h] = get[h] /\ trk'[k].target = t
        BY <2>3, <3>1, <1>4, <1>7
      <4>2. Open(t) => Open(t)'
        BY <1>6 DEF Open, Gone
      <4>3. Coming(k) => Coming(k)'
        BY <1>1, <1>5
      <4>4. trk[k].target = t
        BY <3>2, <1>1 DEF Linked
      <4>5. QED
        BY <2>3, <3>3, <4>1, <4>2, <4>3, <4>4
  <2>4. QED
    BY <2>1, <2>2, <2>3
<1>12. QED
  BY <1>9, <1>10, <1>11 DEF WaitInv

\* Nothing changes on the trackers, and what they wait for stays.
LEMMA OthersWait ==
  ASSUME WaitInv, UNCHANGED requests, owed' \in [Trk -> Nat],
         \A k \in Linked : Coming(k) => Coming(k)',
         \A k \in Linked :
           all_registered' /\ (trk[k].target \notin ranks' \/ nlocalprocs' = 0)
             => all_registered /\ (trk[k].target \notin ranks \/ nlocalprocs = 0),
         \A k \in Linked : Open(trk[k].target) => Open(trk[k].target)'
  PROVE  WaitInv'
<1>1. Linked' = Linked /\ UNCHANGED <<trk, get>>
  BY DEF Linked, requests
<1>2. QED
  BY <1>1 DEF WaitInv

\* A request that never waited is answered.
LEMMA DoneWaits ==
  ASSUME RequestInv, WaitInv, NEW g \in Gets, get[g].state = "new", Done({g}),
         UNCHANGED <<registry, store, trk, owed, shifted>>
  PROVE  WaitInv'
<1>1. \A k \in Trk : g \notin trk[k].reqs /\ trk[k].reqs \subseteq Gets
  BY DEF RequestInv, Held, RequestType, TrackerType
<1>2. \A h \in Gets : h # g => get'[h] = get[h]
  BY DEF Done
<1>3. Linked' = Linked /\ UNCHANGED <<all_registered, ranks, nlocalprocs, owed, trk>>
  BY DEF Linked, registry
<1>4. \A k \in Linked : Coming(k) => Coming(k)'
  BY DEF Coming
<1>5. \A k \in Linked : Open(trk[k].target) => Open(trk[k].target)'
  BY DEF Open, Gone, registry
<1>6. \A k \in Linked : \A h \in trk[k].reqs : get'[h] = get[h]
  BY <1>1, <1>2 DEF Linked
<1>7. /\ owed' \in [Trk -> Nat] /\ \A k \in Linked' : trk'[k].target \in Ranks
      /\ \A j, k \in Linked' : trk'[j].target = trk'[k].target => j = k
  BY <1>3 DEF WaitInv
<1>8. \A k \in Linked' :
        all_registered' /\ (trk'[k].target \notin ranks' \/ nlocalprocs' = 0) => Coming(k)'
  BY <1>3, <1>4 DEF WaitInv
<1>9. \A k \in Linked' : \A h \in trk'[k].reqs :
        get'[h].timer \/ Coming(k)' \/ Open(trk[k].target)'
  BY <1>3, <1>4, <1>5, <1>6 DEF WaitInv
<1>10. QED
  BY <1>7, <1>8, <1>9, Zenon DEF WaitInv

\* A request passed on to the host, or parked, has something to wait for.
LEMMA RequestWaits ==
  ASSUME RequestInv, WaitInv, NEW g \in Gets, get[g].state = "new", NEW t \in Ranks,
         NEW kind \in Kinds, request(g, t, kind), UNCHANGED <<registry, store, shifted>>,
         \A k \in For(t) : Coming(k) \/ Open(t),
         \A k \in For(t) : all_registered /\ (t \notin ranks \/ nlocalprocs = 0) => Coming(k)
  PROVE  WaitInv'
<1>1. CASE Done({g}) /\ UNCHANGED <<trk, owed>>
  BY <1>1, DoneWaits
<1>2. ASSUME NEW k \in For(t), Park(g, t, k, FALSE), UNCHANGED owed
      PROVE  WaitInv'
  <2>1. Coming(k)' <=> Coming(k)
    BY <1>2 DEF Coming
  <2>2. owed' \in [Trk -> Nat] /\ \A j \in Trk : owed'[j] >= owed[j]
    <3>1. owed \in [Trk -> Nat]
      BY DEF WaitInv
    <3>2. k \in Trk
      BY <1>2 DEF For, Linked
    <3>3. QED
      BY <1>2, <3>1, <3>2, OwedGrows
  <2>3. k \in IF For(t) = {} THEN Fresh ELSE For(t)
    BY <1>2
  <2>4. QED
    BY <1>2, <2>1, <2>2, <2>3, ParkWaits, Zenon
<1>3. ASSUME NEW k \in Fresh, For(t) = {}, Park(g, t, k, FALSE), owed' = [owed EXCEPT ![k] = @ + 1]
      PROVE  WaitInv'
  <2>1. owed' \in [Trk -> Nat] /\ (\A j \in Trk : owed'[j] >= owed[j]) /\ owed'[k] > 0
    <3>1. owed \in [Trk -> Nat] /\ k \in Trk
      BY <1>3 DEF WaitInv, Fresh
    <3>2. QED
      BY <1>3, <3>1, OwedGrows
  <2>2. Coming(k)'
    BY <2>1 DEF Coming
  <2>3. k \in IF For(t) = {} THEN Fresh ELSE For(t)
    BY <1>3
  <2>4. QED
    BY <1>3, <2>1, <2>2, <2>3, ParkWaits, Zenon
<1>4. QED
  BY <1>1, <1>2, <1>3, Zenon DEF request

\* A request deferred on a tracker has something to wait for.
LEMMA DeferWaits ==
  ASSUME RequestInv, WaitInv, NEW g \in Gets, get[g].state = "new", NEW t \in Ranks,
         NEW kind \in Kinds, NEW timer \in BOOLEAN, defer_response(g, t, kind, timer),
         UNCHANGED <<registry, store, owed, shifted>>,
         timer \/ Open(t), all_registered => t \in ranks /\ nlocalprocs # 0
  PROVE  WaitInv'
<1>1. CASE Done({g}) /\ UNCHANGED trk
  BY <1>1, DoneWaits
<1>2. ASSUME NEW k \in IF For(t) = {} THEN Fresh ELSE For(t), Park(g, t, k, timer)
      PROVE  WaitInv'
  <2>1. owed' \in [Trk -> Nat] /\ \A j \in Trk : owed'[j] >= owed[j]
    <3>1. owed \in [Trk -> Nat] /\ k \in Trk
      BY <1>2 DEF WaitInv, Fresh, For, Linked
    <3>2. QED
      BY <3>1, OwedGrows
  <2>2. QED
    BY <1>2, <2>1, ParkWaits
<1>3. QED
  BY <1>1, <1>2 DEF defer_response

\* Who waits after pmix_server_get: for a registration, for a commit, for the host, or with
\* a timer.
LEMMA GetWaits ==
  ASSUME RequestInv, RegistryInv, WaitInv, NEW g \in Gets, NEW t \in Ranks, NEW kind \in Kinds,
         pmix_server_get(g, t, kind)
  PROVE  WaitInv'
<1>1. get[g].state = "new" /\ UNCHANGED <<registry, store, shifted>>
  BY DEF pmix_server_get
<1>2. CASE Done({g}) /\ UNCHANGED <<trk, owed>>
  BY <1>1, <1>2, DoneWaits
<1>3. CASE ~known /\ request(g, t, kind)
  <2>1. ~all_registered
    BY <1>3 DEF RegistryInv
  <2>2. QED
    BY <1>1, <1>3, <2>1, RequestWaits DEF Open
<1>4. CASE ~all_registered /\ defer_response(g, t, kind, kind = "timeout") /\ UNCHANGED owed
  BY <1>1, <1>4, DeferWaits, Zenon DEF Open
<1>5. CASE /\ all_registered /\ Place(t) = "unconnected"
           /\ defer_response(g, t, kind, kind = "timeout") /\ UNCHANGED owed
  <2>1. nlocalprocs # 0 /\ t \in ranks /\ peer[t] = "absent"
    BY <1>5 DEF Place, RegistryInv
  <2>2. Open(t)
    BY <2>1 DEF Open, Gone, RegistryInv
  <2>3. QED
    BY <1>1, <1>5, <2>1, <2>2, DeferWaits, Zenon
<1>6. CASE all_registered /\ Place(t) = "local" /\ defer_response(g, t, kind, TRUE) /\ UNCHANGED owed
  <2>1. nlocalprocs # 0 /\ (nlocalprocs = Cardinality(Ranks) \/ t \in ranks)
    BY <1>6 DEF Place, RegistryInv
  <2>2. Cardinality(Ranks) \in Nat /\ Cardinality(Local) <= Cardinality(Ranks)
    BY ModexAssumption, FS_Subset, FS_CardinalityType DEF Ranks
  <2>3. nlocalprocs = Cardinality(Ranks) => Local = Ranks
    <3>1. nlocalprocs <= Cardinality(Local) /\ nlocalprocs \in Nat
      BY <1>6, LocalCount DEF RegistryInv
    <3>2. IsFiniteSet(Ranks) /\ Local \in SUBSET Ranks
      BY ModexAssumption DEF Ranks
    <3>3. Cardinality(Local) = Cardinality(Ranks) => Local = Ranks
      BY <3>2, FS_Subset
    <3>4. QED
      BY <2>2, <3>1, <3>3, LocalCount
  <2>4. t \in ranks
    BY <1>6, <2>1, <2>3 DEF RegistryInv
  <2>5. QED
    BY <1>1, <1>6, <2>1, <2>4, DeferWaits, Zenon
<1>7. CASE all_registered /\ Place(t) = "remote" /\ request(g, t, kind)
  <2>1. nlocalprocs = 0 \/ t \notin ranks
    BY <1>7 DEF Place, RegistryInv
  <2>2. \A k \in For(t) : Coming(k)
    BY <1>7, <2>1 DEF For, WaitInv
  <2>3. QED
    BY <1>1, <1>7, <2>2, RequestWaits
<1>8. QED
  BY <1>2, <1>3, <1>4, <1>5, <1>6, <1>7, Zenon DEF pmix_server_get

\* An expired timer takes its request off its tracker.
LEMMA TimeoutWaits ==
  ASSUME RequestInv, WaitInv, NEW g \in Gets, get_timeout(g)
  PROVE  WaitInv'
<1>1. /\ \A k \in Trk : /\ trk'[k].linked = trk[k].linked /\ trk'[k].target = trk[k].target
                        /\ trk'[k].reqs = trk[k].reqs \ {g} /\ trk[k].reqs \subseteq Gets
      /\ UNCHANGED <<registry, store, owed, shifted>>
      /\ \A h \in Gets : h # g => get'[h] = get[h]
  BY DEF get_timeout, Done, RequestInv, RequestType, TrackerType
<1>2. /\ Linked' = Linked
      /\ \A k \in Trk : (Coming(k) <=> Coming(k)')
      /\ all_registered' = all_registered /\ ranks' = ranks /\ nlocalprocs' = nlocalprocs
  BY <1>1 DEF Linked, Coming, registry
<1>3. \A k \in Linked : Open(trk[k].target) => Open(trk[k].target)'
  BY <1>1 DEF Linked, Open, Gone, registry
<1>4. ASSUME NEW k \in Linked, NEW h \in trk'[k].reqs
      PROVE  get'[h].timer \/ Coming(k)' \/ Open(trk[k].target)'
  <2>1. h # g /\ h \in Gets /\ h \in trk[k].reqs
    BY <1>1, <1>4, Zenon DEF Linked
  <2>2. QED
    BY <1>1, <1>2, <1>3, <2>1, Zenon DEF WaitInv, Linked
<1>5. QED
  BY <1>1, <1>2, <1>4 DEF WaitInv, Linked

\* An answer of the host moves from what it owes to the queue of the event loop.
LEMMA AnswerWaits ==
  ASSUME RequestInv, WaitInv, NEW k \in Trk, NEW st \in Data, dmdx_cbfunc(k, st)
  PROVE  WaitInv'
<1> DEFINE Answer == [trk : Trk, status : Data]
           a == [trk |-> k, status |-> st]
<1>1. shifted \in Seq(Answer) /\ a \in Answer
  BY DEF RequestInv, RequestType
<1>2. /\ shifted' = Append(shifted, a) /\ owed' = [owed EXCEPT ![k] = @ - 1] /\ owed[k] > 0
      /\ UNCHANGED <<registry, store, trk, get, answers>>
  BY DEF dmdx_cbfunc
<1>3. a.trk = k
  OBVIOUS
<1> HIDE DEF Answer, a
<1>4. /\ \A i \in DOMAIN shifted : i \in DOMAIN shifted' /\ shifted'[i] = shifted[i]
      /\ \E i \in DOMAIN shifted' : shifted'[i] = a
  BY <1>1, <1>2
<1>5. owed' \in [Trk -> Nat] /\ \A j \in Trk : j # k => owed'[j] = owed[j]
  BY <1>2 DEF WaitInv
<1>6. \A j \in Linked : Coming(j) => Coming(j)'
  BY <1>3, <1>4, <1>5 DEF Coming, Linked
<1>7. \A j \in Linked : Open(trk[j].target) => Open(trk[j].target)'
  BY <1>2 DEF Open, Gone, registry
<1>8. UNCHANGED <<requests, all_registered, ranks, nlocalprocs>>
  BY <1>2 DEF registry, requests
<1>9. QED
  BY <1>5, <1>6, <1>7, <1>8, OthersWait

\* The handler of an answer retires its tracker if that is still pending, and the data it
\* stores are those of that tracker's target alone.
LEMMA ReplyWaits ==
  ASSUME RequestInv, RegistryInv, WaitInv, process_dmdx_reply
  PROVE  WaitInv'
<1> DEFINE Answer == [trk : Trk, status : Data]
           a == Head(shifted)
<1>1. /\ shifted # <<>> /\ shifted' = Tail(shifted)
      /\ UNCHANGED <<nlocalprocs, ranks, all_registered, peer, modex_recvd, owed>>
  BY DEF process_dmdx_reply
<1>2. shifted \in Seq(Answer) /\ a.trk \in Trk /\ a.status \in Data
  BY <1>1, HeadTyped DEF RequestInv, RequestType
<1> HIDE DEF Answer
<1>3. \A i \in DOMAIN shifted : shifted[i] = a \/ \E j \in DOMAIN shifted' : shifted'[j] = shifted[i]
  <2>1. ASSUME NEW i \in DOMAIN shifted, i # 1
        PROVE  i - 1 \in DOMAIN shifted' /\ shifted'[i - 1] = shifted[i]
    BY <1>1, <1>2, <2>1
  <2>2. shifted[1] = a
    BY <1>1, <1>2
  <2>3. QED
    BY <2>1, <2>2
<1>4. \A j \in Linked : j # a.trk => (Coming(j) => Coming(j)')
  BY <1>1, <1>3 DEF Coming
<1>5. CASE trk[a.trk].linked
  <2>1. /\ Retire({a.trk}) /\ a.trk \in Linked /\ trk[a.trk].target \in Ranks
        /\ store' = store \/ store' = [store EXCEPT ![trk[a.trk].target] = a.status]
    BY <1>2, <1>5 DEF process_dmdx_reply, tracker_is_pending, Linked, WaitInv
  <2>2. \A j \in Linked \ {a.trk} : trk[j].target # trk[a.trk].target
    BY <2>1, Zenon DEF WaitInv
  <2>3. \A j \in Linked \ {a.trk} : store'[trk[j].target] = store[trk[j].target]
    BY <2>1, <2>2 DEF WaitInv, RegistryInv
  <2>4. \A j \in Linked \ {a.trk} : Open(trk[j].target) => Open(trk[j].target)'
    <3>1. \A j \in Linked \ {a.trk} : trk'[j] = trk[j]
      BY <2>1 DEF Retire, Linked
    <3>2. QED
      BY <1>1, <2>3, <3>1 DEF Open, Gone
  <2>5. QED
    BY <1>1, <1>2, <1>4, <2>1, <2>4, RetireWaits DEF WaitInv
<1>6. CASE ~trk[a.trk].linked
  <2>1. UNCHANGED <<store, trk, get, answers>>
    BY <1>6 DEF process_dmdx_reply, tracker_is_pending
  <2>2. \A j \in Linked : Open(trk[j].target) => Open(trk[j].target)'
    BY <1>1, <2>1 DEF Open, Gone
  <2>3. QED
    BY <1>1, <1>4, <1>6, <2>1, <2>2, OthersWait, Zenon DEF WaitInv, Linked, requests
<1>7. QED
  BY <1>5, <1>6

\* Once a registration has looked at the pending requests, those for ranks that are not
\* here were sent up or answered.
LEMMA PendingWaits ==
  ASSUME RequestInv, RegistryInv, WaitInv, ~all_registered, pmix_pending_nspace_requests,
         UNCHANGED <<scenario, peer, modex_recvd, store, shifted>>,
         ranks' \subseteq Local, nlocalprocs' >= Cardinality(ranks')
  PROVE  WaitInv'
<1> DEFINE up == {k \in Linked : trk[k].target \notin ranks'}
<1>1. PICK taken \in SUBSET up :
        /\ owed' = [k \in Trk |-> owed[k] + IF k \in taken THEN 1 ELSE 0]
        /\ Retire(up \ taken)
  BY Zenon DEF pmix_pending_nspace_requests
<1>2. up \in SUBSET Trk
  BY DEF Linked
<1>3. owed' \in [Trk -> Nat] /\ \A k \in taken : owed'[k] > 0
  <2>1. owed \in [Trk -> Nat] /\ taken \in SUBSET Trk
    BY <1>2 DEF WaitInv
  <2>2. \A k \in Trk : owed[k] + (IF k \in taken THEN 1 ELSE 0) \in Nat
    BY <2>1
  <2>3. \A k \in taken : owed[k] + 1 > 0
    BY <2>1
  <2>4. QED
    BY <1>1, <2>1, <2>2, <2>3
<1>4. \A k \in Linked \ (up \ taken) : Coming(k)' \/ trk[k].target \in ranks'
  BY <1>3 DEF Coming
<1>5. ASSUME NEW t \in ranks' PROVE nlocalprocs' # 0 /\ ~Gone(t)' /\ t \notin modex_recvd'
  <2>1. IsFiniteSet(ranks') /\ Cardinality(ranks') \in Nat
    BY LocalCount, FS_Subset, FS_CardinalityType
  <2>2. Cardinality(ranks') # 0
    BY <1>5, <2>1, FS_EmptySet
  <2>3. t \in Local
    BY <1>5
  <2>4. ~Gone(t) /\ modex_recvd = {}
    BY <2>3 DEF RegistryInv
  <2>5. nlocalprocs' # 0
    BY <2>1, <2>2
  <2>6. QED
    BY <2>4, <2>5 DEF Gone
<1>6. ASSUME NEW k \in Linked \ (up \ taken) PROVE trk'[k] = trk[k]
  BY <1>1, <1>6 DEF Retire, Linked
<1>7. \A k \in Linked \ (up \ taken) : Coming(k)' \/ Open(trk[k].target)'
  BY <1>4, <1>5, <1>6 DEF Open
<1>8. QED
  BY <1>1, <1>2, <1>3, <1>4, <1>5, <1>7, RetireWaits

\* PMIx_server_register_nspace leaves nobody waiting for nothing.
LEMMA RegisterNspaceWaits ==
  ASSUME RequestInv, RegistryInv, WaitInv, register_nspace
  PROVE  WaitInv'
<1>1. /\ ~all_registered
      /\ UNCHANGED <<scenario, peer, modex_recvd, store, shifted, ranks>>
      /\ nlocalprocs' = Cardinality(Local) /\ pmix_pending_nspace_requests
  BY LocalCount DEF register_nspace, RegistryInv, SIZE_MAX
<1>2. ranks' \subseteq Local /\ nlocalprocs' >= Cardinality(ranks')
  BY <1>1, LocalCount, FS_Subset, FS_CardinalityType DEF RegistryInv
<1>3. QED
  BY <1>1, <1>2, PendingWaits

\* PMIx_server_register_client leaves nobody waiting for nothing.
LEMMA RegisterClientWaits ==
  ASSUME RequestInv, RegistryInv, WaitInv, NEW l \in Local, register_client(l)
  PROVE  WaitInv'
<1>1. /\ ~all_registered /\ ranks' = ranks \cup {l} /\ ranks' \subseteq Local
      /\ UNCHANGED <<scenario, peer, modex_recvd, store, shifted, nlocalprocs>>
  BY DEF register_client, RegistryInv
<1>2. Cardinality(ranks') \in Nat
  BY <1>1, LocalCount, FS_Subset, FS_CardinalityType
<1>3. CASE nlocalprocs = Cardinality(ranks') /\ pmix_pending_nspace_requests
  BY <1>1, <1>2, <1>3, PendingWaits
<1>4. CASE UNCHANGED <<all_registered, trk, owed, get, answers>>
  <2>1. ~all_registered'
    BY <1>1, <1>4
  <2>2. /\ UNCHANGED requests /\ owed' \in [Trk -> Nat]
        /\ \A k \in Linked : Coming(k) => Coming(k)'
        /\ \A k \in Linked : Open(trk[k].target)'
    BY <1>1, <1>4, <2>1 DEF requests, WaitInv, Coming, Open
  <2>3. QED
    BY <2>1, <2>2, OthersWait
<1>5. QED
  BY <1>3, <1>4 DEF register_client

\* A process that goes takes the trackers for it along; the last one to go leaves nobody
\* else's.
LEMMA PurgeWaits ==
  ASSUME RequestInv, RegistryInv, WaitInv, NEW l \in Local, purge_events(l)
  PROVE  WaitInv'
<1>1. /\ Retire(For(l)) /\ \A x \in Local : ~Gone(x)
      /\ UNCHANGED <<ranks, all_registered, modex_recvd, store, owed, shifted>>
      /\ \E how \in scenario.departs :
           /\ peer' = [peer EXCEPT ![l] = how]
           /\ nlocalprocs' = nlocalprocs - IF how = "lost" THEN 1 ELSE 0
  BY Zenon DEF purge_events
<1>0. nlocalprocs \in Nat /\ (nlocalprocs' = nlocalprocs \/ nlocalprocs' = nlocalprocs - 1)
  <2>1. nlocalprocs \in Nat
    BY DEF RegistryInv
  <2>2. QED
    BY <1>1, <2>1
<1>2. /\ For(l) \in SUBSET Trk /\ \A k \in Linked \ For(l) : trk[k].target # l
      /\ \A k \in Linked \ For(l) : trk'[k] = trk[k]
      /\ \A k \in Trk : Coming(k)' <=> Coming(k)
  BY <1>1 DEF For, Linked, Coming, Retire
<1>3. \A t \in Local : t # l => (Gone(t)' <=> Gone(t))
  BY <1>1, Zenon DEF Gone, RegistryInv
<1>4. \A k \in Linked \ For(l) : Open(trk[k].target) => Open(trk[k].target)'
  BY <1>1, <1>2, <1>3, Zenon DEF Open, RegistryInv
<1>5. ASSUME NEW k \in Linked \ For(l), all_registered',
             trk[k].target \notin ranks' \/ nlocalprocs' = 0
      PROVE  Coming(k)'
  <2>1. CASE trk[k].target \notin ranks
    BY <1>1, <1>2, <1>5, <2>1, Zenon DEF WaitInv, Linked
  <2>2. CASE trk[k].target \in ranks
    <3>1. nlocalprocs' = 0 /\ nlocalprocs >= Cardinality(Local)
      BY <1>1, <1>5, <2>2, Zenon DEF RegistryInv
    <3>2. trk[k].target # l /\ trk[k].target \in Local
      BY <1>2, <1>5, <2>2 DEF RegistryInv
    <3>3. Cardinality({l}) = 1 /\ IsFiniteSet({l})
      BY FS_Singleton, Zenon
    <3> DEFINE t == trk[k].target
    <3>9. t # l /\ t \notin {l}
      BY <3>2
    <3> HIDE DEF t
    <3>4. Cardinality({l} \cup {t}) = 2
      BY <3>3, <3>9, FS_AddElement
    <3>5. Cardinality(Local) >= 2
      BY <3>2, <3>4, LocalCount, FS_Subset DEF t
    <3>6. QED
      BY <1>0, <3>1, <3>5, LocalCount
  <2>3. QED
    BY <2>1, <2>2
<1>6. \A k \in Linked \ For(l) : \A g \in trk[k].reqs :
        get[g].timer \/ Coming(k)' \/ Open(trk[k].target)'
  BY <1>2, <1>4, Zenon DEF WaitInv, Linked
<1>7. owed' \in [Trk -> Nat]
  BY <1>1 DEF WaitInv
<1>8. QED
  BY <1>1, <1>2, <1>5, <1>6, <1>7, RetireWaits, Zenon

\* A commit answers everybody who waited for it, and changes nothing for the others.
LEMMA CommitWaits ==
  ASSUME RequestInv, RegistryInv, WaitInv, NEW l \in Local, NEW data \in Data,
         pmix_server_commit(l, data)
  PROVE  WaitInv'
<1> DEFINE K == {k \in Linked : trk[k].target = l \/ trk[k].reqs = {}}
<1>1. /\ Retire(K) /\ modex_recvd' = modex_recvd \cup {l}
      /\ store' = [store EXCEPT ![l] = IF @ = "key" THEN @ ELSE data]
      /\ UNCHANGED <<nlocalprocs, ranks, all_registered, peer, owed, shifted>>
  BY DEF pmix_server_commit
<1>2. /\ K \in SUBSET Trk /\ \A k \in Linked \ K : trk[k].target # l
      /\ \A k \in Linked \ K : trk'[k] = trk[k]
      /\ \A k \in Trk : Coming(k)' <=> Coming(k)
  BY <1>1 DEF Linked, Coming, Retire
<1>3. \A k \in Linked \ K : store'[trk[k].target] = store[trk[k].target]
  BY <1>1, <1>2, Zenon DEF RegistryInv, WaitInv
<1>4. \A k \in Linked \ K : Open(trk[k].target) => Open(trk[k].target)'
  BY <1>1, <1>2, <1>3 DEF Open, Gone
<1>5. QED
  BY <1>1, <1>2, <1>4, RetireWaits, Zenon DEF WaitInv, Linked

\* Every step leaves nobody waiting for nothing.
LEMMA WaitStep ==
  ASSUME RegistersFirst, RequestInv, RegistryInv, WaitInv, Next
  PROVE  WaitInv'
<1>1. ASSUME NEW l \in Local, connect(l) PROVE WaitInv'
  <2>1. /\ UNCHANGED <<nlocalprocs, ranks, all_registered, modex_recvd, store, trk, owed, shifted,
                       get, answers>>
        /\ peer' = [peer EXCEPT ![l] = "connected"]
    BY <1>1 DEF connect
  <2>2. \A t \in ranks : ~Gone(t) => ~Gone(t)'
    BY <2>1 DEF Gone, RegistryInv
  <2>3. QED
    BY <2>1, <2>2, OthersWait, Zenon DEF WaitInv, Coming, Open, requests
<1>2. ASSUME NEW l \in Local, NEW a \in Asks, dmodex_req(a, l) PROVE WaitInv'
  BY <1>2, OthersWait, Zenon DEF dmodex_req, WaitInv, Coming, Open, Gone, requests, registry
<1>3. ASSUME NEW l \in Local, deregister_client(l) PROVE WaitInv'
  BY <1>3, Zenon DEF deregister_client, RegistersFirst, RegistryInv
<1>4. QED
  BY <1>1, <1>2, <1>3, GetWaits, TimeoutWaits, AnswerWaits, ReplyWaits, RegisterNspaceWaits,
     RegisterClientWaits, PurgeWaits, CommitWaits DEF Next

\* A request that waits at the server has something to wait for: a timer, an answer of the
\* host that is on its way, or a target that has yet to be registered, to connect or to
\* commit the key.  This is about every way a tracker of pmix_server_get is joined, retired
\* or passed over by registrations, commits, departures and late answers, for any number of
\* processes and requests, when the host registers everybody before a process commits or
\* goes and deregisters nobody on its own.
THEOREM WaitsForSomething ==
  ASSUME RegistersFirst
  PROVE  Spec => []NobodyForgotten
<1>1. Init => ForgottenInv
  <2> SUFFICES ASSUME Init PROVE ForgottenInv
    OBVIOUS
  <2>1. RequestInv
    BY InitRequest
  <2>2. WaitInv
    BY DEF Init, WaitInv, Linked, Unused
  <2>3. RegistryInv
    <3>1. \A l \in Local : peer[l] = "absent"
      BY DEF Init
    <3>2. \A l \in Local : ~Gone(l)
      BY <3>1 DEF Gone
    <3>3. scenario \in Scenarios /\ (scenario.departs # {} => scenario.start = "all")
      BY DEF Init, RegistersFirst
    <3>4. /\ nlocalprocs \in Nat /\ nlocalprocs >= Cardinality(Local)
          /\ all_registered => known /\ ranks = Local /\ nlocalprocs <= Cardinality(Local)
      <4>1. /\ known = (scenario.start # "unknown") /\ all_registered = (scenario.start = "all")
            /\ nlocalprocs = IF known THEN Cardinality(Local) ELSE Cardinality(Local) + 1
            /\ ranks = IF all_registered THEN Local ELSE {}
        BY DEF Init, SIZE_MAX
      <4>2. all_registered => known
        BY <4>1, Zenon
      <4>3. QED
        BY <4>1, <4>2, LocalCount
    <3>5. /\ all_registered = (scenario.start = "all") /\ known \in BOOLEAN
          /\ modex_recvd = {} /\ ranks \subseteq Local /\ store \in [Ranks -> Data]
          /\ peer \in [Local -> {"absent", "connected", "finalized", "lost"}]
      BY DEF Init, Data
    <3>6. QED
      BY <3>2, <3>3, <3>4, <3>5, Zenon DEF RegistryInv
  <2>4. QED
    BY <2>1, <2>2, <2>3 DEF ForgottenInv
<1>2. ForgottenInv /\ [Next]_vars => ForgottenInv'
  <2>1. ForgottenInv /\ UNCHANGED vars => ForgottenInv'
    <3> SUFFICES ASSUME ForgottenInv, UNCHANGED vars PROVE ForgottenInv'
      OBVIOUS
    <3>1. RequestInv'
      BY OthersKeep DEF ForgottenInv, vars, requests, RequestInv, RequestType
    <3>2. RegistryInv'
      BY DEF ForgottenInv, vars, registry, RegistryInv, Gone
    <3>3. WaitInv'
      BY OthersWait, Zenon DEF ForgottenInv, vars, registry, requests, WaitInv, Coming, Open, Gone
    <3>4. QED
      BY <3>1, <3>2, <3>3 DEF ForgottenInv
  <2>2. QED
    BY <2>1, StepKeeps, RegistryStep, WaitStep DEF ForgottenInv
<1>3. QED
  BY <1>1, <1>2, ForgottenImplies, PTL DEF Spec
=============================================================================
