---------------------------- MODULE DirectModex ----------------------------
(***************************************************************************)
(* How the PMIx server answers PMIx_Get for data it does not hold.  A      *)
(* request for a local process is parked until that process commits; one   *)
(* for a remote process goes to the host as a direct modex.  The requests  *)
(* for one target share a tracker on local_reqs.  In the other direction   *)
(* the host asks for the data of a local process, and what cannot be       *)
(* answered at once is parked on remote_pnd.                               *)
(*                                                                         *)
(* One namespace; handlers run on the progress thread, so each is one      *)
(* action.  The host answers from its own thread: its answers wait on      *)
(* `shifted`.  Data is kept only as far as a lookup tells it apart: a      *)
(* target has stored nothing, something, or the key that is asked for.     *)
(***************************************************************************)
EXTENDS Naturals, FiniteSets, Sequences

CONSTANTS
  Local,      \* the ranks the host places on this node
  Remote,     \* the other ranks of the namespace
  Gets,       \* the PMIx_Get requests of a behaviour
  Asks,       \* the direct modex requests the host makes of this server
  Scenarios,  \* what may happen in a behaviour; one is chosen at the start
  MaxTrk      \* bound: how many trackers exist at once

Ranks == Local \cup Remote
Trk == 1..MaxTrk
Kinds == {"plain", "immediate", "timeout", "refresh", "reserved"}

\* start: what the host registered before the first request.  kinds: the forms of get.
\* returns: the host's answers to the up-call; "NONE" is a host without direct_modex.
\* departs: how a local process may go away; one does.  deregister: the host may then
\* deregister it.  early: processes may commit before all are registered.  asks: the host may
\* ask for processes, also for one that went away without committing.  data: what a commit
\* and an answer may bring.
Data == {"none", "some", "key"}
ScenarioType ==
  [start : {"unknown", "nspace", "all"}, kinds : SUBSET Kinds,
   returns : SUBSET {"SUCCESS", "ERROR", "NONE"}, departs : SUBSET {"finalized", "lost"},
   deregister : BOOLEAN, early : BOOLEAN, asks : SUBSET {"present", "gone"},
   data : SUBSET Data]

ASSUME ModexAssumption ==
  /\ IsFiniteSet(Ranks) /\ Local \cap Remote = {}
  /\ \A s \in Scenarios : s \in ScenarioType
  /\ MaxTrk \in Nat

VARIABLES
  scenario,   \* the member of Scenarios this behaviour is about
  known,      \* the namespace is on the server's list
  nlocalprocs, \* the local processes the host announced, less those lost
  ranks,      \* the ranks registered with register_client
  all_registered,
  peer,       \* peer[l]: "absent" until it connects, "connected", then how it went
  modex_recvd, \* the local ranks that committed
  departed,   \* the ranks deregistered one by one
  store,      \* store[t]: what the server has stored for t
  trk,        \* trk[k]: the pmix_dmdx_local_t
  owed,       \* owed[k]: the callbacks the host still has to make for k
  shifted,    \* the host's answers that dmdx_cbfunc thread-shifted
  get,        \* get[g]: the state of a request and its armed timer
  answers,    \* answers[g]: the replies sent for g
  ask,        \* ask[a]: the target of a request of the host that is parked
  served      \* the requests of the host that were answered

registry == <<scenario, known, nlocalprocs, ranks, all_registered, peer, modex_recvd, departed>>
vars == <<registry, store, trk, owed, shifted, get, answers, ask, served>>

NOBODY == "NOBODY"

\* SIZE_MAX: the host has not announced the namespace.
SIZE_MAX == Cardinality(Local) + 1

\* Every variable holds a value of the C type it models.
TypeOK ==
  /\ scenario \in Scenarios /\ known \in BOOLEAN
  /\ nlocalprocs \in 0..SIZE_MAX /\ all_registered \in BOOLEAN
  /\ ranks \subseteq Local /\ departed \subseteq Local /\ modex_recvd \subseteq Local
  /\ peer \in [Local -> {"absent", "connected", "finalized", "lost"}]
  /\ store \in [Ranks -> Data]
  /\ trk \in [Trk -> [linked : BOOLEAN, target : Ranks \cup {NOBODY}, reqs : SUBSET Gets]]
  /\ owed \in [Trk -> Nat]
  /\ shifted \in Seq([trk : Trk, status : Data])
  /\ get \in [Gets -> [state : {"new", "parked", "done"}, timer : BOOLEAN]]
  /\ answers \in [Gets -> Nat]
  /\ ask \in [Asks -> Local \cup {NOBODY}] /\ served \subseteq Asks

Unused == [linked |-> FALSE, target |-> NOBODY, reqs |-> {}]

Init ==
  /\ scenario \in Scenarios
  /\ known = (scenario.start # "unknown")
  /\ nlocalprocs = IF known THEN Cardinality(Local) ELSE SIZE_MAX
  /\ all_registered = (scenario.start = "all")
  /\ ranks = IF all_registered THEN Local ELSE {}
  /\ peer = [l \in Local |-> "absent"] /\ modex_recvd = {} /\ departed = {}
  /\ store = [t \in Ranks |-> "none"]
  /\ trk = [k \in Trk |-> Unused] /\ owed = [k \in Trk |-> 0] /\ shifted = <<>>
  /\ get = [g \in Gets |-> [state |-> "new", timer |-> FALSE]]
  /\ answers = [g \in Gets |-> 0]
  /\ ask = [a \in Asks |-> NOBODY] /\ served = {}

-----------------------------------------------------------------------------
(* Trackers.                                                               *)

Linked == {k \in Trk : trk[k].linked}
For(t) == {k \in Linked : trk[k].target = t}

\* A tracker nothing refers to.  One handed to the host is referred to until it answers.
Fresh == {k \in Trk : /\ ~trk[k].linked /\ owed[k] = 0
                      /\ \A i \in DOMAIN shifted : shifted[i].trk # k}

\* The requests in G are answered and leave their tracker.
Done(G) ==
  /\ get' = [g \in Gets |-> IF g \in G THEN [state |-> "done", timer |-> FALSE] ELSE get[g]]
  /\ answers' = [g \in Gets |-> answers[g] + IF g \in G THEN 1 ELSE 0]

\* defer_response and create_local_tracker: join the tracker of t or make one.
Park(g, t, k, timer) ==
  /\ trk' = [trk EXCEPT ![k] = [linked |-> TRUE, target |-> t, reqs |-> @.reqs \cup {g}]]
  /\ get' = [get EXCEPT ![g] = [state |-> "parked", timer |-> timer]]
  /\ UNCHANGED answers

defer_response(g, t, kind, timer) ==
  \/ kind = "immediate" /\ Done({g}) /\ UNCHANGED trk
  \/ /\ kind # "immediate"
     /\ \E k \in IF For(t) = {} THEN Fresh ELSE For(t) : Park(g, t, k, timer)

\* The request label of pmix_server_get.  Whoever finds a tracker waits with it; a new
\* tracker is sent up, and if that fails it goes and the switchyard answers the caller.
request(g, t, kind) ==
  \/ kind = "immediate" /\ Done({g}) /\ UNCHANGED <<trk, owed>>
  \/ /\ kind # "immediate" /\ For(t) # {}
     /\ \E k \in For(t) : Park(g, t, k, FALSE)
     /\ UNCHANGED owed
  \/ /\ kind # "immediate" /\ For(t) = {}
     /\ \E k \in Fresh, r \in scenario.returns :
          IF r = "SUCCESS"
          THEN Park(g, t, k, FALSE) /\ owed' = [owed EXCEPT ![k] = @ + 1]
          ELSE Done({g}) /\ UNCHANGED <<trk, owed>>

-----------------------------------------------------------------------------
(* Requests.                                                               *)

\* What pmix_server_get takes the target for once everyone is registered.  "unconnected"
\* is held until it connects; in a job that is all local that is not looked at.
Place(t) ==
  CASE nlocalprocs = 0 -> "remote"
    [] nlocalprocs > 0 /\ nlocalprocs = Cardinality(Ranks) -> "local"
    [] nlocalprocs > 0 /\ nlocalprocs # Cardinality(Ranks) ->
         IF t \notin ranks THEN "remote" ELSE IF peer[t] = "absent" THEN "unconnected" ELSE "local"

\* pmix_server_get for a key of rank t.
pmix_server_get(g, t, kind) ==
  /\ get[g].state = "new" /\ kind \in scenario.kinds
  /\ LET miss == store[t] # "key" \/ kind = "reserved"
     IN \/ ~known /\ request(g, t, kind)
        \/ /\ known /\ ~all_registered
           /\ defer_response(g, t, kind, kind = "timeout") /\ UNCHANGED owed
        \/ /\ all_registered /\ Place(t) = "unconnected"
           /\ defer_response(g, t, kind, kind = "timeout") /\ UNCHANGED owed
        \/ /\ all_registered /\ Place(t) = "local"
           /\ IF kind \in {"refresh", "reserved"} \/ ~miss
              THEN Done({g}) /\ UNCHANGED trk
              ELSE defer_response(g, t, kind, TRUE)
           /\ UNCHANGED owed
        \/ /\ all_registered /\ Place(t) = "remote"
           /\ IF kind # "refresh" /\ ~miss
              THEN Done({g}) /\ UNCHANGED <<trk, owed>>
              ELSE request(g, t, kind)
  /\ UNCHANGED <<registry, store, shifted, ask, served>>

\* Mutant: the request is answered but stays on its tracker.
get_timeout_stays(g) ==
  /\ get[g].state = "parked" /\ get[g].timer
  /\ Done({g})
  /\ UNCHANGED <<registry, store, trk, owed, shifted, ask, served>>

\* Mutant: the expired timer is armed again.
get_timeout_rearms(g) == get[g].state = "parked" /\ get[g].timer /\ UNCHANGED vars

\* A request's own timer.  Its tracker stays on the list, empty or not.
get_timeout(g) ==
  /\ get[g].state = "parked" /\ get[g].timer
  /\ trk' = [k \in Trk |-> [trk[k] EXCEPT !.reqs = @ \ {g}]]
  /\ Done({g})
  /\ UNCHANGED <<registry, store, owed, shifted, ask, served>>

\* Retire the trackers in K: everybody waiting on them is answered.
Retire(K) ==
  /\ trk' = [k \in Trk |-> IF k \in K THEN Unused ELSE trk[k]]
  /\ Done(UNION {trk[k].reqs : k \in K})

\* The host's answer, from any thread, and its handling.  An answer for a tracker retired in
\* the meantime is dropped.
dmdx_cbfunc(k, st) ==
  /\ owed[k] > 0 /\ st \in scenario.data
  /\ owed' = [owed EXCEPT ![k] = @ - 1]
  /\ shifted' = Append(shifted, [trk |-> k, status |-> st])
  /\ UNCHANGED <<registry, store, trk, get, answers, ask, served>>

tracker_is_pending(k) == trk[k].linked

process_dmdx_reply ==
  /\ shifted # <<>>
  /\ LET k == Head(shifted).trk
         st == Head(shifted).status
     IN IF tracker_is_pending(k)
        THEN /\ known' = TRUE
             /\ store' = IF st = "none" \/ trk[k].reqs = {} THEN store
                         ELSE [store EXCEPT ![trk[k].target] = st]
             /\ Retire({k})
        ELSE UNCHANGED <<known, store, trk, get, answers>>
  /\ shifted' = Tail(shifted)
  /\ UNCHANGED <<scenario, nlocalprocs, ranks, all_registered, peer, modex_recvd, departed, owed,
                 ask, served>>

-----------------------------------------------------------------------------
(* The life of the local processes.                                        *)

\* Mutant: nothing is sent up when registration completes.
pending_nspace_requests_none == UNCHANGED <<trk, owed, get, answers>>

\* The requests for ranks that are not registered here are sent up, or answered if that
\* fails; the others go on waiting for a commit.
pmix_pending_nspace_requests ==
  LET up == {k \in Linked : trk[k].target \notin ranks'}
  IN \E taken \in SUBSET up :
       /\ taken # {} => "SUCCESS" \in scenario.returns
       /\ taken # up => scenario.returns # {"SUCCESS"}
       /\ owed' = [k \in Trk |-> owed[k] + IF k \in taken THEN 1 ELSE 0]
       /\ Retire(up \ taken)

\* The host announces the namespace, then its clients one by one.  The first looks at the
\* requests whether or not the clients are complete, so one for a local rank that comes
\* later goes up as well, and one for a remote rank may go up twice.
register_nspace ==
  /\ nlocalprocs = SIZE_MAX
  /\ known' = TRUE
  /\ nlocalprocs' = Cardinality(Local)
  /\ all_registered' = (nlocalprocs' = Cardinality(ranks))
  /\ UNCHANGED ranks /\ pmix_pending_nspace_requests
  /\ UNCHANGED <<scenario, peer, modex_recvd, departed, store, shifted, ask, served>>

register_client(l) ==
  /\ l \notin ranks \cup departed
  /\ known' = TRUE
  /\ ranks' = ranks \cup {l}
  /\ IF nlocalprocs = Cardinality(ranks')
     THEN all_registered' = TRUE /\ pmix_pending_nspace_requests
     ELSE UNCHANGED <<all_registered, trk, owed, get, answers>>
  /\ UNCHANGED nlocalprocs
  /\ UNCHANGED <<scenario, peer, modex_recvd, departed, store, shifted, ask, served>>

connect(l) ==
  /\ l \in ranks /\ peer[l] = "absent"
  /\ peer' = [peer EXCEPT ![l] = "connected"]
  /\ UNCHANGED <<scenario, known, nlocalprocs, ranks, all_registered, modex_recvd, departed,
                 store, trk, owed, shifted, get, answers, ask, served>>

\* pmix_server_commit: store, answer the host's requests for l, then the local ones, and
\* drop the trackers that have nobody left on them.
pmix_server_commit(l, data) ==
  /\ peer[l] = "connected" /\ (l \in modex_recvd => store[l] # "key")
  /\ all_registered \/ scenario.early
  /\ data \in scenario.data \ {"none"}
  /\ modex_recvd' = modex_recvd \cup {l}
  /\ store' = [store EXCEPT ![l] = IF @ = "key" THEN @ ELSE data]
  /\ served' = served \cup {a \in Asks : ask[a] = l}
  /\ ask' = [a \in Asks |-> IF ask[a] = l THEN NOBODY ELSE ask[a]]
  /\ Retire({k \in Linked : trk[k].target = l \/ trk[k].reqs = {}})
  /\ UNCHANGED <<scenario, known, nlocalprocs, ranks, all_registered, peer, departed, owed, shifted>>

Gone(l) == peer[l] \in {"finalized", "lost"}

\* Mutant: the departure answers the local requests only.
purge_events_local(l) ==
  /\ peer[l] = "connected" /\ \A x \in Local : ~Gone(x)
  /\ \E how \in scenario.departs : peer' = [peer EXCEPT ![l] = how]
  /\ Retire(For(l))
  /\ UNCHANGED <<scenario, known, nlocalprocs, ranks, all_registered, modex_recvd, departed,
                 store, owed, shifted, ask, served>>

\* The process finalizes or its connection drops: pmix_server_purge_events answers
\* everybody parked on it, on both lists.
purge_events(l) ==
  /\ peer[l] = "connected"
  /\ \A x \in Local : ~Gone(x)
  /\ \E how \in scenario.departs :
       /\ peer' = [peer EXCEPT ![l] = how]
       /\ nlocalprocs' = nlocalprocs - IF how = "lost" THEN 1 ELSE 0
  /\ Retire(For(l))
  /\ served' = served \cup {a \in Asks : ask[a] = l}
  /\ ask' = [a \in Asks |-> IF ask[a] = l THEN NOBODY ELSE ask[a]]
  /\ UNCHANGED <<scenario, known, ranks, all_registered, modex_recvd, departed, store, owed, shifted>>

\* The host deregisters a process that went away (remove_client): no list is swept.
deregister_client(l) ==
  /\ scenario.deregister /\ l \in ranks /\ Gone(l)
  /\ ranks' = ranks \ {l}
  /\ departed' = departed \cup {l}
  /\ UNCHANGED <<scenario, known, nlocalprocs, all_registered, peer, modex_recvd, store, trk, owed,
                 shifted, get, answers, ask, served>>

\* _dmodex_req: the host asks for the data of local process l.
dmodex_req(a, l) ==
  /\ ask[a] = NOBODY /\ a \notin served
  /\ (IF Gone(l) /\ l \notin modex_recvd \cup departed THEN "gone" ELSE "present") \in scenario.asks
  /\ IF known /\ l \in (ranks \cap modex_recvd) \cup departed
     THEN served' = served \cup {a} /\ UNCHANGED ask
     ELSE ask' = [ask EXCEPT ![a] = l] /\ UNCHANGED served
  /\ UNCHANGED <<registry, store, trk, owed, shifted, get, answers>>

Next ==
  \/ \E g \in Gets : \/ get_timeout(g)
                     \/ \E t \in Ranks, kind \in Kinds : pmix_server_get(g, t, kind)
  \/ \E k \in Trk, st \in Data : dmdx_cbfunc(k, st)
  \/ process_dmdx_reply
  \/ register_nspace
  \/ \E l \in Local : \/ register_client(l) \/ connect(l) \/ purge_events(l)
                      \/ deregister_client(l)
                      \/ \E data \in Data : pmix_server_commit(l, data)
                      \/ \E a \in Asks : dmodex_req(a, l)

Spec == Init /\ [][Next]_vars

\* The host registers its clients and answers; the clients connect, and commit or go; the
\* event loop runs timers and shifted handlers.
FairSpec ==
  /\ Spec
  /\ \A g \in Gets : WF_vars(get_timeout(g))
  /\ \A k \in Trk : WF_vars(\E st \in Data : dmdx_cbfunc(k, st))
  /\ WF_vars(process_dmdx_reply) /\ WF_vars(register_nspace)
  /\ \A l \in Local : /\ WF_vars(register_client(l)) /\ WF_vars(connect(l))
                      /\ WF_vars(\E data \in Data : pmix_server_commit(l, data))

-----------------------------------------------------------------------------
(* Properties.                                                             *)

\* Each get is answered once.  A request parked on a tracker is answered by whoever takes it
\* off, never also by the switchyard, by its timer or by a second answer of the host.
AnsweredOnce == \A g \in Gets : answers[g] = IF get[g].state = "done" THEN 1 ELSE 0

Coming(k) == owed[k] > 0 \/ \E i \in DOMAIN shifted : shifted[i].trk = k

\* Nobody is forgotten: a request that waits is on a tracker of the list, and it has a
\* timer, or an answer of the host is on its way, or its target has yet to be registered,
\* to connect or to commit what is asked for.
NobodyForgotten ==
  \A g \in Gets : get[g].state = "parked" =>
    \E k \in Linked :
      LET t == trk[k].target
      IN /\ g \in trk[k].reqs
         /\ \/ get[g].timer \/ Coming(k)
            \/ ~all_registered /\ nlocalprocs >= Cardinality(Local)
            \/ t \in ranks /\ ~Gone(t) /\ (t \in modex_recvd => store[t] # "key")

\* A request of the host waits only for a process that may still commit.
HostAskAnswerable ==
  \A a \in Asks : ask[a] # NOBODY =>
    ask[a] \notin departed \cup modex_recvd /\ ~Gone(ask[a])

\* Every get is answered.
EveryGetAnswered == \A g \in Gets : get[g].state = "parked" ~> get[g].state = "done"
=============================================================================
