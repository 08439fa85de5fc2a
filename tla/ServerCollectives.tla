------------------------- MODULE ServerCollectives -------------------------
(***************************************************************************)
(* The tracker engine of the PMIx server: how it assembles the local phase *)
(* of the fence, connect and disconnect collectives.  Clients contribute;  *)
(* the server counts contributions and lost clients on a tracker; when the *)
(* count is reached it completes the collective itself or hands it to the  *)
(* host, and answers every parked client when the completion handler runs. *)
(*                                                                         *)
(* Every handler runs on the progress thread, so each is one action.  What *)
(* a handler thread-shifts becomes an event on the tracker's own queue:    *)
(* the handlers of two trackers share no state, so only the order of the   *)
(* events of one tracker is kept.  The host's callback only marks the      *)
(* tracker and shifts, so it may be made at any moment.                    *)
(***************************************************************************)
EXTENDS Naturals, FiniteSets, Sequences

CONSTANTS
  NSpaces,        \* the namespaces that have clients on this node
  Ranks,          \* the ranks
  WILDCARD,       \* PMIX_RANK_WILDCARD
  Local,          \* Local[ns]: the ranks of ns the host places on this node
  NProcs,         \* NProcs[ns]: the size of the job, given at registration
  Peers,          \* connections; a clone is a second peer of one name
  Name,           \* Name[p]: the <<namespace, rank>> of peer p
  Calls,          \* the collective calls that clients make in a behaviour
  Caller,         \* Caller[c]: the peer that makes call c
  Sigs,           \* the participant arrays in use, sets of <<ns, rank>>
  Ops,            \* which of "FENCE", "CONNECT", "DISCONNECT" are in use
  HostModule,     \* the operations the host's module implements
  HostReturns,    \* what the host may return from an up-call
  TimeoutGiven,   \* {FALSE}, or {FALSE, TRUE} when clients give PMIX_TIMEOUT
  CollectGiven,   \* the values of PMIX_COLLECT_DATA that clients give
  CollectMayFail, \* TRUE: pmix_server_collect_data may return an error
  LocalOnlyOpt,   \* pmix_server_globals.fence_localonly_opt
  Preregistered,  \* TRUE: the host registered everything before launching
  NoData,         \* namespaces that PMIX_REGISTER_NODATA may pre-register
  Retired,        \* the names that the host may deregister
  Duplicates,     \* TRUE: a peer may call again before it is answered
  MaxLosses,      \* bound: how many connections are lost in a behaviour
  MaxTrk,         \* bound: how many trackers are created in a behaviour
  SIZE_MAX        \* the largest size_t, and "local count not known yet"

Trk == 1..MaxTrk
Names == NSpaces \X Ranks
FENCE == "FENCE"

ASSUME ConstantsAssumption ==
  /\ IsFiniteSet(Ranks) /\ IsFiniteSet(NSpaces) /\ IsFiniteSet(Peers)
  /\ WILDCARD \notin Ranks
  /\ Local \in [NSpaces -> SUBSET Ranks]
  /\ NProcs \in [NSpaces -> Nat]
  /\ Name \in [Peers -> Names]
  /\ Caller \in [Calls -> Peers]
  /\ IsFiniteSet(Calls)
  /\ Sigs \subseteq SUBSET (NSpaces \X (Ranks \cup {WILDCARD}))
  /\ Ops \subseteq {"FENCE", "CONNECT", "DISCONNECT"}
  /\ HostModule \subseteq Ops
  /\ HostReturns \subseteq {"SUCCESS", "OPERATION_SUCCEEDED", "ERROR"}
  /\ TimeoutGiven \subseteq BOOLEAN /\ CollectGiven \subseteq BOOLEAN
  /\ LocalOnlyOpt \in BOOLEAN /\ Preregistered \in BOOLEAN
  /\ Duplicates \in BOOLEAN /\ CollectMayFail \in BOOLEAN
  /\ NoData \subseteq NSpaces /\ Retired \subseteq Names
  /\ MaxTrk \in Nat /\ MaxLosses \in Nat /\ SIZE_MAX \in Nat
  /\ \A ns \in NSpaces : Cardinality(Local[ns]) < SIZE_MAX

\* A participant array does not name a namespace both by its wildcard and by rank.
ASSUME SigsAssumption ==
  \A s \in Sigs : \A ns \in NSpaces :
    <<ns, WILDCARD>> \in s => \A r \in Ranks : <<ns, r>> \notin s

VARIABLES
  nspace,   \* nspace[ns]: the pmix_namespace_t
  peer,     \* peer[p]: the state of a connection
  peerid,   \* peerid[n]: the peer that info->peerid names
  trk,      \* trk[t]: the pmix_server_trkr_t
  ntrk,     \* trackers 1..ntrk have been created, in list order
  call,     \* call[c]: "new", "parked" on a tracker, or "answered"
  result,   \* result[c]: the status the client was sent
  running   \* FALSE once the server called a NULL function or used freed memory

vars == <<nspace, peer, peerid, trk, ntrk, call, result, running>>

NOBODY == "NOBODY"
Status == {"SUCCESS", "PARTIAL_SUCCESS", "LOST_CONNECTION", "TIMEOUT",
           "NOT_SUPPORTED", "ERROR", "INVALID_ARG"}
CollectType == {"NO", "YES", "INVALID"}
Events == [ev : {"execute", "complete"}, status : Status]

\* known: on the list of namespaces.
NSpaceType == [known : BOOLEAN, job_info_recvd : BOOLEAN, nlocalprocs : 0..SIZE_MAX,
               nprocs : Nat, ranks : SUBSET Ranks, all_registered : BOOLEAN,
               departed : SUBSET Ranks]

\* armed is libevent's view of the timer, event_active the tracker's; owed counts the
\* callbacks the host still has to make and upcalls those it was asked for.
TrackerType ==
  [linked : BOOLEAN, type : Ops \cup {"NONE"}, pcs : Sigs \cup {{}},
   nslist : SUBSET NSpaces, nlocal : Nat, def_complete : BOOLEAN,
   local : BOOLEAN, collect_type : CollectType, local_cbs : SUBSET Calls,
   departed : SUBSET Names, status : Status, host_called : BOOLEAN,
   completion_fired : BOOLEAN, event_active : BOOLEAN, armed : BOOLEAN,
   queue : Seq(Events), owed : Nat, upcalls : Nat, bucket : SUBSET Names]

\* Every variable holds a value of the C type it models.
TypeOK ==
  /\ nspace \in [NSpaces -> NSpaceType]
  /\ peer \in [Peers -> {"absent", "connected", "finalized", "lost", "removed"}]
  /\ peerid \in [Names -> Peers \cup {NOBODY}]
  /\ trk \in [Trk -> TrackerType]
  /\ ntrk \in 0..MaxTrk
  /\ call \in [Calls -> {"new", "parked", "answered"}]
  /\ result \in [Calls -> Status \cup {"NONE"}]
  /\ running \in BOOLEAN

Unused ==
  [linked |-> FALSE, type |-> "NONE", pcs |-> {}, nslist |-> {}, nlocal |-> 0,
   def_complete |-> FALSE, local |-> TRUE, collect_type |-> "INVALID",
   local_cbs |-> {}, departed |-> {}, status |-> "SUCCESS",
   host_called |-> FALSE, completion_fired |-> FALSE, event_active |-> FALSE,
   armed |-> FALSE, queue |-> <<>>, owed |-> 0, upcalls |-> 0, bucket |-> {}]

Init ==
  /\ nspace = [ns \in NSpaces |->
       IF Preregistered
       THEN [known |-> TRUE, job_info_recvd |-> TRUE,
             nlocalprocs |-> Cardinality(Local[ns]), nprocs |-> NProcs[ns],
             ranks |-> Local[ns], all_registered |-> TRUE, departed |-> {}]
       ELSE [known |-> FALSE, job_info_recvd |-> FALSE, nlocalprocs |-> SIZE_MAX,
             nprocs |-> 0, ranks |-> {}, all_registered |-> FALSE, departed |-> {}]]
  /\ peer = [p \in Peers |-> "absent"]
  /\ peerid = [n \in Names |-> NOBODY]
  /\ trk = [t \in Trk |-> Unused]
  /\ ntrk = 0
  /\ call = [c \in Calls |-> "new"]
  /\ result = [c \in Calls |-> "NONE"]
  /\ running = TRUE

-----------------------------------------------------------------------------
(* Participants.                                                           *)

NameOf(c) == Name[Caller[c]]

\* PMIX_CHECK_NAMES against each element of the participant array.
IsMember(n, pcs) == n \in pcs \/ <<n[1], WILDCARD>> \in pcs

Contributed(r) == {NameOf(c) : c \in r.local_cbs}

Collectives == {t \in Trk : trk[t].linked}

\* Mutant: the lookup returns a tracker on its way out.
MatchesFired(t, op, sig) ==
  trk[t].linked /\ trk[t].type = op /\ trk[t].pcs = sig

\* The lookup skips a tracker whose completion has been driven.
Matches(t, op, sig) ==
  /\ trk[t].linked
  /\ ~trk[t].completion_fired
  /\ trk[t].type = op
  /\ trk[t].pcs = sig

\* The tracker that pmix_server_get_tracker returns: the first match in list order.
GetTracker(t, op, sig) ==
  Matches(t, op, sig) /\ \A u \in Trk : u < t => ~Matches(u, op, sig)

\* What one entry of the participant array adds to a new tracker: how many local
\* participants, whether that number is final, and whether all of them are local.
EntryCount(e) ==
  LET n == nspace[e[1]] IN
  IF ~n.known \/ n.nlocalprocs = SIZE_MAX THEN 0
  ELSE IF e[2] = WILDCARD THEN n.nlocalprocs
  ELSE IF n.nlocalprocs # 0 /\ n.all_registered /\ e[2] \in n.ranks THEN 1 ELSE 0

EntryDefined(e) ==
  LET n == nspace[e[1]] IN
  n.known => /\ n.nlocalprocs # SIZE_MAX
             /\ (n.nlocalprocs # 0 /\ e[2] # WILDCARD) => n.all_registered

EntryLocal(e) ==
  LET n == nspace[e[1]] IN
  /\ n.known
  /\ n.nlocalprocs # 0
  /\ n.nlocalprocs # SIZE_MAX =>
       IF e[2] = WILDCARD THEN n.nprocs = n.nlocalprocs
       ELSE n.all_registered => e[2] \in n.ranks

\* One slot for every local participant that the array stands for.
Slots(sig) == UNION {{e} \X (1..EntryCount(e)) : e \in sig}

NewTracker(op, sig) ==
  [Unused EXCEPT
     !.linked = TRUE, !.type = op, !.pcs = sig,
     !.nslist = {ns \in NSpaces : /\ nspace[ns].known
                                  /\ nspace[ns].nlocalprocs \notin {0, SIZE_MAX}
                                  /\ \E e \in sig : e[1] = ns},
     !.nlocal = Cardinality(Slots(sig)),
     !.def_complete = \A e \in sig : EntryDefined(e),
     !.local = \A e \in sig : EntryLocal(e)]

\* pmix_server_trk_complete: the one predicate for local completion.
Complete(r) ==
  r.def_complete /\ Cardinality(r.local_cbs) + Cardinality(r.departed) >= r.nlocal

-----------------------------------------------------------------------------
(* Completion.                                                             *)

\* Mutant: the flag is cleared but the event is not deleted.
CancelTimerNoDelete(r) == [r EXCEPT !.event_active = FALSE]

CancelTimer(r) == [r EXCEPT !.event_active = FALSE, !.armed = FALSE]

\* Calling modexcbfunc or op_cbfunc: claim the tracker and shift the handler.
Drive(r, s) ==
  [r EXCEPT !.completion_fired = TRUE,
            !.queue = Append(@, [ev |-> "complete", status |-> s])]

\* The host will not be calling back, so the server drives the completion.
Unhosted(r) == [r EXCEPT !.host_called = FALSE]
DriveBack(r, s) == Drive(Unhosted(r), s)

\* The host's module function is called with the tracker and a modex bucket.
UpCall(r, data) ==
  [CancelTimer(r) EXCEPT !.host_called = TRUE, !.upcalls = @ + 1, !.bucket = data]

\* The names whose data pmix_server_collect_data puts in the bucket.
CollectData(r) ==
  IF r.type = FENCE /\ r.collect_type = "YES" THEN Contributed(r) ELSE {}

\* Mutant: the recorded health of the collective is ignored.
OwnStatusIgnored(r) == "SUCCESS"

\* The status of a collective that the server completes in a contribution: a fence
\* takes the recorded one, connect and disconnect pass PMIX_SUCCESS.
OwnStatus(r) == IF r.type = FENCE THEN r.status ELSE "SUCCESS"

AllLocal(r) == r.local /\ (r.type = FENCE => LocalOnlyOpt)

\* The host returned rc from an up-call; status is what an atomic success reports.
AfterUpCall(r, rc, status) ==
  CASE rc = "SUCCESS" -> [r EXCEPT !.owed = @ + 1]
    [] rc = "OPERATION_SUCCEEDED" -> DriveBack(r, status)
    [] rc = "ERROR" -> DriveBack(r, "ERROR")

\* The status sent to the participants when the completion was driven with s.
Answer(r, s) ==
  IF r.type = FENCE /\ s = "SUCCESS" /\ r.collect_type = "INVALID"
  THEN "INVALID_ARG" ELSE s

-----------------------------------------------------------------------------
(* A client contributes: pmix_server_fence, _connect, _disconnect.         *)

\* Mutant: a second tracker is created beside the one in flight.
LandsOnSecond(t, op, sig) == GetTracker(t, op, sig) \/ t = ntrk + 1

\* The tracker the call lands on: the one in flight, or the next one created.
LandsOn(t, op, sig) ==
  \/ GetTracker(t, op, sig)
  \/ /\ \A u \in Trk : ~Matches(u, op, sig)
     /\ t = ntrk + 1

\* The collect type after a caller that gave PMIX_COLLECT_DATA = collect; had is the
\* one of the tracker, which is fresh or not.
MergeCollect(had, fresh, collect) ==
  LET mine == IF collect THEN "YES" ELSE "NO"
  IN IF fresh \/ had = mine THEN mine ELSE "INVALID"

\* The tracker with the caller added and its timer armed, once.
Joined(t, c, op, sig, tmo, collect) ==
  LET fresh == t = ntrk + 1
      r == IF fresh THEN NewTracker(op, sig) ELSE trk[t]
  IN [r EXCEPT
        !.local_cbs = @ \cup {c},
        !.collect_type = IF op = FENCE THEN MergeCollect(@, fresh, collect) ELSE @,
        !.event_active = @ \/ tmo,
        !.armed = @ \/ (tmo /\ ~r.event_active)]

\* A connected client calls a collective that it is a member of; unless duplicates are
\* allowed, not one that it is already waiting in.  pmix_server_new_tracker requires of
\* the host that every namespace with local members be known by then.
MayCall(c, t, sig) ==
  /\ peer[Caller[c]] = "connected"
  /\ call[c] = "new"
  /\ IsMember(NameOf(c), sig)
  /\ \A e \in sig : Local[e[1]] # {} => nspace[e[1]].known
  /\ Duplicates \/ \A d \in trk[t].local_cbs : Caller[d] # Caller[c]

\* The caller waits on the tracker, which becomes r.
Parked(c, t, r) ==
  /\ trk' = [trk EXCEPT ![t] = r]
  /\ ntrk' = IF t > ntrk THEN t ELSE ntrk
  /\ call' = [call EXCEPT ![c] = "parked"]
  /\ UNCHANGED <<nspace, peer, peerid, result, running>>

\* The handler returns err: the caller is taken off the tracker, the switchyard sends
\* it err, and the completion of the others is driven with err.
Rejected(c, t, r, err) ==
  /\ LET others == [r EXCEPT !.local_cbs = @ \ {c}]
     IN trk' = [trk EXCEPT ![t] = Drive(others, err)]
  /\ ntrk' = IF t > ntrk THEN t ELSE ntrk
  /\ call' = [call EXCEPT ![c] = "answered"]
  /\ result' = [result EXCEPT ![c] = err]
  /\ UNCHANGED <<nspace, peer, peerid, running>>

\* Not everyone is accounted for: the caller waits.
ContributeWait(c, t, r) ==
  ~Complete(r) /\ Parked(c, t, r)

\* The last contribution to an operation that needs no host.
ContributeLocal(c, t, r) ==
  /\ Complete(r)
  /\ AllLocal(r)
  /\ LET q == CancelTimer(r)
     IN Parked(c, t, Drive(IF r.type = FENCE THEN q ELSE Unhosted(q), OwnStatus(r)))

\* The last contribution, and the host has no such function.
ContributeUnsupported(c, t, r) ==
  /\ Complete(r)
  /\ ~AllLocal(r)
  /\ r.type \notin HostModule
  /\ Rejected(c, t, Unhosted(CancelTimer(r)), "NOT_SUPPORTED")

\* The last contribution to a fence, and the modex bucket cannot be assembled.
ContributeNoBucket(c, t, r) ==
  /\ Complete(r)
  /\ ~AllLocal(r)
  /\ r.type \in HostModule \cap {FENCE}
  /\ CollectMayFail
  /\ Rejected(c, t, CancelTimer(r), "ERROR")

\* The last contribution: the operation goes up to the host.
ContributeUp(c, t, r) ==
  /\ Complete(r)
  /\ ~AllLocal(r)
  /\ r.type \in HostModule
  /\ \E rc \in HostReturns :
       LET sent == UpCall(r, CollectData(r)) IN
       IF rc = "ERROR" THEN Rejected(c, t, Unhosted(sent), "ERROR")
       ELSE Parked(c, t, AfterUpCall(sent, rc, OwnStatus(r)))

Contribute(c) ==
  \E op \in Ops, sig \in Sigs, t \in Trk, tmo \in TimeoutGiven,
     collect \in CollectGiven :
    /\ running
    /\ LandsOn(t, op, sig)
    /\ MayCall(c, t, sig)
    /\ LET r == Joined(t, c, op, sig, tmo, collect) IN
         \/ ContributeWait(c, t, r)
         \/ ContributeLocal(c, t, r)
         \/ ContributeUnsupported(c, t, r)
         \/ ContributeNoBucket(c, t, r)
         \/ ContributeUp(c, t, r)

-----------------------------------------------------------------------------
(* The events of a tracker.                                                *)

\* A step on tracker t alone, which reaches it by a pointer: once the tracker was
\* released, what happens is undefined and the model stops.
TrackerStep(t, r) ==
  /\ trk' = [trk EXCEPT ![t] = r]
  /\ running' = trk[t].linked
  /\ UNCHANGED <<nspace, peer, peerid, ntrk, call, result>>

\* Mutant: the timeout tears the tracker down without its completion function.
TimeoutReleases(t) ==
  /\ running
  /\ trk[t].armed
  /\ TrackerStep(t, [trk[t] EXCEPT !.armed = FALSE, !.linked = FALSE, !.local_cbs = {}])

\* fence_timeout and collective_timeout.
Timeout(t) ==
  /\ running
  /\ trk[t].armed
  /\ TrackerStep(t, IF trk[t].completion_fired THEN CancelTimer(trk[t])
                    ELSE Drive([trk[t] EXCEPT !.armed = FALSE], "TIMEOUT"))

\* The host calls back for a tracker it was handed.
HostCallback(t) ==
  /\ running
  /\ trk[t].owed > 0
  /\ \E s \in {"SUCCESS", "ERROR"} :
       TrackerStep(t, Drive([trk[t] EXCEPT !.owed = @ - 1], s))

NextEvent(t, ev) == trk[t].queue # <<>> /\ Head(trk[t].queue).ev = ev

\* Unlinked and released; the destructor frees the parked caddies.
Released(r) == [r EXCEPT !.linked = FALSE, !.local_cbs = {}]

\* _mdxcbfunc, _cnct, _discnct: stop the timer, answer everyone, unlink and release.
CompletionHandler(t) ==
  /\ running
  /\ NextEvent(t, "complete")
  /\ LET r == trk[t]
         s == Answer(r, Head(r.queue).status)
         over == [Released(r) EXCEPT !.armed = @ /\ ~r.event_active, !.queue = Tail(@)]
     IN /\ call' = [c \in Calls |-> IF c \in r.local_cbs THEN "answered" ELSE call[c]]
        /\ result' = [c \in Calls |-> IF c \in r.local_cbs THEN s ELSE result[c]]
        /\ trk' = [trk EXCEPT ![t] = over]
        /\ running' = r.linked
  /\ UNCHANGED <<nspace, peer, peerid, ntrk>>

\* pmix_server_execute_collective finds the tracker retired and discards the event,
\* which held a reference to the tracker.
ExecuteRetired(t) ==
  /\ running
  /\ NextEvent(t, "execute")
  /\ ~trk[t].linked
  /\ trk' = [trk EXCEPT ![t].queue = Tail(@)]
  /\ UNCHANGED <<nspace, peer, peerid, ntrk, call, result, running>>

\* pmix_server_execute_collective on a linked tracker that a registration completed.
ExecuteCollective(t) ==
  /\ running
  /\ NextEvent(t, "execute")
  /\ trk[t].linked
  /\ LET r == [trk[t] EXCEPT !.queue = Tail(@)] IN
       \/ /\ r.type \notin HostModule
          /\ TrackerStep(t, DriveBack(CancelTimer(r), "NOT_SUPPORTED"))
       \/ /\ r.type \in HostModule \cap {FENCE}
          /\ CollectMayFail
          /\ TrackerStep(t, DriveBack(CancelTimer(r), "ERROR"))
       \/ /\ r.type \in HostModule
          /\ \E rc \in HostReturns :
               TrackerStep(t, AfterUpCall(UpCall(r, CollectData(r)), rc, r.status))

-----------------------------------------------------------------------------
(* Clients come and go.                                                    *)

\* The connection handler accepts a client whose rank is registered, the first time or
\* after it finalized; the rank's peerid names the newest connection.
Connect(p) ==
  /\ running
  /\ peer[p] \in {"absent", "finalized"}
  /\ Name[p][2] \in nspace[Name[p][1]].ranks
  /\ peer' = [peer EXCEPT ![p] = "connected"]
  /\ peerid' = [peerid EXCEPT ![Name[p]] = p]
  /\ UNCHANGED <<nspace, trk, ntrk, call, result, running>>

\* PMIx_Finalize and the orderly close that follows: no tracker is touched.
Finalize(p) ==
  /\ running
  /\ peer[p] = "connected"
  /\ peer' = [peer EXCEPT ![p] = "finalized"]
  /\ UNCHANGED <<nspace, peerid, trk, ntrk, call, result, running>>

\* Mutant: the loss degrades the status but is not recorded.
DepartedForgotten(r, n) == [r EXCEPT !.status = "PARTIAL_SUCCESS"]

\* The tracker after name n, a member that did not contribute, is recorded as departed.
Departed(r, n) ==
  LET d == [r EXCEPT !.departed = @ \cup {n}]
      awaited == Cardinality(d.local_cbs) + Cardinality(d.departed) < d.nlocal
  IN [d EXCEPT !.status = IF awaited THEN "PARTIAL_SUCCESS" ELSE "LOST_CONNECTION"]

\* Mutant: a member that contributed is counted as departed as well.
LosesMemberAnyway(r, n) == IsMember(n, r.pcs)

LosesMember(r, n) == IsMember(n, r.pcs) /\ n \notin Contributed(r)

\* The loss of n completes the tracker, which nothing had completed before.
LossCompletes(r, n) ==
  /\ LosesMember(r, n)
  /\ ~r.host_called /\ ~r.completion_fired
  /\ Complete(Departed(r, n))

\* What pmix_server_trk_peer_lost does to one tracker when name n is lost and the host
\* would return rc.
LoseIn(r, n, rc) ==
  LET d == Departed(r, n) IN
  IF ~LosesMember(r, n) THEN r
  ELSE IF ~LossCompletes(r, n) THEN d
  ELSE IF d.local THEN Drive(CancelTimer(d), d.status)
  ELSE IF rc = "SUCCESS" THEN [UpCall(d, {}) EXCEPT !.owed = @ + 1]
  ELSE Released(UpCall(d, {}))

\* The sweep calls a host function that the host did not provide.
NullUpCall(r, n) == LossCompletes(r, n) /\ ~r.local /\ r.type \notin HostModule

Losses == Cardinality({p \in Peers : peer[p] = "lost"})

\* lost_connection for a client that did not finalize.
LostConnection(p) ==
  /\ running
  /\ peer[p] = "connected"
  /\ Losses < MaxLosses
  /\ \E rc \in [Collectives -> HostReturns] :
       trk' = [t \in Trk |-> IF t \in Collectives THEN LoseIn(trk[t], Name[p], rc[t])
                             ELSE trk[t]]
  /\ running' = \A t \in Collectives : ~NullUpCall(trk[t], Name[p])
  /\ peer' = [peer EXCEPT ![p] = "lost"]
  /\ nspace' = [nspace EXCEPT ![Name[p][1]].nlocalprocs = IF @ > 0 THEN @ - 1 ELSE 0]
  /\ UNCHANGED <<peerid, ntrk, call, result>>

-----------------------------------------------------------------------------
(* The host registers and deregisters namespaces and clients.              *)

\* Both registration handlers ask whether every namespace of the tracker is complete.
Defined(r, nsp) ==
  \A e \in r.pcs : nsp[e[1]].known =>
    nsp[e[1]].nlocalprocs # SIZE_MAX /\ nsp[e[1]].all_registered

\* The tracker with add more local participants, its definition checked against the
\* namespaces nsp and, if that completes it, its execution shifted.
Recheck(r, nsp, add) ==
  LET d == [r EXCEPT !.nlocal = @ + add, !.def_complete = Defined(r, nsp)] IN
  IF Complete(d)
  THEN [d EXCEPT !.queue = Append(@, [ev |-> "execute", status |-> "SUCCESS"])]
  ELSE d

\* Mutant: the count of the late namespace replaces those of the others.
NspaceInAssigns(r, ns, nsp) ==
  IF r.def_complete \/ <<ns, WILDCARD>> \notin r.pcs THEN r
  ELSE Recheck([r EXCEPT !.nlocal = nsp[ns].nlocalprocs], nsp, 0)

\* What _register_nspace does to one tracker: a wildcard entry is counted if the count
\* of its namespace was not known before.
NspaceIn(r, ns, nsp) ==
  LET wild == <<ns, WILDCARD>> \in r.pcs
      first == wild /\ nspace[ns].nlocalprocs = SIZE_MAX /\ ns \notin r.nslist
  IN IF r.def_complete THEN r
     ELSE Recheck([r EXCEPT !.nslist = IF first THEN @ \cup {ns} ELSE @,
                            !.local = @ /\ (wild => nsp[ns].nprocs = nsp[ns].nlocalprocs)],
                  nsp, IF first THEN nsp[ns].nlocalprocs ELSE 0)

RegisterNspace(ns) ==
  \E nodata \in BOOLEAN :
    /\ running
    /\ nodata => ns \in NoData
    /\ ~nspace[ns].job_info_recvd
    /\ LET n == Cardinality(Local[ns])
           nptr == [nspace[ns] EXCEPT
                      !.known = TRUE, !.nlocalprocs = n, !.job_info_recvd = ~nodata,
                      !.nprocs = IF nodata THEN @ ELSE NProcs[ns],
                      !.all_registered = @ \/ n = Cardinality(nspace[ns].ranks)]
           nsp == [nspace EXCEPT ![ns] = nptr]
       IN /\ nspace' = nsp
          /\ trk' = [t \in Trk |-> IF t \in Collectives /\ ~nodata
                                   THEN NspaceIn(trk[t], ns, nsp) ELSE trk[t]]
    /\ UNCHANGED <<peer, peerid, ntrk, call, result, running>>

\* What _register_client does to one tracker: a tracker that names the client by rank
\* counts it.
ClientIn(r, n, nsp) ==
  IF r.def_complete THEN r ELSE Recheck(r, nsp, IF n \in r.pcs THEN 1 ELSE 0)

\* The trackers are walked only when this client is the last one to register.
RegisterClient(n) ==
  /\ running
  /\ n[2] \in Local[n[1]] \ (nspace[n[1]].ranks \cup nspace[n[1]].departed)
  /\ LET ranks == nspace[n[1]].ranks \cup {n[2]}
         full == /\ nspace[n[1]].nlocalprocs # SIZE_MAX
                 /\ nspace[n[1]].nlocalprocs = Cardinality(ranks)
         nptr == [nspace[n[1]] EXCEPT !.known = TRUE, !.ranks = ranks,
                                      !.all_registered = @ \/ full]
         nsp == [nspace EXCEPT ![n[1]] = nptr]
     IN /\ nspace' = nsp
        /\ trk' = [t \in Trk |-> IF full /\ t \in Collectives
                                 THEN ClientIn(trk[t], n, nsp) ELSE trk[t]]
  /\ UNCHANGED <<peer, peerid, ntrk, call, result, running>>

\* _deregister_client: remove_client drops the rank and the peer its peerid names.
DeregisterClient(n) ==
  /\ running
  /\ n \in Retired
  /\ n[2] \in nspace[n[1]].ranks
  /\ LET nptr == [nspace[n[1]] EXCEPT !.ranks = @ \ {n[2]}, !.departed = @ \cup {n[2]}]
     IN nspace' = [nspace EXCEPT ![n[1]] = nptr]
  /\ peer' = [p \in Peers |-> IF p = peerid[n] THEN "removed" ELSE peer[p]]
  /\ peerid' = [peerid EXCEPT ![n] = NOBODY]
  /\ UNCHANGED <<trk, ntrk, call, result, running>>

-----------------------------------------------------------------------------
Next ==
  \/ \E c \in Calls : Contribute(c)
  \/ \E t \in Trk : Timeout(t)
  \/ \E t \in Trk : HostCallback(t)
  \/ \E t \in Trk : CompletionHandler(t)
  \/ \E t \in Trk : ExecuteRetired(t)
  \/ \E t \in Trk : ExecuteCollective(t)
  \/ \E p \in Peers : Connect(p)
  \/ \E p \in Peers : Finalize(p)
  \/ \E p \in Peers : LostConnection(p)
  \/ \E ns \in NSpaces : RegisterNspace(ns)
  \/ \E n \in Names : RegisterClient(n)
  \/ \E n \in Names : DeregisterClient(n)

Spec == Init /\ [][Next]_vars

\* The progress thread runs every event it was given and every timer that expires, and
\* the host honours its contract to call back.  Nothing obliges a client to call.
Fairness ==
  \A t \in Trk : /\ WF_vars(CompletionHandler(t))
                 /\ WF_vars(ExecuteCollective(t))
                 /\ WF_vars(ExecuteRetired(t))
                 /\ WF_vars(HostCallback(t))
                 /\ WF_vars(Timeout(t))

FairSpec == Spec /\ Fairness

-----------------------------------------------------------------------------
(* Properties.                                                             *)

\* A name that a process of this node may still contribute under: the host placed it
\* here and did not deregister it, and not all of its processes are gone.
Live(n) ==
  /\ n[2] \in Local[n[1]] \ nspace[n[1]].departed
  /\ \E p \in Peers : Name[p] = n /\ peer[p] \notin {"lost", "removed"}

\* The members a tracker is still waiting for.
Awaited(r) ==
  {n \in Names : /\ IsMember(n, r.pcs)
                 /\ Live(n)
                 /\ n \notin Contributed(r) \cup r.departed}

\* The positions in the queue of the completions that were driven.
Completions(r) == {i \in 1..Len(r.queue) : r.queue[i].ev = "complete"}

\* The local phase ended because it was found complete, not by a timeout or an error.
LocallyDone(r) ==
  \/ r.host_called
  \/ \E i \in Completions(r) :
       r.queue[i].status \in {"SUCCESS", "PARTIAL_SUCCESS", "LOST_CONNECTION"}

\* A collective never leaves its local phase while a member that can still contribute
\* has neither contributed nor departed: pmix_server_trk_complete counts heads, and the
\* count must not be satisfied by anybody twice.  A rank that finalized is still awaited.
NoEarlyCompletion ==
  \A t \in Collectives : LocallyDone(trk[t]) => Awaited(trk[t]) = {}

\* Those that will release the tracker: the host's callback, a shifted completion
\* handler, an armed timer.
Releasers(r) ==
  r.owed + Cardinality(Completions(r)) + (IF r.armed THEN 1 ELSE 0)

\* At most one party is on its way to completing a linked tracker, and none is once it
\* was released: neither a timer, nor a driven completion, nor the host can reach freed
\* memory or complete a collective a second time.
OneReleaser ==
  \A t \in Trk : Releasers(trk[t]) <= IF trk[t].linked THEN 1 ELSE 0

\* Every client blocked in a collective is on the list of exactly one linked tracker,
\* so whatever completes that tracker answers it, once.
ParkedIsHeld ==
  \A c \in Calls : call[c] = "parked" <=>
    \E t \in Collectives : /\ c \in trk[t].local_cbs
                           /\ \A u \in Trk : c \in trk[u].local_cbs => u = t

\* Two trackers for one operation are never both open to contributions, which would
\* split the participants of one collective.
OneOpenTracker ==
  \A t, u \in Trk : Matches(u, trk[t].type, trk[t].pcs) /\ Matches(t, trk[t].type, trk[t].pcs)
                      => t = u

\* The participants of a fence that the server completes by itself are told of success
\* only if no participant was lost before contributing.
DegradedFenceIsReported ==
  \A t \in Collectives : \A i \in Completions(trk[t]) :
    trk[t].type = FENCE /\ ~trk[t].host_called /\ trk[t].queue[i].status = "SUCCESS"
      => trk[t].departed = {}

\* A fence that collects data carries the data of every contributor up to the host.
DataStands ==
  \A t \in Collectives :
    trk[t].host_called /\ trk[t].type = FENCE /\ trk[t].collect_type = "YES"
      => trk[t].bucket = Contributed(trk[t])

\* The server never calls a host function that is not there, nor uses a released tracker.
Running == running

\* Nobody waits forever in a collective that is fully defined and that no live member
\* has still to join.  Collectives with a member the host deregistered are left out:
\* remove_client does not look at the trackers.
NobodyLeftWaiting ==
  \A c \in Calls :
    (\E t \in Collectives :
       /\ c \in trk[t].local_cbs
       /\ trk[t].def_complete
       /\ Awaited(trk[t]) = {}
       /\ \A n \in Names : IsMember(n, trk[t].pcs) => n[2] \notin nspace[n[1]].departed)
      ~> call[c] = "answered"

-----------------------------------------------------------------------------
(* The tracker engine implements the contract with its clients.            *)

Phase(t) ==
  IF trk[t].linked
  THEN IF trk[t].host_called \/ trk[t].completion_fired THEN "closed" ELSE "open"
  ELSE IF t <= ntrk THEN "done" ELSE "unborn"

Outcome(r) ==
  IF Completions(r) = {} THEN "UNDECIDED"
  ELSE Answer(r, r.queue[CHOOSE i \in Completions(r) : TRUE].status)

\* The instances of the contract that the trackers stand for.
Instances ==
  [t \in Trk |-> [phase |-> Phase(t), key |-> <<trk[t].type, trk[t].pcs>>,
                  joined |-> trk[t].local_cbs, outcome |-> Outcome(trk[t])]]

Contract == INSTANCE CollectiveContract WITH
  Inst <- Trk, Keys <- Ops \X Sigs, Outcomes <- Status,
  NoKey <- <<"NONE", {}>>, Undecided <- "UNDECIDED", inst <- Instances

\* The server keeps the contract of CollectiveContract with every client: one open
\* instance per operation, one outcome per instance, the same for all participants.
ImplementsContract == Contract!Spec

=============================================================================
