# A TLA+ model of OpenPMIx

OpenPMIx is the library through which the processes of a parallel job find one
another. Each node runs a *server* inside the resource manager's daemon (the
*host*). Client processes and tools connect to it. They publish and look up
data, take part in *collectives* (fence, connect, disconnect, group construct
and destruct), raise and receive events, ask the host for services and receive
the output of jobs.

This directory models the parts of the library in which many handlers and
threads meet over shared state. TLC checks every module on small instances.
TLAPS proves, for every value of the constants, fourteen of the safety invariants
that the runs check and the refinement of the collective contract.

## 1. The system and its parts

| Part | Source (under `src/src/`) | Module |
|---|---|---|
| Collective trackers, fence, connect, disconnect, registration | `server/pmix_server_fence.c`, `_connect.c`, `_op_replies.c`, `_registration.c` | `ServerCollectives` |
| Groups at the server | `server/pmix_server_group.c` | `GroupCollectives` |
| Get and direct modex at the server, commit | `server/pmix_server_get.c`, `_dmodex.c` | `DirectModex` |
| Message engine | `mca/ptl/base/ptl_base_sendrecv.c` | `PtlMessages` |
| Interest in events | `server/pmix_server_events.c`, `event/pmix_event_registration.c` | `EventInterest` |
| Delivery and caching of events at the server | `event/pmix_event_notification.c`, `class/pmix_hotel.c` | `EventDelivery` |
| The walk of an event through a process's handlers | `event/pmix_event_notification.c`, `_registration.c` | `EventChain` |
| Progress threads | `runtime/pmix_progress_threads.c` | `ProgressThreads` |
| Requests relayed to the host | `client/`, `common/`, `server/pmix_server_ops.c` and others | `RelayedRequests` |
| I/O forwarding | `common/pmix_iof.c`, `server/pmix_server_iof.c` | `IoForwarding` |

`PROJECT.json` lists all parts of the library, with the reason for each that is
not modelled, the lines each definition stands for, and the hazards of the code
with the lines at which they bite.

How the parts interact. Everything that touches the state of a server runs on
one **progress thread**: a message of a client, a lost connection, an expired
timer, a call of the host and a callback of the host are events on that thread
(calls of other threads are *thread-shifted*). So a handler is one action, there
is no data race inside a server, and there is every interleaving of handlers.
The exceptions are modelled step by step: the sockets of `PtlMessages`, and
`ProgressThreads`, which is about the loop itself.

The modules meet at the messages and callbacks. `PtlMessages` carries what the
other modules send: it shows that a request is completed once, with its own
reply or with the empty buffer of a lost connection, but for the windows that
section 7 names, and the other modules take messages as delivered in order or
lost with the connection. `ProgressThreads` shows that a call accepted while an
engine runs is run, which the fairness of the others assumes.

## 2. Modules

A module `X` is a component: its state, one action per handler, callback or
thread step, its properties. `MCX` has its instances for TLC. Most components
have a constant `Scenarios`, a set of records that say what may happen in a
behaviour (which forms of a request, how the host answers, who may be lost, at
which limits). A behaviour starts by choosing one, so that a run covers several
configurations without mixing all their features. Theorems hold for every set of
scenarios, so for all of them mixed as well.

| Module | State | Actions |
|---|---|---|
| `ServerCollectives` | `trk[t]`, a `pmix_server_trkr_t` (list membership, signature, counts, `local_cbs`, `departed`, `host_called`, `completion_fired`, timer, queued events, callbacks owed by the host); `nspace`, `peer`, `peerid`; `call`, `result` | `Contribute` (the three handlers), `Timeout`, `HostCallback`, `CompletionHandler`, `ExecuteCollective`, `LostConnection` (with the sweep over all trackers), `RegisterNspace`, `RegisterClient`, `DeregisterClient`, `Connect`, `Finalize` |
| `CollectiveContract` | instances of collectives with phase, joined calls and outcome | the abstract specification of the above |
| `GroupCollectives` | `blk[b]`, a `grp_block_t`; `shifted`, `host`, `member`, `parked` | `pmix_server_group`, `pmix_server_group_bootstrap`, `group_timeout`, `HostCallback`, `grpcbfunc`, `pmix_server_grp_peer_lost`, `pmix_server_grp_member_left`, `Register` |
| `DirectModex` | `trk[k]`, a `pmix_dmdx_local_t`; `get`, `answers`; `ask`, the host's requests on `remote_pnd`; registry, commits, stored data | `pmix_server_get`, `get_timeout`, `dmdx_cbfunc`, `process_dmdx_reply`, `register_nspace`, `register_client`, `connect`, `purge_events`, `deregister_client`, `pmix_server_commit`, `dmodex_req` |
| `PtlMessages` | for each end the send queue, units written, units on the wire, the message being read, messages posted to the loop; the posted receives, tags | `pmix_ptl_base_send_recv` (shifted, then posted or dropped), the send and receive handlers, `pmix_ptl_base_process_msg`, the server's replies and notifications, `Break` |
| `EventInterest` | `hdlr`, the client's counts `nregs`, the server's `reginfo`, the codes the host `forwards`, and the messages between them | registration and deregistration at client, server and host, refusals, `purge_events` |
| `EventDelivery` | the hotel (`room`, `free`), registrations, shifted work, `mail` of each client | `notify_client_event`, `register_events`, `check_cached_events`, `eviction_callback`, the host's answers, `purge_events` |
| `EventChain` | `events`, the registry with its slots and lists; `chain[e]`, the walk of an event; `cache` | registration, deregistration, notification, the completion of a handler, the progress thread |
| `ProgressThreads` | `pc` of each thread, the tracker, the event queue, `looper`, `shared_loop_thread`, the stopped flag | blocking calls (the check, then the post), `PMIx_Progress`, init, start in three steps of which two may fail, pause, resume, stop with and without flush, join |
| `RelayedRequests` | one record per call: where the caller and the request are, the caddy's references, the data lent and held, what the caller was told | the turns of the road for seventeen operations (the caller's check, the shifted post, the handler, the server's own lookup, the host's callback, the shifted reply), lost connection, stop |
| `IoForwarding` | output requests, cache, inheritance, terminals, held output, unterminated lines, stdin and its flow control | pull, deregistration, delivery, spawn, write handler (all, part, nothing or a failure), reading and pushing of stdin, XON and XOFF, background and foreground |

Proof modules: `ServerCollectivesProofs`, `TrackerSoundProofs`,
`LocalCompletionProofs`, `CollectiveContractProofs` (a chain about
`ServerCollectives`), `GroupCollectivesProofs`, `DirectModexProofs`,
`ProgressThreadsProofs`, `RelayedRequestsProofs`. Section 6 says what they hold.

### Abstractions

- A participant array is a set of `<<namespace, rank>>`; the code compares
  arrays as multisets without regard to order. It does not name a namespace
  both by wildcard and by rank (`SigsAssumption`).
- Data is what the code tells apart: the names whose data is in a modex bucket;
  nothing, something or the key asked for in a store; numbered chunks of output;
  a message is a header of `HdrLen` units and a body of up to two.
- `SIZE_MAX` is a constant above any number of local ranks. Arithmetic on
  `nlocalprocs` is the code's, including the decrement of `SIZE_MAX`.
- The seventeen relayed operations share one road. What differs between them (who
  asks the host when, what becomes of an error, who holds a reference, which
  replies have a body) is a table with one row per handler, per completion and
  per client callback, each row read off its function.
- History variables record what happened and are read by no action: `shared`,
  `twice` and `torn` in `PtlMessages`, `recounted` in `EventDelivery`, `misspent`
  in `EventChain`, `cut` in `ProgressThreads`, `doubled` in `IoForwarding`,
  `again`, `broken` and `silent` in `RelayedRequests`. A property that the code
  breaks in one narrow case names that case by such a variable, so that the run
  contains the case and the property says that there is no other.
- Left out everywhere: allocation failures, requests that do not unpack where
  the code only returns the error, logging and formatting.
- `pmix_server_new_tracker` takes an unknown namespace to be one without local
  processes. The comment there says the host must have made every namespace
  with local members known before they call. `MayCall` states that obligation.
- Events that different trackers have queued commute, so `ServerCollectives`
  orders only those of one tracker.

## 3. The contract of a collective

`CollectiveContract` says what clients may rely on. A call joins the one open
instance of its operation, or opens it. An instance closes once and gets one
outcome. That outcome is the answer to all who joined and to nobody else. A
call refused on the spot gets the outcome of its instance. `ImplementsContract`
is the refinement (`INSTANCE CollectiveContract WITH inst <- Instances, ...`): a
tracker is *open* until it went up or its completion was driven, *closed* until
it is unlinked, then *done*; the outcome is the status of the queued completion.
TLC checks it in the run `collectives`, and `KeepsContract` proves it.

## 4. Runs

Deadlock is not checked: requests, events and faults are bounded, and a system
with nothing left to do rests. Every run is under the fairness of section 5
except `late` and `relayed_partial`, which check invariants only.

| Run | Instance | Checks |
|---|---|---|
| `collectives` | 3 clients of one local job, one call each, fence and connect with and without timeout, 1 loss, 1 deregistration, 2 trackers | `OneReleaser`, `OneOpenTracker`, `NoEarlyCompletion`, `DegradedFenceIsReported`, `ImplementsContract`, `NobodyLeftWaiting` |
| `late` | 2 namespaces registered at any time, fence and disconnect over one or both, timeouts, every host return, bucket failure | `NoEarlyCompletion`, `ParkedIsHeld` |
| `group` | 3 members, up to 2 construct calls each, 3 blocks, 6 scenarios | `BlockOutlivesItsCompletions`, `NeverEarly`, `EveryCallerAnswered` |
| `modex` | 2 local ranks, 1 remote, 2 gets, 1 request of the host, 3 trackers, 7 scenarios | `AnsweredOnce`, `NobodyForgotten`, `HostAskAnswerable`, `EveryGetAnswered` |
| `ptl` | 2 calls, 1 or 2 dynamic tags, headers of 2 units, bodies of 0 to 2, 4 units on the wire, 1 notification, 5 scenarios | `CompletedOnce`, `StreamInStep`, `EveryCallReturns` |
| `interest` | 2 clients and the server, 4 handlers, 3 codes of which 2 need the host, 6 scenarios | `StillListed`, `StillForwarded`, `ForwardingStops` |
| `delivery` | 2 clients, 3 events, a cache of 2 rooms, 2 registrations each, 6 scenarios | `NobodyMissesAnEvent`, `AnswerComesFirst`, `EverybodyAnswered` |
| `chain` | up to 4 handlers, 2 events, 12 scenarios | `ChainInOrder`, `NobodySkipped`, `CachedForTheNext`, `EveryEventEnds` |
| `progress` | MAIN, the engine and 2 threads, 2 calls each, 6 operations on the tracker, 5 scenarios | `NobodyWaitsForItself`, `FlushedBeforeStop`, `AcceptedCallsReturn` |
| `relayed` | 2 calls of each of 17 operations, with and without a host function, lost connection, stop | `LentDataReturned`, `CaddyHeld`, `EveryRequestReturns` |
| `relayed_partial` (expected to fail) | 1 query, with and without a host function, lost connection | `PartialIsSaid` |
| `iof` | 2 tools, 2 jobs of up to 3 chunks, 3 lines of stdin, every limit at 1 to 4, 22 scenarios | `ShownInOrder`, `HeardOnce`, `StdinReachesItsEnd`, `EverythingShown` |

What the properties say is stated above each of them in its module.
`relayed_partial` shows a defect: a query of which only a part could be answered
is reported as a success (section 7).

Why the bounds are enough. Three local clients are the least with a first, a
last and a middle contributor, so a loss can happen before, between and after
contributions. Two trackers let a fence and a connect overlap, and three calls
leave no room for a third. In `late` one namespace has a rank elsewhere and the
other is wholly local, so a collective may need the host or not. Two gets and
three trackers are a request that joins another's tracker, and one that finds it
retired. One dynamic tag for two calls makes it come round while it is in use, and
a body of two units or a header of two lets the socket stop inside either. Three events for two rooms force an eviction. Four handlers fill one place
of the chain each, or compete for one place. Two tools and two jobs are the least
with a job that inherits from its parent and two takers of one stream; three
slots for requests hold a parent's and its copies, also when they are copied
twice. Six operations on the tracker are a start, a stop and a restart with a
pause and a resume between, and two calls per thread one that is cut and one
that comes after.

Each property of a run has a mutant in `PROJECT.json`: a plausible slip in the
code (a forgotten `event_del`, an assignment for an addition, a lookup that
returns a tracker on its way out) with which TLC reports that property.

## 5. Fairness

Weak fairness is given only to what the code or its documents promise.

- The event loop runs what is active: shifted handlers, expired timers, sockets
  that are ready. In `ProgressThreads`, where the loop is the subject, it is the
  threads that are scheduled, and callbacks return. That a callback returns is
  strong fairness there, because a nested `PMIx_Progress` disables it for a time.
- A host that took an up-call answers it: `PMIX_SUCCESS` from a host function
  means that the callback will be called. A host that steps the base itself keeps
  calling `PMIx_Progress`. In `DirectModex` the host also completes the
  registration it began, and clients connect and commit, or go.
- A thread that has begun to start the engine goes on with it, and a call that
  was shifted is run as long as its loop turns (`ProgressThreads`,
  `RelayedRequests`).
- A server answers the requests it received (`PtlMessages`).
- In `IoForwarding` the streams are finite and no step of the system repeats for
  ever, so it is enough that some due step is taken while there is one (`Due`).

Clients of collectives are under no obligation to call, to finalize or to fail;
`NobodyLeftWaiting` speaks of collectives that no live member has still to join,
and members of a group that has begun an operation do go on with it.

## 6. Theorems

The theorems hold for every value of the constants that satisfies the modules'
assumptions: any number of clients, requests, threads, trackers and losses.
Where a property is false for some inputs (section 7), the theorem names what
the host must do, or not do, as a hypothesis on the constants, and no other case
is left out.

| Theorem | Property | Hypotheses |
|---|---|---|
| `ServerCollectivesProofs!TypeCorrect` | `TypeOK` | |
| `ServerCollectivesProofs!NeverSplit` | `OneOpenTracker` | |
| `LocalCompletionProofs!NeverEarly` | `NoEarlyCompletion` | `Preregistered`, `NoClones`, `~Duplicates` |
| `LocalCompletionProofs!CompletedByOne` | `OneReleaser` | the same |
| `LocalCompletionProofs!LossIsReported` | `DegradedFenceIsReported` | the same |
| `CollectiveContractProofs!KeepsContract` | `ImplementsContract` | the same and `LossAccepted` |
| `ServerCollectivesProofs!BlockedIsHeld` | `ParkedIsHeld` | `LossAccepted` |
| `GroupCollectivesProofs!CompletionFindsItsBlock` | `BlockOutlivesItsCompletions` | `Orderly` |
| `GroupCollectivesProofs!HostNotCalledEarly` | `NeverEarly` | `Orderly` |
| `DirectModexProofs!GetAnsweredOnce` | `AnsweredOnce` | |
| `DirectModexProofs!AskStaysAnswerable` | `HostAskAnswerable` | `AsksForPresent` |
| `DirectModexProofs!WaitsForSomething` | `NobodyForgotten` | `RegistersFirst` |
| `ProgressThreadsProofs!FlushLosesNothing` | `FlushedBeforeStop` | |
| `ProgressThreadsProofs!LooperNeverBlocks` | `NobodyWaitsForItself` | `OneDriver` |
| `RelayedRequestsProofs!LoansReturned` | `LentDataReturned` | |
| `RelayedRequestsProofs!CaddyIsThere` | `CaddyHeld` | |

The hypotheses. `Preregistered`: the host registers a job before it launches it.
`NoClones`: no two peers share a name. `~Duplicates`: no client calls twice for
one collective. `LossAccepted`: no client is lost, or the host accepts the
collective that a loss completes. `Orderly`: a member that left a group does not
construct it again; the host does not complete a bootstrap call at once; members
whose directives do not aggregate set no timer; and where members both leave and
die, nobody sets a timer and the directives aggregate. `AsksForPresent`: the host does not ask for the
data of a process that went away and never committed. `RegistersFirst`: the host
registers everybody before a process commits or goes, and deregisters nobody on
its own. `OneDriver`: one thread of the host at most steps the base; it does so
only while no engine does and makes no blocking call of its own, and the last
reference is given up when no call is under way. Section 7 has a counterexample for each
hypothesis and a property that needs it; `LossIsReported` has the hypotheses of
the invariant it is derived from, and is not claimed to fail without them.

**Collectives.** `TypeOK` is proved first, one lemma for each operator that
builds a tracker and one for each action. Then:

- `NeverSplit`. The invariant is the property in another form (`NoRivals`). The
  proof rests on what a step may do to the callers of a tracker: apart from a
  contribution and the completion handler every step leaves list membership,
  operation, signature and callers of every tracker as they are (`Alike`,
  `Stays`), or unlinks the tracker; a contribution lands on the one tracker that
  matches, or on a new one when none does (`Lands`).
- `BlockedIsHeld`. The same two facts. The invariant `Held` adds that trackers
  not yet created are not linked and that only linked trackers have callers,
  without which a call could land on a tracker with callers of its own.
- `NeverEarly`. The property speaks of trackers that are complete, so it is not
  inductive. `IInv` adds: every namespace is registered with at least as many
  local processes counted as it has live ranks (`Ready`); a connected peer's name
  is live (`Current`); and for every linked tracker (`Sound`) departed names are
  not live, only completions are queued, a callback is owed only after an
  up-call, and as long as no completion is driven the members awaited are no more
  than `nlocal` minus those accounted for (`Counted`). A contribution removes one
  awaited name and adds one entry, and so does a loss.
- `CompletedByOne` and `LossIsReported`. `FitInv` says of every tracker who is on
  the way to completing it: the host, the timer, a queued completion, or nobody
  (`Claim`), and that a recorded departure shows in the status (`Health`). The
  proofs go through every operator of the engine once.
- `KeepsContract`. Every step of the engine is a step of `CollectiveContract` or
  a stutter under the mapping `Instances`. `View` is the image of one tracker.
  The argument needs `IInv`, `FitInv` (a closed tracker has one outcome, and it
  does not change while it is on its way) and `Numbered` (trackers are created
  in order, each for one operation).

**Groups.** `GroupInv` is one invariant for both theorems. At its core is a count
(`Sound`): as long as a block is not passed up, the members that called, departed
or may still do either (`Reach`) are no more than its `nlocal`, also when
`check_definition_complete` counted every list several times. So a block that is
locally complete is `Full`: nobody who could still call is missing, hence no call
follows on it, no second block is opened, and exactly one completion is on its
way (`Pending`). `Standing` ties what a member knows of the group to who is left
in it; without it a destruct could name members that a construct does not.
TLC checked `GroupInv` on 1.2 million states of all orderly scenarios of three
members before it was proved.

**Direct modex.** `RequestInv`: a parked request is on exactly one tracker, on a
tracker there are only parked ones, and a request has been answered once if it
is done and never otherwise. `AskInv` adds what the registry tells of a process.
`ForgottenInv` adds that there is one tracker per target, that a target which is
not here was asked of the host once everybody is registered, and that whoever
waits without a timer waits for something that may still come.

**Progress threads.** `FlushInv` follows the marker of a flushing stop through
the queue: what was queued before it is ahead of it or has run, and a later call
of the same thread is a different event. `DriverInv` says who is in the loop,
whose name `shared_loop_thread` carries meanwhile, and what each nested
`PMIx_Progress` will put back. It uses `FlushInv`.

**Relayed requests.** One invariant, `RelayInv`, for both theorems; it is about the
record of one call. `OnItsRoad` says for each place of a request which data are
held and how many references its caddy has: nothing while the handler, the server
itself or the host works on it; when an answer is queued, exactly the data it
points to (`Lending`), and those only if the completion is one that is lent data;
nothing and nobody when it is over. The properties alone are not inductive: that
nothing is held at the end rests on every exit of every completion calling the
release function it was given, so what an answer in flight holds has to be known
before. `Kept` adds that a request not yet sent has no place on the road, so that
each call is worked on once. The tables of the handlers and completions enter by
lemmas on what their rows have in common (`Retains`, `Exiting`); every step then
has a lemma of its own.

### What is only model-checked

- Liveness: all `~>` and `<>[]` properties. The proof system has no rules for
  fairness or `ENABLED`.
- `NobodyMissesAnEvent`, `AnswerComesFirst`, `ChainInOrder`, `NobodySkipped` and
  `CachedForTheNext`: the walk over the hotel's rooms and over the handlers'
  lists is a fold, and what it computes for every input needs an induction over
  data that the provers cannot do.
- `StreamInStep` and `CompletedOnce` need that induction too, over the units of a
  message and over the posted receives.
- `StillListed` and `StillForwarded`, `ShownInOrder` and `HeardOnce` have no proof
  yet. The first two need an invariant that ties `nregs`, the messages under way
  and `reginfo` together, the other two one on the order of a job's output across
  five queues.

## 7. Where the code departs from what is expected of it

First, the inputs that the passing runs leave out because a property is false of
the code for them. Each row names the configuration, or the scenario set to put in
place of `Everything` (or the constants to change), that makes TLC show it.

| How to see it | Property | What happens |
|---|---|---|
| `MCLateByRank.cfg` | `NoEarlyCompletion` | of the ranks named in a waiting fence, only the last to register is counted (`pmix_server_registration.c:302`) |
| the same with `Sigs <- Whole`, `NoData = {a}` | `NoEarlyCompletion` | registration with `PMIX_REGISTER_NODATA` (`pmix_server_registration.c:207`) never adds the namespace to a waiting fence |
| `MCLateLoss.cfg` | `NoEarlyCompletion` | a loss before registration decrements `SIZE_MAX`, which then looks like a count (`ptl_base_sendrecv.c:105`) |
| `MCLate.cfg` with `OneReleaser` | `OneReleaser` | a tracker whose timer expired is still handed to the host by a registration |
| `MCLossError.cfg` | `ParkedIsHeld` | the host refuses a collective completed by a loss: the survivors are never answered (`pmix_server_fence.c:1915`) |
| `MCLossNoHost.cfg` | `Running` | a collective completed by a loss calls a NULL host function |
| `MCLateByRank.cfg` with `Preregistered = TRUE`, `Sigs <- Whole`, `Duplicates = TRUE` | `NoEarlyCompletion` | a client's second call stands in for another rank (`pmix_server_fence.c:1698`), while `tracking_spec.rst:343` says "A duplicate call for the same required contribution must not double-count toward completion." A clone's call does the same |
| `MCGroupRejoin.cfg` | `BlockOutlivesItsCompletions` | a late joiner arms the timer of a block in flight, while `pmix_server_group.c:904` says "if it fires, the block has not been forwarded" |
| scenario set `LeftDies` of `MCGroupCollectives`, with four members | `NeverEarly` | a construct call joins the block of a destruct, which then names a member that had left; when that one dies it is counted in place of one that has yet to call (`pmix_server_group.c:1412`) |
| set `LeftDiesMismatch` | `BlockOutlivesItsCompletions` | a failed aggregation does not set `host_called`, so a member that leaves and then dies completes the block twice (`pmix_server_group.c:1401`) |
| set `MismatchTimed` | `BlockOutlivesItsCompletions` | when `aggregate_info` fails, the timer still runs beside the completion (`pmix_server_group.c:1305`), while it is deleted on the other paths "so a late internal timeout cannot race the host's completion" |
| set `BootstrapAtOnce` | `BlockOutlivesItsCompletions` | the completion of one bootstrap call answers and releases the blocks of all, the ones the host still has included (`pmix_server_group.c:641`) |
| `MCModexEarly.cfg` | `NobodyForgotten` | a request waits for a commit that is past: `pmix_server_get.c:965` keeps it "upon commit from new proc", though 948 means to "resolve all pending requests for local procs" |
| `MCModexStale.cfg` | `NobodyForgotten` | a request joins a tracker whose target was deregistered meanwhile (`pmix_server_get.c:773`) |
| scenario set `AskGone` of `MCDirectModex` | `HostAskAnswerable` | a request of the host for a process that went away without committing is parked for good (`pmix_server_dmodex.c:184`) |
| `MCInterestShared.cfg`, set `Refused` | `StillForwarded` | the host refuses after another client, or another handler of the same client, was told it succeeded, which the comment at `pmix_server_events.c:208` sets out to prevent |
| `MCInterestAgain.cfg`, sets `Slots`, `Locals` | `StillListed` | the client's counts and the server's entries part when two default handlers, the overall slots or process-local handlers are registered (`pmix_event_registration.c:336`) |
| `MCDelivery.cfg` with `AnswerComesFirst` asked where `via` has `"host"` | `AnswerComesFirst` | a registration that the host completes replays before it answers, while `pmix_server_events.c:773` promises the callback "prior to delivery of an event notification" |
| `MCChainOneShot.cfg` | `OneShot` | a one-shot handler that hands the event on stays registered (`pmix_event_notification.c:583`), while `test/unit/event_chain.c:38` says they "fire exactly once" |
| set `NotFirst` of `MCEventChain` | `ChainInOrder` | a handler that gives `PMIX_EVENT_HDLR_FIRST` as false is not put in the first slot, but the walk asks for the precedence and not for the slot (`pmix_event_notification.c:597`) and meets it twice |
| `MCProgressTwo.cfg` | `NoFalseAlarm` | two threads that step the base leave each other's name behind, while `pmix_progress_threads.c:111` says "A stale value can therefore never produce a false "yes"" |
| the same scenarios | `NobodyWaitsForItself` | a thread in the loop is not recognised and waits for itself |
| set `Overflow` of `MCIoForwarding` | `ShownInOrder` | output beyond the limit overtakes what is held, though `pmix_iof.c:2017` says "Declining is always safe" |

Second, what the passing runs contain. Here the property names the case and says
that it is the only one.

| Property | The case it names |
|---|---|
| `StreamInStep`, `EveryCallReturns` | a header that arrives in parts is read from its beginning again (`ptl_base_sendrecv.c:433`); the stream is out of step from there (`torn`), and a call may wait until the connection breaks |
| `CompletedOnce` | a reply was read and not yet matched when a failing write closed the connection: the loss completes the call and the reply completes it again (`twice`, `ptl_base_sendrecv.c:170`) |
| `CompletedOnce` | a tag came round while a receive was still posted on it (`ptl_base_sendrecv.c:684` does not ask): a call is given another's reply (`shared`) |
| `EveryCallReturns`, `EveryRequestReturns` | a call shifted before the loss is dropped with its callback after it (`ptl_base_sendrecv.c:668`), though 162 means "to preclude any chance of hanging" |
| `NobodyMissesAnEvent` | a target that is sent an event again, for a second registration or because it registered while the event was on its way, is counted again (`pmix_server_events.c:127`), and the event leaves the cache before its last target has it (`recounted`), though `pmix_event_notification.c:1269` caches it "until all local procs have received it" |
| `CachedForTheNext` | a cached event leaves the cache for a registrant that was refused, only observes or is out of range (`misspent`, `pmix_event_registration.c:411`) |
| `EveryEventEnds` | a handler is released while it has an event; `chain->evhdlr` holds no reference to it, and the walk goes on from freed memory |
| `AcceptedCallsReturn` | a call under way when the engine is stopped, or accepted between the two halves of a start that fails, waits for a restart (`cut`, `pmix_progress_threads.c:352`) |
| `EveryRequestReturns` | a host that fails a credential request passes no credential, which `pmix_server_info_replies.c:731` copies before it looks at the status; nobody is answered (`silent`) |
| `CaddyHeld` | the fabric handlers take a second reference to their caddy and give it back only when they refuse (`pmix_server_fabric.c:106`) |
| `ShownInOrder`, `HeardOnce` | a job inherits at its first output and again when its spawn is answered, and its output is repeated (`doubled`, `pmix_server_iof.c:224` and 814); that output comes first is called routine at 446 |
| `EverythingShown` | a tool keeps an unterminated last line for ever: `pmix_tool.c:350` drops the end marker that `pmix_iof.c:1930` ("last chance") waits for, and that `test/unit/iof_output.c:25` tests on the function alone |
| `EverythingShown` | a spawn that is counted and then dropped with the connection is never counted out, and what is held for its reply stays held until finalize |
| `EverythingShown` | after a failed write, or too many tries, the rest waits for the next line written (`pmix_iof.c:2466`) |

`relayed_partial` is the third kind, a property stated from a comment and broken
by the code. `pmix_query.c:480` says "if there are some results, then we return
them as "partial success"". Line 484 sets that status and line 489 overwrites it
with the result of copying the first of the results, so a query that a client
without a connection, or a server whose host refuses, could answer only in part
is a success to its caller.

Smaller things the models show and no property is about: a monitor request that
has local results loses the status of the host (`hostprocess`, in `RelayStep`);
output whose local write fails is not forwarded to anybody either
(`pmix_server_iof.c:195`); `SIGCONT` arms the reading of stdin although a push is
unanswered, so two fragments may be on their way at once.

Connect and disconnect pass `PMIX_SUCCESS` to their completion whatever a loss
recorded (`pmix_server_connect.c:547`), so `DegradedFenceIsReported` is about
fences. Deregistration does not sweep the trackers, so `NobodyLeftWaiting` leaves
out collectives that name a deregistered rank.

## 8. Not modelled

- In the modelled parts: replies that cannot be packed for one participant of a
  collective; the delta bookkeeping of a modex; `deregister_nspace`, tombstones
  and `proc_cnt`; the security and version handshake; tools that switch servers;
  messages a process sends to itself; aggregation of identical events; output
  files and the formatting of lines; what finalize still writes of held output;
  the logging of a gateway and the cleanup lists that job control registers.
- Packing and unpacking (`bfrops`) and the datastores (`gds`): sequential
  algorithms over data that the protocols above treat as opaque.
- Containers, `preg`, compression, `psensor`, `pnet` and the other plugins, the
  component framework, command-line parsing, the Python bindings: they take part
  in none of the protocols above; `PROJECT.json` has a line on each.
