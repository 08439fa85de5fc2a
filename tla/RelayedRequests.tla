-------------------------- MODULE RelayedRequests --------------------------
(***************************************************************************)
(* The requests a client relays through its server to the host: publish,   *)
(* lookup, spawn, query, log, allocation, job and session control,         *)
(* monitoring, credentials, fabric and name resolution.  All of them take  *)
(* the same road: the client packs a message and posts a receive; the      *)
(* server's switchyard gives the message a caddy and calls a handler; the  *)
(* handler calls the host, which answers through a callback from any       *)
(* thread; the callback shifts to the progress thread, which replies and   *)
(* releases the caddy; the client's receive callback completes the call.   *)
(* They differ in what happens at each turn of that road, and those        *)
(* differences are the records below, one per handler, completion and      *)
(* client callback.  The connection may be lost and the server may stop at *)
(* any point.                                                              *)
(***************************************************************************)
EXTENDS Naturals, FiniteSets

CONSTANTS Calls,       \* calls a client makes
          Scenarios    \* which operation, host and faults

VARIABLES scenario,
          connected,   \* the socket between client and server is open
          stopped,     \* the server's progress_thread_stopped
          running,     \* the server's event loop still turns
          calls

vars == <<scenario, connected, stopped, running, calls>>

Ops == {"publish", "lookup", "unpublish", "spawn", "query", "log", "alloc",
        "job_ctrl", "monitor", "get_credential", "validate_credential",
        "fabric_register", "fabric_update", "resblk", "session_ctrl",
        "resolve_peers", "resolve_node"}

(* op: the operation of every call.  host: the host supplies the function. *)
(* lost, stops: the faults.                                                *)
ASSUME ScenariosAssumption ==
    Scenarios \subseteq [op : Ops, host : BOOLEAN, lost : BOOLEAN, stops : BOOLEAN]

Good == {"SUCCESS", "PARTIAL_SUCCESS"}
Statuses == Good \union {"ERROR", "NOT_SUPPORTED", "NOT_AVAILABLE",
                         "UNREACH", "UNPACK_FAILURE"}
Answers == [status : Statuses, body : BOOLEAN]
Nothing == [status |-> "NONE", body |-> FALSE]

-----------------------------------------------------------------------------
(* What the server's handlers do.  asks: the host is asked in the handler  *)
(* ("AT_ONCE") or after a step of the progress thread ("AFTER").  guarded: *)
(* a stopped server refuses.  without: what becomes of the request when    *)
(* the host has no such function, by status or "LOCAL" (the server answers *)
(* itself).  refused: what becomes of an error of the up-call.  atomic:    *)
(* what an answer given within the up-call becomes.  retains: references   *)
(* the handler adds to the caddy's own.  own: a plugin of the server may   *)
(* answer before the host is asked.                                        *)

Relay == [asks |-> "AT_ONCE", guarded |-> FALSE, without |-> "NOT_SUPPORTED",
          refused |-> "PASS", atomic |-> "SUCCESS", retains |-> 0, own |-> FALSE]

pmix_server_publish == Relay
pmix_server_lookup == [Relay EXCEPT !.atomic = "NEVER"]
pmix_server_unpublish == Relay
pmix_server_spawn == [Relay EXCEPT !.without = "PFEXEC",
                                       !.atomic = "NOT_SUPPORTED"]
pmix_server_query == [Relay EXCEPT !.asks = "AFTER", !.guarded = TRUE,
                                       !.atomic = "NEVER"]
pmix_server_log == [Relay EXCEPT !.without = "NOT_AVAILABLE"]
pmix_server_alloc == Relay
pmix_server_job_ctrl == Relay
pmix_server_monitor == [Relay EXCEPT !.asks = "AFTER", !.guarded = TRUE,
                                       !.atomic = "NEVER"]
pmix_server_get_credential == [Relay EXCEPT !.atomic = "NEVER"]
pmix_server_validate_credential == [Relay EXCEPT !.atomic = "NEVER"]
pmix_server_fabric_register == [Relay EXCEPT !.guarded = TRUE,
                                                   !.retains = 1, !.own = TRUE]
pmix_server_fabric_update == [Relay EXCEPT !.guarded = TRUE,
                                                   !.retains = 1, !.own = TRUE]
pmix_server_resblk == Relay
pmix_server_session_ctrl == Relay
pmix_server_resolve_peers == [Relay EXCEPT !.guarded = TRUE,
    !.without = "LOCAL", !.refused = "LOCAL", !.atomic = "LOCAL"]
pmix_server_resolve_node == [Relay EXCEPT !.guarded = TRUE,
    !.without = "LOCAL", !.refused = "LOCAL", !.atomic = "LOCAL"]

server_switchyard ==
    [publish |-> pmix_server_publish, lookup |-> pmix_server_lookup,
     unpublish |-> pmix_server_unpublish, spawn |-> pmix_server_spawn,
     query |-> pmix_server_query, log |-> pmix_server_log,
     alloc |-> pmix_server_alloc, job_ctrl |-> pmix_server_job_ctrl,
     monitor |-> pmix_server_monitor,
     get_credential |-> pmix_server_get_credential,
     validate_credential |-> pmix_server_validate_credential,
     fabric_register |-> pmix_server_fabric_register,
     fabric_update |-> pmix_server_fabric_update,
     resblk |-> pmix_server_resblk, session_ctrl |-> pmix_server_session_ctrl,
     resolve_peers |-> pmix_server_resolve_peers,
     resolve_node |-> pmix_server_resolve_node]

(* What the completions do with the host's answer.  lends: the data come   *)
(* with a release function; the others are copied before the callback      *)
(* returns.  via: a step of the progress thread before the reply's own.    *)
(* error: an error is replied, or the server answers itself.  carries: the *)
(* statuses whose reply has a body.  frees, drops: the exits at which the  *)
(* callback calls the release function it was given, and at which it       *)
(* releases the caddy: "REFUSED", the callback found the server stopped;   *)
(* "STOPPED", its event did; "REPLIED"; "LOCAL", the server will answer    *)
(* itself; "UNCOPIED", there was nothing to copy.                          *)

Exits == {"REFUSED", "STOPPED", "REPLIED", "LOCAL", "UNCOPIED"}

op_cbfunc ==
    [lends |-> FALSE, via |-> "NONE", error |-> "REPLY", carries |-> {},
     frees |-> {}, drops |-> {"REFUSED", "STOPPED", "REPLIED"}]
resop_cbfunc ==
    [lends |-> FALSE, via |-> "NONE", error |-> "REPLY", carries |-> {},
     frees |-> {}, drops |-> {"REFUSED", "STOPPED", "REPLIED"}]
lookup_cbfunc ==
    [lends |-> FALSE, via |-> "NONE", error |-> "REPLY", carries |-> Good,
     frees |-> {}, drops |-> {"REFUSED", "STOPPED", "REPLIED"}]
spawn_cbfunc ==
    [lends |-> FALSE, via |-> "_spcbfunc", error |-> "REPLY",
     carries |-> Statuses, frees |-> {},
     drops |-> {"REFUSED", "STOPPED", "REPLIED"}]
query_cbfunc ==
    [lends |-> TRUE, via |-> "NONE", error |-> "REPLY", carries |-> Statuses,
     frees |-> {"REFUSED", "STOPPED", "REPLIED"},
     drops |-> {"REFUSED", "STOPPED", "REPLIED"}]
alloc_cbfunc ==
    [lends |-> TRUE, via |-> "NONE", error |-> "REPLY", carries |-> Statuses,
     frees |-> {"REFUSED", "STOPPED", "REPLIED"},
     drops |-> {"REFUSED", "STOPPED", "REPLIED"}]
jctrl_cbfunc ==
    [lends |-> TRUE, via |-> "NONE", error |-> "REPLY", carries |-> Statuses,
     frees |-> {"REFUSED", "STOPPED", "REPLIED"},
     drops |-> {"REFUSED", "STOPPED", "REPLIED"}]
monitor_cbfunc ==
    [lends |-> TRUE, via |-> "hostprocess", error |-> "REPLY",
     carries |-> Statuses, frees |-> {"REFUSED", "STOPPED", "REPLIED"},
     drops |-> {"REFUSED", "STOPPED", "REPLIED"}]
cred_cbfunc ==
    [lends |-> FALSE, via |-> "NONE", error |-> "REPLY",
     carries |-> {"SUCCESS"}, frees |-> {},
     drops |-> {"REFUSED", "STOPPED", "REPLIED", "UNCOPIED"}]
validate_cbfunc ==
    [lends |-> FALSE, via |-> "NONE", error |-> "REPLY", carries |-> Statuses,
     frees |-> {}, drops |-> {"REFUSED", "STOPPED", "REPLIED"}]

\* Mutant: the data are not given back when the event finds the server stopped.
fabric_cbfunc_keeps ==
    [lends |-> TRUE, via |-> "NONE", error |-> "REPLY", carries |-> Statuses,
     frees |-> {"REFUSED", "REPLIED"},
     drops |-> {"REFUSED", "STOPPED", "REPLIED"}]

fabric_cbfunc ==
    [lends |-> TRUE, via |-> "NONE", error |-> "REPLY", carries |-> Statuses,
     frees |-> {"REFUSED", "STOPPED", "REPLIED"},
     drops |-> {"REFUSED", "STOPPED", "REPLIED"}]
sessctrl_cbfunc ==
    [lends |-> TRUE, via |-> "NONE", error |-> "REPLY", carries |-> Statuses,
     frees |-> {"REFUSED", "STOPPED", "REPLIED"},
     drops |-> {"REFUSED", "STOPPED", "REPLIED"}]

\* Mutant: the caddy is released although the local lookup still needs it.
respeers_cbfunc_drops ==
    [lends |-> TRUE, via |-> "NONE", error |-> "LOCAL", carries |-> {"SUCCESS"},
     frees |-> {"REFUSED", "STOPPED", "REPLIED", "LOCAL"},
     drops |-> {"REFUSED", "STOPPED", "REPLIED", "LOCAL"}]

respeers_cbfunc ==
    [lends |-> TRUE, via |-> "NONE", error |-> "LOCAL", carries |-> {"SUCCESS"},
     frees |-> {"REFUSED", "STOPPED", "REPLIED", "LOCAL"},
     drops |-> {"REFUSED", "STOPPED", "REPLIED"}]
resnodes_cbfunc ==
    [lends |-> TRUE, via |-> "NONE", error |-> "LOCAL", carries |-> {"SUCCESS"},
     frees |-> {"REFUSED", "STOPPED", "REPLIED", "LOCAL"},
     drops |-> {"REFUSED", "STOPPED", "REPLIED"}]

Completions ==
    [publish |-> op_cbfunc, unpublish |-> op_cbfunc, log |-> op_cbfunc,
     resblk |-> resop_cbfunc, lookup |-> lookup_cbfunc,
     spawn |-> spawn_cbfunc, query |-> query_cbfunc, alloc |-> alloc_cbfunc,
     job_ctrl |-> jctrl_cbfunc, monitor |-> monitor_cbfunc,
     get_credential |-> cred_cbfunc, validate_credential |-> validate_cbfunc,
     fabric_register |-> fabric_cbfunc, fabric_update |-> fabric_cbfunc,
     session_ctrl |-> sessctrl_cbfunc, resolve_peers |-> respeers_cbfunc,
     resolve_node |-> resnodes_cbfunc]

(* What the client does.  alone: without a connection the call fails, or   *)
(* is served in the client.  bare: how a successful reply without a body   *)
(* is read.  again: the statuses after which the client serves the call    *)
(* itself.                                                                 *)

Caller == [alone |-> "UNREACH", bare |-> "TOLERATED", again |-> {}]

PMIx_Publish == Caller
PMIx_Lookup == [Caller EXCEPT !.bare = "UNPACK_FAILURE"]
PMIx_Unpublish == Caller
PMIx_Spawn == Caller
PMIx_Query_info == [Caller EXCEPT !.bare = "UNPACK_FAILURE"]
PMIx_Log == [Caller EXCEPT !.alone = "LOCAL", !.again = {"NOT_AVAILABLE"}]
PMIx_Allocation_request == Caller
PMIx_Job_control == Caller
PMIx_Process_monitor == Caller
PMIx_Get_credential == [Caller EXCEPT !.alone = "LOCAL"]
PMIx_Validate_credential == [Caller EXCEPT !.alone = "LOCAL"]
PMIx_Fabric_register == Caller
PMIx_Fabric_update == Caller
PMIx_Resource_block == Caller
PMIx_Session_control == Caller
PMIx_Resolve_peers == [alone |-> "LOCAL", bare |-> "UNPACK_FAILURE",
                       again |-> Statuses \ {"SUCCESS"}]
PMIx_Resolve_nodes == [alone |-> "LOCAL", bare |-> "UNPACK_FAILURE",
                       again |-> Statuses \ {"SUCCESS"}]

Callers ==
    [publish |-> PMIx_Publish, lookup |-> PMIx_Lookup,
     unpublish |-> PMIx_Unpublish, spawn |-> PMIx_Spawn,
     query |-> PMIx_Query_info, log |-> PMIx_Log,
     alloc |-> PMIx_Allocation_request, job_ctrl |-> PMIx_Job_control,
     monitor |-> PMIx_Process_monitor, get_credential |-> PMIx_Get_credential,
     validate_credential |-> PMIx_Validate_credential,
     fabric_register |-> PMIx_Fabric_register,
     fabric_update |-> PMIx_Fabric_update, resblk |-> PMIx_Resource_block,
     session_ctrl |-> PMIx_Session_control,
     resolve_peers |-> PMIx_Resolve_peers, resolve_node |-> PMIx_Resolve_nodes]

-----------------------------------------------------------------------------

op == scenario.op
H == server_switchyard[op]
D == Completions[op]
C == Callers[op]

(* client: where the caller is ("PARSING": a query to be looked up in the  *)
(* client's own store; "SHIFTED": the request not yet handed to the        *)
(* transport; "ALONE": serving itself; "DROPPED": shifted too late).       *)
(* request, reply: the messages in flight.  at: where the server has the   *)
(* request: "LOCAL", "RELAY" and "REPLY" are events queued on the progress *)
(* thread, "HOST" is the host's turn.  part: the server holds part of the  *)
(* answer.  refs: references on the switchyard's caddy.  held: the data    *)
(* handed over with a release function that was not called yet, the host's *)
(* and the server's own.  data: what the queued answer points to.  again:  *)
(* a release function was called twice.  silent: the completion gave up    *)
(* without a reply.  broken: a part of the request failed.                 *)
Loans == {"HOST", "OWN"}
CallType == [client : {"IDLE", "PARSING", "SHIFTED", "WAITING", "ALONE", "DROPPED", "DONE"},
             request : BOOLEAN, reply : Answers \union {Nothing},
             at : {"NONE", "LOCAL", "HOST", "RELAY", "REPLY", "ENDED"},
             part : BOOLEAN, refs : 0..2, held : SUBSET Loans,
             data : Loans \union {"NONE", "COPY"}, again : BOOLEAN,
             answer : Answers \union {Nothing}, silent : BOOLEAN,
             told : Answers \union {Nothing}, broken : BOOLEAN]

Unused == [client |-> "IDLE", request |-> FALSE, reply |-> Nothing,
           at |-> "NONE", part |-> FALSE, refs |-> 0, held |-> {},
           data |-> "NONE", again |-> FALSE, answer |-> Nothing,
           silent |-> FALSE, told |-> Nothing, broken |-> FALSE]

Init ==
    /\ scenario \in Scenarios
    /\ connected = TRUE
    /\ stopped = FALSE
    /\ running = TRUE
    /\ calls = [c \in Calls |-> Unused]

(* The call k completed to its caller.                                     *)
Tell(k, answer) == [k EXCEPT !.client = "DONE", !.told = answer]

(* The caller's next state after an outcome it may yet make good itself.   *)
Settle(k, answer) ==
    IF answer.status \in C.again THEN [k EXCEPT !.client = "ALONE"]
                                 ELSE Tell(k, answer)

-----------------------------------------------------------------------------
(* The API call.  With a connection the request is shifted to the progress *)
(* thread; without one the call fails or serves itself.  A query is        *)
(* shifted either way, to look in the client's own store first.            *)
Call(c) ==
    /\ calls[c].client = "IDLE"
    /\ calls' = [calls EXCEPT ![c] =
         IF op = "query" THEN [@ EXCEPT !.client = "PARSING"]
         ELSE IF connected THEN [@ EXCEPT !.client = "SHIFTED"]
         ELSE IF C.alone = "LOCAL" THEN [@ EXCEPT !.client = "ALONE"]
         ELSE Tell(@, [status |-> C.alone, body |-> FALSE])]
    /\ UNCHANGED <<scenario, connected, stopped, running>>

(* pmix_parse_localquery in the client: everything is in its store, or the *)
(* rest is asked of the server.  Without a connection the results in hand  *)
(* are reported as a success: the partial status is overwritten by the     *)
(* copy's own.                                                             *)
ParseQuery(c) ==
    LET k == calls[c] IN
    /\ k.client = "PARSING"
    /\ \E n \in
         {Tell(k, [status |-> "SUCCESS", body |-> TRUE])}
         \union IF connected THEN {[k EXCEPT !.client = "SHIFTED"]}
                ELSE {Tell(k, [status |-> "UNREACH", body |-> FALSE]),
                      Tell([k EXCEPT !.broken = TRUE],
                           [status |-> "SUCCESS", body |-> TRUE])} :
         calls' = [calls EXCEPT ![c] = n]
    /\ UNCHANGED <<scenario, connected, stopped, running>>

(* pmix_ptl_base_send_recv: the receive is posted and the request sent, or *)
(* on a connection lost since it was shifted it is dropped, callback and   *)
(* all.                                                                    *)
SendRecv(c) ==
    /\ calls[c].client = "SHIFTED"
    /\ calls' = [calls EXCEPT ![c] =
         IF connected THEN [@ EXCEPT !.client = "WAITING", !.request = TRUE]
                      ELSE [@ EXCEPT !.client = "DROPPED"]]
    /\ UNCHANGED <<scenario, connected, stopped, running>>

(* resolve_peers, resolve_nodes, pmix_plog.log and the psec module: the    *)
(* client serves the call from what it has.                                *)
ServeSelf(c) ==
    /\ calls[c].client = "ALONE"
    /\ \E s \in {"SUCCESS", "ERROR"} : calls' = [calls EXCEPT ![c] =
            Tell([@ EXCEPT !.broken = FALSE],
                 [status |-> s, body |-> s = "SUCCESS"])]
    /\ UNCHANGED <<scenario, connected, stopped, running>>

(* PMIX_SERVER_QUEUE_REPLY: a reply to a closed socket is released.        *)
Reply(k, answer) ==
    [k EXCEPT !.reply = IF connected THEN answer ELSE Nothing]

(* Data are handed over with a release function, or given back with it.    *)
Lend(k, d) == [k EXCEPT !.held = @ \union {d}, !.data = d]
Return(k, d) == [k EXCEPT !.held = @ \ {d}, !.again = @ \/ d \notin k.held]

(* A completion's way out: what it calls and releases on it.               *)
Leave(k, exit) ==
    LET n == IF exit \in D.frees /\ k.data \in Loans THEN Return(k, k.data) ELSE k IN
    IF exit \in D.drops THEN [n EXCEPT !.refs = @ - 1] ELSE n

End(k, exit) == [Leave(k, exit) EXCEPT !.at = "ENDED"]

(* A completion called with the answer: a stopped server releases what it  *)
(* was given, a running one queues the reply's event.                      *)
Post(k, answer) ==
    IF stopped THEN End(k, "REFUSED")
               ELSE [k EXCEPT !.at = "REPLY", !.answer = answer]

(* The up-call's return: the host has it, or an error or an answer at once *)
(* comes back up to the message handler, which releases the caddy and      *)
(* replies with the status alone, or the server answers itself.            *)
Settled(k, how, status) ==
    CASE how = "LOCAL" -> [k EXCEPT !.at = "LOCAL", !.refs = 1 + H.retains]
      [] how = "PASS"  -> Reply([k EXCEPT !.at = "ENDED"],
                                [status |-> status, body |-> FALSE])
      [] OTHER         -> Reply([k EXCEPT !.at = "ENDED"],
                                [status |-> how, body |-> FALSE])

UpCall(k) ==
    {[k EXCEPT !.at = "HOST", !.refs = 1 + H.retains],
     Settled(k, H.refused, "ERROR")}
    \union IF H.atomic = "NEVER" THEN {} ELSE {Settled(k, H.atomic, "SUCCESS")}

(* pmix_server_message_handler: the request reaches its handler.           *)
pmix_server_message_handler(c) ==
    LET k == [calls[c] EXCEPT !.request = FALSE] IN
    /\ running /\ connected /\ calls[c].request
    /\ \E n \in
         IF H.guarded /\ stopped THEN {Settled(k, "NOT_AVAILABLE", "")}
         ELSE IF H.asks = "AFTER" THEN {Settled(k, "LOCAL", "")}
         ELSE (IF H.own THEN {Settled(k, "LOCAL", "")} ELSE {})
              \union IF scenario.host \/ H.without = "PFEXEC" THEN UpCall(k)
                     ELSE {Settled(k, H.without, "")} :
         calls' = [calls EXCEPT ![c] = n]
    /\ UNCHANGED <<scenario, connected, stopped, running>>

(* The server's own results, on loan to the completion.                    *)
Own(k, status) == Post(Lend(k, "OWN"), [status |-> status, body |-> TRUE])

(* pmix_parse_localquery in the server: everything is in its store, or the *)
(* rest goes to the host.  Results in hand when the host refuses are       *)
(* reported as a success, as in the client.                                *)
pmix_parse_localquery(k) ==
    {Own(k, "SUCCESS"), Own(k, "ERROR"), [Own(k, "SUCCESS") EXCEPT !.broken = TRUE]}
    \union IF scenario.host
           THEN {[k EXCEPT !.at = "HOST", !.part = p] : p \in BOOLEAN} ELSE {}

(* pmix_monitor_processing: a sensor of the server claims the request or   *)
(* its targets are all here; or some are elsewhere and the host is asked,  *)
(* the local ones having been sampled first.                               *)
pmix_monitor_processing(k) ==
    {Own(k, "SUCCESS"), Own(k, "ERROR")}
    \union IF scenario.host
           THEN {[k EXCEPT !.at = "HOST", !.part = p] : p \in BOOLEAN}
           ELSE {Own(k, "NOT_SUPPORTED")}

(* pmix_server_locally_resolve_peers and _node: the reply is built and     *)
(* queued, and the caddy released, in the same event.                      *)
locally_resolve(k) ==
    {[Reply(k, [status |-> s, body |-> s = "SUCCESS"])
        EXCEPT !.at = "ENDED", !.refs = @ - 1] : s \in {"SUCCESS", "ERROR"}}

(* The fabric plugin's answer on its way to the completion, in the query   *)
(* caddy and without a release function.                                   *)
_fabric_response(k) ==
    {Post([k EXCEPT !.data = "COPY"], [status |-> "SUCCESS", body |-> TRUE])}

(* An event of the progress thread in which the server looks for the       *)
(* answer itself.                                                          *)
LocalStep(c) ==
    LET k == calls[c] IN
    /\ running /\ k.at = "LOCAL"
    /\ \E n \in CASE op = "query" -> pmix_parse_localquery(k)
                  [] op = "monitor" -> pmix_monitor_processing(k)
                  [] H.own -> _fabric_response(k)
                  [] OTHER -> locally_resolve(k) :
         calls' = [calls EXCEPT ![c] = n]
    /\ UNCHANGED <<scenario, connected, stopped, running>>

(* finalstep: the host's results join the ones in hand in an array of the  *)
(* server's own, which is passed on; the host's are given back at once.    *)
finalstep(k, answer) == Return(Post(Lend(k, "OWN"), answer), "HOST")

(* The host's callback, from a thread of the host.  The monitor's does not *)
(* look at the stop flag and always queues its event; the credential's     *)
(* gives up, without a reply, on an answer that brings no credential.      *)
HostCallback(c) ==
    /\ calls[c].at = "HOST"
    /\ \E s \in Good \union {"ERROR"}, b \in BOOLEAN :
         LET a == [status |-> s, body |-> b]
             k == [IF D.lends THEN Lend(calls[c], "HOST")
                   ELSE [calls[c] EXCEPT !.data = "COPY"]
                     EXCEPT !.broken = s # "SUCCESS"] IN
         calls' = [calls EXCEPT ![c] =
            IF op = "get_credential" /\ ~b /\ ~stopped
            THEN [End(k, "UNCOPIED") EXCEPT !.silent = TRUE]
            ELSE IF op = "query" THEN finalstep(k, a)
            ELSE IF op = "monitor" \/ (D.via # "NONE" /\ ~stopped)
            THEN [k EXCEPT !.at = "RELAY", !.answer = a]
            ELSE Post(k, a)]
    /\ UNCHANGED <<scenario, connected, stopped, running>>

(* The event between the host's callback and the reply's.  _spcbfunc adds  *)
(* the output forwarding a spawn asked for, which may fail.  hostprocess   *)
(* copies the host's results, gives them back and passes its own on; when  *)
(* it joins them to local ones it passes on the status of the local ones.  *)
_spcbfunc(k) ==
    {Post(k, k.answer)}
    \union IF k.answer.status = "SUCCESS"
           THEN {Post(k, [k.answer EXCEPT !.status = "ERROR"])} ELSE {}

hostprocess(k) ==
    {Post(Return(Lend(k, "OWN"), "HOST"),
          [status |-> IF k.part THEN "SUCCESS" ELSE k.answer.status,
           body |-> TRUE])}

RelayStep(c) ==
    LET k == calls[c] IN
    /\ running /\ k.at = "RELAY"
    /\ \E n \in IF op = "monitor" THEN hostprocess(k) ELSE _spcbfunc(k) :
         calls' = [calls EXCEPT ![c] = n]
    /\ UNCHANGED <<scenario, connected, stopped, running>>

(* The reply the completions pack: a lookup's data only if there are any;  *)
(* name resolution turns a success without data into an error.             *)
Packed(a) ==
    IF D.error = "LOCAL" /\ a.status = "SUCCESS" /\ ~a.body
    THEN [status |-> "ERROR", body |-> FALSE]
    ELSE [status |-> a.status,
          body |-> a.status \in D.carries /\ (op = "lookup" => a.body)]

(* The completion's event (_opcbfunc, _lkupcbfunc, _qrycbfunc and the      *)
(* others): on a stopped server everything is released and nobody told.    *)
(* Name resolution takes an error of the host as a reason to look for      *)
(* itself, and keeps the caddy for that.                                   *)
ReplyStep(c) ==
    LET k == calls[c] IN
    /\ running /\ k.at = "REPLY"
    /\ calls' = [calls EXCEPT ![c] =
         CASE stopped -> End(k, "STOPPED")
           [] ~stopped /\ D.error = "LOCAL" /\ k.answer.status # "SUCCESS" ->
                [Leave(k, "LOCAL") EXCEPT !.at = "LOCAL", !.broken = FALSE]
           [] OTHER -> End(Reply(k, Packed(k.answer)), "REPLIED")]
    /\ UNCHANGED <<scenario, connected, stopped, running>>

-----------------------------------------------------------------------------
(* How the client's receive callback reads a reply.                        *)
Read(a) ==
    IF a.status \in Good /\ ~a.body /\ C.bare # "TOLERATED"
    THEN [status |-> C.bare, body |-> FALSE] ELSE a

(* The reply reaches the receive posted for it.                            *)
Deliver(c) ==
    LET k == [calls[c] EXCEPT !.reply = Nothing] IN
    /\ connected /\ calls[c].reply # Nothing
    /\ calls' = [calls EXCEPT ![c] = Settle(k, Read(calls[c].reply))]
    /\ UNCHANGED <<scenario, connected, stopped, running>>

\* Mutant: a receive completed by the loss returns without a word.
Lost_quiet(k) == [k EXCEPT !.request = FALSE, !.reply = Nothing]

(* A lost connection: messages in flight are gone, and every posted        *)
(* receive completes with an empty buffer, which its callback reads as a   *)
(* failure (UNREACH, or COMM_FAILURE in the common APIs).                  *)
Lost(k) ==
    LET n == [k EXCEPT !.request = FALSE, !.reply = Nothing] IN
    IF k.client = "WAITING" THEN Settle(n, [status |-> "UNREACH", body |-> FALSE])
                            ELSE n

LoseConnection ==
    /\ connected
    /\ scenario.lost \/ ~running     \* finalize closes the sockets last
    /\ connected' = FALSE
    /\ calls' = [c \in Calls |-> Lost(calls[c])]
    /\ UNCHANGED <<scenario, stopped, running>>

(* PMIx_server_finalize: it waits for the events queued at that moment,    *)
(* but others may be queued before it sets the flag; the loop ends later.  *)
Stop ==
    /\ scenario.stops /\ ~stopped
    /\ stopped' = TRUE
    /\ UNCHANGED <<scenario, connected, running, calls>>

LoopEnds ==
    /\ stopped /\ running
    /\ running' = FALSE
    /\ UNCHANGED <<scenario, connected, stopped, calls>>

Next ==
    \/ \E c \in Calls :
         \/ Call(c) \/ ParseQuery(c) \/ SendRecv(c) \/ ServeSelf(c)
         \/ pmix_server_message_handler(c) \/ LocalStep(c) \/ HostCallback(c)
         \/ RelayStep(c) \/ ReplyStep(c) \/ Deliver(c)
    \/ LoseConnection \/ Stop \/ LoopEnds

Spec == Init /\ [][Next]_vars

(* The event loops of client and server turn while they run; the host      *)
(* answers every up-call it took; a loop told to end does; finalize closes *)
(* the sockets.                                                            *)
Fairness ==
    /\ \A c \in Calls :
         /\ WF_vars(ParseQuery(c)) /\ WF_vars(SendRecv(c))
         /\ WF_vars(ServeSelf(c)) /\ WF_vars(pmix_server_message_handler(c))
         /\ WF_vars(LocalStep(c)) /\ WF_vars(HostCallback(c))
         /\ WF_vars(RelayStep(c)) /\ WF_vars(ReplyStep(c))
         /\ WF_vars(Deliver(c))
    /\ WF_vars(LoopEnds)
    /\ WF_vars(~running /\ LoseConnection)

FairSpec == Spec /\ Fairness

-----------------------------------------------------------------------------
(* The types of the variables.                                             *)
TypeOK ==
    /\ scenario \in Scenarios
    /\ connected \in BOOLEAN /\ stopped \in BOOLEAN /\ running \in BOOLEAN
    /\ calls \in [Calls -> CallType]

(* The fabric handlers take a second reference to their caddy and give it  *)
(* back only when they refuse (see the README).                            *)
Leaky == {"fabric_register", "fabric_update"}

(* Data handed over with a release function, by the host or by the         *)
(* server's own lookups, are in hand until the reply is packed from them,  *)
(* the function is never called twice, and it was called when the request  *)
(* is over, whether the reply was sent, the server stopped in between, or  *)
(* the answer was an error.                                                *)
LentDataReturned ==
    \A c \in Calls :
        /\ ~calls[c].again
        /\ calls[c].at = "ENDED" => calls[c].held = {}
        /\ calls[c].at \in {"RELAY", "REPLY"} /\ calls[c].data \in Loans
             => calls[c].data \in calls[c].held

(* The caddy that holds the requester's peer and tag is there for whoever  *)
(* works on the request, the host's callback, the events and the server's  *)
(* own lookup, and is gone when the request is over; only a fabric request *)
(* leaves the second reference behind.                                     *)
CaddyHeld ==
    \A c \in Calls :
        /\ calls[c].at \in {"LOCAL", "HOST", "RELAY", "REPLY"} => calls[c].refs > 0
        /\ calls[c].at = "ENDED" =>
             calls[c].refs = 0 \/ (op \in Leaky /\ calls[c].refs = 1)

(* A query whose results are only a part of what was asked is not reported *)
(* as a success: "if there are some results, then we return them as        *)
(* "partial success"".                                                     *)
PartialIsSaid ==
    \A c \in Calls : calls[c].told.status = "SUCCESS" => ~calls[c].broken

(* Every call returns to its caller, whatever the host answers, whenever   *)
(* the connection breaks or the server stops.  Two are excepted: a request *)
(* shifted before the connection was lost and dropped after it, and one    *)
(* for a credential whose host answers without any.                        *)
EveryRequestReturns ==
    \A c \in Calls :
        (calls[c].client \in {"PARSING", "SHIFTED", "WAITING"}) ~>
            (calls[c].client \in {"DONE", "DROPPED"} \/ calls[c].silent)

=============================================================================
