----------------------- MODULE RelayedRequestsProofs -----------------------
(***************************************************************************)
(* What is handed over with a release function is given back once, and the *)
(* caddy of a request is there for whoever works on it and gone when the   *)
(* request is over.  The invariant follows one call: at each place on its  *)
(* road it says which data are held and how many references the caddy has. *)
(* That the loans balance rests on the tables: every completion that is    *)
(* lent data calls the release function at each of its exits, and releases *)
(* the caddy at each but the one after which the server answers itself.    *)
(***************************************************************************)
EXTENDS RelayedRequests, Integers, TLAPS

Fields == {"client", "request", "reply", "at", "part", "refs", "held", "data", "again",
           "answer", "silent", "told", "broken"}

\* The caller has not sent its request yet.
Early(k) == k.client \in {"IDLE", "PARSING", "SHIFTED"}

\* The data a queued answer points to are held, apart from those in X.
Lending(k, X) ==
  /\ k.data \in Loans => D.lends /\ k.data \notin X /\ k.held = X \union {k.data}
  /\ k.data \notin Loans => k.held = X

\* What is held, and by whom, where the request is.
OnItsRoad(k) ==
  \/ k.at = "NONE" /\ k.held = {} /\ k.refs = 0
  \/ k.at \in {"LOCAL", "HOST"} /\ k.held = {} /\ k.refs = 1 + H.retains
  \/ /\ k.at \in {"RELAY", "REPLY"} /\ Lending(k, {}) /\ k.refs = 1 + H.retains
     /\ k.at = "RELAY" => k.data = IF op = "monitor" THEN "HOST" ELSE "COPY"
  \/ k.at = "ENDED" /\ k.held = {} /\ k.refs \in {0, H.retains}

Kept(k) ==
  /\ DOMAIN k = Fields
  /\ k.again = FALSE
  /\ Early(k) => k.at = "NONE" /\ ~k.request
  /\ k.request => k.at = "NONE"
  /\ OnItsRoad(k)

RelayInv == scenario \in Scenarios /\ DOMAIN calls = Calls /\ \A c \in Calls : Kept(calls[c])

\* A step that touches neither the loans nor the caddy.
Same(n, k) ==
  /\ DOMAIN n = Fields
  /\ n.at = k.at /\ n.refs = k.refs /\ n.held = k.held /\ n.data = k.data /\ n.again = k.again

\* A step of the server leaves the caller alone.
Apart(n, k) == DOMAIN n = Fields /\ n.client = k.client /\ n.request = k.request

-----------------------------------------------------------------------------
(* The tables.                                                             *)

\* Only the fabric handlers take a second reference.
LEMMA Retains ==
  ASSUME op \in Ops
  PROVE  H.retains = IF op \in Leaky THEN 1 ELSE 0
<1>1. Relay.retains = 0
  BY DEF Relay
<1>2. CASE op \in {"publish", "unpublish", "alloc", "job_ctrl", "resblk", "session_ctrl"}
  <2>1. H = Relay
    BY <1>2 DEF H, server_switchyard, pmix_server_publish, pmix_server_unpublish,
       pmix_server_alloc, pmix_server_job_ctrl, pmix_server_resblk, pmix_server_session_ctrl
  <2>2. QED
    BY <1>1, <1>2, <2>1 DEF Leaky
<1>3. CASE op \in {"lookup", "get_credential", "validate_credential", "spawn", "log"}
  <2>1. H \in {pmix_server_lookup, pmix_server_get_credential, pmix_server_validate_credential,
               pmix_server_spawn, pmix_server_log}
    BY <1>3 DEF H, server_switchyard
  <2>2. pmix_server_lookup.retains = 0 /\ pmix_server_get_credential.retains = 0
    BY DEF pmix_server_lookup, pmix_server_get_credential, Relay
  <2>3. pmix_server_validate_credential.retains = 0 /\ pmix_server_log.retains = 0
    BY DEF pmix_server_validate_credential, pmix_server_log, Relay
  <2>4. pmix_server_spawn.retains = 0
    BY DEF pmix_server_spawn, Relay
  <2>5. QED
    BY <1>3, <2>1, <2>2, <2>3, <2>4 DEF Leaky
<1>4. CASE op \in {"query", "monitor", "resolve_peers", "resolve_node"}
  <2>1. H \in {pmix_server_query, pmix_server_monitor, pmix_server_resolve_peers,
               pmix_server_resolve_node}
    BY <1>4 DEF H, server_switchyard
  <2>2. pmix_server_query.retains = 0
    BY DEF pmix_server_query, Relay
  <2>3. pmix_server_monitor.retains = 0
    BY DEF pmix_server_monitor, Relay
  <2>4. pmix_server_resolve_peers.retains = 0
    BY DEF pmix_server_resolve_peers, Relay
  <2>5. pmix_server_resolve_node.retains = 0
    BY DEF pmix_server_resolve_node, Relay
  <2>6. QED
    BY <1>4, <2>1, <2>2, <2>3, <2>4, <2>5 DEF Leaky
<1>5. CASE op \in Leaky
  <2>1. H \in {pmix_server_fabric_register, pmix_server_fabric_update}
    BY <1>5 DEF H, server_switchyard, Leaky
  <2>2. pmix_server_fabric_register.retains = 1
    BY DEF pmix_server_fabric_register, Relay
  <2>3. pmix_server_fabric_update.retains = 1
    BY DEF pmix_server_fabric_update, Relay
  <2>4. QED
    BY <1>5, <2>1, <2>2, <2>3
<1>6. QED
  BY <1>2, <1>3, <1>4, <1>5 DEF Ops, Leaky

\* At which exits a completion frees what it was lent and drops the caddy.
LEMMA Exiting ==
  ASSUME op \in Ops
  PROVE  /\ {"REFUSED", "STOPPED", "REPLIED"} \subseteq D.drops /\ "LOCAL" \notin D.drops
         /\ D.lends => {"REFUSED", "STOPPED", "REPLIED"} \subseteq D.frees
         /\ D.error = "LOCAL" => "LOCAL" \in D.frees
         /\ op = "get_credential" => "UNCOPIED" \in D.drops /\ ~D.lends
         /\ op \in {"query", "monitor"} => D.lends
         /\ D.via # "NONE" => op = "monitor" \/ ~D.lends
<1>1. CASE op \in {"publish", "unpublish", "log", "resblk", "lookup"}
  BY <1>1 DEF D, Completions, op_cbfunc, resop_cbfunc, lookup_cbfunc
<1>2. CASE op \in {"spawn", "query", "alloc", "job_ctrl"}
  BY <1>2 DEF D, Completions, spawn_cbfunc, query_cbfunc, alloc_cbfunc, jctrl_cbfunc
<1>3. CASE op \in {"monitor", "get_credential", "validate_credential"}
  BY <1>3 DEF D, Completions, monitor_cbfunc, cred_cbfunc, validate_cbfunc
<1>4. CASE op \in {"fabric_register", "fabric_update", "session_ctrl"}
  BY <1>4 DEF D, Completions, fabric_cbfunc, sessctrl_cbfunc
<1>5. CASE op \in {"resolve_peers", "resolve_node"}
  BY <1>5 DEF D, Completions, respeers_cbfunc, resnodes_cbfunc
<1>6. QED
  BY <1>1, <1>2, <1>3, <1>4, <1>5 DEF Ops

-----------------------------------------------------------------------------
(* What the pieces of a step do to a call.                                 *)

\* A step that changes neither the loans nor the caddy, of a caller that stays early only
\* while its request has not arrived.
LEMMA SameKept ==
  ASSUME NEW k, NEW n, Kept(k), Same(n, k),
         Early(n) => n.at = "NONE" /\ ~n.request, n.request => n.at = "NONE"
  PROVE  Kept(n)
  BY DEF Kept, Same, OnItsRoad, Lending

\* Telling the caller.
LEMMA Told ==
  ASSUME NEW k, NEW a, DOMAIN k = Fields
  PROVE  /\ Same(Tell(k, a), k) /\ Tell(k, a).client = "DONE" /\ Tell(k, a).request = k.request
         /\ Same(Settle(k, a), k) /\ Settle(k, a).client \in {"DONE", "ALONE"}
         /\ Settle(k, a).request = k.request
<1>1. /\ Same(Tell(k, a), k) /\ Tell(k, a).client = "DONE" /\ Tell(k, a).request = k.request
  BY DEF Tell, Same, Fields
<1>2. LET n == [k EXCEPT !.client = "ALONE"]
      IN  Same(n, k) /\ n.client = "ALONE" /\ n.request = k.request
  BY DEF Same, Fields
<1>3. QED
  BY <1>1, <1>2 DEF Settle

\* Handing data over, and giving them back.
LEMMA Lent ==
  ASSUME NEW k, NEW d, DOMAIN k = Fields
  PROVE  LET n == Lend(k, d)
         IN  /\ Apart(n, k) /\ n.at = k.at /\ n.refs = k.refs /\ n.again = k.again
             /\ n.held = k.held \union {d} /\ n.data = d /\ n.answer = k.answer /\ n.part = k.part
  BY DEF Lend, Apart, Fields

LEMMA Returned ==
  ASSUME NEW k, NEW d, DOMAIN k = Fields, d \in k.held, k.again = FALSE
  PROVE  LET n == Return(k, d)
         IN  /\ Apart(n, k) /\ n.at = k.at /\ n.refs = k.refs /\ n.again = FALSE
             /\ n.held = k.held \ {d} /\ n.data = k.data
  BY Zenon DEF Return, Apart, Fields

\* A completion that leaves by an exit at which it frees what it was lent.
LEMMA Left ==
  ASSUME NEW k, NEW exit, NEW X, DOMAIN k = Fields, k.again = FALSE, Lending(k, X),
         D.lends => exit \in D.frees
  PROVE  LET n == Leave(k, exit)
         IN  /\ Apart(n, k) /\ n.at = k.at /\ n.again = FALSE /\ n.held = X
             /\ n.refs = IF exit \in D.drops THEN k.refs - 1 ELSE k.refs
<1> DEFINE m == IF exit \in D.frees /\ k.data \in Loans THEN Return(k, k.data) ELSE k
<1>1. /\ Apart(m, k) /\ m.at = k.at /\ m.refs = k.refs /\ m.again = FALSE /\ m.held = X
  <2>1. CASE k.data \in Loans
    <3>1. D.lends /\ k.data \notin X /\ k.held = X \union {k.data}
      BY <2>1 DEF Lending
    <3>2. m = Return(k, k.data)
      BY <2>1, <3>1
    <3>3. k.data \in k.held /\ k.held \ {k.data} = X
      BY <3>1
    <3> HIDE DEF m
    <3>4. LET n == Return(k, k.data)
          IN  /\ Apart(n, k) /\ n.at = k.at /\ n.refs = k.refs /\ n.again = FALSE
              /\ n.held = k.held \ {k.data}
      BY <3>3, Returned, Zenon
    <3>5. QED
      BY <3>2, <3>3, <3>4
  <2>2. CASE k.data \notin Loans
    BY <2>2 DEF Lending, Apart
  <2>3. QED
    BY <2>1, <2>2, Zenon
<1> HIDE DEF m
<1>2. LET n == [m EXCEPT !.refs = @ - 1]
      IN  /\ Apart(n, m) /\ n.at = m.at /\ n.again = m.again /\ n.held = m.held
          /\ n.refs = m.refs - 1
  BY <1>1 DEF Apart, Fields
<1>3. Leave(k, exit) = IF exit \in D.drops THEN [m EXCEPT !.refs = @ - 1] ELSE m
  BY DEF Leave, m
<1>4. QED
  BY <1>1, <1>2, <1>3 DEF Apart

LEMMA Ended ==
  ASSUME NEW k, NEW exit, NEW X, DOMAIN k = Fields, k.again = FALSE, Lending(k, X),
         D.lends => exit \in D.frees, exit \in D.drops
  PROVE  LET n == End(k, exit)
         IN  Apart(n, k) /\ n.at = "ENDED" /\ n.again = FALSE /\ n.held = X /\ n.refs = k.refs - 1
<1> DEFINE m == Leave(k, exit)
<1>1. Apart(m, k) /\ m.again = FALSE /\ m.held = X /\ m.refs = k.refs - 1
  BY Left, Zenon
<1> HIDE DEF m
<1>2. LET n == [m EXCEPT !.at = "ENDED"]
      IN  /\ Apart(n, m) /\ n.at = "ENDED" /\ n.again = m.again /\ n.held = m.held
          /\ n.refs = m.refs
  BY <1>1 DEF Apart, Fields
<1>3. End(k, exit) = [m EXCEPT !.at = "ENDED"]
  BY DEF End, m
<1>4. QED
  BY <1>1, <1>2, <1>3 DEF Apart

\* A completion called with an answer ends the request or queues the reply.
LEMMA PostedAnswer ==
  ASSUME op \in Ops, NEW k, NEW a, NEW X, DOMAIN k = Fields, k.again = FALSE, Lending(k, X)
  PROVE  LET n == Post(k, a)
         IN  /\ Apart(n, k) /\ n.again = FALSE
             /\ \/ n.at = "ENDED" /\ n.held = X /\ n.refs = k.refs - 1
                \/ n.at = "REPLY" /\ n.held = k.held /\ n.refs = k.refs /\ n.data = k.data
<1>1. CASE stopped
  BY <1>1, Ended, Exiting, Zenon DEF Post
<1>2. CASE ~stopped
  BY <1>2 DEF Post, Apart, Fields
<1>3. QED
  BY <1>1, <1>2, Zenon

\* The request was here, and the server sends it on its way.
LEMMA MovedKept ==
  ASSUME op \in Ops, NEW k, NEW n, Kept(k), k.at # "NONE", Apart(n, k), n.again = FALSE,
         OnItsRoad(n)
  PROVE  Kept(n)
  BY DEF Kept, Apart, Early

-----------------------------------------------------------------------------
(* The caller's steps.                                                     *)

LEMMA CallKept ==
  ASSUME NEW c \in Calls, Kept(calls[c]), Call(c)
  PROVE  \E n : Kept(n) /\ calls' = [calls EXCEPT ![c] = n]
<1> DEFINE k == calls[c]
           p == [k EXCEPT !.client = "PARSING"]
           q == [k EXCEPT !.client = "SHIFTED"]
           r == [k EXCEPT !.client = "ALONE"]
           t == Tell(k, [status |-> C.alone, body |-> FALSE])
<1>1. k.client = "IDLE" /\ \E n \in {p, q, r, t} : calls' = [calls EXCEPT ![c] = n]
  BY Zenon DEF Call
<1>2. DOMAIN k = Fields /\ k.at = "NONE" /\ ~k.request
  BY <1>1 DEF Kept, Early
<1>3. /\ Same(p, k) /\ Same(q, k) /\ Same(r, k) /\ ~p.request /\ ~q.request /\ ~r.request
  BY <1>2 DEF Same, Fields
<1>4. Same(t, k) /\ ~t.request
  BY <1>2, Told
<1> HIDE DEF k, p, q, r, t
<1>5. ASSUME NEW n \in {p, q, r, t} PROVE Kept(n)
  <2>1. Kept(k)
    BY DEF k
  <2>2. Same(n, k) /\ ~n.request
    BY <1>3, <1>4
  <2>3. n.at = "NONE"
    BY <1>2, <2>2 DEF Same
  <2>4. QED
    BY <2>1, <2>2, <2>3, SameKept
<1>6. QED
  BY <1>1, <1>5, Zenon

LEMMA ParseQueryKept ==
  ASSUME NEW c \in Calls, Kept(calls[c]), ParseQuery(c)
  PROVE  \E n : Kept(n) /\ calls' = [calls EXCEPT ![c] = n]
<1> DEFINE k == calls[c]
           b == [k EXCEPT !.broken = TRUE]
           q == [k EXCEPT !.client = "SHIFTED"]
           full == [status |-> "SUCCESS", body |-> TRUE]
           none == [status |-> "UNREACH", body |-> FALSE]
<1>1. /\ k.client = "PARSING"
      /\ \E n \in {q, Tell(k, full), Tell(k, none), Tell(b, full)} :
           calls' = [calls EXCEPT ![c] = n]
  BY Zenon DEF ParseQuery
<1>2. DOMAIN k = Fields /\ k.at = "NONE" /\ ~k.request
  BY <1>1 DEF Kept, Early
<1>3. Same(q, k) /\ ~q.request /\ Same(b, k) /\ ~b.request
  BY <1>2 DEF Same, Fields
<1>4. Kept(k)
  OBVIOUS
<1> HIDE DEF k, b, q, full, none
<1>5. ASSUME NEW n \in {q, Tell(k, full), Tell(k, none), Tell(b, full)} PROVE Kept(n)
  <2>1. Same(n, k) /\ ~n.request
    BY <1>2, <1>3, Told DEF Same
  <2>2. n.at = "NONE"
    BY <1>2, <2>1 DEF Same
  <2>3. QED
    BY <1>4, <2>1, <2>2, SameKept
<1>6. QED
  BY <1>1, <1>5, Zenon

LEMMA SendRecvKept ==
  ASSUME NEW c \in Calls, Kept(calls[c]), SendRecv(c)
  PROVE  \E n : Kept(n) /\ calls' = [calls EXCEPT ![c] = n]
<1> DEFINE k == calls[c]
           w == [k EXCEPT !.client = "WAITING", !.request = TRUE]
           d == [k EXCEPT !.client = "DROPPED"]
<1>1. k.client = "SHIFTED" /\ \E n \in {w, d} : calls' = [calls EXCEPT ![c] = n]
  BY Zenon DEF SendRecv
<1>2. DOMAIN k = Fields /\ k.at = "NONE" /\ ~k.request
  BY <1>1 DEF Kept, Early
<1>3. Same(w, k) /\ w.client = "WAITING" /\ Same(d, k) /\ d.client = "DROPPED"
  BY <1>2 DEF Same, Fields
<1>4. Kept(k)
  OBVIOUS
<1> HIDE DEF k, w, d
<1>5. ASSUME NEW n \in {w, d} PROVE Kept(n)
  <2>1. Same(n, k) /\ n.client \in {"WAITING", "DROPPED"}
    BY <1>3
  <2>2. n.at = "NONE" /\ ~Early(n)
    BY <1>2, <2>1 DEF Same, Early
  <2>3. QED
    BY <1>4, <2>1, <2>2, SameKept
<1>6. QED
  BY <1>1, <1>5, Zenon

\* A caller that was told, or serves itself, has sent its request.
LEMMA AfterKept ==
  ASSUME NEW k, NEW n, Kept(k), Same(n, k), n.client \in {"DONE", "ALONE"},
         n.request => k.request
  PROVE  Kept(n)
<1>1. ~Early(n)
  BY DEF Early
<1>2. n.request => n.at = "NONE"
  BY DEF Kept, Same
<1>3. QED
  BY <1>1, <1>2, SameKept

LEMMA ServeSelfKept ==
  ASSUME NEW c \in Calls, Kept(calls[c]), ServeSelf(c)
  PROVE  \E n : Kept(n) /\ calls' = [calls EXCEPT ![c] = n]
<1> DEFINE k == calls[c]
           b == [k EXCEPT !.broken = FALSE]
<1>1. PICK s \in {"SUCCESS", "ERROR"} :
        calls' = [calls EXCEPT ![c] = Tell(b, [status |-> s, body |-> s = "SUCCESS"])]
  BY Zenon DEF ServeSelf
<1> DEFINE a == [status |-> s, body |-> s = "SUCCESS"]
           n == Tell(b, a)
<1>2. DOMAIN k = Fields
  BY DEF Kept
<1>3. Same(b, k) /\ b.request = k.request
  BY <1>2 DEF Same, Fields
<1>4. Kept(k) /\ calls' = [calls EXCEPT ![c] = n]
  BY <1>1
<1> HIDE DEF k, b, a
<1>5. Same(n, b) /\ n.client = "DONE" /\ n.request = b.request
  BY <1>3, Told DEF Same
<1> HIDE DEF n
<1>6. Same(n, k) /\ n.client = "DONE" /\ n.request = k.request
  BY <1>3, <1>5 DEF Same
<1>7. QED
  BY <1>4, <1>6, AfterKept, Zenon

LEMMA DeliverKept ==
  ASSUME NEW c \in Calls, Kept(calls[c]), Deliver(c)
  PROVE  \E n : Kept(n) /\ calls' = [calls EXCEPT ![c] = n]
<1> DEFINE k == calls[c]
           b == [k EXCEPT !.reply = Nothing]
           n == Settle(b, Read(k.reply))
<1>1. calls' = [calls EXCEPT ![c] = n]
  BY DEF Deliver
<1>2. DOMAIN k = Fields /\ Kept(k)
  BY DEF Kept
<1>3. Same(b, k) /\ b.request = k.request
  BY <1>2 DEF Same, Fields
<1> HIDE DEF k, b
<1>4. Same(n, b) /\ n.client \in {"DONE", "ALONE"} /\ n.request = b.request
  BY <1>3, Told DEF Same
<1> HIDE DEF n
<1>5. Same(n, k) /\ n.client \in {"DONE", "ALONE"} /\ n.request = k.request
  BY <1>3, <1>4 DEF Same
<1>6. QED
  BY <1>1, <1>2, <1>5, AfterKept, Zenon

LEMMA LostKept ==
  ASSUME NEW k, Kept(k)
  PROVE  Kept(Lost(k))
<1> DEFINE b == [k EXCEPT !.request = FALSE, !.reply = Nothing]
           a == [status |-> "UNREACH", body |-> FALSE]
<1>1. DOMAIN k = Fields
  BY DEF Kept
<1>2. Same(b, k) /\ b.request = FALSE /\ b.client = k.client
  BY <1>1 DEF Same, Fields
<1>3. Lost(k) = IF k.client = "WAITING" THEN Settle(b, a) ELSE b
  BY DEF Lost
<1> HIDE DEF a, b
<1>4. Kept(b)
  <2>1. Early(b) => b.at = "NONE"
    BY <1>2 DEF Early, Kept, Same
  <2>2. QED
    BY <1>2, <2>1, SameKept
<1>5. Kept(Settle(b, a))
  <2>1. /\ Same(Settle(b, a), b) /\ Settle(b, a).client \in {"DONE", "ALONE"}
        /\ Settle(b, a).request = b.request
    BY <1>2, Told DEF Same
  <2>2. QED
    BY <1>4, <2>1, AfterKept
<1>6. QED
  BY <1>3, <1>4, <1>5

-----------------------------------------------------------------------------
(* The server's steps.                                                     *)

\* What the handler's return makes of a request that has just arrived.
LEMMA SettledKept ==
  ASSUME op \in Ops, NEW k, NEW how, NEW status, DOMAIN k = Fields, k.at = "NONE",
         k.again = FALSE, k.held = {}, k.refs = 0, ~Early(k), ~k.request
  PROVE  Kept(Settled(k, how, status))
<1> DEFINE l == [k EXCEPT !.at = "LOCAL", !.refs = 1 + H.retains]
           e == [k EXCEPT !.at = "ENDED"]
<1>1. /\ DOMAIN l = Fields /\ l.at = "LOCAL" /\ l.held = {} /\ l.refs = 1 + H.retains
      /\ l.again = FALSE /\ l.client = k.client /\ l.request = k.request
  BY DEF Fields
<1>2. Kept(l)
  <2> HIDE DEF l
  <2>1. OnItsRoad(l)
    BY <1>1 DEF OnItsRoad
  <2>2. QED
    BY <1>1, <2>1 DEF Kept, Early
<1>3. /\ DOMAIN e = Fields /\ e.at = "ENDED" /\ e.held = {} /\ e.refs = 0
      /\ e.again = FALSE /\ e.client = k.client /\ e.request = k.request
  BY DEF Fields
<1>4. ASSUME NEW a PROVE Kept(Reply(e, a))
  <2> HIDE DEF e
  <2> DEFINE r == Reply(e, a)
  <2>1. /\ DOMAIN r = Fields /\ r.at = "ENDED" /\ r.held = {} /\ r.refs = 0
        /\ r.again = FALSE /\ r.client = k.client /\ r.request = k.request
    BY <1>3 DEF Reply, Fields
  <2> HIDE DEF r
  <2>2. OnItsRoad(r)
    BY <2>1 DEF OnItsRoad
  <2>3. Kept(r)
    BY <2>1, <2>2 DEF Kept, Early
  <2>4. QED
    BY <2>3 DEF r
<1>5. \/ Settled(k, how, status) = l
      \/ \E a : Settled(k, how, status) = Reply(e, a)
  BY DEF Settled
<1> HIDE DEF l, e
<1>6. QED
  BY <1>2, <1>4, <1>5

LEMMA HandlerKept ==
  ASSUME op \in Ops, NEW c \in Calls, Kept(calls[c]), pmix_server_message_handler(c)
  PROVE  \E n : Kept(n) /\ calls' = [calls EXCEPT ![c] = n]
<1> DEFINE k == [calls[c] EXCEPT !.request = FALSE]
           h == [k EXCEPT !.at = "HOST", !.refs = 1 + H.retains]
<1> DEFINE outcomes ==
      IF H.guarded /\ stopped THEN {Settled(k, "NOT_AVAILABLE", "")}
      ELSE IF H.asks = "AFTER" THEN {Settled(k, "LOCAL", "")}
      ELSE (IF H.own THEN {Settled(k, "LOCAL", "")} ELSE {})
           \union IF scenario.host \/ H.without = "PFEXEC" THEN UpCall(k)
                  ELSE {Settled(k, H.without, "")}
<1>0. PICK n \in outcomes : calls' = [calls EXCEPT ![c] = n]
  BY Zenon DEF pmix_server_message_handler
<1>1. n = h \/ \E how, status : n = Settled(k, how, status)
  <2>1. ASSUME NEW u \in UpCall(k) PROVE u = h \/ \E how, status : u = Settled(k, how, status)
    <3>1. \/ u = h \/ u = Settled(k, H.refused, "ERROR") \/ u = Settled(k, H.atomic, "SUCCESS")
      <4> HIDE DEF k
      <4>1. UpCall(k) \subseteq {h, Settled(k, H.refused, "ERROR"), Settled(k, H.atomic, "SUCCESS")}
        BY Zenon DEF UpCall
      <4>2. QED
        BY <4>1, Zenon
    <3> HIDE DEF k, h
    <3>2. QED
      BY <3>1, Zenon
  <2> HIDE DEF k, h
  <2>2. n \in {Settled(k, "NOT_AVAILABLE", ""), Settled(k, "LOCAL", ""), Settled(k, H.without, "")}
        \/ n \in UpCall(k)
    BY Zenon
  <2>3. QED
    BY <2>1, <2>2, Zenon
<1> HIDE DEF outcomes
<1>2. /\ DOMAIN calls[c] = Fields /\ calls[c].again = FALSE /\ calls[c].at = "NONE"
      /\ calls[c].held = {} /\ calls[c].refs = 0 /\ ~Early(calls[c])
  <2>1. calls[c].request
    BY Zenon DEF pmix_server_message_handler
  <2>2. QED
    BY <2>1 DEF Kept, OnItsRoad
<1>3. /\ DOMAIN k = Fields /\ k.at = "NONE" /\ k.again = FALSE /\ k.held = {} /\ k.refs = 0
      /\ k.request = FALSE /\ k.client = calls[c].client
  BY <1>2 DEF Fields
<1> HIDE DEF k
<1>4. ~Early(k)
  BY <1>2, <1>3 DEF Early
<1>5. /\ DOMAIN h = Fields /\ h.at = "HOST" /\ h.held = {} /\ h.refs = 1 + H.retains
      /\ h.again = FALSE /\ h.client = k.client /\ h.request = k.request
  BY <1>3 DEF Fields
<1> HIDE DEF h
<1>6. Kept(h)
  <2>1. OnItsRoad(h)
    BY <1>5 DEF OnItsRoad
  <2>2. QED
    BY <1>3, <1>4, <1>5, <2>1 DEF Kept, Early
<1>7. \A how, status : Kept(Settled(k, how, status))
  BY <1>3, <1>4, SettledKept, Zenon
<1>8. QED
  BY <1>0, <1>1, <1>6, <1>7, Zenon

\* An answer posted with nothing else held.
LEMMA PostKept ==
  ASSUME op \in Ops, NEW k, NEW m, NEW a, Kept(k), k.at # "NONE", Apart(m, k), m.again = FALSE,
         Lending(m, {}), m.refs = 1 + H.retains
  PROVE  Kept(Post(m, a))
<1> DEFINE n == Post(m, a)
<1>1. /\ Apart(n, m) /\ n.again = FALSE
      /\ \/ n.at = "ENDED" /\ n.held = {} /\ n.refs = m.refs - 1
         \/ n.at = "REPLY" /\ n.held = m.held /\ n.refs = m.refs /\ n.data = m.data
  BY PostedAnswer, Zenon DEF Apart
<1> HIDE DEF n
<1>2. OnItsRoad(n)
  BY <1>1, Retains DEF OnItsRoad, Lending
<1>3. Apart(n, k)
  BY <1>1 DEF Apart
<1>4. Kept(n)
  BY <1>1, <1>2, <1>3, MovedKept, Zenon
<1>5. QED
  BY <1>4 DEF n

\* The server's own results.
LEMMA OwnKept ==
  ASSUME op \in Ops, D.lends, NEW k, NEW status, Kept(k), k.at = "LOCAL"
  PROVE  Kept(Own(k, status))
<1> DEFINE m == Lend(k, "OWN")
           a == [status |-> status, body |-> TRUE]
<1>1. DOMAIN k = Fields /\ k.held = {} /\ k.refs = 1 + H.retains /\ k.again = FALSE
  BY DEF Kept, OnItsRoad
<1>2. /\ Apart(m, k) /\ m.refs = k.refs /\ m.again = k.again
      /\ m.held = k.held \union {"OWN"} /\ m.data = "OWN"
  BY <1>1, Lent
<1>3. Own(k, status) = Post(m, a)
  BY DEF Own
<1> HIDE DEF m, a
<1>4. Lending(m, {})
  BY <1>1, <1>2 DEF Lending, Loans
<1>5. k.at # "NONE" /\ m.again = FALSE /\ m.refs = 1 + H.retains
  BY <1>1, <1>2
<1>6. QED
  BY <1>2, <1>3, <1>4, <1>5, PostKept, Zenon

\* A note on the call changes neither.
LEMMA BrokenKept ==
  ASSUME NEW k, NEW b, Kept(k)
  PROVE  Kept([k EXCEPT !.broken = b])
<1> DEFINE n == [k EXCEPT !.broken = b]
<1>1. Same(n, k) /\ n.client = k.client /\ n.request = k.request
  BY DEF Kept, Same, Fields
<1> HIDE DEF n
<1>2. Early(n) => n.at = "NONE" /\ ~n.request
  BY <1>1 DEF Kept, Early, Same
<1>3. n.request => n.at = "NONE"
  BY <1>1 DEF Kept, Same
<1>4. Kept(n)
  BY <1>1, <1>2, <1>3, SameKept
<1>5. QED
  BY <1>4 DEF n

\* The rest of a query, or of a monitoring request, goes to the host.
LEMMA ToHostKept ==
  ASSUME op \in Ops, NEW k, NEW p, Kept(k), k.at = "LOCAL"
  PROVE  Kept([k EXCEPT !.at = "HOST", !.part = p])
<1> DEFINE n == [k EXCEPT !.at = "HOST", !.part = p]
<1>1. DOMAIN k = Fields /\ k.held = {} /\ k.refs = 1 + H.retains /\ k.again = FALSE
  BY DEF Kept, OnItsRoad
<1>2. Apart(n, k) /\ n.at = "HOST" /\ n.held = {} /\ n.refs = k.refs /\ n.again = FALSE
  BY <1>1 DEF Apart, Fields
<1> HIDE DEF n
<1>3. OnItsRoad(n)
  BY <1>1, <1>2 DEF OnItsRoad
<1>4. Kept(n)
  BY <1>2, <1>3, MovedKept, Zenon
<1>5. QED
  BY <1>4 DEF n

LEMMA LocalStepKept ==
  ASSUME op \in Ops, NEW c \in Calls, Kept(calls[c]), LocalStep(c)
  PROVE  \E n : Kept(n) /\ calls' = [calls EXCEPT ![c] = n]
<1> DEFINE k == calls[c]
<1>1. k.at = "LOCAL" /\ Kept(k)
  BY DEF LocalStep
<1>2. PICK n : /\ calls' = [calls EXCEPT ![c] = n]
               /\ \/ op = "query" /\ n \in pmix_parse_localquery(k)
                  \/ op = "monitor" /\ n \in pmix_monitor_processing(k)
                  \/ n \in _fabric_response(k)
                  \/ n \in locally_resolve(k)
  BY Zenon DEF LocalStep
<1> HIDE DEF k
<1>3. DOMAIN k = Fields /\ k.held = {} /\ k.refs = 1 + H.retains /\ k.again = FALSE
  BY <1>1 DEF Kept, OnItsRoad
<1>4. CASE op = "query" /\ n \in pmix_parse_localquery(k)
  <2>1. D.lends
    BY <1>4, Exiting
  <2>2. \/ n \in {Own(k, "SUCCESS"), Own(k, "ERROR")}
        \/ n = [Own(k, "SUCCESS") EXCEPT !.broken = TRUE]
        \/ \E p \in BOOLEAN : n = [k EXCEPT !.at = "HOST", !.part = p]
    BY <1>4, Zenon DEF pmix_parse_localquery
  <2>3. Kept(Own(k, "SUCCESS")) /\ Kept(Own(k, "ERROR"))
    BY <1>1, <2>1, OwnKept
  <2>4. QED
    BY <1>1, <2>2, <2>3, BrokenKept, ToHostKept, <1>2, Zenon
<1>5. CASE op = "monitor" /\ n \in pmix_monitor_processing(k)
  <2>1. D.lends
    BY <1>5, Exiting
  <2>2. \/ \E s \in {"SUCCESS", "ERROR", "NOT_SUPPORTED"} : n = Own(k, s)
        \/ \E p \in BOOLEAN : n = [k EXCEPT !.at = "HOST", !.part = p]
    BY <1>5, Zenon DEF pmix_monitor_processing
  <2>3. QED
    BY <1>1, <1>2, <2>1, <2>2, OwnKept, ToHostKept, Zenon
<1>6. CASE n \in _fabric_response(k)
  <2> DEFINE m == [k EXCEPT !.data = "COPY"]
             a == [status |-> "SUCCESS", body |-> TRUE]
  <2>1. n = Post(m, a)
    BY <1>6 DEF _fabric_response
  <2>2. Apart(m, k) /\ m.held = {} /\ m.refs = k.refs /\ m.again = FALSE /\ m.data = "COPY"
    BY <1>3 DEF Apart, Fields
  <2> HIDE DEF m, a
  <2>3. Lending(m, {})
    BY <2>2 DEF Lending, Loans
  <2>4. QED
    BY <1>1, <1>2, <1>3, <2>1, <2>2, <2>3, PostKept, Zenon
<1>7. CASE n \in locally_resolve(k)
  <2>1. PICK s \in {"SUCCESS", "ERROR"} :
          n = [Reply(k, [status |-> s, body |-> s = "SUCCESS"]) EXCEPT !.at = "ENDED", !.refs = @ - 1]
    BY <1>7 DEF locally_resolve
  <2> DEFINE a == [status |-> s, body |-> s = "SUCCESS"]
             r == Reply(k, a)
  <2>2. n = [r EXCEPT !.at = "ENDED", !.refs = @ - 1]
    BY <2>1
  <2> HIDE DEF a
  <2>3. Apart(r, k) /\ r.held = {} /\ r.refs = k.refs /\ r.again = FALSE
    BY <1>3 DEF Reply, Apart, Fields
  <2> HIDE DEF r
  <2>4. Apart(n, r) /\ n.held = {} /\ n.refs = r.refs - 1 /\ n.again = FALSE /\ n.at = "ENDED"
    BY <2>2, <2>3 DEF Apart, Fields
  <2>5. OnItsRoad(n)
    BY <1>3, <2>3, <2>4, Retains DEF OnItsRoad
  <2>6. Apart(n, k)
    BY <2>3, <2>4 DEF Apart
  <2>7. QED
    BY <1>1, <1>2, <2>4, <2>5, <2>6, MovedKept, Zenon
<1>8. QED
  BY <1>2, <1>4, <1>5, <1>6, <1>7, Zenon

\* The data a completion holds when the host has called it back.
LEMMA GivenKept ==
  ASSUME op \in Ops, NEW k, NEW b, Kept(k), k.at = "HOST"
  PROVE  LET g == [IF D.lends THEN Lend(k, "HOST") ELSE [k EXCEPT !.data = "COPY"]
                     EXCEPT !.broken = b]
         IN  /\ Apart(g, k) /\ g.again = FALSE /\ g.refs = 1 + H.retains /\ Lending(g, {})
             /\ g.data = IF D.lends THEN "HOST" ELSE "COPY"
<1> DEFINE f == IF D.lends THEN Lend(k, "HOST") ELSE [k EXCEPT !.data = "COPY"]
           g == [f EXCEPT !.broken = b]
<1>1. DOMAIN k = Fields /\ k.held = {} /\ k.refs = 1 + H.retains /\ k.again = FALSE
  BY DEF Kept, OnItsRoad
<1>2. /\ Apart(f, k) /\ f.again = FALSE /\ f.refs = k.refs
      /\ f.data = IF D.lends THEN "HOST" ELSE "COPY"
      /\ f.held = IF D.lends THEN {"HOST"} ELSE {}
  <2>1. CASE D.lends
    <3>1. f = Lend(k, "HOST")
      BY <2>1
    <3> HIDE DEF f
    <3>2. /\ Apart(f, k) /\ f.again = k.again /\ f.refs = k.refs /\ f.data = "HOST"
          /\ f.held = k.held \union {"HOST"}
      BY <1>1, <3>1, Lent
    <3>3. QED
      BY <1>1, <2>1, <3>2
  <2>2. CASE ~D.lends
    <3>1. f = [k EXCEPT !.data = "COPY"]
      BY <2>2
    <3> HIDE DEF f
    <3>2. QED
      BY <1>1, <2>2, <3>1 DEF Apart, Fields
  <2>3. QED
    BY <2>1, <2>2, Zenon
<1> HIDE DEF f
<1>3. /\ Apart(g, f) /\ g.again = f.again /\ g.refs = f.refs /\ g.data = f.data /\ g.held = f.held
  BY <1>2 DEF Apart, Fields
<1> HIDE DEF g
<1>4. Lending(g, {})
  BY <1>2, <1>3 DEF Lending, Loans
<1>5. Apart(g, k)
  BY <1>2, <1>3 DEF Apart
<1>6. /\ Apart(g, k) /\ g.again = FALSE /\ g.refs = 1 + H.retains /\ Lending(g, {})
      /\ g.data = IF D.lends THEN "HOST" ELSE "COPY"
  BY <1>1, <1>2, <1>3, <1>4, <1>5
<1>7. QED
  BY <1>6 DEF g, f

\* The host's data make way for an array of the server's own: in the order of finalstep, which
\* passes the array on before it gives the host's data back.
LEMMA FinalstepKept ==
  ASSUME op \in Ops, D.lends, NEW k, NEW g, NEW a, Kept(k), k.at # "NONE", Apart(g, k),
         g.again = FALSE, g.refs = 1 + H.retains, Lending(g, {}), g.data = "HOST"
  PROVE  Kept(finalstep(g, a))
<1> DEFINE m == Lend(g, "OWN")
           q == Post(m, a)
           n == Return(q, "HOST")
<1>1. g.held = {"HOST"}
  BY DEF Lending, Loans
<1>2. /\ Apart(m, g) /\ m.refs = g.refs /\ m.again = FALSE /\ m.held = {"HOST", "OWN"}
      /\ m.data = "OWN"
  <2>1. DOMAIN g = Fields
    BY DEF Apart
  <2>2. /\ Apart(m, g) /\ m.refs = g.refs /\ m.again = g.again
        /\ m.held = g.held \union {"OWN"} /\ m.data = "OWN"
    BY <2>1, Lent
  <2> HIDE DEF m
  <2>3. QED
    BY <1>1, <2>2
<1> HIDE DEF m
<1>3. Lending(m, {"HOST"}) /\ DOMAIN m = Fields
  BY <1>2 DEF Lending, Loans, Apart
<1>4. /\ Apart(q, m) /\ q.again = FALSE
      /\ \/ q.at = "ENDED" /\ q.held = {"HOST"} /\ q.refs = m.refs - 1
         \/ q.at = "REPLY" /\ q.held = m.held /\ q.refs = m.refs /\ q.data = m.data
  BY <1>2, <1>3, PostedAnswer, Zenon
<1> HIDE DEF q
<1>5. DOMAIN q = Fields /\ "HOST" \in q.held
  BY <1>2, <1>4 DEF Apart
<1>6. /\ Apart(n, q) /\ n.at = q.at /\ n.refs = q.refs /\ n.again = FALSE
      /\ n.held = q.held \ {"HOST"} /\ n.data = q.data
  BY <1>4, <1>5, Returned, Zenon
<1> HIDE DEF n
<1>7. OnItsRoad(n)
  <2>1. CASE q.at = "ENDED" /\ q.held = {"HOST"} /\ q.refs = m.refs - 1
    BY <1>2, <1>6, <2>1, Retains DEF OnItsRoad
  <2>2. CASE q.at = "REPLY" /\ q.held = m.held /\ q.refs = m.refs /\ q.data = m.data
    <3>1. n.held = {"OWN"} /\ n.data = "OWN" /\ n.refs = 1 + H.retains /\ n.at = "REPLY"
      BY <1>2, <1>6, <2>2
    <3>2. Lending(n, {})
      BY <3>1 DEF Lending, Loans
    <3>3. QED
      BY <3>1, <3>2 DEF OnItsRoad
  <2>3. QED
    BY <1>4, <2>1, <2>2
<1>8. Apart(n, k)
  BY <1>2, <1>4, <1>6 DEF Apart
<1>9. Kept(n)
  BY <1>6, <1>7, <1>8, MovedKept, Zenon
<1>10. QED
  BY <1>9 DEF finalstep, n, q, m

LEMMA HostCallbackKept ==
  ASSUME op \in Ops, NEW c \in Calls, Kept(calls[c]), HostCallback(c)
  PROVE  \E n : Kept(n) /\ calls' = [calls EXCEPT ![c] = n]
<1> DEFINE k == calls[c]
<1>1. k.at = "HOST" /\ Kept(k) /\ k.at # "NONE"
  BY DEF HostCallback
<1>2. PICK s \in Good \union {"ERROR"}, b \in BOOLEAN :
        LET a == [status |-> s, body |-> b]
            g == [IF D.lends THEN Lend(k, "HOST") ELSE [k EXCEPT !.data = "COPY"]
                    EXCEPT !.broken = s # "SUCCESS"]
        IN  calls' = [calls EXCEPT ![c] =
              IF op = "get_credential" /\ ~b /\ ~stopped
              THEN [End(g, "UNCOPIED") EXCEPT !.silent = TRUE]
              ELSE IF op = "query" THEN finalstep(g, a)
              ELSE IF op = "monitor" \/ (D.via # "NONE" /\ ~stopped)
              THEN [g EXCEPT !.at = "RELAY", !.answer = a]
              ELSE Post(g, a)]
  BY Zenon DEF HostCallback
<1> DEFINE a == [status |-> s, body |-> b]
           g == [IF D.lends THEN Lend(k, "HOST") ELSE [k EXCEPT !.data = "COPY"]
                   EXCEPT !.broken = s # "SUCCESS"]
<1>3. /\ Apart(g, k) /\ g.again = FALSE /\ g.refs = 1 + H.retains /\ Lending(g, {})
      /\ g.data = IF D.lends THEN "HOST" ELSE "COPY"
  BY <1>1, GivenKept, Zenon
<1>4. \/ /\ op = "get_credential"
         /\ calls' = [calls EXCEPT ![c] = [End(g, "UNCOPIED") EXCEPT !.silent = TRUE]]
      \/ op = "query" /\ calls' = [calls EXCEPT ![c] = finalstep(g, a)]
      \/ /\ op = "monitor" \/ D.via # "NONE"
         /\ calls' = [calls EXCEPT ![c] = [g EXCEPT !.at = "RELAY", !.answer = a]]
      \/ calls' = [calls EXCEPT ![c] = Post(g, a)]
  BY <1>2, Zenon
<1> HIDE DEF k, g, a
<1>5. ASSUME op = "get_credential" PROVE Kept([End(g, "UNCOPIED") EXCEPT !.silent = TRUE])
  <2> DEFINE e == End(g, "UNCOPIED")
             n == [e EXCEPT !.silent = TRUE]
  <2>1. "UNCOPIED" \in D.drops /\ ~D.lends /\ DOMAIN g = Fields
    BY <1>3, <1>5, Exiting DEF Apart
  <2>2. Apart(e, g) /\ e.at = "ENDED" /\ e.again = FALSE /\ e.held = {} /\ e.refs = g.refs - 1
    BY <1>3, <2>1, Ended, Zenon
  <2> HIDE DEF e
  <2>3. Apart(n, e) /\ n.at = "ENDED" /\ n.again = FALSE /\ n.held = {} /\ n.refs = e.refs
    BY <2>2 DEF Apart, Fields
  <2> HIDE DEF n
  <2>4. OnItsRoad(n)
    BY <1>3, <2>2, <2>3, Retains DEF OnItsRoad
  <2>5. Apart(n, k)
    BY <1>3, <2>2, <2>3 DEF Apart
  <2>6. Kept(n)
    BY <1>1, <2>3, <2>4, <2>5, MovedKept, Zenon
  <2>7. QED
    BY <2>6 DEF n, e
<1>6. ASSUME op = "query" PROVE Kept(finalstep(g, a))
  <2>1. D.lends /\ g.data = "HOST"
    BY <1>3, <1>6, Exiting
  <2>2. QED
    BY <1>1, <1>3, <2>1, FinalstepKept, Zenon
<1>7. ASSUME op = "monitor" \/ D.via # "NONE" PROVE Kept([g EXCEPT !.at = "RELAY", !.answer = a])
  <2> DEFINE n == [g EXCEPT !.at = "RELAY", !.answer = a]
  <2>1. DOMAIN g = Fields
    BY <1>3 DEF Apart
  <2>2. /\ Apart(n, g) /\ n.at = "RELAY" /\ n.again = g.again /\ n.refs = g.refs
        /\ n.held = g.held /\ n.data = g.data
    BY <2>1 DEF Apart, Fields
  <2> HIDE DEF n
  <2>3. g.data = IF op = "monitor" THEN "HOST" ELSE "COPY"
    BY <1>3, <1>7, Exiting
  <2>4. Lending(n, {})
    BY <1>3, <2>2 DEF Lending
  <2>5. OnItsRoad(n)
    BY <1>3, <2>2, <2>3, <2>4 DEF OnItsRoad
  <2>6. Apart(n, k) /\ n.again = FALSE
    BY <1>3, <2>2 DEF Apart
  <2>7. Kept(n)
    BY <1>1, <2>5, <2>6, MovedKept, Zenon
  <2>8. QED
    BY <2>7 DEF n
<1>8. Kept(Post(g, a))
  BY <1>1, <1>3, PostKept, Zenon
<1>9. QED
  BY <1>4, <1>5, <1>6, <1>7, <1>8, Zenon

\* The event between the host's callback and the reply's.
LEMMA RelayStepKept ==
  ASSUME op \in Ops, NEW c \in Calls, Kept(calls[c]), RelayStep(c)
  PROVE  \E n : Kept(n) /\ calls' = [calls EXCEPT ![c] = n]
<1> DEFINE k == calls[c]
<1>1. k.at = "RELAY" /\ Kept(k) /\ k.at # "NONE"
  BY DEF RelayStep
<1>2. PICK n : /\ calls' = [calls EXCEPT ![c] = n]
               /\ \/ op = "monitor" /\ n \in hostprocess(k)
                  \/ op # "monitor" /\ n \in _spcbfunc(k)
  BY Zenon DEF RelayStep
<1> HIDE DEF k
<1>3. /\ DOMAIN k = Fields /\ k.refs = 1 + H.retains /\ k.again = FALSE /\ Lending(k, {})
      /\ k.data = IF op = "monitor" THEN "HOST" ELSE "COPY"
  BY <1>1 DEF Kept, OnItsRoad
<1>4. CASE op = "monitor" /\ n \in hostprocess(k)
  <2> DEFINE m == Lend(k, "OWN")
             r == Return(m, "HOST")
  <2>1. PICK a : n = Post(r, a)
    BY <1>4 DEF hostprocess
  <2>2. k.held = {"HOST"} /\ D.lends
    BY <1>3, <1>4, Exiting DEF Lending, Loans
  <2>3. /\ Apart(m, k) /\ m.refs = k.refs /\ m.again = k.again
        /\ m.held = k.held \union {"OWN"} /\ m.data = "OWN"
    BY <1>3, Lent
  <2> HIDE DEF m
  <2>4. DOMAIN m = Fields /\ "HOST" \in m.held /\ m.again = FALSE
    BY <1>3, <2>2, <2>3 DEF Apart
  <2>5. /\ Apart(r, m) /\ r.refs = m.refs /\ r.again = FALSE
        /\ r.held = m.held \ {"HOST"} /\ r.data = m.data
    BY <2>4, Returned, Zenon
  <2> HIDE DEF r
  <2>6. Lending(r, {})
    BY <2>2, <2>3, <2>5 DEF Lending, Loans
  <2>7. Apart(r, k) /\ r.refs = 1 + H.retains
    BY <1>3, <2>3, <2>5 DEF Apart
  <2>8. Kept(Post(r, a))
    BY <1>1, <2>5, <2>6, <2>7, PostKept, Zenon
  <2>9. QED
    BY <1>2, <2>1, <2>8, Zenon
<1>5. CASE n \in _spcbfunc(k)
  <2>1. PICK a : n = Post(k, a)
    BY <1>5 DEF _spcbfunc
  <2>2. Apart(k, k)
    BY <1>3 DEF Apart
  <2>3. Kept(Post(k, a))
    BY <1>1, <1>3, <2>2, PostKept, Zenon
  <2>4. QED
    BY <1>2, <2>1, <2>3, Zenon
<1>6. QED
  BY <1>2, <1>4, <1>5, Zenon

\* The completion's event.
LEMMA ReplyStepKept ==
  ASSUME op \in Ops, NEW c \in Calls, Kept(calls[c]), ReplyStep(c)
  PROVE  \E n : Kept(n) /\ calls' = [calls EXCEPT ![c] = n]
<1> DEFINE k == calls[c]
           r == Reply(k, Packed(k.answer))
           l == Leave(k, "LOCAL")
           n == [l EXCEPT !.at = "LOCAL", !.broken = FALSE]
<1>1. k.at = "REPLY" /\ Kept(k) /\ k.at # "NONE"
  BY DEF ReplyStep
<1>2. \/ calls' = [calls EXCEPT ![c] = End(k, "STOPPED")]
      \/ D.error = "LOCAL" /\ calls' = [calls EXCEPT ![c] = n]
      \/ calls' = [calls EXCEPT ![c] = End(r, "REPLIED")]
  BY Zenon DEF ReplyStep
<1>3. DOMAIN k = Fields /\ k.refs = 1 + H.retains /\ k.again = FALSE /\ Lending(k, {})
  BY <1>1 DEF Kept, OnItsRoad
<1>4. /\ Apart(r, k) /\ r.refs = k.refs /\ r.again = k.again /\ r.held = k.held /\ r.data = k.data
  <2> DEFINE a == Packed(k.answer)
  <2> HIDE DEF a, k
  <2>1. LET x == Reply(k, a)
        IN  /\ Apart(x, k) /\ x.refs = k.refs /\ x.again = k.again /\ x.held = k.held
            /\ x.data = k.data
    BY <1>3 DEF Reply, Apart, Fields
  <2>2. QED
    BY <2>1 DEF a
<1> HIDE DEF k, r
<1>5. Lending(r, {}) /\ DOMAIN r = Fields
  BY <1>3, <1>4 DEF Lending, Apart
<1>6. ASSUME NEW m, NEW exit \in {"STOPPED", "REPLIED"}, Apart(m, k), Lending(m, {}),
             m.again = FALSE, m.refs = k.refs
      PROVE  Kept(End(m, exit))
  <2> DEFINE e == End(m, exit)
  <2>1. exit \in D.drops /\ (D.lends => exit \in D.frees) /\ DOMAIN m = Fields
    BY <1>6, Exiting DEF Apart
  <2>2. Apart(e, m) /\ e.at = "ENDED" /\ e.again = FALSE /\ e.held = {} /\ e.refs = m.refs - 1
    BY <1>6, <2>1, Ended, Zenon
  <2> HIDE DEF e
  <2>3. OnItsRoad(e)
    BY <1>3, <1>6, <2>2, Retains DEF OnItsRoad
  <2>4. Apart(e, k)
    BY <1>6, <2>2 DEF Apart
  <2>5. Kept(e)
    BY <1>1, <2>2, <2>3, <2>4, MovedKept, Zenon
  <2>6. QED
    BY <2>5 DEF e
<1>7. Kept(End(k, "STOPPED")) /\ Kept(End(r, "REPLIED"))
  <2>1. Apart(k, k) /\ r.again = FALSE
    BY <1>3, <1>4 DEF Apart
  <2>2. QED
    BY <1>3, <1>4, <1>5, <1>6, <2>1, Zenon
<1>8. ASSUME D.error = "LOCAL" PROVE Kept(n)
  <2>1. "LOCAL" \in D.frees /\ "LOCAL" \notin D.drops
    BY <1>8, Exiting
  <2>2. Apart(l, k) /\ l.again = FALSE /\ l.held = {} /\ l.refs = k.refs
    BY <1>3, <2>1, Left, Zenon
  <2> HIDE DEF l
  <2>3. Apart(n, l) /\ n.at = "LOCAL" /\ n.again = FALSE /\ n.held = {} /\ n.refs = l.refs
    BY <2>2 DEF Apart, Fields
  <2> HIDE DEF n
  <2>4. OnItsRoad(n)
    BY <1>3, <2>2, <2>3 DEF OnItsRoad
  <2>5. Apart(n, k)
    BY <2>2, <2>3 DEF Apart
  <2>6. QED
    BY <1>1, <2>3, <2>4, <2>5, MovedKept, Zenon
<1> HIDE DEF n
<1>9. QED
  BY <1>2, <1>7, <1>8, Zenon

-----------------------------------------------------------------------------
(* The invariant.                                                          *)

LEMMA RelayInit == Init => RelayInv
<1> SUFFICES ASSUME Init PROVE RelayInv
  OBVIOUS
<1>1. /\ DOMAIN Unused = Fields /\ Unused.again = FALSE /\ Unused.at = "NONE"
      /\ Unused.held = {} /\ Unused.refs = 0 /\ Unused.request = FALSE
  BY DEF Unused, Fields
<1>2. Kept(Unused)
  BY <1>1 DEF Kept, OnItsRoad
<1>3. QED
  BY <1>2 DEF Init, RelayInv

LEMMA RelayNext == RelayInv /\ [Next]_vars => RelayInv'
<1> SUFFICES ASSUME RelayInv, [Next]_vars PROVE RelayInv'
  OBVIOUS
<1>1. op \in Ops
  BY ScenariosAssumption DEF RelayInv, op
<1>2. ASSUME NEW c \in Calls, UNCHANGED scenario,
             \E n : Kept(n) /\ calls' = [calls EXCEPT ![c] = n]
      PROVE  RelayInv'
  <2>1. PICK n : Kept(n) /\ calls' = [calls EXCEPT ![c] = n]
    BY <1>2, Zenon
  <2>2. DOMAIN calls' = Calls /\ \A d \in Calls : Kept(calls'[d])
    BY <2>1 DEF RelayInv
  <2>3. H' = H /\ D' = D /\ op' = op
    BY <1>2 DEF H, D, op
  <2>4. \A d \in Calls : Kept(calls[d])'
    BY <2>2, <2>3 DEF Kept, OnItsRoad, Lending, Early
  <2>5. QED
    BY <1>2, <2>2, <2>4 DEF RelayInv
<1>3. ASSUME UNCHANGED <<scenario, calls>> PROVE RelayInv'
  BY <1>3 DEF RelayInv, Kept, OnItsRoad, Lending, Early, H, D, op
<1>4. ASSUME LoseConnection PROVE RelayInv'
  <2>1. UNCHANGED scenario /\ calls' = [c \in Calls |-> Lost(calls[c])]
    BY <1>4 DEF LoseConnection
  <2>2. DOMAIN calls' = Calls /\ \A d \in Calls : Kept(calls'[d])
    BY <2>1, LostKept DEF RelayInv
  <2>3. H' = H /\ D' = D /\ op' = op
    BY <2>1 DEF H, D, op
  <2>4. \A d \in Calls : Kept(calls[d])'
    BY <2>2, <2>3 DEF Kept, OnItsRoad, Lending, Early
  <2>5. QED
    BY <2>1, <2>2, <2>4 DEF RelayInv
<1>5. ASSUME NEW c \in Calls,
             \/ Call(c) \/ ParseQuery(c) \/ SendRecv(c) \/ ServeSelf(c) \/ Deliver(c)
      PROVE  RelayInv'
  <2>1. UNCHANGED scenario /\ Kept(calls[c])
    BY <1>5 DEF Call, ParseQuery, SendRecv, ServeSelf, Deliver, RelayInv
  <2>2. QED
    BY <1>2, <1>5, <2>1, CallKept, ParseQueryKept, SendRecvKept, ServeSelfKept, DeliverKept, Zenon
<1>6. ASSUME NEW c \in Calls,
             \/ pmix_server_message_handler(c) \/ LocalStep(c) \/ HostCallback(c)
             \/ RelayStep(c) \/ ReplyStep(c)
      PROVE  RelayInv'
  <2>1. UNCHANGED scenario /\ Kept(calls[c])
    BY <1>6, Zenon DEF pmix_server_message_handler, LocalStep, HostCallback, RelayStep, ReplyStep, RelayInv
  <2>2. QED
    BY <1>1, <1>2, <1>6, <2>1, HandlerKept, LocalStepKept, HostCallbackKept, RelayStepKept,
       ReplyStepKept, Zenon
<1>7. QED
  BY <1>3, <1>4, <1>5, <1>6 DEF Next, Stop, LoopEnds, vars

\* Data handed over with a release function, by the host or by the server's own lookups, are
\* in hand until the reply is packed from them, are given back once, and have been when the
\* request is over: at whatever point the server stops or the connection is lost (the exits
\* of query_cbfunc and its siblings, finalstep, hostprocess).  For any number of calls.
THEOREM LoansReturned == Spec => []LentDataReturned
<1>1. RelayInv => LentDataReturned
  <2> SUFFICES ASSUME RelayInv, NEW c \in Calls
               PROVE  /\ ~calls[c].again
                      /\ calls[c].at = "ENDED" => calls[c].held = {}
                      /\ calls[c].at \in {"RELAY", "REPLY"} /\ calls[c].data \in Loans
                           => calls[c].data \in calls[c].held
    BY DEF LentDataReturned
  <2>1. Kept(calls[c])
    BY DEF RelayInv
  <2>2. ~calls[c].again
    BY <2>1 DEF Kept
  <2>3. QED
    BY <2>1, <2>2 DEF Kept, OnItsRoad, Lending
<1>2. QED
  BY <1>1, RelayInit, RelayNext, PTL DEF Spec

\* The switchyard's caddy is there for the host's callback, the events and the server's own
\* lookup, also where name resolution keeps it after an error of the host, and is gone when
\* the request is over; only a fabric request leaves one reference.  For any number of calls.
THEOREM CaddyIsThere == Spec => []CaddyHeld
<1>1. RelayInv => CaddyHeld
  <2> SUFFICES ASSUME RelayInv, NEW c \in Calls
               PROVE  /\ calls[c].at \in {"LOCAL", "HOST", "RELAY", "REPLY"} => calls[c].refs > 0
                      /\ calls[c].at = "ENDED" =>
                           calls[c].refs = 0 \/ (op \in Leaky /\ calls[c].refs = 1)
    BY DEF CaddyHeld
  <2>1. Kept(calls[c]) /\ op \in Ops
    BY ScenariosAssumption DEF RelayInv, op
  <2>2. QED
    BY <2>1, Retains DEF Kept, OnItsRoad
<1>2. QED
  BY <1>1, RelayInit, RelayNext, PTL DEF Spec
=============================================================================
