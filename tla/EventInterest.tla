--------------------------- MODULE EventInterest ---------------------------
(***************************************************************************)
(* Who wants which event: the handlers an application registers, the       *)
(* count of them its library keeps per code (`nregs`), the list of peers   *)
(* its server keeps per code (`reginfo`), and the codes the host was asked *)
(* to forward (`forwards`).  Each party tells the next one only when a     *)
(* code becomes wanted or is no longer wanted, so the four must agree.     *)
(*                                                                         *)
(* The messages of one client are handled in the order sent; the host      *)
(* takes requests in the order made and answers on a thread of its own,    *)
(* whence the answer is shifted to the server's progress thread.           *)
(***************************************************************************)
EXTENDS Naturals, FiniteSets, Sequences, FiniteSetsExt

CONSTANTS
  Clients,    \* the clients of the server
  Handlers,   \* the registrations that may be made
  Codes,      \* the event codes an application may name
  SysCodes,   \* those only the host can raise (PMIX_SYSTEM_EVENT)
  Scenarios   \* what may happen in a behaviour; one is chosen at the start

ME == "ME"                        \* the server, as the owner of handlers of its own
MAX_ERR == "MAX_ERR_CONSTANT"     \* stands for "any code" in a default registration
Owners == Clients \cup {ME}
Keys == Codes \cup {MAX_ERR}

\* No code names a default handler.  place: on a list, or the first or last one overall.
\* local: the range is PROC_LOCAL.  directives: there is info to be passed to the server.
Kind ==
  [codes : SUBSET Codes, place : {"list", "first", "last"}, local : BOOLEAN, directives : BOOLEAN]
NoKind == [codes |-> {}, place |-> "list", local |-> FALSE, directives |-> FALSE]
KeysOf(kind) == IF kind.codes = {} THEN {MAX_ERR} ELSE kind.codes

\* hostfn: the host offers register_events.  returns: how it answers the call.  refuses: it
\* may refuse a request it accepted for processing.  leaves: the handlers that may be
\* deregistered.  loss: the clients that may finalize or be lost.
ScenarioType ==
  [owner : [Handlers -> Owners], offer : [Handlers -> SUBSET Kind], hostfn : BOOLEAN,
   returns : SUBSET {"SUCCESS", "OPERATION_SUCCEEDED", "ERROR"}, refuses : BOOLEAN,
   leaves : SUBSET Handlers, loss : SUBSET Clients]

ASSUME InterestAssumption ==
  /\ SysCodes \subseteq Codes /\ MAX_ERR \notin Codes /\ ME \notin Clients
  /\ \A s \in Scenarios : s \in ScenarioType

VARIABLES
  scenario,   \* the member of Scenarios this behaviour is about
  connected,  \* connected[c]: client c is connected to the server
  hdlr,       \* hdlr[h]: a handler: what it is for, and how far its registration is
  nregs,      \* nregs[o][k]: the active registrations owner o counts for code k
  toServer,   \* toServer[c]: the (de)registrations sent and not yet handled
  toClient,   \* toClient[c]: the answers sent and not yet handled
  reginfo,    \* reginfo[k]: the server's record of code k
  hostq,      \* the requests made of the host and not yet taken up
  forwards,   \* the codes the host forwards
  shifted     \* the answers of the host, shifted to the progress thread

library == <<hdlr, nregs>>
wire == <<toServer, toClient>>
host == <<hostq, forwards>>
vars == <<scenario, connected, library, wire, reginfo, host, shifted>>

Absent == [peers |-> {}, nmine |-> 0, active |-> FALSE]

TypeOK ==
  /\ scenario \in Scenarios /\ connected \in [Clients -> BOOLEAN]
  /\ hdlr \in [Handlers -> [kind : Kind, state : {"unused", "pending", "live", "refused", "gone"}]]
  /\ nregs \in [Owners -> [Keys -> 0..Cardinality(Handlers)]]
  /\ toServer \in [Clients -> Seq([op : {"reg", "dereg"}, keys : SUBSET Keys, h : Handlers])]
  /\ toClient \in [Clients -> Seq([h : Handlers, ok : BOOLEAN])]
  /\ reginfo \in [Keys -> [peers : SUBSET Clients, nmine : 0..Cardinality(Handlers), active : BOOLEAN]]
  /\ \A k \in Keys : reginfo[k].active =>
       k \in SysCodes /\ (reginfo[k].peers # {} \/ reginfo[k].nmine > 0)
  /\ hostq \in Seq([op : {"reg", "dereg"}, codes : SUBSET SysCodes, h : Handlers])
  /\ forwards \in SUBSET SysCodes
  /\ shifted \in Seq([h : Handlers, codes : SUBSET SysCodes, ok : BOOLEAN])

Init ==
  /\ scenario \in Scenarios
  /\ connected = [c \in Clients |-> TRUE]
  /\ hdlr = [h \in Handlers |-> [kind |-> NoKind, state |-> "unused"]]
  /\ nregs = [o \in Owners |-> [k \in Keys |-> 0]]
  /\ toServer = [c \in Clients |-> <<>>] /\ toClient = [c \in Clients |-> <<>>]
  /\ reginfo = [k \in Keys |-> Absent]
  /\ hostq = <<>> /\ forwards = {} /\ shifted = <<>>

Owner(h) == scenario.owner[h]
Is(h, state) == hdlr' = [hdlr EXCEPT ![h].state = state]
Registered(h) == hdlr[h].state \in {"pending", "live"}
Departed(o) == o \in {c \in Clients : ~connected[c]}
Of(o) == {h \in Handlers : Owner(h) = o /\ Registered(h)}

----------------------------------------------------------------------------
(* The server's record of a code, and what it asks of the host.            *)

\* Mutant: the server's own interest is not looked at.
Deserted_by_peers(R, S) == {k \in S : R[k].peers = {}}

\* The codes among S whose record nobody is left on
Deserted(R, S) == {k \in S : R[k].peers = {} /\ R[k].nmine = 0}

\* Drop the records among S that nobody is left on and ask the host to stop forwarding
\* those it was asked for (one request a code, made here as one).
prune_reginfo(R, S, h) ==
  LET stop == {k \in Deserted(R, S) : R[k].active}
  IN  /\ reginfo' = [k \in Keys |-> IF k \in Deserted(R, S) THEN Absent ELSE R[k]]
      /\ hostq' = IF stop = {} THEN hostq
                  ELSE Append(hostq, [op |-> "dereg", codes |-> stop, h |-> h])

\* The system codes among S the host is not yet asked for, and the record with them marked
mark_activations(R, S) == {k \in S \cap SysCodes : R[k] # Absent /\ ~R[k].active}
Activated(R, S) == [k \in Keys |-> IF k \in S THEN [R[k] EXCEPT !.active = TRUE] ELSE R[k]]

undo_activations(R, S) == [k \in Keys |-> IF k \in S THEN [R[k] EXCEPT !.active = FALSE] ELSE R[k]]

Interested(S) == [k \in Keys |-> IF k \in S \cap SysCodes THEN [reginfo[k] EXCEPT !.nmine = @ + 1]
                                 ELSE reginfo[k]]

\* The server gives back its own interest in the codes S.
deactivate_events(R, S, h) ==
  LET T == S \cap SysCodes
      given == [k \in Keys |-> IF k \in T /\ R[k].nmine > 0 THEN [R[k] EXCEPT !.nmine = @ - 1] ELSE R[k]]
  IN  prune_reginfo(given, T, h)

\* The host answers the call itself only when it has nothing left to do from before.
HostReturns == {rc \in scenario.returns : rc = "OPERATION_SUCCEEDED" => hostq = <<>>}
Asked(S, h) == hostq' = Append(hostq, [op |-> "reg", codes |-> S, h |-> h])

----------------------------------------------------------------------------
(* Registration, in the process that owns the handler.                     *)

Taken(o, place) == place # "list" /\ \E h \in Of(o) : hdlr[h].kind.place = place

Place(h, kind, state) == hdlr' = [hdlr EXCEPT ![h] = [kind |-> kind, state |-> state]]

\* A client tells its server when a code is new to it or there are directives to pass.
add_hdlr_client(h, kind) ==
  LET o == Owner(h)
      need_register == \E k \in KeysOf(kind) : nregs[o][k] = 0
  IN  /\ IF need_register \/ kind.directives
         THEN /\ Place(h, kind, "pending")
              /\ toServer' = [toServer EXCEPT ![o] =
                                Append(@, [op |-> "reg", keys |-> KeysOf(kind), h |-> h])]
         ELSE Place(h, kind, "live") /\ UNCHANGED toServer
      /\ UNCHANGED <<reginfo, host>>

\* A server asks its host for the system codes it does not yet forward.
add_hdlr_server(h, kind) ==
  LET R == IF kind.codes \cap SysCodes # {} /\ scenario.hostfn
           THEN Interested(kind.codes) ELSE reginfo
      new == IF R = reginfo THEN {} ELSE mark_activations(R, kind.codes)
  IN  /\ UNCHANGED toServer
      /\ \/ new = {} /\ Place(h, kind, "live") /\ reginfo' = R /\ UNCHANGED host
         \/ new # {} /\ \E rc \in HostReturns :
              \/ /\ rc = "SUCCESS" /\ Place(h, kind, "pending")
                 /\ reginfo' = Activated(R, new) /\ Asked(new, h) /\ UNCHANGED forwards
              \/ /\ rc = "OPERATION_SUCCEEDED" /\ Place(h, kind, "live")
                 /\ reginfo' = Activated(R, new) /\ forwards' = forwards \cup new /\ UNCHANGED hostq
              \/ /\ rc = "ERROR" /\ Place(h, kind, "refused")
                 /\ deactivate_events(Activated(R, new), kind.codes, h) /\ UNCHANGED forwards

add_hdlr(h, kind) ==
  LET o == Owner(h)
  IN  /\ nregs' = [nregs EXCEPT ![o] =
                     [k \in Keys |-> IF k \in KeysOf(kind) THEN @[k] + 1 ELSE @[k]]]
      /\ IF o = ME THEN add_hdlr_server(h, kind) ELSE add_hdlr_client(h, kind)

\* An application registers a handler: it is put on its list, and whoever has to know is
\* told.  There is one first and one last handler overall.
reg_event_hdlr(h, kind) ==
  LET o == Owner(h)
  IN  /\ hdlr[h].state = "unused" /\ kind \in scenario.offer[h]
      /\ ~Departed(o)
      /\ IF Taken(o, kind.place) \/ kind.local
         THEN /\ Place(h, kind, IF Taken(o, kind.place) THEN "refused" ELSE "live")
              /\ UNCHANGED <<nregs, toServer, reginfo, host>>
         ELSE add_hdlr(h, kind)
      /\ UNCHANGED <<scenario, connected, toClient, shifted>>

\* Mutant: the first handler to leave takes the registration of the code with it.
dereg_keys_first(h) ==
  LET kind == hdlr[h].kind
      others == {g \in Of(Owner(h)) \ {h} : hdlr[g].kind.codes = {} /\ hdlr[g].kind.place = "list"}
  IN  IF kind.codes = {} THEN IF others = {} THEN {MAX_ERR} ELSE {}
      ELSE {k \in kind.codes : nregs[Owner(h)][k] > 0}

\* The codes the server is told of when handler h leaves: those h was the last to be counted
\* for; for a default handler, when no other default handler is on the list.
dereg_keys(h) ==
  LET kind == hdlr[h].kind
      others == {g \in Of(Owner(h)) \ {h} : hdlr[g].kind.codes = {} /\ hdlr[g].kind.place = "list"}
  IN  IF kind.codes = {} THEN IF others = {} THEN {MAX_ERR} ELSE {}
      ELSE {k \in kind.codes : nregs[Owner(h)][k] = 1}

\* The server's own handler gives back the interest it recorded.
release_enviro_codes(h) ==
  LET kind == hdlr[h].kind
  IN  IF Owner(h) = ME /\ kind.codes # {} /\ ~kind.local /\ scenario.hostfn
      THEN deactivate_events(reginfo, kind.codes, h)
      ELSE UNCHANGED <<reginfo, hostq>>

\* An application deregisters a handler.
dereg_event_hdlr(h) ==
  LET o == Owner(h)
      kind == hdlr[h].kind
      keys == dereg_keys(h)
  IN  /\ hdlr[h].state = "live" /\ h \in scenario.leaves
      /\ ~Departed(o)
      /\ Is(h, "gone")
      /\ nregs' = [nregs EXCEPT ![o] =
                     [k \in Keys |-> IF k \in kind.codes /\ @[k] > 0 THEN @[k] - 1 ELSE @[k]]]
      /\ toServer' = IF o = ME \/ keys = {} THEN toServer
                     ELSE [toServer EXCEPT ![o] = Append(@, [op |-> "dereg", keys |-> keys, h |-> h])]
      /\ release_enviro_codes(h)
      /\ UNCHANGED <<scenario, connected, toClient, forwards, shifted>>

\* A client has the server's answer: a refused handler is taken off its list.
regevents_cbfunc(c) ==
  /\ toClient[c] # <<>>
  /\ LET answer == Head(toClient[c])
     IN  Is(answer.h, IF answer.ok THEN "live" ELSE "refused")
  /\ toClient' = [toClient EXCEPT ![c] = Tail(@)]
  /\ UNCHANGED <<scenario, connected, nregs, toServer, reginfo, host, shifted>>

----------------------------------------------------------------------------
(* The server.                                                             *)

Reply(h, ok) ==
  LET c == Owner(h)
  IN  toClient' = IF connected[c] THEN [toClient EXCEPT ![c] = Append(@, [h |-> h, ok |-> ok])]
                  ELSE toClient

\* The record of the codes S with peer c entered
Listed(c, S) == [k \in Keys |-> IF k \in S THEN [reginfo[k] EXCEPT !.peers = @ \cup {c}]
                                ELSE reginfo[k]]

\* The server has a registration: it enters the peer under every code and asks its host for
\* the system codes not yet forwarded; the peer is answered now, or when the host has.
server_register_events(c) ==
  /\ toServer[c] # <<>> /\ Head(toServer[c]).op = "reg"
  /\ LET msg == Head(toServer[c])
         R == Listed(c, msg.keys)
         new == mark_activations(R, msg.keys)
     IN  \/ /\ msg.keys \cap SysCodes # {} /\ ~scenario.hostfn
            /\ Reply(msg.h, FALSE) /\ UNCHANGED <<reginfo, host>>
         \/ /\ msg.keys \cap SysCodes # {} => scenario.hostfn
            /\ new = {} /\ reginfo' = R /\ Reply(msg.h, TRUE) /\ UNCHANGED host
         \/ /\ scenario.hostfn /\ new # {}
            /\ \E rc \in HostReturns :
                 \/ /\ rc = "SUCCESS" /\ reginfo' = Activated(R, new)
                    /\ Asked(new, msg.h) /\ UNCHANGED <<forwards, toClient>>
                 \/ /\ rc = "OPERATION_SUCCEEDED" /\ reginfo' = Activated(R, new)
                    /\ forwards' = forwards \cup new /\ Reply(msg.h, TRUE) /\ UNCHANGED hostq
                 \/ /\ rc = "ERROR" /\ reginfo' = undo_activations(Activated(R, new), new)
                    /\ Reply(msg.h, FALSE) /\ UNCHANGED host
  /\ toServer' = [toServer EXCEPT ![c] = Tail(@)]
  /\ UNCHANGED <<scenario, connected, library, shifted>>

\* Mutant: a deregistration is handled only when something follows it.
server_deregister_events_waits(c) ==
  /\ Len(toServer[c]) > 1 /\ Head(toServer[c]).op = "dereg"
  /\ LET msg == Head(toServer[c])
         R == [k \in Keys |-> IF k \in msg.keys THEN [reginfo[k] EXCEPT !.peers = @ \ {c}]
                              ELSE reginfo[k]]
     IN  prune_reginfo(R, msg.keys, msg.h)
  /\ toServer' = [toServer EXCEPT ![c] = Tail(@)]
  /\ UNCHANGED <<scenario, connected, library, toClient, forwards, shifted>>

\* The server has a deregistration: it removes the peer from every code named.
server_deregister_events(c) ==
  /\ toServer[c] # <<>> /\ Head(toServer[c]).op = "dereg"
  /\ LET msg == Head(toServer[c])
         R == [k \in Keys |-> IF k \in msg.keys THEN [reginfo[k] EXCEPT !.peers = @ \ {c}]
                              ELSE reginfo[k]]
     IN  prune_reginfo(R, msg.keys, msg.h)
  /\ toServer' = [toServer EXCEPT ![c] = Tail(@)]
  /\ UNCHANGED <<scenario, connected, library, toClient, forwards, shifted>>

\* A client finalized or was lost: it is removed from every code.
purge_events(c) ==
  /\ c \in scenario.loss /\ connected[c]
  /\ connected' = [connected EXCEPT ![c] = FALSE]
  /\ hdlr' = [h \in Handlers |-> IF h \in Of(c) THEN [hdlr[h] EXCEPT !.state = "gone"] ELSE hdlr[h]]
  /\ toServer' = [toServer EXCEPT ![c] = <<>>] /\ toClient' = [toClient EXCEPT ![c] = <<>>]
  /\ LET S == {k \in Keys : c \in reginfo[k].peers}
         R == [k \in Keys |-> [reginfo[k] EXCEPT !.peers = @ \ {c}]]
     IN  prune_reginfo(R, S, CHOOSE h \in Handlers : TRUE)
  /\ UNCHANGED <<scenario, nregs, forwards, shifted>>

\* The host takes up the oldest request; it may refuse to forward.
HostTakes ==
  /\ hostq # <<>>
  /\ LET req == Head(hostq)
     IN  \/ /\ req.op = "dereg" /\ forwards' = forwards \ req.codes /\ UNCHANGED shifted
         \/ /\ req.op = "reg"
            /\ \E ok \in {TRUE} \cup (IF scenario.refuses THEN {FALSE} ELSE {}) :
                 /\ forwards' = IF ok THEN forwards \cup req.codes ELSE forwards
                 /\ shifted' = Append(shifted, [h |-> req.h, codes |-> req.codes, ok |-> ok])
  /\ hostq' = Tail(hostq)
  /\ UNCHANGED <<scenario, connected, library, wire, reginfo>>

\* The host's answer for a client: the client is answered; a refusal takes the marks back and
\* leaves the peer where it was entered.
regevopcbfunc ==
  /\ shifted # <<>> /\ Owner(Head(shifted).h) # ME
  /\ LET done == Head(shifted)
     IN  /\ Reply(done.h, done.ok)
         /\ reginfo' = IF done.ok THEN reginfo ELSE undo_activations(reginfo, done.codes)
  /\ shifted' = Tail(shifted)
  /\ UNCHANGED <<scenario, connected, library, toServer, host>>

\* The host's answer for a handler of the server's own.
regcbfunc ==
  /\ shifted # <<>> /\ Owner(Head(shifted).h) = ME
  /\ LET done == Head(shifted)
     IN  IF done.ok THEN Is(done.h, "live") /\ UNCHANGED <<reginfo, hostq>>
         ELSE Is(done.h, "refused") /\ deactivate_events(reginfo, hdlr[done.h].kind.codes, done.h)
  /\ shifted' = Tail(shifted)
  /\ UNCHANGED <<scenario, connected, nregs, wire, forwards>>

Next ==
  \/ \E h \in Handlers : \E kind \in scenario.offer[h] : reg_event_hdlr(h, kind)
  \/ \E h \in Handlers : dereg_event_hdlr(h)
  \/ \E c \in Clients : regevents_cbfunc(c) \/ server_register_events(c) \/ server_deregister_events(c)
  \/ \E c \in Clients : purge_events(c)
  \/ HostTakes \/ regevopcbfunc \/ regcbfunc

Spec == Init /\ [][Next]_vars

\* Messages are delivered, the host gets to its requests, shifted answers are handled.
FairSpec ==
  /\ Spec
  /\ \A c \in Clients : WF_vars(regevents_cbfunc(c)) /\ WF_vars(server_register_events(c))
                        /\ WF_vars(server_deregister_events(c))
  /\ WF_vars(HostTakes) /\ WF_vars(regevopcbfunc) /\ WF_vars(regcbfunc)

----------------------------------------------------------------------------
(* Properties.                                                             *)

Wants(h, k) == ~hdlr[h].kind.local /\ k \in KeysOf(hdlr[h].kind)

\* The server lists c under k once it has handled what c has sent
WillList(c, k) ==
  LET about == {i \in DOMAIN toServer[c] : k \in toServer[c][i].keys}
  IN  IF about = {} THEN c \in reginfo[k].peers ELSE toServer[c][Max(about)].op = "reg"

\* The host forwards k once it has taken up what it was asked, if it refuses nothing
WillForward(k) ==
  LET about == {i \in DOMAIN hostq : k \in hostq[i].codes}
  IN  IF about = {} THEN k \in forwards ELSE hostq[Max(about)].op = "reg"

\* A handler whose registration was acknowledged is not stranded: its server lists its
\* process under each of its codes, or will when it has handled the messages under way -
\* whatever other handlers for the same codes came and went.
StillListed ==
  \A h \in Handlers, k \in Keys :
    hdlr[h].state = "live" /\ Owner(h) # ME /\ Wants(h, k) => WillList(Owner(h), k)

\* A handler acknowledged for a system code gets it: the host was asked for the code, on
\* behalf of whichever registrant, and was not told to stop while someone still wants it.
StillForwarded ==
  \A h \in Handlers, k \in SysCodes :
    hdlr[h].state = "live" /\ Wants(h, k) /\ (Owner(h) = ME => scenario.hostfn) =>
      \/ reginfo[k].active /\ WillForward(k)
      \/ /\ Owner(h) # ME
         /\ \E i \in DOMAIN toServer[Owner(h)] : k \in toServer[Owner(h)][i].keys

\* When a system code is wanted no more, the host stops forwarding it in the end.
ForwardingStops ==
  \A k \in SysCodes :
    <>[](\A h \in Handlers : Registered(h) => ~Wants(h, k)) => <>[](k \notin forwards)
=============================================================================
