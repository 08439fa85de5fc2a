---------------------------- MODULE PtlMessages ----------------------------
(***************************************************************************)
(* The message engine of the transport layer: a client that sends requests *)
(* to its server and waits for the replies, and the server, which also     *)
(* sends notifications nobody asked for.  Both ends run the same code over *)
(* one non-blocking stream socket: a queue of messages with one on deck,   *)
(* writes that may be short, a header read before the data, and messages   *)
(* posted to the event loop and matched there with the posted receives.    *)
(*                                                                         *)
(* A message is a header of HdrLen units and a body of up to two.  The     *)
(* handlers of one end run on its progress thread, each as one action; the *)
(* calls come from application threads and are shifted (`calling`).        *)
(***************************************************************************)
EXTENDS Naturals, FiniteSets, Sequences, SequencesExt

CONSTANTS
  Calls,        \* the requests of the client's threads
  DynTags,      \* the most dynamic tags there are before they start again
  HdrLen,       \* the units of a header
  WireCap,      \* the units the kernel buffers in one direction
  max_msg_size, \* the longest body that is accepted
  Notes,        \* bound: notifications the server sends
  Scenarios     \* what may happen in a behaviour; one is chosen at the start

Ends == {"client", "server"}
NOBODY == "NOBODY"
NOTIFY == 0    \* the reserved tag of the notifications; dynamic tags start at 1
Other(e) == IF e = "client" THEN "server" ELSE "client"

\* lens: the body lengths.  tags: how many dynamic tags there are before they start again.
\* breaks: the server may go away.
ScenarioType == [lens : SUBSET (0..2), tags : 1..DynTags, breaks : BOOLEAN]

Msg == [tag : 0..DynTags, call : Calls \cup {NOBODY}, len : 0..2]
Size(m) == HdrLen + m.len

ASSUME PtlAssumption ==
  /\ DynTags \in Nat \ {0} /\ HdrLen \in Nat \ {0} /\ WireCap \in Nat /\ WireCap >= HdrLen
  /\ max_msg_size \in Nat /\ Notes \in Nat /\ NOBODY \notin Calls
  /\ \A s \in Scenarios : s \in ScenarioType

VARIABLES
  scenario,  \* the member of Scenarios this behaviour is about
  up,        \* the socket pair is intact
  sd,        \* sd[e]: end e has its descriptor open
  queue,     \* queue[e]: send_msg, then send_queue
  sent,      \* sent[e]: the units of the message on deck that were written
  wire,      \* wire[e]: the units written by e and not read yet
  recv_msg,  \* recv_msg[e]: empty, or the one message whose header was read
  rdbytes,   \* rdbytes[e]: the units of it still to come
  framed,    \* framed[e]: what was read as a header was one
  active,    \* active[e]: the messages posted to the event loop
  posted,    \* the client's posted_recvs, the newest first
  dyn_tags_current,
  calling,   \* the calls shifted and not yet handled, in order
  state,     \* state[c]: a call not made, shifted, posted, dropped, or completed
  got,       \* got[c]: whose reply completed c, or EMPTY for the lost connection
  cbs,       \* cbs[c]: how often the callback of c ran
  working,   \* the requests the server is working on
  notes,     \* the notifications sent
  shared,    \* history: the calls whose tag was taken again while its receive was posted
  twice,     \* history: the calls whose reply was read, not matched, when the loss was seen
  torn       \* history: torn[e]: end e met a header of which only a part had arrived

history == <<shared, twice, torn>>
net == <<up, sd, queue, sent, wire, recv_msg, rdbytes, framed>>
app == <<posted, dyn_tags_current, calling, state, got, cbs>>
vars == <<scenario, net, active, app, working, notes, history>>

TypeOK ==
  /\ scenario \in Scenarios /\ up \in BOOLEAN /\ sd \in [Ends -> BOOLEAN]
  /\ queue \in [Ends -> Seq(Msg)] /\ sent \in [Ends -> Nat]
  /\ wire \in [Ends -> Seq([msg : Msg, i : 1..HdrLen + 2])]
  /\ \A e \in Ends : Len(wire[e]) <= WireCap
  /\ recv_msg \in [Ends -> Seq(Msg)] /\ rdbytes \in [Ends -> Nat] /\ framed \in [Ends -> BOOLEAN]
  /\ active \in [Ends -> Seq(Msg)]
  /\ posted \in Seq([tag : 1..DynTags, call : Calls]) /\ dyn_tags_current \in 0..DynTags
  /\ calling \in Seq(Calls) /\ state \in [Calls -> {"idle", "made", "posted", "dropped", "done"}]
  /\ got \in [Calls -> Calls \cup {NOBODY, "EMPTY"}] /\ cbs \in [Calls -> Nat]
  /\ working \in SUBSET Msg /\ notes \in 0..Notes
  /\ shared \subseteq Calls /\ twice \subseteq Calls /\ torn \in [Ends -> BOOLEAN]

Init ==
  /\ scenario \in Scenarios /\ up = TRUE /\ sd = [e \in Ends |-> TRUE]
  /\ queue = [e \in Ends |-> <<>>] /\ sent = [e \in Ends |-> 0]
  /\ wire = [e \in Ends |-> <<>>] /\ recv_msg = [e \in Ends |-> <<>>]
  /\ rdbytes = [e \in Ends |-> 0] /\ framed = [e \in Ends |-> TRUE]
  /\ active = [e \in Ends |-> <<>>] /\ posted = <<>> /\ dyn_tags_current = 0
  /\ calling = <<>> /\ state = [c \in Calls |-> "idle"]
  /\ got = [c \in Calls |-> NOBODY] /\ cbs = [c \in Calls |-> 0]
  /\ working = {} /\ notes = 0
  /\ shared = {} /\ twice = {} /\ torn = [e \in Ends |-> FALSE]

-----------------------------------------------------------------------------
(* A connection that is lost.                                              *)

\* The callback of the receives in S runs with a reply to r.
Callback(S, r) ==
  LET C == {S[i].call : i \in DOMAIN S}
  IN /\ state' = [c \in Calls |-> IF c \in C THEN "done" ELSE state[c]]
     /\ got' = [c \in Calls |-> IF c \in C THEN r ELSE got[c]]
     /\ cbs' = [c \in Calls |-> cbs[c] + IF c \in C THEN 1 ELSE 0]

\* The calls that have a receive posted on the tag of a message of ms.
CallsFor(ms) ==
  {posted[i].call : i \in {j \in DOMAIN posted : \E k \in DOMAIN ms : ms[k].tag = posted[j].tag}}

\* Mutant: the callers that wait are not told.
lost_connection_quiet(e) ==
  /\ up' = FALSE
  /\ sd' = [sd EXCEPT ![e] = FALSE]
  /\ recv_msg' = [recv_msg EXCEPT ![e] = <<>>] /\ rdbytes' = [rdbytes EXCEPT ![e] = 0]
  /\ UNCHANGED <<app, twice>>

\* Close the descriptor and drop the half-read message.  The client then runs the callback
\* of every receive on a dynamic tag with an empty buffer, and leaves them on the list: a
\* reply that was read and waits to be matched will find its receive there.
lost_connection(e) ==
  /\ up' = FALSE
  /\ sd' = [sd EXCEPT ![e] = FALSE]
  /\ recv_msg' = [recv_msg EXCEPT ![e] = <<>>] /\ rdbytes' = [rdbytes EXCEPT ![e] = 0]
  /\ IF e = "client"
     THEN Callback(posted, "EMPTY") /\ twice' = twice \cup CallsFor(active["client"])
     ELSE UNCHANGED <<state, got, cbs, twice>>
  /\ UNCHANGED <<posted, dyn_tags_current, calling>>

-----------------------------------------------------------------------------
(* Sending.                                                                *)

\* PMIX_PTL_SEND_RECV: the caller saw a connected server and shifts its request.
SendRecv(c) ==
  /\ state[c] = "idle" /\ sd["client"]
  /\ state' = [state EXCEPT ![c] = "made"]
  /\ calling' = Append(calling, c)
  /\ UNCHANGED <<scenario, net, active, posted, dyn_tags_current, got, cbs, working, notes, history>>

\* The tag after the current one; past the last they start again, in use or not.
NextTag == IF dyn_tags_current + 1 = scenario.tags + 1 THEN 1 ELSE dyn_tags_current + 1

\* The shifted request: take a tag, post the receive, queue the message.  On a socket
\* closed since it was shifted it is dropped, callback and all.
pmix_ptl_base_send_recv ==
  /\ calling # <<>>
  /\ calling' = Tail(calling)
  /\ LET c == Head(calling)
         users == CallsFor(<<[tag |-> NextTag]>>)
     IN \/ /\ ~sd["client"]
           /\ state' = [state EXCEPT ![c] = "dropped"]
           /\ UNCHANGED <<queue, posted, dyn_tags_current, shared>>
        \/ /\ sd["client"]
           /\ state' = [state EXCEPT ![c] = "posted"]
           /\ dyn_tags_current' = NextTag
           /\ posted' = <<[tag |-> NextTag, call |-> c]>> \o posted
           /\ \E n \in scenario.lens :
                queue' = [queue EXCEPT !["client"] = Append(@, [tag |-> NextTag, call |-> c, len |-> n])]
           /\ shared' = shared \cup IF users = {} THEN {} ELSE users \cup {c}
  /\ UNCHANGED <<scenario, up, sd, sent, wire, recv_msg, rdbytes, framed, active, got, cbs,
                 working, notes, twice, torn>>

\* A reply or a notification joins the queue, which nobody empties once the client is gone.
PMIX_SERVER_QUEUE_REPLY(m) == queue' = [queue EXCEPT !["server"] = Append(@, m)]

Reply(m) ==
  /\ m \in working
  /\ working' = working \ {m}
  /\ \E n \in scenario.lens : PMIX_SERVER_QUEUE_REPLY([m EXCEPT !.len = n])
  /\ UNCHANGED <<scenario, up, sd, sent, wire, recv_msg, rdbytes, framed, active, app, notes, history>>

\* An event for a registered client is sent as soon as the server has it.
Notification ==
  /\ notes < Notes
  /\ notes' = notes + 1
  /\ \E n \in scenario.lens :
       PMIX_SERVER_QUEUE_REPLY([tag |-> NOTIFY, call |-> NOBODY, len |-> n])
  /\ UNCHANGED <<scenario, up, sd, sent, wire, recv_msg, rdbytes, framed, active, app, working, history>>

\* Mutant: a short write is not remembered.
send_msg_again(e, n) ==
  LET m == Head(queue[e])
  IN /\ wire' = [wire EXCEPT ![e] = @ \o [j \in 1..n |-> [msg |-> m, i |-> sent[e] + j]]]
     /\ queue' = IF n = Size(m) THEN [queue EXCEPT ![e] = Tail(@)] ELSE queue
     /\ UNCHANGED sent

\* send_msg: what is left of the message on deck, written whole or in part.
send_msg(e, n) ==
  LET m == Head(queue[e])
      units == [j \in 1..n |-> [msg |-> m, i |-> sent[e] + j]]
      whole == sent[e] + n = Size(m)
  IN /\ wire' = [wire EXCEPT ![e] = @ \o units]
     /\ queue' = IF whole THEN [queue EXCEPT ![e] = Tail(@)] ELSE queue
     /\ sent' = [sent EXCEPT ![e] = IF whole THEN 0 ELSE @ + n]

\* The socket is writable.  An error drops the message on deck and the connection.
pmix_ptl_base_send_handler(e) ==
  /\ sd[e] /\ queue[e] # <<>>
  /\ \/ /\ up
        /\ \E n \in 1..(Size(Head(queue[e])) - sent[e]) :
             n <= WireCap - Len(wire[e]) /\ send_msg(e, n)
        /\ UNCHANGED <<up, sd, recv_msg, rdbytes, app, twice>>
     \/ /\ ~up
        /\ lost_connection(e)
        /\ queue' = [queue EXCEPT ![e] = Tail(@)] /\ sent' = [sent EXCEPT ![e] = 0]
        /\ UNCHANGED wire
  /\ UNCHANGED <<scenario, framed, active, working, notes, shared, torn>>

-----------------------------------------------------------------------------
(* Receiving.                                                              *)

\* The header is read in one piece, or what there is of it is thrown away.  A header that
\* is not one gives a length nobody sent: too large, or of a body that never ends.
ReadHeader(e, in) ==
  LET m == in[1].msg
      good == \A j \in 1..HdrLen : in[j] = [msg |-> m, i |-> j]
      rest == Len(in) - HdrLen
      n == IF rest < m.len THEN rest ELSE m.len
  IN \/ /\ Len(in) < HdrLen
        /\ wire' = [wire EXCEPT ![Other(e)] = <<>>] /\ torn' = [torn EXCEPT ![e] = TRUE]
        /\ UNCHANGED <<recv_msg, rdbytes, framed, active, up, sd, app, twice>>
     \/ /\ Len(in) >= HdrLen /\ (good => m.len > max_msg_size)
        /\ lost_connection(e)
        /\ UNCHANGED <<wire, framed, active, torn>>
     \/ /\ Len(in) >= HdrLen /\ ~good
        /\ framed' = [framed EXCEPT ![e] = FALSE]
        /\ wire' = [wire EXCEPT ![Other(e)] = <<>>]
        /\ UNCHANGED <<recv_msg, rdbytes, active, up, sd, app, twice, torn>>
     \/ /\ Len(in) >= HdrLen /\ good /\ m.len <= max_msg_size
        /\ wire' = [wire EXCEPT ![Other(e)] = SubSeq(in, HdrLen + n + 1, Len(in))]
        /\ recv_msg' = [recv_msg EXCEPT ![e] = IF n = m.len THEN <<>> ELSE <<m>>]
        /\ rdbytes' = [rdbytes EXCEPT ![e] = m.len - n]
        /\ active' = IF n = m.len THEN [active EXCEPT ![e] = Append(@, m)] ELSE active
        /\ UNCHANGED <<framed, up, sd, app, twice, torn>>

\* The data of a message goes on where the last read left off.
ReadData(e, in) ==
  LET n == IF Len(in) < rdbytes[e] THEN Len(in) ELSE rdbytes[e]
      whole == n = rdbytes[e]
  IN /\ wire' = [wire EXCEPT ![Other(e)] = SubSeq(in, n + 1, Len(in))]
     /\ rdbytes' = [rdbytes EXCEPT ![e] = @ - n]
     /\ recv_msg' = IF whole THEN [recv_msg EXCEPT ![e] = <<>>] ELSE recv_msg
     /\ active' = IF whole THEN [active EXCEPT ![e] = Append(@, Head(recv_msg[e]))] ELSE active
     /\ UNCHANGED <<framed, up, sd, app, twice, torn>>

\* The socket is readable or at its end.  The loop polls when nothing is left to run, so
\* the messages posted by an earlier read were matched.
pmix_ptl_base_recv_handler(e) ==
  /\ sd[e] /\ active[e] = <<>>
  /\ LET in == wire[Other(e)]
     IN \/ framed[e] /\ in # <<>> /\ recv_msg[e] = <<>> /\ ReadHeader(e, in)
        \/ framed[e] /\ in # <<>> /\ recv_msg[e] # <<>> /\ ReadData(e, in)
        \/ /\ ~framed[e] /\ in # <<>>
           /\ wire' = [wire EXCEPT ![Other(e)] = <<>>]
           /\ UNCHANGED <<up, sd, recv_msg, rdbytes, framed, active, app, twice, torn>>
        \/ /\ in = <<>> /\ ~up
           /\ lost_connection(e)
           /\ UNCHANGED <<wire, framed, active, torn>>
  /\ UNCHANGED <<scenario, queue, sent, working, notes, shared>>

\* Mutant: the receive of a call stays posted after its callback.
pmix_ptl_base_process_msg_keep(e) ==
  /\ active[e] # <<>>
  /\ active' = [active EXCEPT ![e] = Tail(@)]
  /\ LET m == Head(active[e])
         fits == {i \in DOMAIN posted : posted[i].tag = m.tag}
     IN IF e = "server" THEN working' = working \cup {m} /\ UNCHANGED <<app>>
        ELSE /\ UNCHANGED <<posted, dyn_tags_current, calling, working>>
             /\ IF fits = {} THEN UNCHANGED <<state, got, cbs>>
                ELSE Callback(<<posted[CHOOSE i \in fits : \A j \in fits : i <= j]>>, m.call)
  /\ UNCHANGED <<scenario, net, notes, history>>

\* Match a message with the posted receives, the first that fits.  The server has one
\* receive for everything; the notifications have one that stays.
pmix_ptl_base_process_msg(e) ==
  /\ active[e] # <<>>
  /\ active' = [active EXCEPT ![e] = Tail(@)]
  /\ LET m == Head(active[e])
         fits == {i \in DOMAIN posted : posted[i].tag = m.tag}
     IN \/ e = "server" /\ working' = working \cup {m} /\ UNCHANGED <<app>>
        \/ e = "client" /\ m.tag = NOTIFY /\ UNCHANGED <<app, working>>
        \/ e = "client" /\ m.tag # NOTIFY /\ fits = {} /\ UNCHANGED <<app, working>>
        \/ /\ e = "client" /\ m.tag # NOTIFY /\ fits # {}
           /\ LET i == CHOOSE i \in fits : \A j \in fits : i <= j
              IN posted' = RemoveAt(posted, i) /\ Callback(<<posted[i]>>, m.call)
           /\ UNCHANGED <<dyn_tags_current, calling, working>>
  /\ UNCHANGED <<scenario, net, notes, history>>

\* The server goes away (external).  What it wrote arrives or is lost.
Break ==
  /\ up /\ scenario.breaks
  /\ up' = FALSE
  /\ wire' \in {wire, [wire EXCEPT !["server"] = <<>>]}
  /\ UNCHANGED <<scenario, sd, queue, sent, recv_msg, rdbytes, framed, active, app, working, notes,
                 history>>

Next ==
  \/ \E c \in Calls : SendRecv(c)
  \/ pmix_ptl_base_send_recv
  \/ \E m \in working : Reply(m)
  \/ Notification \/ Break
  \/ \E e \in Ends : \/ pmix_ptl_base_send_handler(e) \/ pmix_ptl_base_recv_handler(e)
                     \/ pmix_ptl_base_process_msg(e)

Spec == Init /\ [][Next]_vars

\* The event loops run, and the server answers what it was asked.
FairSpec ==
  /\ Spec
  /\ WF_vars(pmix_ptl_base_send_recv)
  /\ WF_vars(\E m \in working : Reply(m))
  /\ \A e \in Ends : /\ WF_vars(pmix_ptl_base_send_handler(e))
                     /\ WF_vars(pmix_ptl_base_recv_handler(e))
                     /\ WF_vars(pmix_ptl_base_process_msg(e))

-----------------------------------------------------------------------------
(* Properties.                                                             *)

\* The callback of a call runs once, with the reply to that call or with the empty buffer
\* of a lost connection.  Two things undo it, and nothing else.  It may run again, with the
\* reply, if the reply was read but not matched when a failing write closed the connection;
\* and it may be given the reply to another call if its tag came round to a second call
\* while both receives were posted.
CompletedOnce ==
  \A c \in Calls :
    /\ state[c] = "done" <=> cbs[c] > 0
    /\ cbs[c] > 1 => c \in twice /\ cbs[c] = 2
    /\ state[c] = "done" /\ c \notin shared => got[c] \in {c, "EMPTY"}

\* The stream is in step until a header arrives in parts, and only that puts it out of step.
\* On both ends the receiver goes on exactly where the last read stopped, the units on the
\* wire follow one another, and they end where the sender stopped writing.
StreamInStep ==
  \A e \in Ends :
    LET o == Other(e)
        in == wire[o]
        last == in[Len(in)]
    IN ~torn[e] =>
       /\ framed[e]
       /\ in # <<>> /\ sd[e] =>
            /\ in[1].i = IF recv_msg[e] = <<>> THEN 1
                         ELSE Size(Head(recv_msg[e])) - rdbytes[e] + 1
            /\ \A j \in 2..Len(in) :
                 in[j].i = IF in[j-1].i = Size(in[j-1].msg) THEN 1 ELSE in[j-1].i + 1
            /\ sd[o] => IF sent[o] = 0 THEN last.i = Size(last.msg) ELSE last.i = sent[o]

\* Every call whose receive is posted comes back, with the reply or with the empty buffer of
\* the lost connection, as long as no header arrives in parts; even then it comes back if
\* the connection breaks.
EveryCallReturns ==
  \A c \in Calls :
    state[c] = "posted" ~> (state[c] = "done" \/ (up /\ \E e \in Ends : torn[e]))
=============================================================================
