--------------------------- MODULE IoForwarding ---------------------------
(***************************************************************************)
(* Forwarding of standard output and standard input: src/common/pmix_iof.c *)
(* on both ends of the wire, src/server/pmix_server_iof.c on the server.   *)
(*                                                                         *)
(* The host hands the server the output of each job in numbered chunks.    *)
(* The server writes it locally, sends it to every request that covers the *)
(* job, lets the job inherit the requests of the job that spawned it, or   *)
(* caches it.  A tool passes what arrives to the handler that asked for    *)
(* it, or writes it to its terminal: at once, or after the answer to the   *)
(* spawn that says how it is to be formatted.  In the other direction a    *)
(* tool, or the server itself, reads its standard input line by line and   *)
(* pushes it to the host, which may suspend and resume the reading.        *)
(*                                                                         *)
(* The messages travel over the transport of PtlMessages: in order, and    *)
(* lost only together with the connection.  One stream per job is          *)
(* modelled, and the shared terminal sinks; sinks that are files are not.  *)
(***************************************************************************)
EXTENDS Integers, Sequences, FiniteSets, SequencesExt

CONSTANTS Tools,      \* the tools connected to the server
          Jobs,       \* the namespaces whose output is forwarded
          Slots,      \* indices of the server's iof_requests array: 1..n
          Handles,    \* indices of a tool's iof_requests array: 0..n
          MaxRetries, \* PMIX_IOF_MAX_RETRIES
          Scenarios   \* the configurations explored, see Scenario

NONE == "none"
SERVER == "server"
Ends == Tools \cup {SERVER}

ASSUME SlotAssumption == Slots = 1..Cardinality(Slots) /\ Handles = 0..(Cardinality(Handles) - 1)
ASSUME RetryAssumption == MaxRetries \in Nat
ASSUME NameAssumption == NONE \notin Jobs /\ SERVER \notin Tools

(***************************************************************************)
(* A scenario: who spawns what, which of these spawns carry directives for *)
(* the output, who pulls what, which job was spawned by a process of       *)
(* which, how many chunks each job writes before its stream ends and which *)
(* of them do not end in a newline, whether the host lets the server write *)
(* output locally and the jobs for which that write fails, the three       *)
(* limits of the code (max_iof_cache, iof_pending_limit in chunks,         *)
(* output_limit), how often a terminal refuses a write and how often a     *)
(* write fails for good, whether the terminal is really a file, whether    *)
(* handlers are deregistered, which tools lose their connection, whether   *)
(* the host may refuse; and for standard input who reads it, how many      *)
(* lines it has, how often the host suspends it, how often its reader is   *)
(* put in the background, whether the host answers the end of input with   *)
(* PMIX_ERR_IOF_COMPLETE, and whether the stream is paced: suspended only  *)
(* by the answer to a push (the server's own, if it is not, only by flow   *)
(* control).                                                               *)
(***************************************************************************)
ASSUME ScenarioAssumption ==
  \A s \in Scenarios :
    /\ s.spawns \subseteq Tools \X Jobs /\ s.directed \subseteq s.spawns
    /\ s.pulls \subseteq Tools \X Jobs /\ s.badsink \subseteq Jobs
    /\ \A p, q \in s.spawns : p[2] = q[2] => p = q
    /\ \A j \in Jobs : s.parent[j] \in (Jobs \ {j}) \cup {NONE} /\ s.chunks[j] \in Nat
    /\ s.part \subseteq Nat /\ s.losses \subseteq Tools /\ s.feeder \in Ends \cup {NONE}
    /\ {s.maxcache, s.limit, s.maxout, s.blocks, s.errors, s.lines, s.xoffs, s.stops} \subseteq Nat
    /\ {s.local, s.file, s.deregs, s.refusals, s.complete, s.paced} \subseteq BOOLEAN

VARIABLES scenario, queue, host, reqs, cache, up, down, peers, jobs, tools, term, input, hostin

server == <<queue, host, reqs, cache, peers>>
wire == <<up, down>>
vars == <<scenario, server, wire, jobs, tools, term, input, hostin>>

---------------------------------------------------------------------------
(* One shape for events of the server's progress thread, for requests      *)
(* parked at the host and for messages: kind, tool, job, chunk or line     *)
(* number, array index, and the status carried.                            *)
Item(k, t, j, n, i, s) == [kind |-> k, tool |-> t, job |-> j, n |-> n, id |-> i, status |-> s]

(* The chunks of a job are numbered; the one after the last is the         *)
(* zero-byte chunk that ends the stream.                                   *)
Size(c) == IF c.n <= scenario.chunks[c.job] THEN 1 ELSE 0

(* A request of the server's array, and an entry of a tool's.              *)
Free == [tool |-> NONE, job |-> NONE, id |-> 0]
Unused == [job |-> NONE, state |-> "free", id |-> 0]

Terminal == [held |-> << >>, residual |-> [j \in Jobs |-> << >>], outputs |-> << >>,
             pending |-> FALSE, tries |-> 0, blocks |-> scenario.blocks,
             errors |-> scenario.errors, quit |-> FALSE, written |-> << >>]

Tool == [linked |-> TRUE, handlers |-> [h \in Handles |-> Unused], flying |-> 0, known |-> {},
         standin |-> NONE, pulled |-> {}, deregs |-> {}, heard |-> << >>]

(* Jobs nobody spawns were started by the host before.                     *)
Started(j) == scenario.parent[j] = NONE /\ \A p \in scenario.spawns : p[2] # j

Init ==
  /\ scenario \in Scenarios
  /\ queue = << >> /\ host = {} /\ cache = << >>
  /\ reqs = [i \in Slots |-> Free]
  /\ up = [t \in Tools |-> << >>] /\ down = [t \in Tools |-> << >>]
  /\ peers = [t \in Tools |-> [linked |-> TRUE, producer |-> FALSE]]
  /\ jobs = [j \in Jobs |-> [call |-> "idle", running |-> Started(j),
                             registered |-> Started(j), given |-> 0, doubled |-> FALSE]]
  /\ tools = [t \in Tools |-> Tool]
  /\ term = [e \in Ends |-> Terminal]
  /\ input = [e \in Ends |-> [left |-> IF e = scenario.feeder THEN scenario.lines ELSE 0,
                              active |-> e = scenario.feeder, xoff |-> FALSE, fg |-> TRUE,
                              stops |-> scenario.stops, out |-> 0]]
  /\ hostin = [taken |-> << >>, off |-> FALSE, xoffs |-> scenario.xoffs, failed |-> FALSE]

---------------------------------------------------------------------------
(* Writing output: write_output and what it calls.                         *)

(* An item goes to the sink's list and the write event is armed; one       *)
(* without content marks the end of a stream.                              *)
write_output_line(tm, j, ns, flags) ==
  [tm EXCEPT !.outputs = Append(@, [job |-> j, ns |-> ns, flags |-> flags]),
             !.pending = TRUE, !.quit = FALSE]

(* The end of a stream is the last chance to write an unterminated line.   *)
flush_residual(tm, j, flags) ==
  IF tm.residual[j] = << >> THEN tm
  ELSE [write_output_line(tm, j, tm.residual[j], flags) EXCEPT !.residual[j] = << >>]

(* A complete line is written with the residual before it.                 *)
Write(tm, c, flags) ==
  IF Size(c) = 0 THEN write_output_line(flush_residual(tm, c.job, flags), c.job, << >>, flags)
  ELSE IF c.n \in scenario.part THEN [tm EXCEPT !.residual[c.job] = Append(@, c.n)]
  ELSE [write_output_line(tm, c.job, Append(tm.residual[c.job], c.n), flags)
          EXCEPT !.residual[c.job] = << >>]

(* The directives that format the output of job j: those of its own spawn  *)
(* once the reply has named it, the most recent spawn's until then.        *)
Flags(tl, j) == IF j \in tl.known THEN j ELSE tl.standin

(* Mutant: the cache of early output is consulted only for a first chunk.  *)
hold_first_only(tl, tm, c) ==
  c.job \notin tl.known /\ 0 < tl.flying /\ tm.held = << >> /\ 1 <= scenario.limit

hold_for_spawn_reply(tl, tm, c) ==
  c.job \notin tl.known /\ 0 < tl.flying /\ Len(tm.held) + 1 <= scenario.limit

write_output(tl, tm, c) ==
  IF hold_for_spawn_reply(tl, tm, c) THEN [tm EXCEPT !.held = Append(@, c)]
  ELSE Write(tm, c, Flags(tl, c.job))

(* Output held for the jobs in J is written in the order it arrived.       *)
release_pending(tl, tm, J) ==
  FoldLeft(LAMBDA x, c : Write(x, c, Flags(tl, c.job)),
           [tm EXCEPT !.held = SelectSeq(@, LAMBDA c : c.job \notin J)],
           SelectSeq(tm.held, LAMBDA c : c.job \in J))

(* pmix_iof_spawn_end: the last answer clears the stand-in and releases    *)
(* whatever is still held.                                                 *)
pmix_iof_spawn_end(t, tl, tm) ==
  LET last == tl.flying = 1
      after == [tl EXCEPT !.flying = @ - 1, !.standin = IF last THEN NONE ELSE @]
  IN  /\ tools' = [tools EXCEPT ![t] = after]
      /\ term' = [term EXCEPT ![t] = IF last THEN release_pending(after, tm, Jobs) ELSE tm]

(* What is left on the list after k items and "part" of the next one.      *)
Unwritten(tm, k, part) ==
  LET rest == SubSeq(tm.outputs, k + 1, Len(tm.outputs))
  IN  IF part = 0 THEN rest ELSE [rest EXCEPT ![1].ns = SubSeq(@, part + 1, Len(@))]

(* Mutant: the event is left to the next write.                            *)
Rearm_not(tm) == [tm EXCEPT !.pending = FALSE]

(* The event is armed again, unless the list is too long or this was one   *)
(* try too many.                                                           *)
Rearm(tm) ==
  LET quit == scenario.maxout < Len(tm.outputs) \/ tm.tries > MaxRetries
  IN  [tm EXCEPT !.pending = ~quit, !.quit = quit]

(* The items of a list that are written; end markers are skipped.          *)
Content(items) == SelectSeq(items, LAMBDA x : x.ns # << >>)

(* The sink takes k items, and then nothing (EAGAIN) or "part" of the next *)
(* one: the rest goes back to the front of the list.                       *)
Blocked(tm, k, part) ==
  LET rest == Unwritten(tm, k, part)
      shown == Content(SubSeq(tm.outputs, 1, k))
                 \o (IF part = 0 THEN << >>
                     ELSE <<[tm.outputs[k + 1] EXCEPT !.ns = SubSeq(@, 1, part)]>>)
      tries == IF shown = << >> THEN tm.tries ELSE 0
      counts == part = 0 /\ scenario.maxout >= Len(rest)
  IN  Rearm([tm EXCEPT !.written = @ \o shown, !.outputs = rest, !.blocks = @ - 1,
                       !.tries = IF counts THEN tries + 1 ELSE tries])

(* The write event fires.  Everything is written; or the sink blocks; or a *)
(* write fails, which loses the item and leaves the rest to the next line  *)
(* written; or a file has taken a block and others get their turn.         *)
pmix_iof_write_handler(e) ==
  LET tm == term[e]
      Shown(k) == Content(SubSeq(tm.outputs, 1, k))
      Tries(k) == IF Shown(k) = << >> THEN tm.tries ELSE 0
      After(k, from) ==
        [tm EXCEPT !.written = @ \o Shown(k), !.outputs = Unwritten(tm, from, 0), !.tries = Tries(k)]
      all == Len(tm.outputs)
  IN  /\ tm.pending
      /\ \/ term' = [term EXCEPT ![e] = [After(all, all) EXCEPT !.pending = FALSE]]
         \/ /\ tm.blocks > 0
            /\ \E k \in 0..(all - 1) : \E part \in 0..(Len(tm.outputs[k + 1].ns) - 1) :
                 term' = [term EXCEPT ![e] = Blocked(tm, k, part)]
         \/ /\ tm.errors > 0
            /\ \E k \in 0..(all - 1) :
                 /\ tm.outputs[k + 1].ns # << >>
                 /\ term' = [term EXCEPT ![e] = [After(k, k + 1) EXCEPT !.pending = FALSE, !.errors = @ - 1,
                                                                       !.quit = TRUE]]
         \/ /\ scenario.file
            /\ \E k \in 1..all : Shown(k) # << >> /\ term' = [term EXCEPT ![e] = After(k, k)]
      /\ UNCHANGED <<scenario, server, wire, jobs, tools, input, hostin>>

---------------------------------------------------------------------------
(* The server: requests, the cache, and delivery.                          *)

Post(q, ev) == Append(q, ev)

(* PMIX_PTL_SEND_ONEWAY and PMIX_SERVER_QUEUE_REPLY: nothing is sent to a  *)
(* peer known to be gone, and what a broken connection carries is lost.    *)
Send(d, t, m) == IF peers[t].linked /\ tools[t].linked THEN [d EXCEPT ![t] = Append(@, m)] ELSE d

(* PMIX_PTL_SEND_RECV of a tool.                                           *)
SendUp(t, m) ==
  [up EXCEPT ![t] = IF peers[t].linked /\ tools[t].linked THEN Append(@, m) ELSE @]

(* pmix_pointer_array_add takes the lowest free index.                     *)
Full(rs) == \A i \in Slots : rs[i] # Free
LowestFree(rs) == CHOOSE i \in Slots : rs[i] = Free /\ \A k \in Slots : k < i => rs[k] # Free
Add(rs, r) == [rs EXCEPT ![LowestFree(rs)] = r]

(* The indices, in order, of the requests that take output of job j.       *)
Takers(rs, j) == SelectSeq([i \in Slots |-> i], LAMBDA i : rs[i] # Free /\ rs[i].job = j)

(* pmix_iof_process_iof for every chunk of a sequence and every request.   *)
Forward(d, rs, takers, cs) ==
  [t \in Tools |->
     LET mine == SelectSeq(takers, LAMBDA i : rs[i].tool = t)
         m == Len(mine)
         Nth(k) == Item("iof", t, cs[1 + (k - 1) \div m].job, cs[1 + (k - 1) \div m].n,
                        rs[mine[1 + ((k - 1) % m)]].id, TRUE)
     IN  IF m = 0 \/ cs = << >> \/ ~peers[t].linked \/ ~tools[t].linked THEN d[t]
         ELSE d[t] \o [k \in 1..(m * Len(cs)) |-> Nth(k)]]

(* Mutant: cached output is handed over and stays in the cache.            *)
drain_cache_kept(d, rs, j, takers) ==
  [down |-> Forward(d, rs, takers, SelectSeq(cache, LAMBDA c : c.job = j)), cache |-> cache]

(* Cached output of job j goes to the takers, oldest first, and leaves the *)
(* cache if somebody took it.                                              *)
drain_cache(d, rs, j, takers) ==
  IF takers = << >> THEN [down |-> d, cache |-> cache]
  ELSE [down |-> Forward(d, rs, takers, SelectSeq(cache, LAMBDA c : c.job = j)),
        cache |-> SelectSeq(cache, LAMBDA c : c.job # j)]

(* Every live request on the parent is copied for the job.                 *)
clone_iof_reqs(rs, parent, j) ==
  FoldLeft(LAMBDA x, i : Add(x, [rs[i] EXCEPT !.job = j]), rs, Takers(rs, parent))

(* The jobs a job descends from, nearest first, as far as the server has   *)
(* been told.                                                              *)
Lineage[j \in Jobs, depth \in 0..Cardinality(Jobs)] ==
  IF depth = 0 \/ ~jobs[j].registered \/ scenario.parent[j] = NONE THEN << >>
  ELSE <<scenario.parent[j]>> \o Lineage[scenario.parent[j], depth - 1]

(* The requests after the nearest watched ancestor's have been copied.     *)
inherit_from_ancestry(j) ==
  LET watched == SelectSeq(Lineage[j, Cardinality(Jobs)], LAMBDA a : Takers(reqs, a) # << >>)
  IN  IF watched = << >> THEN reqs ELSE clone_iof_reqs(reqs, Head(watched), j)

(* The oldest entry makes room in a full cache.                            *)
Cached(c) ==
  Append(IF Len(cache) = scenario.maxcache /\ cache # << >> THEN Tail(cache) ELSE cache, c)

(* _iofdeliver: when the local write fails the chunk goes nowhere else.    *)
iofdeliver(ev) ==
  LET c == [job |-> ev.job, n |-> ev.n]
      rs == IF Takers(reqs, c.job) # << >> THEN reqs ELSE inherit_from_ancestry(c.job)
      takers == Takers(rs, c.job)
      drained == drain_cache(down, rs, c.job, IF rs = reqs THEN << >> ELSE takers)
  IN  /\ \/ /\ scenario.local /\ c.job \in scenario.badsink
            /\ UNCHANGED <<term, reqs, down, cache>>
         \/ /\ ~(scenario.local /\ c.job \in scenario.badsink)
            /\ term' = IF scenario.local THEN [term EXCEPT ![SERVER] = Write(@, c, NONE)] ELSE term
            /\ reqs' = rs
            /\ IF takers # << >>
               THEN /\ down' = Forward(drained.down, rs, takers, <<c>>)
                    /\ cache' = drained.cache
               ELSE /\ cache' = Cached(c)
                    /\ UNCHANGED down
      /\ UNCHANGED <<host, up, peers, jobs, tools, input, hostin>>

(* _iofreg: the host has answered a pull.  A refused request is taken out  *)
(* of the array; a granted one is answered, then given the cached output.  *)
iofreg_done(ev) ==
  LET r == reqs[ev.id]
      answered == Send(down, ev.tool, Item("pulled", ev.tool, ev.job, ev.id, ev.n, ev.status))
      takers == IF r # Free THEN <<ev.id>> ELSE << >>
      drained == drain_cache(answered, reqs, r.job, takers)
  IN  /\ IF ev.status
         THEN /\ down' = drained.down /\ cache' = drained.cache /\ UNCHANGED reqs
         ELSE /\ down' = answered /\ reqs' = [reqs EXCEPT ![ev.id] = Free] /\ UNCHANGED cache
      /\ UNCHANGED <<host, up, peers, jobs, tools, term, input, hostin>>

(* inherit_parent_iof: the requests on the parent are copied when the      *)
(* spawn completes, if the server knows the job by then.                   *)
inherit_parent_iof(j) ==
  IF jobs[j].registered THEN clone_iof_reqs(reqs, scenario.parent[j], j) ELSE reqs

(* pmix_server_process_iof: a tool's spawn enters a request of its own, a  *)
(* client's inherits; either then takes what has been cached.              *)
pmix_server_process_iof(ev) ==
  LET rs == IF ev.tool # NONE THEN Add(reqs, [tool |-> ev.tool, job |-> ev.job, id |-> 0])
            ELSE inherit_parent_iof(ev.job)
      drained == drain_cache(down, rs, ev.job, IF rs = reqs THEN << >> ELSE Takers(rs, ev.job))
  IN  [reqs |-> rs, down |-> drained.down, cache |-> drained.cache]

(* _spcbfunc: the request is entered, then the answer is posted.  A job    *)
(* that inherited at its first output inherits again; "doubled", a history *)
(* variable, remembers it.                                                 *)
spcbfunc(ev) ==
  LET done == pmix_server_process_iof(ev)
      again == ev.tool = NONE /\ done.reqs # reqs /\ Takers(reqs, ev.job) # << >>
  IN  /\ IF ev.status
         THEN /\ reqs' = done.reqs /\ down' = done.down /\ cache' = done.cache
              /\ jobs' = [jobs EXCEPT ![ev.job].doubled = @ \/ again]
         ELSE UNCHANGED <<reqs, down, cache, jobs>>
      /\ UNCHANGED <<host, up, peers, tools, term, input, hostin>>

(* _spcb, _iofdreg and _opcbfunc: an answer is sent.                       *)
Reply(ev) ==
  /\ down' = IF ev.tool = NONE THEN down ELSE Send(down, ev.tool, ev)
  /\ UNCHANGED <<host, reqs, cache, up, peers, jobs, tools, term, input, hostin>>

---------------------------------------------------------------------------
(* Standard input: suspending and resuming the reader.                     *)

(* pmix_iof_stdin_cb: the read is armed unless the stream is suspended or  *)
(* its terminal belongs to another job.                                    *)
pmix_iof_stdin_cb(in) == [in EXCEPT !.active = ~in.xoff /\ in.fg]

(* Mutant: a resumed stream is marked as such and its event not armed.     *)
flow_control_unarmed(in, xoff) ==
  IF xoff THEN [in EXCEPT !.xoff = TRUE, !.active = FALSE] ELSE [in EXCEPT !.xoff = FALSE]

(* pmix_iof_flow_control on the stream this process reads.                 *)
pmix_iof_flow_control(in, xoff) ==
  IF xoff THEN [in EXCEPT !.xoff = TRUE, !.active = FALSE]
  ELSE IF in.xoff THEN pmix_iof_stdin_cb([in EXCEPT !.xoff = FALSE])
  ELSE in

(* _iofflowcontrol: the server's own stream, then every tool that has      *)
(* pushed input to this server.                                            *)
iofflowcontrol(ev) ==
  LET xoff == ev.status
  IN  /\ input' = IF scenario.feeder = SERVER
                  THEN [input EXCEPT ![SERVER] = pmix_iof_flow_control(@, xoff)] ELSE input
      /\ down' = [t \in Tools |->
                    IF peers[t].producer /\ tools[t].linked THEN Append(down[t], Item("flow", t, NONE, 0, 0, xoff))
                    ELSE down[t]]
      /\ UNCHANGED <<host, reqs, cache, up, peers, jobs, tools, term, hostin>>

(* iof_stdin_cbfunc: the answer to a tool's push, or the empty buffer of a *)
(* lost connection ("error").                                              *)
iof_stdin_cbfunc(in, status) ==
  CASE status = "xoff" -> [in EXCEPT !.xoff = TRUE, !.active = FALSE]
    [] status \in {"complete", "failed", "error"} -> [in EXCEPT !.active = FALSE]
    [] OTHER -> IF in.xoff THEN in ELSE pmix_iof_stdin_cb(in)

(* opcbfn: the host's answer to a push of the server's own input, applied  *)
(* in the host's thread.  Only XOFF is heeded; the push of the end of      *)
(* input re-arms nothing.                                                  *)
opcbfn(in, n, status) ==
  IF n = 0 THEN in
  ELSE IF status = "xoff" THEN [in EXCEPT !.xoff = TRUE]
  ELSE IF in.xoff THEN in ELSE pmix_iof_stdin_cb(in)

(* The host takes line n (0: the end of input).                            *)
Taken(n) == [hostin EXCEPT !.taken = Append(@, n)]

(* pmix_iof_read_local_handler: the read event fires, one fragment is read *)
(* and pushed; the event stays unarmed until the push is answered or the   *)
(* reader continued.  A terminal has input for its foreground job only.    *)
pmix_iof_read_local_handler(e) ==
  LET in == input[e]
      n == IF in.left = 0 THEN 0 ELSE scenario.lines - in.left + 1
      push == Item("push", e, NONE, n, 0, TRUE)
  IN  /\ in.active /\ in.fg
      /\ input' = [input EXCEPT ![e].active = FALSE, ![e].left = IF n = 0 THEN 0 ELSE @ - 1,
                                ![e].out = @ + 1]
      /\ IF e = SERVER
         THEN host' = host \cup {push} /\ hostin' = Taken(n) /\ UNCHANGED up
         ELSE up' = SendUp(e, push) /\ UNCHANGED <<host, hostin>>

(* A tool's read event; nothing else of its progress thread races it.      *)
ReadInput(t) ==
  /\ t = scenario.feeder /\ pmix_iof_read_local_handler(t)
  /\ UNCHANGED <<scenario, queue, reqs, cache, down, peers, jobs, tools, term>>

(* The server's: libevent finds the armed descriptor readable and puts the *)
(* event behind those already posted.                                      *)
Poll ==
  /\ scenario.feeder = SERVER /\ input[SERVER].active /\ input[SERVER].fg
  /\ \A i \in DOMAIN queue : queue[i].kind # "read"
  /\ queue' = Post(queue, Item("read", SERVER, NONE, 0, 0, TRUE))
  /\ UNCHANGED <<scenario, host, reqs, cache, peers, wire, jobs, tools, term, input, hostin>>

(* The user puts the reader in the background, ...                         *)
Background(e) ==
  /\ e = scenario.feeder /\ input[e].fg /\ input[e].stops > 0
  /\ input' = [input EXCEPT ![e].fg = FALSE, ![e].stops = @ - 1]
  /\ UNCHANGED <<scenario, server, wire, jobs, tools, term, hostin>>

(* ... and gets it back: SIGCONT runs pmix_iof_stdin_cb, which does not    *)
(* ask whether a push is unanswered.                                       *)
Foreground(e) ==
  /\ e = scenario.feeder /\ ~input[e].fg
  /\ LET in == [input[e] EXCEPT !.fg = TRUE]
     IN  IF e = SERVER
         THEN /\ input' = [input EXCEPT ![e] = in]
              /\ queue' = Post(queue, Item("cont", SERVER, NONE, 0, 0, TRUE))
         ELSE /\ input' = [input EXCEPT ![e] = pmix_iof_stdin_cb(in)]
              /\ UNCHANGED queue
  /\ UNCHANGED <<scenario, host, reqs, cache, peers, wire, jobs, tools, term, hostin>>

---------------------------------------------------------------------------
(* The server's message handlers, one message of tool t at a time.         *)

(* pmix_server_iofreg: the request is entered before the host is asked.    *)
pmix_server_iofreg(t, m) ==
  \/ /\ ~Full(reqs)
     /\ reqs' = Add(reqs, [tool |-> t, job |-> m.job, id |-> m.id])
     /\ host' = host \cup {Item("pull", t, m.job, m.id, LowestFree(reqs), TRUE)}
     /\ UNCHANGED down
  \/ /\ scenario.refusals
     /\ down' = Send(down, t, Item("pulled", t, m.job, 0, m.id, FALSE))
     /\ UNCHANGED <<reqs, host>>

(* pmix_server_iofdereg                                                    *)
pmix_server_iofdereg(t, m) ==
  IF reqs[m.id] = Free
  THEN down' = Send(down, t, Item("deregd", t, NONE, 0, m.id, FALSE)) /\ UNCHANGED <<reqs, host>>
  ELSE /\ reqs' = [reqs EXCEPT ![m.id] = Free]
       /\ host' = host \cup {Item("dereg", t, NONE, 0, m.id, TRUE)}
       /\ UNCHANGED down

MessageHandler(t) ==
  LET m == Head(up[t])
  IN  /\ up[t] # << >> /\ peers[t].linked
      /\ up' = [up EXCEPT ![t] = Tail(@)]
      /\ \/ m.kind = "pull" /\ pmix_server_iofreg(t, m) /\ UNCHANGED <<peers, jobs, hostin>>
         \/ m.kind = "dereg" /\ pmix_server_iofdereg(t, m) /\ UNCHANGED <<peers, jobs, hostin>>
         \/ /\ m.kind = "spawn"                                      \* pmix_server_spawn
            /\ host' = host \cup {m}
            /\ jobs' = [jobs EXCEPT ![m.job].running = TRUE]
            /\ UNCHANGED <<reqs, down, peers, hostin>>
         \/ /\ m.kind = "push"                                       \* pmix_server_iofstdin
            /\ host' = host \cup {m}
            /\ hostin' = Taken(m.n)
            /\ peers' = [peers EXCEPT ![t].producer = TRUE]
            /\ UNCHANGED <<reqs, down, jobs>>
      /\ UNCHANGED <<scenario, queue, cache, tools, term, input>>

(* The server's progress thread runs the oldest event posted to it.        *)
ProgressThread ==
  LET ev == Head(queue)
  IN  /\ queue # << >>
      /\ \/ ev.kind = "deliver" /\ queue' = Tail(queue) /\ iofdeliver(ev)
         \/ ev.kind = "pull" /\ queue' = Tail(queue) /\ iofreg_done(ev)
         \/ ev.kind = "spawn" /\ queue' = Post(Tail(queue), [ev EXCEPT !.kind = "spawned"]) /\ spcbfunc(ev)
         \/ ev.kind \in {"spawned", "deregd", "pushed"} /\ queue' = Tail(queue) /\ Reply(ev)
         \/ ev.kind = "flow" /\ queue' = Tail(queue) /\ iofflowcontrol(ev)
         \/ /\ ev.kind = "read" /\ queue' = Tail(queue)
            /\ pmix_iof_read_local_handler(SERVER)
            /\ UNCHANGED <<reqs, cache, peers, down, jobs, tools, term>>
         \/ /\ ev.kind = "cont" /\ queue' = Tail(queue)               \* SIGCONT
            /\ input' = [input EXCEPT ![SERVER] = pmix_iof_stdin_cb(@)]
            /\ UNCHANGED <<host, reqs, cache, peers, wire, jobs, tools, term, hostin>>
         \/ /\ ev.kind = "read" /\ ~(input[SERVER].active /\ input[SERVER].fg)   \* pmix_event_del
            /\ queue' = Tail(queue)
            /\ UNCHANGED <<host, reqs, cache, peers, wire, jobs, tools, term, input, hostin>>
      /\ UNCHANGED scenario

(* The server's side of a broken connection: lost_connection and           *)
(* pmix_server_purge_events.                                               *)
purge_events(t) ==
  /\ t \in scenario.losses /\ peers[t].linked
  /\ peers' = [peers EXCEPT ![t] = [linked |-> FALSE, producer |-> FALSE]]
  /\ reqs' = [i \in Slots |-> IF reqs[i].tool = t THEN Free ELSE reqs[i]]
  /\ up' = [up EXCEPT ![t] = << >>]
  /\ UNCHANGED <<scenario, queue, host, cache, down, jobs, tools, term, input, hostin>>

---------------------------------------------------------------------------
(* The host.                                                               *)

(* It tells the server about a job it is starting.                         *)
register_nspace(j) ==
  /\ jobs[j].running /\ ~jobs[j].registered
  /\ jobs' = [jobs EXCEPT ![j].registered = TRUE]
  /\ UNCHANGED <<scenario, server, wire, tools, term, input, hostin>>

(* A process of the parent job spawns job j: pmix_server_spawn for a       *)
(* client that names no channels.                                          *)
SpawnChild(j) ==
  /\ scenario.parent[j] # NONE /\ jobs[j].call = "idle"
  /\ jobs[scenario.parent[j]].running
  /\ jobs' = [jobs EXCEPT ![j].call = "sent", ![j].running = TRUE]
  /\ host' = host \cup {Item("spawn", NONE, j, 0, 0, TRUE)}
  /\ UNCHANGED <<scenario, queue, reqs, cache, peers, wire, tools, term, input, hostin>>

(* It hands over the next chunk of a job it has registered, which may be   *)
(* before it answers the spawn.                                            *)
PMIx_server_IOF_deliver(j) ==
  /\ jobs[j].running /\ jobs[j].registered
  /\ scenario.chunks[j] > 0 /\ jobs[j].given <= scenario.chunks[j]
  /\ jobs' = [jobs EXCEPT ![j].given = @ + 1]
  /\ queue' = Post(queue, Item("deliver", NONE, j, jobs[j].given + 1, 0, TRUE))
  /\ UNCHANGED <<scenario, host, reqs, cache, peers, wire, tools, term, input, hostin>>

(* It answers a pull, a deregistration or a spawn.                         *)
HostAnswers(r) ==
  /\ host' = host \ {r}
  /\ \/ r.kind = "pull" /\ queue' = Post(queue, r) /\ UNCHANGED jobs
     \/ /\ r.kind = "pull" /\ scenario.refusals
        /\ queue' = Post(queue, [r EXCEPT !.status = FALSE]) /\ UNCHANGED jobs
     \/ r.kind = "dereg" /\ queue' = Post(queue, [r EXCEPT !.kind = "deregd"]) /\ UNCHANGED jobs
     \/ r.kind = "spawn" /\ queue' = Post(queue, r) /\ UNCHANGED jobs
     \/ /\ r.kind = "spawn" /\ scenario.refusals /\ jobs[r.job].given = 0
        /\ queue' = Post(queue, [r EXCEPT !.status = FALSE])
        /\ jobs' = [jobs EXCEPT ![r.job].running = FALSE]
  /\ UNCHANGED <<scenario, reqs, cache, peers, wire, tools, term, input, hostin>>

(* It answers a push, and may suspend the stream with the answer or report *)
(* a failure.                                                              *)
HostTakes(r) ==
  /\ r.kind = "push" /\ host' = host \ {r}
  /\ \E status \in {"success", "complete", "xoff", "failed"} :
       /\ status = "complete" => r.n = 0 /\ scenario.complete
       /\ status = "success" => ~(r.n = 0 /\ scenario.complete)
       /\ status = "failed" => scenario.refusals
       /\ status = "xoff" => /\ r.n > 0 /\ hostin.xoffs > 0 /\ ~hostin.off
                             /\ r.tool = SERVER => scenario.paced
       /\ hostin' = IF status = "xoff" THEN [hostin EXCEPT !.off = TRUE, !.xoffs = @ - 1]
                    ELSE [hostin EXCEPT !.failed = @ \/ status = "failed"]
       /\ IF r.tool = SERVER
          THEN input' = [input EXCEPT ![SERVER] = [opcbfn(@, r.n, status) EXCEPT !.out = @ - 1]]
               /\ UNCHANGED queue
          ELSE queue' = Post(queue, [r EXCEPT !.kind = "pushed", !.status = status]) /\ UNCHANGED input
  /\ UNCHANGED <<scenario, reqs, cache, peers, wire, jobs, tools, term>>

(* It suspends or resumes the streams feeding it; it has no reason to      *)
(* suspend before the first push.                                          *)
PMIx_server_IOF_flow_control(xoff) ==
  /\ IF xoff THEN ~scenario.paced /\ ~hostin.off /\ hostin.xoffs > 0 /\ hostin.taken # << >>
     ELSE hostin.off
  /\ hostin' = [hostin EXCEPT !.off = xoff, !.xoffs = IF xoff THEN @ - 1 ELSE @]
  /\ queue' = Post(queue, Item("flow", NONE, NONE, 0, 0, xoff))
  /\ UNCHANGED <<scenario, host, reqs, cache, peers, wire, jobs, tools, term, input>>

---------------------------------------------------------------------------
(* A tool.                                                                 *)

(* PMIx_IOF_pull and myreg: the lowest free index above the default        *)
(* handler's; each job is pulled at most once, a bound.                    *)
PMIx_IOF_pull(t, j) ==
  LET h == CHOOSE h \in Handles : /\ h > 0 /\ tools[t].handlers[h] = Unused
                                  /\ \A k \in 1..(h - 1) : tools[t].handlers[k] # Unused
  IN  /\ tools[t].linked /\ <<t, j>> \in scenario.pulls /\ j \notin tools[t].pulled
      /\ \E k \in Handles : k > 0 /\ tools[t].handlers[k] = Unused
      /\ tools' = [tools EXCEPT ![t].pulled = @ \cup {j},
                                ![t].handlers[h] = [job |-> j, state |-> "asked", id |-> 0]]
      /\ up' = SendUp(t, Item("pull", t, j, 0, h, TRUE))
      /\ UNCHANGED <<scenario, server, down, jobs, term, input, hostin>>

(* PMIx_IOF_deregister and mydereg                                         *)
PMIx_IOF_deregister(t, h) ==
  /\ tools[t].linked /\ scenario.deregs /\ tools[t].handlers[h].state = "live"
  /\ tools' = [tools EXCEPT ![t].handlers[h] = Unused, ![t].deregs = @ \cup {tools[t].handlers[h].id}]
  /\ up' = SendUp(t, Item("dereg", t, NONE, 0, tools[t].handlers[h].id, TRUE))
  /\ UNCHANGED <<scenario, server, down, jobs, term, input, hostin>>

(* spawn_iof_tracked: only a spawn with directives for its output counts.  *)
Tracked(t, j) == <<t, j>> \in scenario.directed

(* PMIx_Spawn_nb in the caller's thread: the directives are stashed, ...   *)
stash_spawn_iof_flags(t, j) ==
  /\ tools[t].linked /\ <<t, j>> \in scenario.spawns /\ jobs[j].call = "idle"
  /\ jobs' = [jobs EXCEPT ![j].call = "stashed"]
  /\ tools' = [tools EXCEPT ![t].standin = IF Tracked(t, j) THEN j ELSE @]
  /\ UNCHANGED <<scenario, server, wire, term, input, hostin>>

(* ... the spawn is counted as in flight and the request shifted to the    *)
(* progress thread, ...                                                    *)
pmix_iof_spawn_begin(t, j) ==
  /\ <<t, j>> \in scenario.spawns /\ jobs[j].call = "stashed"
  /\ jobs' = [jobs EXCEPT ![j].call = "begun"]
  /\ tools' = [tools EXCEPT ![t].flying = IF Tracked(t, j) THEN @ + 1 ELSE @]
  /\ UNCHANGED <<scenario, server, wire, term, input, hostin>>

(* ... which sends it, or drops it without a word if the connection has    *)
(* been lost meanwhile.                                                    *)
pmix_ptl_base_send_recv(t, j) ==
  /\ <<t, j>> \in scenario.spawns /\ jobs[j].call = "begun"
  /\ jobs' = [jobs EXCEPT ![j].call = IF tools[t].linked THEN "sent" ELSE "dropped"]
  /\ up' = SendUp(t, Item("spawn", t, j, 0, 0, TRUE))
  /\ UNCHANGED <<scenario, server, down, tools, term, input, hostin>>

(* pmix_server_iof_handler of a tool: the handler the message names, or    *)
(* the terminal; the end of a stream is not passed on to the terminal.     *)
iof_handler(t, m) ==
  LET c == [job |-> m.job, n |-> m.n]
  IN  /\ IF tools[t].handlers[m.id] # Unused
         THEN tools' = [tools EXCEPT ![t].heard = Append(@, [job |-> c.job, n |-> c.n,
                                                             asked |-> tools[t].handlers[m.id].job])]
              /\ UNCHANGED term
         ELSE term' = (IF Size(c) = 0 THEN term
                       ELSE [term EXCEPT ![t] = write_output(tools[t], @, c)])
              /\ UNCHANGED tools
      /\ UNCHANGED <<jobs, input>>

(* myregcbfunc                                                             *)
myregcbfunc(t, m) ==
  /\ tools' = [tools EXCEPT ![t].handlers[m.id] =
                 IF m.status THEN [@ EXCEPT !.state = "live", !.id = m.n] ELSE Unused]
  /\ UNCHANGED <<jobs, term, input>>

(* wait_cbfunc of a spawn: the job's own directives, if it has any, take   *)
(* effect and what was held for it is freed; then the spawn is no longer   *)
(* in flight.                                                              *)
wait_cbfunc(t, m) ==
  LET tl == IF m.status /\ Tracked(t, m.job) THEN [tools[t] EXCEPT !.known = @ \cup {m.job}] ELSE tools[t]
      tm == IF m.status THEN release_pending(tl, term[t], {m.job}) ELSE term[t]
  IN  /\ IF Tracked(t, m.job) THEN pmix_iof_spawn_end(t, tl, tm)
         ELSE tools' = [tools EXCEPT ![t] = tl] /\ term' = [term EXCEPT ![t] = tm]
      /\ jobs' = [jobs EXCEPT ![m.job].call = "returned"]
      /\ UNCHANGED input

(* The tool's progress thread handles the next message.                    *)
Receive(t) ==
  LET m == Head(down[t])
  IN  /\ down[t] # << >> /\ tools[t].linked
      /\ down' = [down EXCEPT ![t] = Tail(@)]
      /\ \/ m.kind = "iof" /\ iof_handler(t, m)
         \/ m.kind = "pulled" /\ myregcbfunc(t, m)
         \/ m.kind = "spawned" /\ wait_cbfunc(t, m)
         \/ /\ m.kind = "deregd"                                     \* deregcbfunc
            /\ tools' = [tools EXCEPT ![t].deregs = @ \ {m.id}]
            /\ UNCHANGED <<jobs, term, input>>
         \/ /\ m.kind = "flow"                                       \* pmix_iof_flow_control_handler
            /\ input' = [input EXCEPT ![t] = pmix_iof_flow_control(@, m.status)]
            /\ UNCHANGED <<jobs, tools, term>>
         \/ /\ m.kind = "pushed"
            /\ input' = [input EXCEPT ![t] = [iof_stdin_cbfunc(@, m.status) EXCEPT !.out = @ - 1]]
            /\ UNCHANGED <<jobs, tools, term>>
      /\ UNCHANGED <<scenario, server, up, hostin>>

(* The tool's side of a broken connection: every call that waits is        *)
(* completed with an empty buffer.                                         *)
lost_connection(t) ==
  LET mine == {j \in Jobs : <<t, j>> \in scenario.spawns /\ jobs[j].call = "sent"}
      counted == Cardinality({j \in mine : Tracked(t, j)})
      last == counted > 0 /\ counted = tools[t].flying
      tl == [tools[t] EXCEPT !.linked = FALSE, !.deregs = {}, !.flying = @ - counted,
                             !.standin = IF last THEN NONE ELSE @,
                             !.handlers = [h \in Handles |-> IF @[h].state = "asked" THEN Unused ELSE @[h]]]
  IN  /\ t \in scenario.losses /\ tools[t].linked
      /\ tools' = [tools EXCEPT ![t] = tl]
      /\ term' = IF ~last THEN term ELSE [term EXCEPT ![t] = release_pending(tl, @, Jobs)]
      /\ jobs' = [j \in Jobs |-> IF j \in mine THEN [jobs[j] EXCEPT !.call = "returned"] ELSE jobs[j]]
      /\ input' = [input EXCEPT ![t] = IF @.out = 0 THEN @ ELSE [iof_stdin_cbfunc(@, "error") EXCEPT !.out = 0]]
      /\ down' = [down EXCEPT ![t] = << >>]
      /\ UNCHANGED <<scenario, server, up, hostin>>

---------------------------------------------------------------------------
Next ==
  \/ ProgressThread \/ Poll
  \/ \E t \in Tools : \/ MessageHandler(t) \/ Receive(t) \/ ReadInput(t)
                      \/ purge_events(t) \/ lost_connection(t)
                      \/ \E h \in Handles : PMIx_IOF_deregister(t, h)
                      \/ \E j \in Jobs : \/ PMIx_IOF_pull(t, j) \/ stash_spawn_iof_flags(t, j)
                                         \/ pmix_iof_spawn_begin(t, j) \/ pmix_ptl_base_send_recv(t, j)
  \/ \E e \in Ends : pmix_iof_write_handler(e) \/ Background(e) \/ Foreground(e)
  \/ \E j \in Jobs : register_nspace(j) \/ SpawnChild(j) \/ PMIx_server_IOF_deliver(j)
  \/ \E r \in host : HostAnswers(r) \/ HostTakes(r)
  \/ \E xoff \in BOOLEAN : PMIx_server_IOF_flow_control(xoff)

Spec == Init /\ [][Next]_vars

(* What may not be put off for ever: the progress threads and the sockets  *)
(* keep working, and so does a call that has begun; the host answers what  *)
(* it was asked, registers what it starts, hands over its output and       *)
(* resumes what it suspended, and the user what they stopped; both ends of *)
(* a broken connection find out.                                           *)
Due ==
  \/ ProgressThread \/ Poll
  \/ \E t \in Tools : \/ MessageHandler(t) \/ Receive(t) \/ ReadInput(t)
                      \/ ~tools[t].linked /\ purge_events(t)
                      \/ ~peers[t].linked /\ lost_connection(t)
                      \/ \E j \in Jobs : pmix_iof_spawn_begin(t, j) \/ pmix_ptl_base_send_recv(t, j)
  \/ \E e \in Ends : pmix_iof_write_handler(e) \/ Foreground(e)
  \/ \E j \in Jobs : register_nspace(j) \/ PMIx_server_IOF_deliver(j)
  \/ \E r \in host : HostAnswers(r) \/ HostTakes(r)
  \/ PMIx_server_IOF_flow_control(FALSE)

(* The streams are finite, so no step of the system can be repeated for    *)
(* ever and it is enough that some due step is taken while there is one.   *)
Fairness == WF_vars(Due)

FairSpec == Spec /\ Fairness

---------------------------------------------------------------------------
Chunks == [job : Jobs, n : Nat]

(* The state has the shape of the code's structures: requests name a tool  *)
(* and a job, the cache and the list of held output keep their limits, the *)
(* count of spawns in flight is the number of unanswered spawns.           *)
TypeOK ==
  /\ \A i \in Slots : reqs[i] = Free \/ (reqs[i].tool \in Tools /\ reqs[i].job \in Jobs)
  /\ Len(cache) <= scenario.maxcache /\ ToSet(cache) \subseteq Chunks
  /\ \A e \in Ends : Len(term[e].held) <= scenario.limit /\ ToSet(term[e].held) \subseteq Chunks
  /\ \A t \in Tools : tools[t].flying =
       Cardinality({j \in Jobs : Tracked(t, j) /\ jobs[j].call \in {"begun", "sent", "dropped"}})
  /\ input \in [Ends -> [left : Nat, active : BOOLEAN, xoff : BOOLEAN, fg : BOOLEAN, stops : Nat, out : Nat]]

(* The numbers of the chunks of job j in a sequence of written items.      *)
Numbers(items, j) == FlattenSeq([i \in DOMAIN items |-> IF items[i].job = j THEN items[i].ns ELSE << >>])

(* All of job j that terminal e has been given, in the order it will       *)
(* appear.                                                                 *)
Given(e, j) ==
  Numbers(term[e].written \o term[e].outputs, j) \o term[e].residual[j]
    \o [i \in DOMAIN SelectSeq(term[e].held, LAMBDA c : c.job = j) |->
          SelectSeq(term[e].held, LAMBDA c : c.job = j)[i].n]

(* Output appears on a terminal in the order the process wrote it: across  *)
(* the cache of the server, the list held back until the spawn is          *)
(* answered, lines kept until their newline comes, and writes the terminal *)
(* takes only in part.  It appears once, save that of a job that inherited *)
(* both at its first output and when its spawn was answered                *)
(* (pmix_server_iof.c:224 and 814); repeats then follow each other.        *)
ShownInOrder ==
  \A e \in Ends, j \in Jobs :
    LET s == Given(e, j)
    IN  \A i, k \in DOMAIN s : i < k => s[i] < s[k] \/ (jobs[j].doubled /\ s[i] = s[k])

(* A handler is given a chunk once, although a chunk may be cached while   *)
(* the pull is on its way, forwarded while the host considers it, drained  *)
(* from the cache when it is granted, or inherited with the requests on    *)
(* the parent job; again save a job that inherited twice.                  *)
HeardOnce ==
  \A t \in Tools : \A i, k \in DOMAIN tools[t].heard :
    LET a == tools[t].heard[i]
        b == tools[t].heard[k]
    IN  i # k /\ a.job = b.job /\ a.n = b.n => jobs[a.job].doubled

Lost(t) == ~tools[t].linked \/ ~peers[t].linked

(* A spawn was counted as in flight and its request dropped: nothing       *)
(* counts it back out.                                                     *)
Stranded(e) == \E j \in Jobs : e \in Tools /\ Tracked(e, j) /\ jobs[j].call = "dropped"

(* What reached a terminal appears on it, however often the terminal       *)
(* blocks and however the streams are closed, short of the write handler's *)
(* giving up (too long a list, too many tries, a failed write) with no     *)
(* line to come after it.  Two things are kept back for ever: by a tool,   *)
(* an unterminated last line, since its handler (pmix_tool.c:350) does not *)
(* pass on the end marker that flush_residual waits for, or the line the   *)
(* loss of the connection cut short; and what was held for the reply to a  *)
(* spawn whose request was dropped.                                        *)
EverythingShown ==
  \A e \in Ends :
    <>[](\/ term[e].quit
         \/ /\ term[e].outputs = << >>
            /\ term[e].held = << >> \/ Stranded(e)
            /\ \A j \in Jobs : term[e].residual[j] # << >> =>
                 e # SERVER /\ (scenario.chunks[j] \in scenario.part \/ Lost(e)))

(* The end of the input reaches the host, however often it suspended the   *)
(* stream and however often the reader was in the background, unless the   *)
(* tool that reads it is lost or was told that the host failed.            *)
StdinReachesItsEnd ==
  <>(\/ scenario.feeder = NONE \/ 0 \in ToSet(hostin.taken)
     \/ \E t \in Tools : t = scenario.feeder /\ (Lost(t) \/ hostin.failed))
=============================================================================
