-------------------------- MODULE GroupCollectives --------------------------
(***************************************************************************)
(* Group construct and destruct in the PMIx server.  The calls the local   *)
(* members make for one group identifier collect on a block.  The block is *)
(* frozen and handed to the host when every local member has contributed   *)
(* or departed; its completion is thread-shifted and answers every caller. *)
(* A bootstrap call gets a block of its own and goes up by itself.         *)
(*                                                                         *)
(* Handlers run on the progress thread, so each is one action.  What they  *)
(* thread-shift waits on `shifted`, in order.                              *)
(***************************************************************************)
EXTENDS Naturals, FiniteSets, Sequences

CONSTANTS
  Procs,      \* the local members of the group
  Scenarios,  \* what may happen in a behaviour; one is chosen at the start
  MaxCalls,   \* bound: how many construct calls a member makes
  MaxBlk      \* bound: how many blocks exist at once

\* bootstrap: members call with PMIX_GROUP_BOOTSTRAP or without a member list.
\* wildcard: the construct names the namespace, not its ranks.
\* registered: the host registered every client before the first call.
\* losses, leaves: how many members may die, may leave the group.
\* rejoin: one that left may construct again while others are still busy.
\* directives: the directive sets a call may carry.  returns: the host's returns.
\* mismatch: the members' directives may fail to aggregate.
ScenarioType ==
  [bootstrap : BOOLEAN, wildcard : BOOLEAN, registered : BOOLEAN,
   losses : Nat, leaves : Nat, rejoin : BOOLEAN,
   directives : SUBSET SUBSET {"FT_COLLECTIVE", "NOTIFY_TERMINATION", "TIMEOUT"},
   returns : SUBSET {"SUCCESS", "OPERATION_SUCCEEDED", "ERROR"}, mismatch : BOOLEAN]

ASSUME GroupAssumption ==
  /\ IsFiniteSet(Procs) /\ Procs # {}
  /\ \A s \in Scenarios : s \in ScenarioType
  /\ MaxCalls \in Nat /\ MaxBlk \in Nat

VARIABLES
  scenario,     \* the member of Scenarios this behaviour is about
  registered,   \* the namespace's all_registered, nlocalprocs being known
  nlocalprocs,  \* the namespace's count of local processes
  blk,          \* blk[b]: the grp_block_t
  shifted,      \* the completions that grpcbfunc thread-shifted
  host,         \* the blocks whose callback the host still has to make
  member,       \* member[p]: "out" of the group, "in" it, "left" it
  alive,        \* the members whose connection stands
  parked,       \* the members waiting for an answer
  calls,        \* calls[p]: the construct calls p has made
  membership,   \* the members a destruct names, as far as the callers know
  told          \* what the last completion told: its status and lost members

vars == <<scenario, registered, nlocalprocs, blk, shifted, host, member,
          alive, parked, calls, membership, told>>

Blk == 1..MaxBlk
Status == {"SUCCESS", "ERROR", "TIMEOUT", "CONSTRUCT_ABORT", "MISMATCH"}
Directives == {"FT_COLLECTIVE", "NOTIFY_TERMINATION", "TIMEOUT"}

\* linked: on grp_collectives.  expected: the members its signature names.  info: the
\* directives given.  status: the PMIX_LOCAL_COLLECTIVE_STATUS the host is shown.
\* since: the members that could still call when the block was opened, not kept by the code.
BlockType ==
  [linked : BOOLEAN, grpop : {"NONE", "CONSTRUCT", "DESTRUCT"},
   event_active : BOOLEAN, expected : SUBSET Procs, mbrs : SUBSET Procs,
   departed : SUBSET Procs, info : SUBSET Directives,
   status : {"SUCCESS", "LOST_CONNECTION"}, host_called : BOOLEAN,
   def_complete : BOOLEAN, nlocal : Nat, since : SUBSET Procs]

\* Every variable holds a value of the C type it models.
TypeOK ==
  /\ scenario \in Scenarios
  /\ registered \in BOOLEAN /\ nlocalprocs \in 0..Cardinality(Procs)
  /\ blk \in [Blk -> BlockType]
  /\ shifted \in Seq([blk : Blk, status : Status])
  /\ host \subseteq Blk
  /\ member \in [Procs -> {"out", "in", "left"}]
  /\ alive \subseteq Procs /\ parked \subseteq Procs /\ membership \subseteq Procs
  /\ calls \in [Procs -> 0..MaxCalls]
  /\ told \in [op : {"NONE", "CONSTRUCT", "DESTRUCT"}, status : Status,
               shown : {"SUCCESS", "LOST_CONNECTION"},
               missing : SUBSET Procs, events : SUBSET Procs]

Unused ==
  [linked |-> FALSE, grpop |-> "NONE", event_active |-> FALSE, expected |-> {},
   mbrs |-> {}, departed |-> {}, info |-> {}, status |-> "SUCCESS",
   host_called |-> FALSE, def_complete |-> FALSE, nlocal |-> 0, since |-> {}]

Init ==
  /\ scenario \in Scenarios
  /\ registered = scenario.registered
  /\ nlocalprocs = Cardinality(Procs)
  /\ blk = [b \in Blk |-> Unused]
  /\ shifted = <<>> /\ host = {}
  /\ member = [p \in Procs |-> "out"]
  /\ alive = Procs /\ parked = {} /\ calls = [p \in Procs |-> 0]
  /\ membership = {}
  /\ told = [op |-> "NONE", status |-> "SUCCESS", shown |-> "SUCCESS",
             missing |-> {}, events |-> {}]

-----------------------------------------------------------------------------
(* Blocks.                                                                 *)

Linked == {b \in Blk : blk[b].linked}

\* The completion of b has been shifted, or the host owes it.
Coming(b) == b \in host \/ \E i \in DOMAIN shifted : shifted[i].blk = b

\* PMIX_NEW: a block that nothing refers to.
Fresh == {b \in Blk : ~blk[b].linked /\ ~Coming(b)}

\* The count is over the lists of all the calls on the block, so a definition that
\* completes at the k-th call counts every member k times.
check_definition_complete(B, wildcard) ==
  IF B.def_complete \/ ~registered THEN B
  ELSE [B EXCEPT !.def_complete = TRUE,
                 !.nlocal = Cardinality(B.mbrs)
                            * IF wildcard THEN nlocalprocs ELSE Cardinality(B.expected)]

\* Mutant: one short of everybody.
grp_blk_locally_complete_short(B) ==
  B.def_complete /\ Cardinality(B.mbrs) + Cardinality(B.departed) + 1 >= B.nlocal

grp_blk_locally_complete(B) ==
  B.def_complete /\ Cardinality(B.mbrs) + Cardinality(B.departed) >= B.nlocal

\* The members that can still be expected to call.
Able == {p \in alive : member[p] # "left"}

Join(B, p, procs, wildcard) ==
  check_definition_complete([B EXCEPT !.linked = TRUE, !.mbrs = @ \cup {p},
                                      !.expected = @ \cup procs,
                                      !.since = IF B.linked THEN @ ELSE Able], wildcard)

\* Mutant: the timer is left running when the local phase ends.
FrozenTimed(B) == [B EXCEPT !.host_called = TRUE]

Frozen(B) == [B EXCEPT !.event_active = FALSE, !.host_called = TRUE]

Shift(b, st) == shifted' = Append(shifted, [blk |-> b, status |-> st])

\* abort_construct: answer the callers directly.  The PMIX_GROUP_CANCEL it sends up
\* asks nothing back.
abort_construct(b, B, st) ==
  /\ blk' = [blk EXCEPT ![b] = Frozen(B)]
  /\ Shift(b, st)
  /\ UNCHANGED host

\* The local phase of block b, now with value B, is complete: combine the members'
\* directives, settle what a departure means for them, and pass the block up.
Forward(b, B) ==
  LET degraded == B.departed # {}
      excused == B.grpop = "DESTRUCT" /\ "NOTIFY_TERMINATION" \in B.info
      up == [Frozen(B) EXCEPT !.status =
               IF degraded /\ ~excused THEN "LOST_CONNECTION" ELSE @]
  IN \/ /\ scenario.mismatch
        /\ blk' = [blk EXCEPT ![b] = B]
        /\ Shift(b, "MISMATCH")
        /\ UNCHANGED host
     \/ /\ degraded /\ B.grpop = "CONSTRUCT" /\ "FT_COLLECTIVE" \notin B.info
        /\ abort_construct(b, B, "CONSTRUCT_ABORT")
     \/ /\ ~(degraded /\ B.grpop = "CONSTRUCT" /\ "FT_COLLECTIVE" \notin B.info)
        /\ blk' = [blk EXCEPT ![b] = up]
        /\ \E r \in scenario.returns :
             \/ r = "SUCCESS" /\ host' = host \cup {b} /\ UNCHANGED shifted
             \/ r = "OPERATION_SUCCEEDED" /\ Shift(b, "SUCCESS") /\ UNCHANGED host
             \/ r = "ERROR" /\ Shift(b, "ERROR") /\ UNCHANGED host

-----------------------------------------------------------------------------
(* The calls of the members.                                               *)

MayCall(p) ==
  /\ p \in alive \ parked
  /\ member[p] = "in" \/ calls[p] < MaxCalls
  /\ member[p] = "left" => scenario.rejoin

\* pmix_server_group for a member that names the others.  A block is joined by its
\* identifier alone, frozen or not.
pmix_server_group(p) ==
  /\ ~scenario.bootstrap /\ MayCall(p)
  /\ \E info \in scenario.directives :
     \E b \in IF Linked = {} THEN Fresh ELSE Linked :
       LET op == IF member[p] = "in" THEN "DESTRUCT" ELSE "CONSTRUCT"
           procs == IF op = "CONSTRUCT" THEN Procs ELSE membership
           joined == Join(blk[b], p, procs, op = "CONSTRUCT" /\ scenario.wildcard)
           B == [joined EXCEPT !.grpop = op, !.info = @ \cup info,
                               !.event_active = @ \/ "TIMEOUT" \in info]
       IN \/ /\ B.host_called \/ ~grp_blk_locally_complete(B)
             /\ blk' = [blk EXCEPT ![b] = B]
             /\ UNCHANGED <<shifted, host>>
          \/ ~B.host_called /\ grp_blk_locally_complete(B) /\ Forward(b, B)
  /\ parked' = parked \cup {p}
  /\ calls' = IF member[p] = "in" THEN calls ELSE [calls EXCEPT ![p] = @ + 1]
  /\ UNCHANGED <<scenario, registered, nlocalprocs, member, alive, membership, told>>

\* pmix_server_group for a bootstrap leader or for a follower, which names nobody.
pmix_server_group_bootstrap(p) ==
  /\ scenario.bootstrap /\ MayCall(p) /\ member[p] = "out"
  /\ \E b \in Fresh :
     LET B == [Unused EXCEPT !.linked = TRUE, !.grpop = "CONSTRUCT", !.mbrs = {p},
                             !.expected = {p}, !.def_complete = TRUE, !.since = {p}]
     IN \E r \in scenario.returns :
          /\ blk' = [blk EXCEPT ![b] = IF r = "ERROR" THEN Unused ELSE B]
          /\ host' = IF r = "SUCCESS" THEN host \cup {b} ELSE host
          /\ IF r = "OPERATION_SUCCEEDED" THEN Shift(b, "SUCCESS") ELSE UNCHANGED shifted
          /\ parked' = IF r = "ERROR" THEN parked ELSE parked \cup {p}
  /\ calls' = [calls EXCEPT ![p] = @ + 1]
  /\ UNCHANGED <<scenario, registered, nlocalprocs, member, alive, membership, told>>

-----------------------------------------------------------------------------
(* Departures and timers.                                                  *)

\* p departs from block b: recorded only while the block still waits for p.
account_departed(b, p) ==
  LET skip == blk[b].nlocal = 0 \/ blk[b].host_called
      B == [blk[b] EXCEPT !.departed = @ \cup {p}]
  IN \/ /\ skip \/ p \notin blk[b].expected \/ p \in blk[b].mbrs
        /\ UNCHANGED <<blk, shifted, host>>
     \/ /\ ~skip /\ p \in blk[b].expected \ blk[b].mbrs
        /\ \/ /\ ~grp_blk_locally_complete(B)
              /\ blk' = [blk EXCEPT ![b] = B]
              /\ UNCHANGED <<shifted, host>>
           \/ grp_blk_locally_complete(B) /\ Forward(b, B)

\* The blocks of a bootstrap are never waiting, and otherwise there is one at most.
Depart(p) ==
  \/ /\ Linked = {} \/ scenario.bootstrap
     /\ UNCHANGED <<blk, shifted, host>>
  \/ /\ ~scenario.bootstrap
     /\ \E b \in Linked : account_departed(b, p)

\* Mutant: a lost member is taken off the count but its blocks are not looked at.
peer_lost_uncounted(p) ==
  /\ p \in alive
  /\ Cardinality(Procs \ alive) < scenario.losses
  /\ alive' = alive \ {p} /\ parked' = parked \ {p}
  /\ nlocalprocs' = IF nlocalprocs > 0 THEN nlocalprocs - 1 ELSE 0
  /\ UNCHANGED <<scenario, registered, blk, shifted, host, member, calls, membership, told>>

\* A member dies: pmix_server_grp_peer_lost, then the count of local processes.
pmix_server_grp_peer_lost(p) ==
  /\ p \in alive
  /\ Cardinality(Procs \ alive) < scenario.losses
  /\ Depart(p)
  /\ alive' = alive \ {p} /\ parked' = parked \ {p}
  /\ nlocalprocs' = IF nlocalprocs > 0 THEN nlocalprocs - 1 ELSE 0
  /\ UNCHANGED <<scenario, registered, member, calls, membership, told>>

\* A member leaves: its PMIX_GROUP_LEFT event reaches the server.  The others may or may
\* not have seen it when they next name the members.
pmix_server_grp_member_left(p) ==
  /\ p \in alive \ parked /\ member[p] = "in"
  /\ Cardinality({q \in Procs : member[q] = "left"}) < scenario.leaves
  /\ Depart(p)
  /\ member' = [member EXCEPT ![p] = "left"]
  /\ membership' \in {membership, membership \ {p}}
  /\ UNCHANGED <<scenario, registered, nlocalprocs, alive, parked, calls, told>>

\* The local-phase timer expires.  A timer armed behind a shifted completion is at least
\* a second away and the completion is already due, so it never comes first.
group_timeout(b) ==
  /\ b \in Linked /\ blk[b].event_active
  /\ ~(blk[b].host_called /\ \E i \in DOMAIN shifted : shifted[i].blk = b)
  /\ abort_construct(b, blk[b], "TIMEOUT")
  /\ UNCHANGED <<scenario, registered, nlocalprocs, member, alive, parked,
                 calls, membership, told>>

-----------------------------------------------------------------------------
(* Completion.                                                             *)

\* The host calls back (external).  It answers the calls of a bootstrap once, together,
\* when every member alive has called.
HostCallback(b, st) ==
  /\ b \in host
  /\ scenario.bootstrap => \A p \in alive : p \in parked \/ calls[p] = MaxCalls
  /\ host' = IF scenario.bootstrap THEN {} ELSE host \ {b}
  /\ Shift(b, st)
  /\ UNCHANGED <<scenario, registered, nlocalprocs, blk, member, alive, parked,
                 calls, membership, told>>

\* _grpcbfunc: every caller on every block of this identifier is answered, survivors are
\* told of the members lost, and the blocks go.
grpcbfunc ==
  /\ shifted # <<>>
  /\ LET done == Head(shifted)
         B == blk[done.blk]
         answered == UNION {blk[b].mbrs : b \in Linked}
         ok == done.status = "SUCCESS"
         lost == UNION {blk[b].departed : b \in Linked}
         notify == ok /\ \/ B.grpop = "CONSTRUCT"
                         \/ B.grpop = "DESTRUCT" /\ "NOTIFY_TERMINATION" \in B.info
     IN /\ parked' = parked \ answered
        /\ member' = [p \in Procs |->
             IF p \notin answered THEN member[p]
             ELSE IF ok /\ B.grpop = "CONSTRUCT" THEN "in" ELSE "out"]
        /\ membership' = IF ok /\ B.grpop = "CONSTRUCT" THEN answered ELSE membership
        /\ told' = [op |-> B.grpop, status |-> done.status, shown |-> B.status,
                    missing |-> (B.expected \cap B.since) \ answered,
                    events |-> IF notify THEN lost ELSE {}]
  /\ blk' = [b \in Blk |-> Unused]
  /\ shifted' = Tail(shifted)
  /\ UNCHANGED <<scenario, registered, nlocalprocs, host, alive, calls>>

\* The host registers the namespace and the last of its clients.  Nothing in the server
\* looks at the group blocks again when that happens.
Register ==
  /\ ~registered /\ registered' = TRUE
  /\ UNCHANGED <<scenario, nlocalprocs, blk, shifted, host, member, alive,
                 parked, calls, membership, told>>

Next ==
  \/ \E p \in Procs : \/ pmix_server_group(p) \/ pmix_server_group_bootstrap(p)
                      \/ pmix_server_grp_peer_lost(p) \/ pmix_server_grp_member_left(p)
  \/ \E b \in Blk : group_timeout(b) \/ HostCallback(b, "SUCCESS") \/ HostCallback(b, "ERROR")
  \/ grpcbfunc
  \/ Register

Spec == Init /\ [][Next]_vars

\* Members that have started an operation go on to finish it, the host calls back, the
\* event loop runs its shifted handlers, and a timer that is due expires.
FairSpec ==
  /\ Spec
  /\ \A p \in Procs : WF_vars(pmix_server_group(p)) /\ WF_vars(pmix_server_group_bootstrap(p))
  /\ \A b \in Blk : /\ WF_vars(group_timeout(b))
                    /\ WF_vars(HostCallback(b, "SUCCESS") \/ HostCallback(b, "ERROR"))
  /\ WF_vars(grpcbfunc)

-----------------------------------------------------------------------------
(* Properties.                                                             *)

\* A completion, shifted or still owed by the host, is for a block that is on the list:
\* _grpcbfunc reads the block it is handed, and no earlier completion, timer or departure
\* may have released it.
BlockOutlivesItsCompletions == \A b \in Blk : Coming(b) => blk[b].linked

\* The host is handed a block only when each member it names, alive when the block was
\* opened, has contributed itself or has really departed, counted by identity.
NeverEarly ==
  \A b \in host : \A p \in blk[b].expected \cap blk[b].since :
    p \in blk[b].mbrs \/ p \notin alive \/ member[p] = "left"

\* p waits on a block that has a timer, or that was defined at once and counts only members
\* that could still call when it was opened.
Owed(p) ==
  p \in parked /\ \E b \in Linked :
    /\ p \in blk[b].mbrs
    /\ \/ blk[b].event_active
       \/ blk[b].def_complete /\ blk[b].nlocal <= Cardinality(blk[b].expected \cap blk[b].since)

\* Such a caller is answered: by the last member's call, because the members that will not
\* call are lost or leave, or by the timer.
EveryCallerAnswered == \A p \in Procs : Owed(p) ~> p \notin parked
=============================================================================
