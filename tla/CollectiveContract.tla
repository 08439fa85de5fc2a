------------------------ MODULE CollectiveContract ------------------------
(***************************************************************************)
(* What the server promises to the clients that call a collective.  A call *)
(* joins the one instance of its operation that is open, or opens it.  An  *)
(* instance closes once and is given one outcome; that outcome is the      *)
(* answer to everyone who joined it and to nobody else, and a call that is *)
(* refused on the spot gets the outcome its instance is closed with.       *)
(***************************************************************************)
CONSTANTS
  Inst,     \* instances of collective operations
  Calls,    \* the calls of the clients
  Keys,     \* what identifies an operation: its type and participants
  Outcomes, \* the statuses that a caller can be answered
  NoKey, Undecided

VARIABLES
  inst,     \* inst[i]: the state of an instance
  call,     \* call[c]: "new", "parked" in an instance, or "answered"
  result    \* result[c]: the answer to call c

InstType == [phase : {"unborn", "open", "closed", "done"}, key : Keys \cup {NoKey},
             joined : SUBSET Calls, outcome : Outcomes \cup {Undecided}]

Init ==
  /\ inst = [i \in Inst |-> [phase |-> "unborn", key |-> NoKey, joined |-> {},
                             outcome |-> Undecided]]
  /\ call = [c \in Calls |-> "new"]
  /\ result = [c \in Calls |-> "NONE"]

\* The instance that a call for operation k joins.
Admits(i, k) ==
  \/ inst[i].phase = "open" /\ inst[i].key = k
  \/ /\ inst[i].phase = "unborn"
     /\ \A j \in Inst : ~(inst[j].phase = "open" /\ inst[j].key = k)

\* An outcome is decided only for a closed instance.
Phases(o) == IF o = Undecided THEN {"open", "closed"} ELSE {"closed"}

\* Call c joins an instance, which it may complete.
Join(c, i, k) ==
  /\ call[c] = "new"
  /\ Admits(i, k)
  /\ \E o \in Outcomes \cup {Undecided} : \E ph \in Phases(o) :
       inst' = [inst EXCEPT ![i] = [phase |-> ph, key |-> k,
                                    joined |-> @.joined \cup {c}, outcome |-> o]]
  /\ call' = [call EXCEPT ![c] = "parked"]
  /\ UNCHANGED result

\* Call c completes an instance that fails: it is refused with the common outcome.
Refuse(c, i, k) ==
  /\ call[c] = "new"
  /\ Admits(i, k)
  /\ \E o \in Outcomes :
       /\ inst' = [inst EXCEPT ![i] = [phase |-> "closed", key |-> k,
                                       joined |-> @.joined, outcome |-> o]]
       /\ result' = [result EXCEPT ![c] = o]
  /\ call' = [call EXCEPT ![c] = "answered"]

\* Instances close, or are decided, for a reason other than a call: a lost client may
\* end several at once.
Close ==
  /\ inst' \in [Inst -> InstType]
  /\ \A i \in Inst : inst'[i] # inst[i] =>
       /\ inst[i].phase \in {"open", "closed"}
       /\ inst[i].outcome = Undecided
       /\ inst'[i] = [inst[i] EXCEPT !.phase = "closed", !.outcome = inst'[i].outcome]
  /\ UNCHANGED <<call, result>>

\* Everyone who joined is answered with the outcome, and the instance is over.
Deliver(i) ==
  /\ inst[i].phase = "closed"
  /\ inst[i].outcome # Undecided
  /\ inst' = [inst EXCEPT ![i] = [@ EXCEPT !.phase = "done", !.joined = {},
                                           !.outcome = Undecided]]
  /\ call' = [c \in Calls |-> IF c \in inst[i].joined THEN "answered" ELSE call[c]]
  /\ result' = [c \in Calls |-> IF c \in inst[i].joined THEN inst[i].outcome
                                ELSE result[c]]

Next ==
  \/ \E c \in Calls, i \in Inst, k \in Keys : Join(c, i, k) \/ Refuse(c, i, k)
  \/ Close
  \/ \E i \in Inst : Deliver(i)

Spec == Init /\ [][Next]_<<inst, call, result>>
=============================================================================
