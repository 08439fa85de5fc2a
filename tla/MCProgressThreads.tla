-------------------------- MODULE MCProgressThreads --------------------------
(* Instances of ProgressThreads: the library-wide thread with an engine and  *)
(* with a host that steps the base, and a thread of a component that is      *)
(* initialized twice.                                                        *)
EXTENDS ProgressThreads

CONSTANTS u1, u2

Plain == [shared |-> TRUE, external |-> FALSE, drivers |-> {}, refs |-> 1,
          fails |-> {}, apart |-> TRUE]

Engine == {[Plain EXCEPT !.fails = {"create", "bind"}]}
HostStepsLater == {[Plain EXCEPT !.drivers = {u2}]}
External == {[Plain EXCEPT !.external = TRUE, !.drivers = d] : d \in {{MAIN}, {u2}}}
Named == {[Plain EXCEPT !.shared = FALSE, !.refs = 2, !.fails = {"create", "bind"}]}

Everything == Engine \cup HostStepsLater \cup External \cup Named

TwoSteppers == {[Plain EXCEPT !.external = TRUE, !.drivers = {u1, u2}, !.apart = FALSE]}
=============================================================================
