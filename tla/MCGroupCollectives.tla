------------------------- MODULE MCGroupCollectives -------------------------
(* Instances of GroupCollectives for TLC.                                  *)
EXTENDS GroupCollectives

CONSTANTS p1, p2, p3, p4

Calm ==
  [bootstrap |-> FALSE, wildcard |-> FALSE, registered |-> TRUE, losses |-> 0,
   leaves |-> 0, rejoin |-> FALSE, directives |-> {{}}, returns |-> {"SUCCESS"},
   mismatch |-> FALSE]

AllReturns == {"SUCCESS", "OPERATION_SUCCEEDED", "ERROR"}

\* A member dies at any point of a construct or a destruct, by rank or by wildcard, with and
\* without the failure directives; the host refuses or completes at once; the directives do
\* not aggregate; members leave; every call carries a timeout; the clients are registered
\* late; the members bootstrap.
Everything ==
  {[Calm EXCEPT !.losses = 2, !.directives = {{}, {"FT_COLLECTIVE"}}],
   [Calm EXCEPT !.losses = 1, !.directives = {{}, {"FT_COLLECTIVE", "NOTIFY_TERMINATION"}},
                !.wildcard = TRUE],
   [Calm EXCEPT !.returns = AllReturns, !.mismatch = TRUE],
   [Calm EXCEPT !.losses = 1, !.leaves = 1, !.directives = {{"FT_COLLECTIVE"}}],
   [Calm EXCEPT !.registered = FALSE, !.losses = 1, !.leaves = 1,
                !.directives = {{"TIMEOUT"}}],
   [Calm EXCEPT !.bootstrap = TRUE, !.returns = {"SUCCESS", "ERROR"}, !.losses = 1]}

\* A member that left constructs again while the others are still busy.
Rejoin == {[Calm EXCEPT !.leaves = 1, !.rejoin = TRUE, !.directives = {{"TIMEOUT"}}]}

\* Inputs outside the hypothesis of the theorems.  Of four members one leaves, and dies
\* while the others use the group; the same with directives that do not aggregate; such
\* directives with a timer; a bootstrap call that the host completes at once.
LeftDies == {[Calm EXCEPT !.losses = 1, !.leaves = 1, !.directives = {{"TIMEOUT", "FT_COLLECTIVE"}}]}
LeftDiesMismatch == {[Calm EXCEPT !.losses = 1, !.leaves = 1, !.mismatch = TRUE]}
MismatchTimed == {[Calm EXCEPT !.mismatch = TRUE, !.directives = {{"TIMEOUT"}}]}
BootstrapAtOnce == {[Calm EXCEPT !.bootstrap = TRUE, !.returns = {"SUCCESS", "OPERATION_SUCCEEDED"}]}
=============================================================================
