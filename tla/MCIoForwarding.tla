-------------------------- MODULE MCIoForwarding --------------------------
(* Instances of IoForwarding for TLC.                                      *)
EXTENDS IoForwarding, TLC

CONSTANTS t1, t2, j1, j2

(* Two jobs, nobody watching.                                              *)
Plain ==
  [spawns |-> {}, directed |-> {}, pulls |-> {}, parent |-> [j \in Jobs |-> NONE], chunks |-> [j \in Jobs |-> 0],
   part |-> {}, local |-> FALSE, badsink |-> {}, maxcache |-> 2, limit |-> 4, maxout |-> 2,
   blocks |-> 0, errors |-> 0, file |-> FALSE, stops |-> 0,
   deregs |-> FALSE, losses |-> {}, refusals |-> FALSE, feeder |-> NONE, lines |-> 0, xoffs |-> 0,
   complete |-> TRUE, paced |-> TRUE]

(* One tool spawns both jobs, and the host may refuse; so it does with     *)
(* directives for one of them only.                                        *)
Spawning(ps) == [Plain EXCEPT !.spawns = ps, !.directed = ps]
TwoSpawns ==
  [Spawning({<<t1, j1>>, <<t1, j2>>}) EXCEPT !.chunks = (j1 :> 1 @@ j2 :> 1), !.refusals = TRUE]
OneDirected == [TwoSpawns EXCEPT !.directed = {<<t1, j1>>}, !.refusals = FALSE]

(* Its terminal blocks and lines come in parts, and the server shows them. *)
SlowTerminal ==
  [Spawning({<<t1, j1>>}) EXCEPT !.chunks = (j1 :> 3 @@ j2 :> 0), !.part = {1, 2},
                                 !.local = TRUE, !.blocks = 2, !.maxout = 1]
Unterminated == [SlowTerminal EXCEPT !.part = {1, 3}, !.blocks = 1]

(* Writes fail; the terminal is a file; the output of a job has nowhere to *)
(* go.                                                                     *)
Failing == [SlowTerminal EXCEPT !.part = {}, !.blocks = 0, !.errors = 1, !.chunks = (j1 :> 2 @@ j2 :> 0)]
Redirected == [Failing EXCEPT !.errors = 0, !.file = TRUE]
NoSink == [Redirected EXCEPT !.badsink = {j1}]

(* The spawned job spawns another, whose output goes to the same tool; the *)
(* same of a job that is pulled, by a handler that then gets both.         *)
Child ==
  [Spawning({<<t1, j1>>}) EXCEPT !.parent = (j1 :> NONE @@ j2 :> j1),
                !.chunks = (j1 :> 1 @@ j2 :> 2)]
PulledChild ==
  [Child EXCEPT !.spawns = {}, !.directed = {}, !.pulls = {<<t1, j1>>}, !.refusals = TRUE,
                !.chunks = (j1 :> 0 @@ j2 :> 2)]

(* Two tools pull the same job, and one of them is lost.                   *)
Pulls ==
  [Plain EXCEPT !.pulls = {<<t1, j1>>, <<t2, j1>>}, !.chunks = (j1 :> 1 @@ j2 :> 0), !.maxcache = 1,
                !.losses = {t2}]

(* One pulls and deregisters, and the host may refuse; so do two, of jobs  *)
(* that write nothing.                                                     *)
Refused ==
  [Plain EXCEPT !.pulls = {<<t1, j1>>}, !.chunks = (j1 :> 2 @@ j2 :> 0), !.maxcache = 1,
                !.deregs = TRUE, !.refusals = TRUE]
Contended == [Refused EXCEPT !.pulls = {<<t1, j1>>, <<t2, j2>>}, !.chunks = [j \in Jobs |-> 0]]

(* A tool is lost while it spawns two jobs.                                *)
SpawnLost == [TwoSpawns EXCEPT !.losses = {t1}, !.chunks = (j1 :> 1 @@ j2 :> 0), !.refusals = FALSE]

(* Standard input of a tool, and of the server.                            *)
Feeding == [Plain EXCEPT !.feeder = t1, !.lines = 3, !.xoffs = 2]
FeedingFreely == [Feeding EXCEPT !.paced = FALSE]
FeedingLost == [FeedingFreely EXCEPT !.losses = {t1}, !.xoffs = 1]
OwnInput == [Plain EXCEPT !.feeder = SERVER, !.lines = 3, !.xoffs = 2, !.complete = FALSE]
OwnInputFreely == [OwnInput EXCEPT !.paced = FALSE]
Stopped(s) == [s EXCEPT !.stops = 1, !.xoffs = 1, !.refusals = TRUE]

Everything == {TwoSpawns, OneDirected, SlowTerminal, Unterminated, Failing, Redirected, NoSink, Child,
               PulledChild, Pulls, Refused, Contended, SpawnLost, Feeding, FeedingFreely, FeedingLost, OwnInput,
               OwnInputFreely, Stopped(Feeding), Stopped(FeedingFreely), Stopped(OwnInput),
               Stopped(OwnInputFreely)}

(* A job spawned by a tool that may hold next to nothing.                  *)
Overflow == {[TwoSpawns EXCEPT !.chunks = (j1 :> 2 @@ j2 :> 0), !.limit = 1, !.refusals = FALSE]}
=============================================================================
