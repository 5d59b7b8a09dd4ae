------------------------------ MODULE MCTails ------------------------------
(***************************************************************************)
(* Values for the constants of TailAdapters.                               *)
(***************************************************************************)
EXTENDS TailAdapters

-----------------------------------------------------------------------------
(***************************************************************************)
(* The situations of the file adapter.                                     *)
(***************************************************************************)
\* One file that is rotated and whose reads may fail, found while running.
Rotating ==
  [Backfill |-> FALSE, Follow |-> TRUE, SerializeFiles |-> FALSE, Inactivity |-> FALSE,
   files |-> {1}, tails |-> {1, 2, 3}, present |-> FALSE,
   gens |-> 2, lines |-> 1, removed |-> FALSE, mayFail |-> TRUE]

\* One file that falls idle, is closed, and is written again or removed.
Idling ==
  [Backfill |-> TRUE, Follow |-> TRUE, SerializeFiles |-> FALSE, Inactivity |-> TRUE,
   files |-> {1}, tails |-> {1, 2, 3}, present |-> FALSE,
   gens |-> 1, lines |-> 1, removed |-> TRUE, mayFail |-> FALSE]

\* One file that grows while it is read.
Growing ==
  [Backfill |-> TRUE, Follow |-> TRUE, SerializeFiles |-> FALSE, Inactivity |-> FALSE,
   files |-> {1}, tails |-> {1, 2, 3}, present |-> TRUE,
   gens |-> 1, lines |-> 2, removed |-> FALSE, mayFail |-> FALSE]

\* Two files read one after the other, with serialize_files and no_follow.
Serial ==
  [Backfill |-> TRUE, Follow |-> FALSE, SerializeFiles |-> TRUE, Inactivity |-> FALSE,
   files |-> {1, 2}, tails |-> {1, 2, 3, 4}, present |-> TRUE,
   gens |-> 1, lines |-> 1, removed |-> FALSE, mayFail |-> FALSE]

MCTailConfs == {Rotating, Idling, Growing, Serial}
MCIdling == {Idling}

-----------------------------------------------------------------------------
(***************************************************************************)
(* The situations of k8s_pods.                                             *)
(***************************************************************************)
\* A container whose log cycles; a pod that was there before the adapter; two containers
\* without lines; something is created while the watchers start; everything may be
\* removed, and Ship and tails may fail; a pod that is filtered out beside one that is not.
K8sBase ==
  [present |-> {}, pods |-> {1}, containers |-> {1}, podOf |-> [c \in Containers |-> 1],
   ignored |-> {}, logs |-> 2, lines |-> 1,
   Removes |-> FALSE, Races |-> FALSE, Ships |-> TRUE]
MCK8sConfs ==
  {K8sBase,
   [K8sBase EXCEPT !.present = {1}, !.logs = 1],
   [K8sBase EXCEPT !.containers = {1, 2}, !.logs = 1, !.lines = 0],
   [K8sBase EXCEPT !.Races = TRUE, !.logs = 1, !.lines = 0],
   [K8sBase EXCEPT !.Removes = TRUE, !.Ships = FALSE, !.logs = 1],
   [K8sBase EXCEPT !.pods = {1, 2}, !.ignored = {2}, !.containers = {1, 2}, !.podOf = [c \in Containers |-> c],
                   !.logs = 1]}
=============================================================================
