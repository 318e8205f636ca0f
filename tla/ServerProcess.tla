-------------------- MODULE ServerProcess --------------------
(***************************************************************************)
(* What the services of one server process share: the threads that handle  *)
(* its requests (greenlets under gunicorn, real threads under flask run),  *)
(* and what a fork may have left in the variables of their modules.        *)
(***************************************************************************)
EXTENDS FiniteSets, Naturals

\* Every thread handles one request.  Nobody is None, and owns a free lock.
CONSTANTS Nobody, Threads

ASSUME NobodyAssumption == Nobody \notin Threads

ASSUME ThreadsAssumption == IsFiniteSet(Threads)

\* The _pid of a service: never set, set before the fork, set in this process.
Pids == {"none", "parent", "own"}

\* What a variable still holds that the parent process had set before the fork.
Inherited == "inherited"

ASSUME InheritedAssumption == Inherited \notin Threads \cup {Nobody}
==============================================================
