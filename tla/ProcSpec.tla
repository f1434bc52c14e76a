------------------------------- MODULE ProcSpec -------------------------------
(***************************************************************************)
(* What the process layer promises user programs (spec.md sections 4.4   *)
(* and 4.6), with no process table, structs, locks or wait channels.     *)
(*                                                                         *)
(*  - A running process may fork a child onto a free pid; the child runs  *)
(*    and names the forking process as its parent.                        *)
(*  - A running process may _exit; it becomes a zombie whose status holds *)
(*    the low 8 bits of its exit code.                                    *)
(*  - A running process may reap a zombie that is its own child; the pid  *)
(*    becomes free and the zombie's children become orphans.              *)
(*                                                                         *)
(* Nothing else changes a process: a failed fork, a wait that returns     *)
(* without reaping and the steps inside a call are stuttering steps.      *)
(***************************************************************************)
EXTENDS Integers

CONSTANTS
  PROC_MAX,   \* pids are 1..PROC_MAX
  ExitCodes,  \* exit codes user programs pass to _exit
  NoParent    \* parent_pid of an orphan

Pids == 1..PROC_MAX
States == {"free", "run", "zombie"}

VARIABLES
  state,  \* what each pid currently names
  par,    \* the parent of each process, or NoParent
  st      \* the status a zombie hands to its reaper

avars == <<state, par, st>>

\* Pid 1 is the first user program, started by the kernel with no parent.
Init ==
  /\ state = [i \in Pids |-> IF i = 1 THEN "run" ELSE "free"]
  /\ par = [i \in Pids |-> NoParent]
  /\ st = [i \in Pids |-> 0]

Spawn(p, c) ==
  /\ state[p] = "run"
  /\ state[c] = "free"
  /\ state' = [state EXCEPT ![c] = "run"]
  /\ par' = [par EXCEPT ![c] = p]
  /\ UNCHANGED st

Exit(p, code) ==
  /\ state[p] = "run"
  /\ state' = [state EXCEPT ![p] = "zombie"]
  /\ st' = [st EXCEPT ![p] = code % 256]
  /\ UNCHANGED par

\* The reaped zombie's children lose their parent; every other process keeps its own.
Orphaned(c) == [g \in Pids |-> IF g = c \/ par[g] = c THEN NoParent ELSE par[g]]

Reap(p, c) ==
  /\ state[p] = "run"
  /\ state[c] = "zombie"
  /\ par[c] = p
  /\ state' = [state EXCEPT ![c] = "free"]
  /\ par' = Orphaned(c)
  /\ st' = [st EXCEPT ![c] = 0]

Next ==
  \E p, c \in Pids :
    \/ Spawn(p, c)
    \/ Reap(p, c)
    \/ \E code \in ExitCodes : Exit(p, code)

Spec == Init /\ [][Next]_avars

=============================================================================
