------------------------------ MODULE Runtime ------------------------------
(***************************************************************************)
(* The runtime's list of workers (runtime.rs, ops/branch.rs): spawned tasks *)
(* link a PulseWorker into it and unlink it when they end, and dropping the *)
(* runtime interrupts all workers and runs Driver::exit, in rounds, until   *)
(* none is left.  The list is intrusive: its nodes live on the stacks of    *)
(* the tasks, so a node that outlives its worker is a dangling pointer.     *)
(* Interrupting a task may run it, and others through it, at once.          *)
(***************************************************************************)
EXTENDS Integers, Sequences, Functions

CONSTANTS
  Workers   \* bound: workers that are ever spawned

VARIABLES
  workers,      \* Runtime::workers
  list,         \* local list of drop()
  alive,        \* workers whose PulseWorker exists
  spawned,      \* workers that were spawned
  notified,     \* workers that drop() interrupted in this round
  old,          \* workers that were alive when this round began
  pc            \* see Pcs

runtimeVars == <<workers, list, alive, spawned, notified, old, pc>>

(* "run": before drop(); "round": at the top of its loop; "interrupt": in   *)
(* its inner loop; "callback": tasks run in Context::interrupt; "exit": in  *)
(* Driver::exit; "dropped": drop() returned.                                *)
Pcs == {"run", "round", "interrupt", "callback", "exit", "dropped"}

RuntimeInit ==
  /\ workers = <<>> /\ list = <<>>
  /\ alive = {} /\ spawned = {} /\ notified = {} /\ old = {}
  /\ pc = "run"

TasksRun == pc \in {"run", "callback", "exit"}

(* spawn_entry() of a new task: it appends its node. *)
Spawn(w) ==
  /\ TasksRun
  /\ w \notin spawned
  /\ spawned' = spawned \cup {w}
  /\ alive' = alive \cup {w}
  /\ workers' = Append(workers, w)
  /\ UNCHANGED <<list, notified, old, pc>>

(* Node::unlink_unchecked, whichever list the node is in. *)
Unlink(s, w) ==
  LET at == {i \in DOMAIN s : s[i] = w}
      i == CHOOSE j \in at : TRUE
  IN  IF at = {} THEN s ELSE SubSeq(s, 1, i - 1) \o SubSeq(s, i + 1, Len(s))

(* Mutant: the node is unlinked from the runtime's list only. *)
WorkerEndsInPlace(w) ==
  /\ TasksRun
  /\ w \in alive
  /\ alive' = alive \ {w}
  /\ workers' = Unlink(workers, w)
  /\ UNCHANGED <<list, spawned, notified, old, pc>>

(* Mutant: the node is not unlinked. *)
WorkerEndsLinked(w) ==
  /\ TasksRun
  /\ w \in alive
  /\ alive' = alive \ {w}
  /\ UNCHANGED <<workers, list, spawned, notified, old, pc>>

(* The task of w ends: dropping its PulseWorker unlinks the node from the   *)
(* list it is in.                                                           *)
WorkerEnds(w) ==
  /\ TasksRun
  /\ w \in alive
  /\ alive' = alive \ {w}
  /\ workers' = Unlink(workers, w)
  /\ list' = Unlink(list, w)
  /\ UNCHANGED <<spawned, notified, old, pc>>

Drop ==
  /\ pc = "run"
  /\ pc' = "round"
  /\ UNCHANGED <<workers, list, alive, spawned, notified, old>>

(* A round begins: all nodes move to a list of their own. *)
Round ==
  /\ pc = "round"
  /\ list' = workers
  /\ workers' = <<>>
  /\ pc' = IF workers = <<>> THEN "dropped" ELSE "interrupt"
  /\ old' = alive
  /\ notified' = {}
  /\ UNCHANGED <<alive, spawned>>

(* Mutant: the node goes to the end of the list it came from. *)
InterruptBusy ==
  /\ pc = "interrupt"
  /\ list # <<>>
  /\ list' = Append(Tail(list), Head(list))
  /\ notified' = notified \cup {Head(list)}
  /\ pc' = "callback"
  /\ UNCHANGED <<workers, alive, spawned, old>>

(* Mutant: the node does not go back to the runtime's list. *)
InterruptForgets ==
  /\ pc = "interrupt"
  /\ list # <<>>
  /\ list' = Tail(list)
  /\ notified' = notified \cup {Head(list)}
  /\ pc' = "callback"
  /\ UNCHANGED <<workers, alive, spawned, old>>

(* The next node goes back to the runtime's list and its worker is          *)
(* interrupted; a failure to do so is only logged.                          *)
InterruptWorker ==
  /\ pc = "interrupt"
  /\ list # <<>>
  /\ list' = Tail(list)
  /\ workers' = Append(workers, Head(list))
  /\ notified' = notified \cup {Head(list)}
  /\ pc' = "callback"
  /\ UNCHANGED <<alive, spawned, old>>

InterruptReturns ==
  /\ pc = "callback"
  /\ pc' = "interrupt"
  /\ UNCHANGED <<workers, list, alive, spawned, notified, old>>

(* All were interrupted: Driver::exit runs, and tasks with it. *)
Exit ==
  /\ pc = "interrupt"
  /\ list = <<>>
  /\ pc' = "exit"
  /\ UNCHANGED <<workers, list, alive, spawned, notified, old>>

ExitReturns ==
  /\ pc = "exit"
  /\ pc' = "round"
  /\ UNCHANGED <<workers, list, alive, spawned, notified, old>>

Dropped ==
  /\ pc = "dropped"
  /\ UNCHANGED runtimeVars

RuntimeNext ==
  \/ \E w \in Workers : Spawn(w) \/ WorkerEnds(w)
  \/ Drop \/ Round \/ InterruptWorker \/ InterruptReturns \/ Exit \/ ExitReturns
  \/ Dropped

(* drop() runs, the calls it makes return (Driver!ExitLeavesNothing and     *)
(* IoUring!ExitTerminates are about exit), and a worker that is interrupted *)
(* time and again ends in the end.                                          *)
Fairness ==
  /\ WF_runtimeVars(Round)
  /\ WF_runtimeVars(InterruptWorker) /\ WF_runtimeVars(InterruptReturns)
  /\ WF_runtimeVars(Exit) /\ WF_runtimeVars(ExitReturns)
  /\ \A w \in Workers : SF_runtimeVars(w \in notified /\ WorkerEnds(w))

RuntimeSpec == RuntimeInit /\ [][RuntimeNext]_runtimeVars
FairSpec == RuntimeSpec /\ Fairness

-----------------------------------------------------------------------------
(* Properties.                                                              *)

(* The nodes in the two lists are those of the workers that exist, each     *)
(* once, although workers end and start while drop() moves them around: it  *)
(* follows no dangling node and misses no worker.                           *)
NodesAreWorkers ==
  /\ Range(workers \o list) = alive
  /\ IsInjective(workers \o list)

(* drop() interrupts no worker twice in a round: "to prevent busy looping,  *)
(* move all our nodes to a new list".                                       *)
NoBusyLoop ==
  [][pc = "interrupt" /\ pc' = "callback" => Head(list) \notin notified]_runtimeVars

(* drop() misses no worker.  When a round gets to Driver::exit every worker *)
(* that was there at its beginning has been interrupted or has ended; when  *)
(* drop() returns, and the driver and the stacks' pool go away, there are   *)
(* none: "runtimes and executor live until there are no more workers".      *)
DropMissesNone ==
  /\ pc = "exit" => old \cap alive \subseteq notified
  /\ pc = "dropped" => alive = {}

(* Dropping the runtime returns. *)
DropTerminates == pc = "round" ~> pc = "dropped"
=============================================================================
