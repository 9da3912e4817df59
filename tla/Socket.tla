------------------------------- MODULE Socket -------------------------------
(***************************************************************************)
(* Sockets (net/socket.rs): receiving and sending with a remembered         *)
(* readiness and a budget.  A call that is believed to be ready is tried    *)
(* without waiting, as long as the task's budget lasts; otherwise, or when  *)
(* the belief was stale, the task suspends in an I/O operation.  The halves *)
(* of a split socket have a readiness each and share the descriptor, and a  *)
(* task may be interrupted at any time.                                     *)
(*                                                                         *)
(* Both directions are alike: bytes can be moved (there is data, or room),  *)
(* and a direction may have ended (end of stream, or shut down).            *)
(***************************************************************************)
EXTENDS Integers

CONSTANTS
  Halves,     \* the halves of the socket, each used by its own task
  Dirs,       \* the directions (PollFlag) in use: "In", "Out"
  Budget,     \* the budget of a task that was resumed
  MaxAvail    \* bound: bytes that can be moved at a time

ASSUME SocketAssumption == Dirs \subseteq {"In", "Out"} /\ {Budget, MaxAvail} \subseteq Nat

Pending == -2              \* the operation has not finished
Failed == -1               \* it has, with an error

VARIABLES
  ready,        \* Socket::ready of each half
  budget,       \* what is left of the task's budget
  interrupted,  \* is the task interrupted
  exiting,      \* is the driver exiting
  op,           \* the operation the task is suspended in
  res,          \* that operation's result
  eof,          \* did the last call return zero
  avail,        \* bytes that can be moved, by direction
  ended,        \* directions that have ended
  owed          \* bytes the kernel moved for a half, by direction, that
                \* its caller was not told of

task == <<ready, budget, eof, op>>
kernel == <<res, avail, ended, owed>>
vars == <<task, interrupted, exiting, kernel>>

Idle == [kind |-> "none", dirs |-> {}]

Init ==
  /\ \E ds \in SUBSET Dirs : ready = [h \in Halves |-> ds]   \* halves copy it
  /\ budget = [h \in Halves |-> Budget]
  /\ interrupted = [h \in Halves |-> FALSE]
  /\ exiting = FALSE
  /\ op = [h \in Halves |-> Idle]
  /\ res = [h \in Halves |-> Pending]
  /\ eof = [h \in Halves |-> FALSE]
  /\ avail = [d \in Dirs |-> 0]
  /\ ended = {}
  /\ owed = [h \in Halves |-> [d \in Dirs |-> 0]]

Running(h) == op[h] = Idle

Returns(h, zero) == eof' = [eof EXCEPT ![h] = zero]

(* The start of an operation: it fails at once when the task is interrupted *)
(* or the driver is exiting; otherwise the task suspends.                   *)
Suspend(h, kind, ds) ==
  IF interrupted[h] \/ exiting
  THEN Returns(h, FALSE) /\ UNCHANGED op
  ELSE op' = [op EXCEPT ![h] = [kind |-> kind, dirs |-> ds]] /\ UNCHANGED eof

(* The end of one: the task is resumed, with a new budget. *)
Resume(h) ==
  /\ res[h] # Pending
  /\ op' = [op EXCEPT ![h] = Idle]
  /\ res' = [res EXCEPT ![h] = Pending]
  /\ budget' = [budget EXCEPT ![h] = Budget]
  /\ UNCHANGED <<interrupted, exiting, avail, ended>>

-----------------------------------------------------------------------------
(* with_budget()                                                            *)

(* Mutant: the budget is not asked for. *)
TriesFree(h, d) == d \in ready[h]

(* Is the transfer tried at once? *)
Tries(h, d) == d \in ready[h] /\ budget[h] > 0

SpendBudget(h) == budget' = [budget EXCEPT ![h] = IF @ > 0 THEN @ - 1 ELSE 0]

(* The transfer is tried and moves bytes. *)
TryMoves(h, d) ==
  /\ Running(h) /\ Tries(h, d) /\ ~interrupted[h]
  /\ \E n \in 1..avail[d] : avail' = [avail EXCEPT ![d] = @ - n]
  /\ SpendBudget(h)
  /\ Returns(h, FALSE)
  /\ UNCHANGED <<ready, op, interrupted, exiting, res, ended, owed>>

(* The transfer is tried and returns an error, or finds the end of stream. *)
TryEnds(h, d) ==
  /\ Running(h) /\ Tries(h, d)
  /\ SpendBudget(h)
  /\ \/ Returns(h, FALSE)
     \/ ~interrupted[h] /\ d = "In" /\ d \in ended /\ avail[d] = 0 /\ Returns(h, TRUE)
  /\ UNCHANGED <<ready, op, interrupted, exiting, kernel>>

(* The transfer is tried and would block: the readiness was stale. *)
TryWouldBlock(h, d) ==
  /\ Running(h) /\ Tries(h, d) /\ ~interrupted[h]
  /\ avail[d] = 0 /\ d \notin ended
  /\ SpendBudget(h)
  /\ ready' = [ready EXCEPT ![h] = @ \ {d}]
  /\ Suspend(h, "transfer", {d})
  /\ UNCHANGED <<interrupted, exiting, kernel>>

(* The transfer is not tried. *)
Transfer(h, d) ==
  /\ Running(h) /\ ~Tries(h, d)
  /\ Suspend(h, "transfer", {d})
  /\ UNCHANGED <<ready, budget, interrupted, exiting, kernel>>

(* A transfer's result is an error, or its bytes are returned and the       *)
(* direction is taken to be ready.                                          *)
TransferResult(h, fails) ==
  /\ op[h].kind = "transfer"
  /\ Resume(h)
  /\ IF fails
     THEN Returns(h, FALSE) /\ UNCHANGED <<ready, owed>>
     ELSE /\ Returns(h, res[h] = 0 /\ op[h].dirs = {"In"})
          /\ owed' = [owed EXCEPT ![h] =
               [d \in Dirs |-> IF d \in op[h].dirs THEN @[d] - res[h] ELSE @[d]]]
          /\ ready' = [ready EXCEPT ![h] = @ \cup op[h].dirs]

(* Mutant: a zero is not checked for an interrupt. *)
TransferReturnsZero(h) == TransferResult(h, res[h] = Failed)

(* Mutant: an interrupt is reported whatever was transferred. *)
TransferReturnsInterrupt(h) == TransferResult(h, res[h] = Failed \/ interrupted[h])

(* check_interrupt_if_zero() makes an interrupt of the zero of an           *)
(* interrupted task.                                                        *)
TransferReturns(h) ==
  TransferResult(h, res[h] = Failed \/ (res[h] = 0 /\ interrupted[h]))

-----------------------------------------------------------------------------
(* poll() and shutdown()                                                    *)

(* poll() forgets the readiness it is to find out. *)
Poll(h, ds) ==
  /\ Running(h)
  /\ ready' = [ready EXCEPT ![h] = @ \ ds]
  /\ Suspend(h, "poll", ds)
  /\ UNCHANGED <<budget, interrupted, exiting, kernel>>

PollReturns(h) ==
  /\ op[h].kind = "poll"
  /\ Resume(h)
  /\ IF res[h] = Failed
     THEN UNCHANGED ready
     ELSE \E ds \in SUBSET op[h].dirs : ready' = [ready EXCEPT ![h] = @ \cup ds]
  /\ Returns(h, FALSE)
  /\ UNCHANGED owed

ShutDown(h, ds) ==
  /\ Running(h)
  /\ Suspend(h, "shutdown", ds)
  /\ UNCHANGED <<ready, budget, interrupted, exiting, kernel>>

ShutDownReturns(h) ==
  /\ op[h].kind = "shutdown"
  /\ Resume(h)
  /\ ready' = IF res[h] = Failed THEN ready
              ELSE [ready EXCEPT ![h] = @ \cup op[h].dirs]
  /\ Returns(h, FALSE)
  /\ UNCHANGED owed

-----------------------------------------------------------------------------
(* The kernel, the peer, other tasks.                                       *)

OpFinishes(h, result) ==
  /\ ~Running(h) /\ res[h] = Pending
  /\ res' = [res EXCEPT ![h] = result]
  /\ UNCHANGED <<task, interrupted, exiting>>

OpMoves(h) ==
  /\ op[h].kind = "transfer"
  /\ \E d \in op[h].dirs : \E n \in 1..avail[d] :
       /\ OpFinishes(h, n)
       /\ avail' = [avail EXCEPT ![d] = @ - n]
       /\ owed' = [owed EXCEPT ![h][d] = @ + n]
  /\ UNCHANGED ended

(* A result of zero: the end of stream, what a poll waits for, or, when the *)
(* operation was cancelled, nothing done.                                   *)
OpZero(h) ==
  /\ \/ op[h].kind = "transfer" /\ interrupted[h]
     \/ op[h].kind = "transfer" /\ op[h].dirs = {"In"} /\ "In" \in ended /\ avail["In"] = 0
     \/ op[h].kind = "poll" /\ \E d \in op[h].dirs : avail[d] > 0 \/ d \in ended
  /\ OpFinishes(h, 0)
  /\ UNCHANGED <<avail, ended, owed>>

OpShutsDown(h) ==
  /\ op[h].kind = "shutdown"
  /\ OpFinishes(h, 0)
  /\ ended' = ended \cup op[h].dirs
  /\ UNCHANGED <<avail, owed>>

OpFails(h) == OpFinishes(h, Failed) /\ UNCHANGED <<avail, ended, owed>>

(* Another task interrupts this one, at any time. *)
Interrupt(h) ==
  /\ interrupted' = [interrupted EXCEPT ![h] = TRUE]
  /\ UNCHANGED <<task, exiting, kernel>>

(* take_interrupt(): the task itself takes note of it. *)
TakeInterrupt(h) ==
  /\ Running(h)
  /\ interrupted' = [interrupted EXCEPT ![h] = FALSE]
  /\ UNCHANGED <<task, exiting, kernel>>

DriverExits == exiting' = TRUE /\ UNCHANGED <<task, interrupted, kernel>>

Arrives(d) ==
  /\ d \notin ended /\ avail[d] < MaxAvail
  /\ avail' = [avail EXCEPT ![d] = @ + 1]
  /\ UNCHANGED <<task, interrupted, exiting, res, ended, owed>>

(* A half that is not in Halves, or another process that has the socket,    *)
(* moves bytes: halves meet in the kernel only.                             *)
OtherMoves(d) ==
  /\ avail[d] > 0
  /\ avail' = [avail EXCEPT ![d] = @ - 1]
  /\ UNCHANGED <<task, interrupted, exiting, res, ended, owed>>

PeerCloses(d) ==
  /\ ended' = ended \cup {d}
  /\ UNCHANGED <<task, interrupted, exiting, res, avail, owed>>

Next ==
  \/ \E h \in Halves, d \in Dirs :
       TryMoves(h, d) \/ TryEnds(h, d) \/ TryWouldBlock(h, d) \/ Transfer(h, d)
  \/ \E h \in Halves, ds \in SUBSET Dirs \ {{}} : Poll(h, ds) \/ ShutDown(h, ds)
  \/ \E h \in Halves :
       \/ TransferReturns(h) \/ PollReturns(h) \/ ShutDownReturns(h)
       \/ OpMoves(h) \/ OpZero(h) \/ OpShutsDown(h) \/ OpFails(h)
       \/ Interrupt(h) \/ TakeInterrupt(h)
  \/ DriverExits
  \/ \E d \in Dirs : Arrives(d) \/ OtherMoves(d) \/ PeerCloses(d)

Spec == Init /\ [][Next]_vars

-----------------------------------------------------------------------------
(* Properties.                                                              *)

(* The bytes that an operation's result is about to tell the caller of. *)
Held(h, d) == IF d \in op[h].dirs /\ res[h] > 0 THEN res[h] ELSE 0

(* No byte is lost: whatever the kernel moved for a half and its caller was *)
(* not told of is in the result of an operation that is about to return it, *)
(* though tasks are interrupted while their operations finish.              *)
NothingLost == \A h \in Halves, d \in Dirs : owed[h][d] = Held(h, d)

(* recv() returns zero at the end of the stream only, never because it was  *)
(* interrupted.                                                             *)
ZeroIsEnd == \A h \in Halves : eof[h] => "In" \in ended

(* A task that tries transfers for ever suspends time and again, however    *)
(* ready the socket is, and however often its readiness turns out stale:    *)
(* with_budget() lets others run.                                           *)
YieldsWithinBudget ==
  \A h \in Halves :
    []<><<\E d \in Dirs : TryMoves(h, d) \/ TryEnds(h, d) \/ TryWouldBlock(h, d)>>_vars
      => []<>(~Running(h))
=============================================================================
