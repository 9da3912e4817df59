---------------------------- MODULE TaskProofs -----------------------------
(***************************************************************************)
(* Proofs about what tasks use directly: sockets (module Socket), interval  *)
(* timers (module Interval), and the runtime that spawns them (module       *)
(* Runtime).  The three have no state in common; each part starts with the  *)
(* invariant of its module.                                                 *)
(***************************************************************************)
EXTENDS Socket, Interval, Runtime, TLAPS

-----------------------------------------------------------------------------
(***************************************************************************)
(* recv() returns zero at the end of the stream only (ZeroIsEnd), and no    *)
(* byte that the kernel moved is lost (NothingLost), for any number of      *)
(* halves, each with its own task, and any budget.                          *)
(*                                                                         *)
(* A zero is explained while it waits to be returned: the stream has ended, *)
(* or the interrupt that ended the operation is still there to be seen.     *)
(* What is owed to a caller is in the result of its operation, which is     *)
(* positive for transfers only; a transfer is in one direction.             *)
(***************************************************************************)

TypeOK ==
  /\ op \in [Halves -> [kind : {"none", "transfer", "poll", "shutdown"},
                        dirs : SUBSET Dirs]]
  /\ res \in [Halves -> {Pending, Failed} \cup Nat]
  /\ eof \in [Halves -> BOOLEAN]
  /\ interrupted \in [Halves -> BOOLEAN]

(* An interrupt explains a zero, or the end of the stream. *)
Explained(h) ==
  op[h].kind = "transfer" /\ op[h].dirs = {"In"} /\ res[h] = 0 =>
    interrupted[h] = TRUE \/ "In" \in ended

Told(h) == eof[h] = TRUE => "In" \in ended

IInv ==
  /\ TypeOK
  /\ \A h \in Halves : /\ Running(h) => res[h] = Pending
                       /\ Explained(h) /\ Told(h)

LEMMA InitInv == Init => IInv
PROOF
  BY DEF Init, IInv, TypeOK, Running, Explained, Told, Idle, Pending

(* A task's own step leaves the other tasks' state alone. *)
LEMMA StepOfOne ==
  ASSUME NEW h \in Halves, IInv, TypeOK', ended \subseteq ended',
         \A g \in Halves \ {h} :
           /\ op'[g] = op[g] /\ res'[g] = res[g] /\ eof'[g] = eof[g]
           /\ interrupted'[g] = interrupted[g],
         op'[h] = Idle => res'[h] = Pending,
         Explained(h)', Told(h)'
  PROVE  IInv'
PROOF
  BY DEF IInv, Running, Explained, Told

(* It starts an operation, or fails at once. *)
LEMMA SuspendInv ==
  ASSUME NEW h \in Halves, IInv, Running(h),
         NEW kind \in {"transfer", "poll", "shutdown"}, NEW ds \in SUBSET Dirs,
         Suspend(h, kind, ds), UNCHANGED <<interrupted, res, ended>>
  PROVE  IInv'
PROOF
  <1>1. CASE Returns(h, FALSE) /\ UNCHANGED op
    <2>1. TypeOK'
      BY <1>1 DEF Returns, IInv, TypeOK
    <2>2. Explained(h)' /\ Told(h)'
      BY <1>1 DEF Returns, IInv, TypeOK, Explained, Told
    <2> QED BY <1>1, <2>1, <2>2, StepOfOne, Zenon DEF Returns, IInv, TypeOK, Running
  <1>2. CASE /\ op' = [op EXCEPT ![h] = [kind |-> kind, dirs |-> ds]]
             /\ UNCHANGED eof
    <2>1. TypeOK'
      BY <1>2 DEF IInv, TypeOK
    <2>2. res'[h] = Pending
      BY DEF IInv
    <2>3. Explained(h)' /\ Told(h)'
      BY <1>2, <2>2 DEF IInv, TypeOK, Explained, Told, Pending
    <2> QED BY <1>2, <2>1, <2>2, <2>3, StepOfOne DEF IInv, TypeOK
  <1> QED BY <1>1, <1>2, Zenon DEF Suspend

(* An operation has ended and its call returns. *)
LEMMA ResumeInv ==
  ASSUME NEW h \in Halves, IInv, NEW zero \in BOOLEAN, Resume(h), Returns(h, zero),
         zero = TRUE => "In" \in ended
  PROVE  IInv'
PROOF
  <1>1. TypeOK'
    BY DEF Resume, Returns, IInv, TypeOK, Idle, Pending
  <1>2. op'[h] = Idle /\ res'[h] = Pending
    BY DEF Resume, IInv, TypeOK
  <1>3. Explained(h)' /\ Told(h)'
    BY <1>2 DEF Resume, Returns, IInv, TypeOK, Explained, Told, Idle
  <1> QED BY <1>1, <1>2, <1>3, StepOfOne DEF Resume, Returns, IInv, TypeOK

LEMMA TransferReturnsInv ==
  ASSUME NEW h \in Halves, IInv, TransferReturns(h)
  PROVE  IInv'
PROOF
  <1> DEFINE fails == res[h] = Failed \/ (res[h] = 0 /\ interrupted[h])
             zero == ~fails /\ res[h] = 0 /\ op[h].dirs = {"In"}
  <1>1. Resume(h) /\ op[h].kind = "transfer"
    BY DEF TransferReturns, TransferResult
  <1>2. Returns(h, zero)
    BY Zenon DEF TransferReturns, TransferResult
  <1>3. zero = TRUE => "In" \in ended
    BY <1>1 DEF IInv, Explained
  <1> QED BY <1>1, <1>2, <1>3, ResumeInv, Zenon

(* The kernel ends an operation. *)
LEMMA FinishInv ==
  ASSUME NEW h \in Halves, IInv, NEW n \in {Failed} \cup Nat, OpFinishes(h, n),
         ended \subseteq ended',
         op[h].kind = "transfer" /\ op[h].dirs = {"In"} /\ n = 0 =>
           interrupted[h] = TRUE \/ "In" \in ended
  PROVE  IInv'
PROOF
  <1>1. TypeOK'
    BY DEF OpFinishes, task, IInv, TypeOK
  <1>2. op'[h] # Idle /\ res'[h] = n
    BY DEF OpFinishes, task, Running, IInv, TypeOK
  <1>3. Explained(h)' /\ Told(h)'
    BY <1>2 DEF OpFinishes, task, IInv, Explained, Told
  <1> QED BY <1>1, <1>2, <1>3, StepOfOne DEF OpFinishes, task, IInv, TypeOK

(* It leaves the calls' state alone, or a call returns at once. *)
LEMMA ReturnsInv ==
  ASSUME NEW h \in Halves, IInv, NEW zero \in BOOLEAN, Returns(h, zero),
         zero = TRUE => "In" \in ended, UNCHANGED <<op, res, interrupted, ended>>
  PROVE  IInv'
PROOF
  <1>1. TypeOK'
    BY DEF Returns, IInv, TypeOK
  <1>2. Explained(h)' /\ Told(h)'
    BY DEF Returns, IInv, TypeOK, Explained, Told
  <1> QED BY <1>1, <1>2, StepOfOne DEF Returns, IInv, TypeOK, Running

LEMMA TaskInv ==
  ASSUME NEW h \in Halves, NEW d \in Dirs, IInv,
         TryMoves(h, d) \/ TryEnds(h, d) \/ TryWouldBlock(h, d) \/ Transfer(h, d)
  PROVE  IInv'
PROOF
  <1>1. CASE TryMoves(h, d)
    BY <1>1, ReturnsInv, Zenon DEF TryMoves
  <1>2. CASE TryEnds(h, d)
    <2>1. UNCHANGED <<op, res, interrupted, ended>>
      BY <1>2 DEF TryEnds, kernel
    <2>2. Returns(h, FALSE) \/ (Returns(h, TRUE) /\ "In" \in ended)
      BY <1>2, Zenon DEF TryEnds
    <2> QED BY <2>1, <2>2, ReturnsInv, Zenon
  <1>3. CASE TryWouldBlock(h, d)
    BY <1>3, SuspendInv DEF TryWouldBlock, kernel
  <1>4. CASE Transfer(h, d)
    BY <1>4, SuspendInv DEF Transfer, kernel
  <1> QED BY <1>1, <1>2, <1>3, <1>4

LEMMA KernelInv ==
  ASSUME NEW h \in Halves, IInv,
         OpMoves(h) \/ OpZero(h) \/ OpShutsDown(h) \/ OpFails(h)
  PROVE  IInv'
PROOF
  <1>1. CASE OpMoves(h)
    <2>1. PICK d \in op[h].dirs : \E n \in 1..avail[d] : OpFinishes(h, n)
      BY <1>1 DEF OpMoves
    <2>2. PICK n \in 1..avail[d] : OpFinishes(h, n)
      BY <2>1
    <2>3. n \in Nat /\ n # 0 /\ ended' = ended
      BY <1>1 DEF OpMoves
    <2> QED BY <2>2, <2>3, FinishInv, Zenon
  <1>2. CASE OpZero(h)
    <2>1. /\ OpFinishes(h, 0) /\ ended' = ended
          /\ op[h].kind = "transfer" => interrupted[h] \/ "In" \in ended
      BY <1>2 DEF OpZero
    <2>2. op[h].kind = "transfer" => interrupted[h] = TRUE \/ "In" \in ended
      BY <2>1 DEF IInv, TypeOK
    <2>3. 0 \in Nat /\ ended \subseteq ended'
      BY <2>1
    <2> QED BY <2>1, <2>2, <2>3, FinishInv, Zenon
  <1>3. CASE OpShutsDown(h)
    <2>1. /\ OpFinishes(h, 0) /\ ended \subseteq ended'
          /\ op[h].kind # "transfer" /\ 0 \in Nat
      BY <1>3 DEF OpShutsDown
    <2> QED BY <2>1, FinishInv, Zenon
  <1>4. CASE OpFails(h)
    <2>1. OpFinishes(h, Failed) /\ ended \subseteq ended'
      BY <1>4 DEF OpFails
    <2>2. Failed # 0
      BY DEF Failed
    <2> QED BY <2>1, <2>2, FinishInv, Zenon
  <1> QED BY <1>1, <1>2, <1>3, <1>4

(* An interrupt stays until the task takes note of it, which is not while   *)
(* an operation is under way.                                               *)
LEMMA InterruptInv ==
  ASSUME NEW h \in Halves, IInv, Interrupt(h) \/ TakeInterrupt(h)
  PROVE  IInv'
PROOF
  <1>1. UNCHANGED <<op, res, eof, ended>>
    BY DEF Interrupt, TakeInterrupt, task, kernel
  <1>2. TypeOK'
    BY <1>1, Zenon DEF Interrupt, TakeInterrupt, IInv, TypeOK
  <1>3. interrupted'[h] = TRUE \/ res[h] = Pending
    BY DEF Interrupt, TakeInterrupt, IInv, TypeOK
  <1>4. Explained(h)' /\ Told(h)'
    BY <1>1, <1>3 DEF IInv, Explained, Told, Pending
  <1> QED
    BY <1>1, <1>2, <1>4, StepOfOne DEF Interrupt, TakeInterrupt, IInv, TypeOK, Running

LEMMA NextInv == IInv /\ [Next]_vars => IInv'
PROOF
  <1> SUFFICES ASSUME IInv, [Next]_vars PROVE IInv'
    OBVIOUS
  <1>1. ASSUME NEW h \in Halves, NEW ds \in SUBSET Dirs, Poll(h, ds) \/ ShutDown(h, ds)
        PROVE  IInv'
    BY <1>1, SuspendInv DEF Poll, ShutDown, kernel
  <1>2. ASSUME NEW h \in Halves, PollReturns(h) \/ ShutDownReturns(h)
        PROVE  IInv'
    BY <1>2, ResumeInv, Zenon DEF PollReturns, ShutDownReturns
  <1>3. CASE UNCHANGED <<op, res, eof, interrupted>> /\ ended \subseteq ended'
    BY <1>3 DEF IInv, TypeOK, Running, Explained, Told
  <1>4. CASE DriverExits \/ UNCHANGED vars
    BY <1>3, <1>4 DEF DriverExits, vars, task, kernel
  <1>5. ASSUME NEW d \in Dirs, Arrives(d) \/ OtherMoves(d) \/ PeerCloses(d)
        PROVE  IInv'
    BY <1>3, <1>5 DEF Arrives, OtherMoves, PeerCloses, task
  <1> QED
    BY <1>1, <1>2, <1>4, <1>5, TaskInv, TransferReturnsInv, KernelInv, InterruptInv
       DEF Next

LEMMA IInvHolds == Spec => []IInv
PROOF
  BY InitInv, NextInv, PTL DEF Spec

(* Socket's recv returns zero at the end of the stream only: the zero of an *)
(* operation that was cancelled is told apart by check_interrupt_if_zero(). *)
THEOREM ZeroIsEndHolds == Spec => []ZeroIsEnd
PROOF
  <1>1. IInv => ZeroIsEnd
    BY DEF IInv, TypeOK, Told, ZeroIsEnd
  <1> QED BY <1>1, IInvHolds, PTL

-----------------------------------------------------------------------------
(* Bytes.                                                                   *)

Settled(h) ==
  /\ \A d \in Dirs : owed[h][d] = Held(h, d)
  /\ op[h].kind = "transfer" => \E d \in Dirs : op[h].dirs = {d}
  /\ op[h].kind # "transfer" => res[h] <= 0

Bytes ==
  /\ owed \in [Halves -> [Dirs -> Int]]
  /\ \A h \in Halves : Settled(h)

LEMMA InitBytes == Init => Bytes
PROOF
  BY DEF Init, Bytes, Settled, Held, Idle, Pending

LEMMA SameBytes ==
  ASSUME Bytes, UNCHANGED <<op, res, owed>>
  PROVE  Bytes'
PROOF
  BY DEF Bytes, Settled, Held

LEMMA BytesOfOne ==
  ASSUME NEW h \in Halves, Bytes, owed' \in [Halves -> [Dirs -> Int]],
         \A g \in Halves \ {h} :
           op'[g] = op[g] /\ res'[g] = res[g] /\ owed'[g] = owed[g],
         Settled(h)'
  PROVE  Bytes'
PROOF
  BY DEF Bytes, Settled, Held

LEMMA SuspendBytes ==
  ASSUME NEW h \in Halves, IInv, Bytes, Running(h),
         NEW kind \in {"transfer", "poll", "shutdown"}, NEW ds \in SUBSET Dirs,
         kind = "transfer" => \E d \in Dirs : ds = {d},
         Suspend(h, kind, ds), UNCHANGED <<res, owed>>
  PROVE  Bytes'
PROOF
  <1>1. CASE UNCHANGED op
    BY <1>1, SameBytes
  <1>2. CASE op' = [op EXCEPT ![h] = [kind |-> kind, dirs |-> ds]]
    <2>1. /\ op'[h] = [kind |-> kind, dirs |-> ds]
          /\ \A g \in Halves \ {h} : op'[g] = op[g]
      BY <1>2 DEF IInv, TypeOK
    <2>2. res[h] = Pending /\ op[h] = Idle
      BY DEF IInv, Running
    <2>3. \A d \in Dirs : owed[h][d] = 0
      BY <2>2 DEF Bytes, Settled, Held, Pending
    <2>4. Settled(h)'
      BY <2>1, <2>2, <2>3 DEF Settled, Held, Pending
    <2> QED BY <2>1, <2>4, BytesOfOne DEF Bytes
  <1> QED BY <1>1, <1>2, Zenon DEF Suspend

(* A call returns: the caller is told, or there is nothing to tell. *)
LEMMA ResumeBytes ==
  ASSUME NEW h \in Halves, IInv, Bytes, Resume(h),
         \/ owed' = owed /\ res[h] <= 0
         \/ owed' = [owed EXCEPT ![h] =
              [d \in Dirs |-> IF d \in op[h].dirs THEN @[d] - res[h] ELSE @[d]]]
            /\ res[h] >= 0
  PROVE  Bytes'
PROOF
  <1>1. /\ op'[h] = Idle /\ res'[h] = Pending
        /\ \A g \in Halves \ {h} : op'[g] = op[g] /\ res'[g] = res[g]
    BY DEF Resume, IInv, TypeOK
  <1>2. res[h] \in Int /\ owed[h] \in [Dirs -> Int] /\ owed \in [Halves -> [Dirs -> Int]]
    <2>1. res[h] \in {Pending, Failed} \cup Nat
      BY DEF IInv, TypeOK
    <2>2. res[h] \in Int
      BY <2>1 DEF Pending, Failed
    <2>3. owed \in [Halves -> [Dirs -> Int]]
      BY DEF Bytes
    <2> QED BY <2>2, <2>3
  <1>3. \A d \in Dirs : owed[h][d] = Held(h, d)
    BY Zenon DEF Bytes, Settled
  <1>4. CASE owed' = owed /\ res[h] <= 0
    <2>1. \A d \in Dirs : owed[h][d] = 0
      BY <1>2, <1>3, <1>4 DEF Held
    <2>2. Settled(h)'
      BY <1>1, <1>4, <2>1 DEF Settled, Held, Idle, Pending
    <2> QED BY <1>1, <1>2, <1>4, <2>2, BytesOfOne, Zenon
  <1>5. CASE /\ owed' = [owed EXCEPT ![h] =
                  [d \in Dirs |-> IF d \in op[h].dirs THEN @[d] - res[h] ELSE @[d]]]
             /\ res[h] >= 0
    <2>1. /\ owed'[h] = [d \in Dirs |-> IF d \in op[h].dirs THEN owed[h][d] - res[h]
                                         ELSE owed[h][d]]
          /\ \A g \in Halves \ {h} : owed'[g] = owed[g]
      BY <1>2, <1>5
    <2>2. owed' \in [Halves -> [Dirs -> Int]]
      BY <1>2, <1>5
    <2>3. \A d \in Dirs : owed'[h][d] = 0
      BY <1>2, <1>3, <1>5, <2>1 DEF Held
    <2>4. Settled(h)'
      BY <1>1, <2>3 DEF Settled, Held, Idle, Pending
    <2> QED BY <1>1, <2>1, <2>2, <2>4, BytesOfOne, Zenon
  <1> QED BY <1>4, <1>5

LEMMA ReturnsBytes ==
  ASSUME NEW h \in Halves, IInv, Bytes,
         TransferReturns(h) \/ PollReturns(h) \/ ShutDownReturns(h)
  PROVE  Bytes'
PROOF
  <1>1. res[h] \in Int
    BY DEF IInv, TypeOK, Pending, Failed
  <1>2. CASE TransferReturns(h)
    <2>1. Resume(h)
      BY <1>2 DEF TransferReturns, TransferResult
    <2>2. CASE res[h] = Failed \/ (res[h] = 0 /\ interrupted[h])
      <3>1. owed' = owed /\ res[h] <= 0
        <4>1. res[h] <= 0
          BY <2>2 DEF Failed
        <4>2. TransferResult(h, TRUE)
          BY <1>2, <2>2, Zenon DEF TransferReturns, TransferResult
        <4> QED BY <4>1, <4>2 DEF TransferResult
      <3> QED BY <2>1, <3>1, ResumeBytes, Zenon
    <2>3. CASE ~(res[h] = Failed \/ (res[h] = 0 /\ interrupted[h]))
      <3>1. owed' = [owed EXCEPT ![h] =
              [d \in Dirs |-> IF d \in op[h].dirs THEN @[d] - res[h] ELSE @[d]]]
        BY <1>2, <2>3 DEF TransferReturns, TransferResult
      <3>2. res[h] >= 0
        BY <2>1, <2>3 DEF Resume, IInv, TypeOK
      <3> QED BY <2>1, <3>1, <3>2, ResumeBytes
    <2> QED BY <2>2, <2>3, Zenon
  <1>3. CASE PollReturns(h) \/ ShutDownReturns(h)
    <2>1. Resume(h) /\ owed' = owed /\ op[h].kind # "transfer"
      BY <1>3, Zenon DEF PollReturns, ShutDownReturns
    <2>2. res[h] <= 0
      BY <2>1 DEF Bytes, Settled
    <2> QED BY <2>1, <2>2, ResumeBytes, Zenon
  <1> QED BY <1>2, <1>3

(* The kernel ends an operation, and has moved the bytes of its result. *)
LEMMA FinishBytes ==
  ASSUME NEW h \in Halves, IInv, Bytes, NEW n \in Int, OpFinishes(h, n),
         \/ owed' = owed /\ n <= 0
         \/ /\ n > 0 /\ op[h].kind = "transfer"
            /\ \E d \in op[h].dirs : owed' = [owed EXCEPT ![h][d] = @ + n]
  PROVE  Bytes'
PROOF
  <1>1. /\ op' = op /\ res[h] = Pending /\ res'[h] = n
        /\ \A g \in Halves \ {h} : res'[g] = res[g]
    BY DEF OpFinishes, task, IInv, TypeOK
  <1>2. owed[h] \in [Dirs -> Int] /\ owed \in [Halves -> [Dirs -> Int]]
    BY DEF Bytes
  <1>3. \A d \in Dirs : owed[h][d] = 0
    BY <1>1 DEF Bytes, Settled, Held, Pending
  <1>4. CASE owed' = owed /\ n <= 0
    <2>1. Settled(h)'
      BY <1>1, <1>3, <1>4 DEF Bytes, Settled, Held
    <2> QED BY <1>1, <1>2, <1>4, <2>1, BytesOfOne
  <1>5. CASE /\ n > 0 /\ op[h].kind = "transfer"
             /\ \E d \in op[h].dirs : owed' = [owed EXCEPT ![h][d] = @ + n]
    <2>1. PICK d \in op[h].dirs : owed' = [owed EXCEPT ![h][d] = @ + n]
      BY <1>5, Zenon
    <2>2. d \in Dirs /\ op[h].dirs = {d}
      BY <1>5, <2>1 DEF Bytes, Settled
    <2>3. /\ owed' \in [Halves -> [Dirs -> Int]]
          /\ \A g \in Halves \ {h} : owed'[g] = owed[g]
          /\ owed'[h][d] = owed[h][d] + n
          /\ \A e \in Dirs \ {d} : owed'[h][e] = owed[h][e]
      BY <1>2, <2>1, <2>2
    <2>4. owed'[h][d] = n
      BY <1>3, <2>2, <2>3
    <2>5. Settled(h)'
      BY <1>1, <1>3, <1>5, <2>2, <2>3, <2>4 DEF Settled, Held
    <2> QED BY <1>1, <2>3, <2>5, BytesOfOne
  <1> QED BY <1>4, <1>5

LEMMA KernelBytes ==
  ASSUME NEW h \in Halves, IInv, Bytes,
         OpMoves(h) \/ OpZero(h) \/ OpShutsDown(h) \/ OpFails(h)
  PROVE  Bytes'
PROOF
  <1>1. CASE OpMoves(h)
    <2>1. PICK d \in op[h].dirs :
            \E n \in 1..avail[d] : OpFinishes(h, n) /\ owed' = [owed EXCEPT ![h][d] = @ + n]
      BY <1>1, Zenon DEF OpMoves
    <2>2. PICK n \in 1..avail[d] : OpFinishes(h, n) /\ owed' = [owed EXCEPT ![h][d] = @ + n]
      BY <2>1, Zenon
    <2>3. n \in Int /\ n > 0 /\ op[h].kind = "transfer"
      BY <1>1 DEF OpMoves
    <2> QED BY <2>1, <2>2, <2>3, FinishBytes, Zenon
  <1>2. CASE OpZero(h) \/ OpShutsDown(h) \/ OpFails(h)
    <2>1. owed' = owed /\ (OpFinishes(h, 0) \/ OpFinishes(h, Failed))
      BY <1>2 DEF OpZero, OpShutsDown, OpFails
    <2>2. 0 \in Int /\ Failed \in Int /\ 0 <= 0 /\ Failed <= 0
      BY DEF Failed
    <2> QED BY <2>1, <2>2, FinishBytes
  <1> QED BY <1>1, <1>2

LEMMA NextBytes == IInv /\ Bytes /\ [Next]_vars => Bytes'
PROOF
  <1> SUFFICES ASSUME IInv, Bytes, [Next]_vars PROVE Bytes'
    OBVIOUS
  <1>1. ASSUME NEW h \in Halves, NEW d \in Dirs,
               TryMoves(h, d) \/ TryEnds(h, d) \/ TryWouldBlock(h, d) \/ Transfer(h, d)
        PROVE  Bytes'
    <2>1. CASE TryMoves(h, d) \/ TryEnds(h, d)
      BY <2>1, SameBytes, Zenon DEF TryMoves, TryEnds, kernel
    <2>2. CASE TryWouldBlock(h, d) \/ Transfer(h, d)
      <3>1. {d} \in SUBSET Dirs
        OBVIOUS
      <3>2. /\ Running(h) /\ Suspend(h, "transfer", {d}) /\ UNCHANGED <<res, owed>>
        BY <2>2 DEF TryWouldBlock, Transfer, kernel
      <3> QED BY <3>1, <3>2, SuspendBytes
    <2> QED BY <1>1, <2>1, <2>2
  <1>2. ASSUME NEW h \in Halves, NEW ds \in SUBSET Dirs, Poll(h, ds) \/ ShutDown(h, ds)
        PROVE  Bytes'
    BY <1>2, SuspendBytes DEF Poll, ShutDown, kernel
  <1>3. ASSUME NEW h \in Halves, Interrupt(h) \/ TakeInterrupt(h)
        PROVE  Bytes'
    BY <1>3, SameBytes DEF Interrupt, TakeInterrupt, task, kernel
  <1>4. CASE DriverExits \/ UNCHANGED vars
    BY <1>4, SameBytes DEF DriverExits, vars, task, kernel
  <1>5. ASSUME NEW d \in Dirs, Arrives(d) \/ OtherMoves(d) \/ PeerCloses(d)
        PROVE  Bytes'
    BY <1>5, SameBytes DEF Arrives, OtherMoves, PeerCloses, task
  <1> QED BY <1>1, <1>2, <1>3, <1>4, <1>5, ReturnsBytes, KernelBytes DEF Next

(* No byte that recv() or send() moved is lost on the way to the caller,    *)
(* however many halves use the socket and whenever their tasks are          *)
(* interrupted: an interrupt is reported only when nothing was transferred. *)
THEOREM NothingLostHolds == Spec => []NothingLost
PROOF
  <1>1. Bytes => NothingLost
    BY DEF Bytes, Settled, NothingLost
  <1> QED BY <1>1, IInvHolds, InitBytes, NextBytes, PTL DEF Spec

-----------------------------------------------------------------------------
(***************************************************************************)
(* Interval's ticks do not drift (NoDrift), next() waits for at most one    *)
(* delay (WaitsAtMostDelay), and Skip takes the first tick that was not     *)
(* missed (SkipTakesFirst), for every clock and delay.                      *)
(*                                                                         *)
(* Only WaitsAtMostDelay is not inductive: between two calls, the tick the  *)
(* first one waited for is over, unless the wait was interrupted.           *)
(***************************************************************************)

IntervalTypeOK ==
  /\ now \in Nat /\ expire \in Nat /\ called_at \in Nat /\ anchor \in Nat
  /\ delay \in Nat \ {0}
  /\ behavior \in Behaviors

Over == status = "idle" /\ ~cancelled => expire <= now

IntervalInv == IntervalTypeOK /\ NoDrift /\ WaitsAtMostDelay /\ Over

-----------------------------------------------------------------------------
(* Multiples of a delay.                                                    *)

LEMMA Multiple ==
  ASSUME NEW d \in Nat \ {0}, NEW a \in Int
  PROVE  /\ a % d \in 0..(d - 1)
         /\ a \div d \in Int
         /\ a = d * (a \div d) + (a % d)
         /\ (d * a) % d = 0 /\ (a - a) % d = 0
PROOF
  OBVIOUS

LEMMA NextMultiple ==
  ASSUME NEW d \in Nat \ {0}, NEW a \in Int, a % d = 0
  PROVE  (a + d) % d = 0
PROOF
  <1> DEFINE k == a \div d
  <1>1. k \in Int /\ a = d * k
    BY Multiple
  <1>2. a + d = d * (k + 1)
    BY <1>1
  <1>3. (d * (k + 1)) % d = 0
    BY <1>1, Multiple
  <1> QED BY <1>2, <1>3

(* b rounded down to a multiple. *)
LEMMA RoundedDown ==
  ASSUME NEW d \in Nat \ {0}, NEW a \in Int, NEW b \in Int, a % d = 0
  PROVE  (a + b - (b % d)) % d = 0
PROOF
  <1> DEFINE k == a \div d
             q == b \div d
  <1>1. k \in Int /\ a = d * k /\ q \in Int /\ b - (b % d) = d * q
    BY Multiple
  <1>2. a + b - (b % d) = d * (k + q)
    <2>1. b % d \in Int
      BY Multiple
    <2>2. a + b - (b % d) = d * k + d * q
      BY <1>1, <2>1
    <2>3. d * k + d * q = d * (k + q)
      BY <1>1
    <2> QED BY <2>2, <2>3
  <1>3. (d * (k + q)) % d = 0
    BY <1>1, Multiple
  <1> QED BY <1>2, <1>3

(* The first multiple above b is b rounded down, and one delay. *)
LEMMA FirstMultiple ==
  ASSUME NEW d \in Nat \ {0}, NEW b \in Int, NEW t \in Int, t % d = 0, t > b
  PROVE  t >= b + d - (b % d)
PROOF
  <1> DEFINE k == t \div d
             q == b \div d
  <1>1. /\ k \in Int /\ t = d * k /\ q \in Int
        /\ b = d * q + (b % d) /\ b % d \in 0..(d - 1)
    BY Multiple
  <1>2. k > q
    <2>1. ASSUME k <= q PROVE d * k <= d * q
      BY <1>1, <2>1
    <2> QED BY <1>1, <2>1
  <1>3. d * k >= d * (q + 1)
    BY <1>1, <1>2
  <1>4. d * (q + 1) = d * q + d
    BY <1>1
  <1>5. d * q \in Int /\ d * k \in Int
    BY <1>1
  <1> QED BY <1>1, <1>3, <1>4, <1>5

-----------------------------------------------------------------------------
LEMMA InitIntervalInv == IntervalInit => IntervalInv
PROOF
  <1> SUFFICES ASSUME IntervalInit PROVE IntervalInv
    OBVIOUS
  <1>1. IntervalTypeOK
    BY IntervalAssumption DEF IntervalInit, IntervalTypeOK, Behaviors
  <1>2. NoDrift /\ WaitsAtMostDelay /\ Over
    BY <1>1 DEF IntervalInit, NoDrift, WaitsAtMostDelay, Over, IntervalTypeOK
  <1> QED BY <1>1, <1>2 DEF IntervalInv

(* The next tick is one delay away at most, and whole delays from the last. *)
LEMMA TickInv ==
  ASSUME IntervalInv, NEW last \in Nat
  PROVE  /\ Tick(last) \in Nat
         /\ last <= now => Tick(last) <= now + delay
         /\ \A origin \in Nat :
              behavior # "Delay" /\ (last - origin) % delay = 0 =>
                (Tick(last) - origin) % delay = 0
PROOF
  <1> USE DEF IntervalInv, IntervalTypeOK
  <1>1. (now - last) % delay \in 0..(delay - 1)
    BY Multiple
  <1>2. Tick(last) \in Nat /\ (last <= now => Tick(last) <= now + delay)
    BY <1>1 DEF Tick, SkipTick, Behaviors
  <1>3. ASSUME behavior # "Delay", NEW origin \in Nat, (last - origin) % delay = 0
        PROVE  (Tick(last) - origin) % delay = 0
    <2>1. (last + delay - origin) % delay = 0
      <3>1. last + delay - origin = (last - origin) + delay
        OBVIOUS
      <3>2. last - origin \in Int /\ delay \in Nat \ {0}
        OBVIOUS
      <3>3. ((last - origin) + delay) % delay = 0
        BY <1>3, <3>2, NextMultiple, Zenon
      <3> QED BY <3>1, <3>3
    <2>2. (now + delay - ((now - last) % delay) - origin) % delay = 0
      <3>1. now + delay - ((now - last) % delay) - origin
              = (last + delay - origin) + (now - last) - ((now - last) % delay)
        BY <1>1
      <3>2. /\ last + delay - origin \in Int /\ now - last \in Int
            /\ delay \in Nat \ {0}
        OBVIOUS
      <3>3. ((last + delay - origin) + (now - last) - ((now - last) % delay)) % delay = 0
        BY <2>1, <3>2, RoundedDown, Zenon
      <3> QED BY <3>1, <3>3
    <2> QED BY <1>3, <2>1, <2>2 DEF Tick, SkipTick, Behaviors
  <1> QED BY <1>2, <1>3

LEMMA NextTickInv ==
  ASSUME IntervalInv, NextTick
  PROVE  IntervalInv'
PROOF
  <1> DEFINE last == LastTick
  <1> USE DEF IntervalInv, IntervalTypeOK
  <1>1. last \in Nat /\ (expire <= now => last <= now)
    BY DEF LastTick
  <1>2. /\ status = "idle" /\ called_at' = now
        /\ UNCHANGED <<now, delay, behavior>>
    BY DEF NextTick
  <1>3. IF Overflows(last) THEN expire' = last /\ status' = "panicked"
        ELSE expire' = Tick(last) /\ status' = IF expire' > now THEN "waiting" ELSE "idle"
    BY DEF NextTick
  <1>4. anchor' = IF behavior = "Delay" THEN expire'
                  ELSE IF expire = 0 THEN now ELSE anchor
    BY DEF NextTick
  <1>5. ~cancelled' => expire <= now
    <2>1. cancelled' = (cancelled /\ expire > now)
      BY DEF NextTick
    <2>2. ~(expire > now) => expire <= now
      OBVIOUS
    <2> QED BY <1>2, <2>1, <2>2, Zenon DEF Over
  <1>6. IntervalTypeOK'
    BY <1>1, <1>2, <1>3, <1>4, TickInv
  <1>7. NoDrift'
    <2>1. CASE behavior = "Delay"
      <3>1. expire' \in Int /\ anchor' = expire' /\ delay \in Nat \ {0}
        BY <1>4, <1>6, <2>1
      <3>2. (expire' - expire') % delay = 0
        BY <3>1, Multiple, Zenon
      <3> QED BY <1>2, <3>1, <3>2, Zenon DEF NoDrift
    <2>2. CASE behavior # "Delay"
      <3>1. anchor' \in Nat /\ (last - anchor') % delay = 0
        BY <1>4, <2>2 DEF LastTick, NoDrift
      <3>2. (expire' - anchor') % delay = 0
        BY <1>1, <1>3, <2>2, <3>1, TickInv, Zenon
      <3> QED BY <1>2, <3>2 DEF NoDrift
    <2> QED BY <2>1, <2>2
  <1>8. WaitsAtMostDelay'
    <2>1. status' = "waiting" /\ ~cancelled' => expire' <= now + delay
      BY <1>1, <1>3, <1>5, TickInv
    <2> QED BY <1>2, <2>1 DEF WaitsAtMostDelay
  <1>9. Over'
    <2>1. status' = "idle" => expire' <= now
      BY <1>1, <1>3, TickInv
    <2> QED BY <1>2, <2>1 DEF Over
  <1> QED BY <1>6, <1>7, <1>8, <1>9

LEMMA NextIntervalInv == IntervalInv /\ [IntervalNext]_intervalVars => IntervalInv'
PROOF
  <1> SUFFICES ASSUME IntervalInv, [IntervalNext]_intervalVars PROVE IntervalInv'
    OBVIOUS
  <1> USE DEF IntervalInv, IntervalTypeOK, NoDrift, WaitsAtMostDelay, Over
  <1>1. CASE SetMissedTickBehavior
    BY <1>1 DEF SetMissedTickBehavior
  <1>2. CASE WaitReturns
    <2>1. cancelled' = (now < expire)
      BY <1>2 DEF WaitReturns
    <2>2. /\ status' = "idle"
          /\ UNCHANGED <<now, expire, delay, behavior, called_at, anchor>>
      BY <1>2 DEF WaitReturns
    <2>3. ~cancelled' => expire <= now
      <3>1. ~(now < expire) => expire <= now
        OBVIOUS
      <3> QED BY <2>1, <3>1, Zenon
    <2> QED BY <2>2, <2>3
  <1>3. CASE ClockTicks
    BY <1>3 DEF ClockTicks
  <1>4. CASE Panicked \/ UNCHANGED intervalVars
    BY <1>4 DEF Panicked, intervalVars
  <1> QED BY <1>1, <1>2, <1>3, <1>4, NextTickInv DEF IntervalNext

LEMMA IntervalInvHolds == IntervalSpec => []IntervalInv
PROOF
  BY InitIntervalInv, NextIntervalInv, PTL DEF IntervalSpec

(* Burst and Skip keep Interval::next's ticks whole delays apart, however   *)
(* late it is called and in whatever order they are used.                   *)
THEOREM NoDriftHolds == IntervalSpec => []NoDrift
PROOF
  <1>1. IntervalInv => NoDrift
    BY DEF IntervalInv
  <1> QED BY <1>1, IntervalInvHolds, PTL

(* Interval::next waits for one delay at most, unless the wait before was   *)
(* interrupted.                                                             *)
THEOREM WaitsAtMostDelayHolds == IntervalSpec => []WaitsAtMostDelay
PROOF
  <1>1. IntervalInv => WaitsAtMostDelay
    BY Zenon DEF IntervalInv
  <1> QED BY <1>1, IntervalInvHolds, PTL

-----------------------------------------------------------------------------
(* The tick Skip takes is the first one there is to take. *)
LEMMA SkipIsFirst ==
  ASSUME IntervalInv, NEW last \in Nat, ~Overflows(last), behavior = "Skip"
  PROVE  LET ticks == {t \in (last + 1)..U64Max :
                         /\ (t - last) % delay = 0
                         /\ t > now \/ (t = now /\ t = last + delay)}
         IN  SkipTick(last) \in ticks /\ \A t \in ticks : SkipTick(last) <= t
PROOF
  <1> DEFINE e == SkipTick(last)
             T == {t \in (last + 1)..U64Max :
                     /\ (t - last) % delay = 0
                     /\ t > now \/ (t = now /\ t = last + delay)}
  <1> USE IntervalAssumption DEF IntervalInv, IntervalTypeOK
  <1>1. (now - last) % delay \in 0..(delay - 1)
    BY Multiple
  <1>2. e \in (last + 1)..U64Max /\ (e > now \/ (e = now /\ e = last + delay))
    BY <1>1 DEF SkipTick, Overflows
  <1>3. (e - last) % delay = 0
    <2>1. 0 % delay = 0 /\ last - last = 0
      BY Multiple
    <2>2. e = Tick(last) /\ behavior # "Delay"
      BY DEF Tick
    <2> QED BY <2>1, <2>2, TickInv
  <1>4. ASSUME NEW t \in T PROVE e <= t
    <2>1. t - last \in Int /\ now - last \in Int /\ (t - last) % delay = 0
      OBVIOUS
    <2>2. CASE now > last + delay
      <3>1. t - last > now - last
        BY <2>2
      <3>2. t - last >= (now - last) + delay - ((now - last) % delay)
        BY <2>1, <3>1, FirstMultiple, Zenon
      <3> QED BY <1>1, <2>2, <3>2 DEF SkipTick
    <2>3. CASE ~(now > last + delay)
      <3>1. 0 % delay = 0 /\ t - last > 0
        BY Multiple
      <3>2. t - last >= 0 + delay - (0 % delay)
        BY <2>1, <3>1, FirstMultiple
      <3> QED BY <2>3, <3>1, <3>2 DEF SkipTick
    <2> QED BY <2>2, <2>3
  <1> QED BY <1>2, <1>3, <1>4

(* Skip takes the first tick that was not missed: the formula of            *)
(* Interval::next that aligns to the delay finds the least one there is.    *)
THEOREM SkipTakesFirstHolds == IntervalSpec => SkipTakesFirst
PROOF
  <1> DEFINE Takes ==
        behavior = "Skip" /\ status = "idle" /\ expire # 0 /\ expire' # expire =>
          LET ticks == {t \in (expire + 1)..U64Max :
                          /\ (t - expire) % delay = 0
                          /\ t > now \/ (t = now /\ t = expire + delay)}
          IN  expire' \in ticks /\ \A t \in ticks : expire' <= t
  <1>1. IntervalInv /\ [IntervalNext]_intervalVars => [Takes]_intervalVars
    <2> SUFFICES ASSUME IntervalInv, IntervalNext, behavior = "Skip", status = "idle",
                        expire # 0, expire' # expire
                 PROVE  Takes
      OBVIOUS
    <2>1. NextTick
      BY DEF IntervalNext, SetMissedTickBehavior, WaitReturns, ClockTicks, Panicked,
             intervalVars
    <2>2. expire \in Nat /\ ~Overflows(expire) /\ expire' = SkipTick(expire)
      BY <2>1 DEF NextTick, LastTick, Tick, IntervalInv, IntervalTypeOK
    <2> QED BY <2>2, SkipIsFirst
  <1> QED BY <1>1, IntervalInvHolds, PTL DEF IntervalSpec, SkipTakesFirst

-----------------------------------------------------------------------------
(***************************************************************************)
(* The nodes that dropping the runtime goes through are those of the        *)
(* workers that exist (NodesAreWorkers), it misses none (DropMissesNone)    *)
(* and interrupts none twice in a round (NoBusyLoop), for any number of     *)
(* workers.                                                                 *)
(*                                                                         *)
(* The invariant says which of the two lists a node is in: workers that     *)
(* were alive when the round began are in drop()'s own list, or were        *)
(* interrupted, never both; that list is empty outside of its inner loop.   *)
(***************************************************************************)

Nodes ==
  /\ workers \in Seq(Workers) /\ list \in Seq(Workers)
  /\ IsInjective(workers) /\ IsInjective(list)
  /\ Range(workers) \cap Range(list) = {}
  /\ Range(workers) \cup Range(list) = alive

Looping ==
  /\ alive \cup old \subseteq spawned
  /\ pc \notin {"interrupt", "callback"} => list = <<>>
  /\ pc \in {"interrupt", "callback", "exit"} =>
       /\ old \cap alive \subseteq notified \cup Range(list)
       /\ Range(list) \cap notified = {}
  /\ pc = "dropped" => alive = {}

RuntimeInv == Nodes /\ Looping

-----------------------------------------------------------------------------
(* What the operations on lists do.                                         *)

LEMMA Concatenated ==
  ASSUME NEW S, NEW s \in Seq(S), NEW t \in Seq(S)
  PROVE  /\ Range(s \o t) = Range(s) \cup Range(t)
         /\ (IsInjective(s) /\ IsInjective(t) /\ Range(s) \cap Range(t) = {}) =>
              IsInjective(s \o t)
PROOF
  <1> DEFINE st == s \o t
  <1>1. /\ DOMAIN st = 1..(Len(s) + Len(t))
        /\ \A i \in 1..Len(s) : st[i] = s[i]
        /\ \A i \in (Len(s) + 1)..(Len(s) + Len(t)) :
             st[i] = t[i - Len(s)] /\ i - Len(s) \in DOMAIN t
        /\ DOMAIN s = 1..Len(s) /\ DOMAIN t = 1..Len(t)
        /\ Len(s) \in Nat /\ Len(t) \in Nat
    OBVIOUS
  <1>2. Range(st) = Range(s) \cup Range(t)
    <2>1. ASSUME NEW i \in DOMAIN st PROVE st[i] \in Range(s) \cup Range(t)
      BY <1>1 DEF Range
    <2>2. ASSUME NEW i \in DOMAIN s PROVE s[i] \in Range(st)
      BY <1>1 DEF Range
    <2>3. ASSUME NEW i \in DOMAIN t PROVE t[i] \in Range(st)
      <3>1. Len(s) + i \in DOMAIN st /\ st[Len(s) + i] = t[i]
        BY <1>1
      <3> QED BY <3>1 DEF Range
    <2> QED BY <2>1, <2>2, <2>3, Zenon DEF Range
  <1>3. ASSUME IsInjective(s), IsInjective(t), Range(s) \cap Range(t) = {},
               NEW i \in DOMAIN st, NEW j \in DOMAIN st, st[i] = st[j]
        PROVE  i = j
    <2>1. CASE i <= Len(s) /\ j <= Len(s)
      BY <1>1, <1>3, <2>1 DEF IsInjective
    <2>2. CASE i > Len(s) /\ j > Len(s)
      <3>1. i - Len(s) \in DOMAIN t /\ j - Len(s) \in DOMAIN t
            /\ t[i - Len(s)] = t[j - Len(s)]
        BY <1>1, <1>3, <2>2
      <3>2. i - Len(s) = j - Len(s)
        BY <1>3, <3>1 DEF IsInjective
      <3> QED BY <1>1, <3>2
    <2>3. \A k \in DOMAIN st : IF k <= Len(s) THEN st[k] \in Range(s)
                               ELSE st[k] \in Range(t)
      BY <1>1 DEF Range
    <2>4. i <= Len(s) <=> j <= Len(s)
      BY <1>3, <2>3, Zenon
    <2> QED BY <1>1, <2>1, <2>2, <2>4
  <1> QED BY <1>2, <1>3, Zenon DEF IsInjective

LEMMA Appended ==
  ASSUME NEW S, NEW s \in Seq(S), NEW e \in S
  PROVE  /\ Append(s, e) \in Seq(S)
         /\ Range(Append(s, e)) = Range(s) \cup {e}
         /\ IsInjective(s) /\ e \notin Range(s) => IsInjective(Append(s, e))
PROOF
  <1> DEFINE n == Len(s) + 1
             se == Append(s, e)
  <1>1. /\ se \in Seq(S) /\ DOMAIN s = 1..Len(s) /\ Len(s) \in Nat
        /\ DOMAIN se = DOMAIN s \cup {n} /\ n \notin DOMAIN s
        /\ \A i \in DOMAIN s : se[i] = s[i]
        /\ se[n] = e
    OBVIOUS
  <1>2. Range(se) = Range(s) \cup {e}
    BY <1>1 DEF Range
  <1>3. IsInjective(s) /\ e \notin Range(s) => IsInjective(se)
    BY <1>1, Zenon DEF Range, IsInjective
  <1> QED BY <1>1, <1>2, <1>3

LEMMA HeadAndTail ==
  ASSUME NEW S, NEW s \in Seq(S), s # <<>>, IsInjective(s)
  PROVE  /\ Tail(s) \in Seq(S) /\ Head(s) \in S
         /\ Range(s) = {Head(s)} \cup Range(Tail(s))
         /\ Head(s) \notin Range(Tail(s))
         /\ IsInjective(Tail(s))
PROOF
  <1>1. /\ Tail(s) \in Seq(S) /\ Head(s) = s[1] /\ 1 \in DOMAIN s /\ Head(s) \in S
        /\ DOMAIN Tail(s) = 1..(Len(s) - 1) /\ DOMAIN s = 1..Len(s) /\ Len(s) \in Nat
        /\ \A i \in 1..(Len(s) - 1) : Tail(s)[i] = s[i + 1] /\ i + 1 \in DOMAIN s
    OBVIOUS
  <1>2. Head(s) \notin Range(Tail(s))
    BY <1>1 DEF Range, IsInjective
  <1>3. ASSUME NEW i \in DOMAIN s PROVE s[i] \in {Head(s)} \cup Range(Tail(s))
    <2>1. CASE i = 1
      BY <1>1, <2>1
    <2>2. CASE i # 1
      <3>1. i - 1 \in DOMAIN Tail(s) /\ Tail(s)[i - 1] = s[i]
        BY <1>1, <2>2
      <3> QED BY <3>1 DEF Range
    <2> QED BY <2>1, <2>2
  <1>4. Range(Tail(s)) \subseteq Range(s)
    BY <1>1 DEF Range
  <1>5. IsInjective(Tail(s))
    BY <1>1 DEF IsInjective
  <1> QED BY <1>1, <1>2, <1>3, <1>4, <1>5 DEF Range

LEMMA Unlinked ==
  ASSUME NEW S, NEW s \in Seq(S), IsInjective(s), NEW w
  PROVE  /\ Unlink(s, w) \in Seq(S)
         /\ Range(Unlink(s, w)) = Range(s) \ {w}
         /\ IsInjective(Unlink(s, w))
PROOF
  <1> DEFINE at == {i \in DOMAIN s : s[i] = w}
  <1>1. CASE at = {}
    BY <1>1 DEF Unlink, Range
  <1>2. CASE at # {}
    <2> DEFINE k == CHOOSE i \in at : TRUE
               u == SubSeq(s, 1, k - 1) \o SubSeq(s, k + 1, Len(s))
    <2>1. Unlink(s, w) = u
      BY <1>2, Zenon DEF Unlink
    <2>2. k \in 1..Len(s) /\ s[k] = w /\ Len(s) \in Nat /\ DOMAIN s = 1..Len(s)
      BY <1>2
    <2> HIDE DEF k
    <2>3. /\ SubSeq(s, 1, k - 1) \in Seq(S) /\ Len(SubSeq(s, 1, k - 1)) = k - 1
          /\ \A i \in 1..(k - 1) : SubSeq(s, 1, k - 1)[i] = s[i]
      BY <2>2
    <2>4. /\ SubSeq(s, k + 1, Len(s)) \in Seq(S)
          /\ Len(SubSeq(s, k + 1, Len(s))) =
               IF k + 1 <= Len(s) THEN Len(s) - (k + 1) + 1 ELSE 0
          /\ \A i \in 1..(Len(s) - (k + 1) + 1) :
               SubSeq(s, k + 1, Len(s))[i] = s[(k + 1) + i - 1]
      <3>1. k + 1 \in Int /\ Len(s) \in Int /\ \A i \in (k + 1)..Len(s) : s[i] \in S
        BY <2>2
      <3> QED BY <2>2, <3>1
    <2>5. /\ u \in Seq(S) /\ DOMAIN u = 1..(Len(s) - 1)
          /\ \A i \in 1..(Len(s) - 1) : u[i] = IF i < k THEN s[i] ELSE s[i + 1]
      <3>1. PICK a \in Seq(S) : /\ a = SubSeq(s, 1, k - 1) /\ Len(a) = k - 1
                                /\ \A i \in 1..(k - 1) : a[i] = s[i]
        BY <2>3, Zenon
      <3>2. PICK b \in Seq(S) :
              /\ b = SubSeq(s, k + 1, Len(s))
              /\ Len(b) = IF k + 1 <= Len(s) THEN Len(s) - (k + 1) + 1 ELSE 0
              /\ \A i \in 1..(Len(s) - (k + 1) + 1) : b[i] = s[(k + 1) + i - 1]
        BY <2>4, Zenon
      <3>3. u = a \o b
        BY <3>1, <3>2, Zenon
      <3>4. /\ a \o b \in Seq(S) /\ DOMAIN (a \o b) = 1..(Len(s) - 1)
            /\ \A i \in 1..(Len(s) - 1) :
                 (a \o b)[i] = IF i < k THEN s[i] ELSE s[i + 1]
        <4>1. /\ Len(a) = k - 1 /\ \A i \in 1..(k - 1) : a[i] = s[i]
              /\ Len(b) = IF k + 1 <= Len(s) THEN Len(s) - (k + 1) + 1 ELSE 0
              /\ \A i \in 1..(Len(s) - (k + 1) + 1) : b[i] = s[(k + 1) + i - 1]
          BY <3>1, <3>2, Zenon
        <4>2. k \in 1..Len(s)
          BY <2>2, Zenon
        <4>3. Len(s) \in Nat /\ k \in Nat /\ Len(b) = Len(s) - k
          BY <4>1, <4>2
        <4>4. a \o b \in Seq(S) /\ DOMAIN (a \o b) = 1..(Len(s) - 1)
          BY <4>1, <4>3
        <4>5. ASSUME NEW i \in 1..(Len(s) - 1), i < k PROVE (a \o b)[i] = s[i]
          BY <4>1, <4>3, <4>5
        <4>6. ASSUME NEW i \in 1..(Len(s) - 1), ~(i < k)
              PROVE  (a \o b)[i] = s[i + 1]
          <5>1. /\ (a \o b)[i] = b[i - (k - 1)]
                /\ i - (k - 1) \in 1..(Len(s) - (k + 1) + 1)
                /\ (k + 1) + (i - (k - 1)) - 1 = i + 1
            BY <4>1, <4>3, <4>6
          <5> QED BY <4>1, <5>1, Zenon
        <4> QED BY <4>4, <4>5, <4>6
      <3> QED BY <3>3, <3>4, Zenon
    <2> HIDE DEF u
    <2>6. \A i \in DOMAIN s : s[i] = w => i = k
      BY <2>2 DEF IsInjective
    <2>7. ASSUME NEW i \in DOMAIN u PROVE u[i] \in Range(s) \ {w}
      <3>1. CASE i < k
        BY <2>2, <2>5, <2>6, <3>1 DEF Range
      <3>2. CASE ~(i < k)
        <4>1. i + 1 \in DOMAIN s /\ i + 1 # k /\ u[i] = s[i + 1]
          BY <2>2, <2>5, <3>2
        <4> QED BY <2>6, <4>1, Zenon DEF Range
      <3> QED BY <3>1, <3>2, Zenon
    <2>8. ASSUME NEW i \in DOMAIN s, s[i] # w PROVE s[i] \in Range(u)
      <3>1. CASE i < k
        <4>1. i \in DOMAIN u /\ u[i] = s[i]
          BY <2>2, <2>5, <3>1
        <4> QED BY <4>1, Zenon DEF Range
      <3>2. CASE ~(i < k)
        <4>1. i - 1 \in DOMAIN u /\ u[i - 1] = s[i]
          BY <2>2, <2>5, <2>8, <3>2
        <4> QED BY <4>1, Zenon DEF Range
      <3> QED BY <3>1, <3>2
    <2>9. IsInjective(u)
      <3>1. ASSUME NEW i \in DOMAIN u, NEW j \in DOMAIN u, u[i] = u[j]
            PROVE  i = j
        <4> DEFINE p(n) == IF n < k THEN n ELSE n + 1
        <4>1. p(i) \in DOMAIN s /\ p(j) \in DOMAIN s /\ s[p(i)] = s[p(j)]
          BY <2>2, <2>5, <3>1
        <4>2. p(i) = p(j)
          BY <4>1 DEF IsInjective
        <4> QED BY <2>2, <2>5, <4>2
      <3> QED BY <3>1, Zenon DEF IsInjective
    <2>10. Range(u) = Range(s) \ {w}
      BY <2>7, <2>8, Zenon DEF Range
    <2> QED BY <2>1, <2>5, <2>9, <2>10
  <1> QED BY <1>1, <1>2, Zenon

-----------------------------------------------------------------------------
LEMMA InitRuntimeInv == RuntimeInit => RuntimeInv
PROOF
  BY DEF RuntimeInit, RuntimeInv, Nodes, Looping, Range, IsInjective

LEMMA SpawnInv ==
  ASSUME NEW w \in Workers, RuntimeInv, Spawn(w)
  PROVE  RuntimeInv'
PROOF
  <1>1. w \notin alive /\ w \notin old
    BY DEF Spawn, RuntimeInv, Looping
  <1>2. Nodes'
    BY <1>1, Appended DEF Spawn, RuntimeInv, Nodes
  <1>3. Looping'
    BY <1>1, Zenon DEF Spawn, TasksRun, RuntimeInv, Looping
  <1> QED BY <1>2, <1>3 DEF RuntimeInv

LEMMA WorkerEndsInv ==
  ASSUME NEW w \in Workers, RuntimeInv, WorkerEnds(w)
  PROVE  RuntimeInv'
PROOF
  <1>1. /\ workers' \in Seq(Workers) /\ Range(workers') = Range(workers) \ {w}
        /\ IsInjective(workers')
    BY Unlinked, Zenon DEF WorkerEnds, RuntimeInv, Nodes
  <1>2. /\ list' \in Seq(Workers) /\ Range(list') = Range(list) \ {w}
        /\ IsInjective(list')
    BY Unlinked DEF WorkerEnds, RuntimeInv, Nodes
  <1>3. alive' = alive \ {w} /\ UNCHANGED <<spawned, notified, old, pc>>
    BY Zenon DEF WorkerEnds
  <1>4. Nodes'
    BY <1>1, <1>2, <1>3 DEF RuntimeInv, Nodes
  <1>5. list = <<>> => list' = <<>>
    BY DEF WorkerEnds, Unlink
  <1>6. Looping'
    BY <1>2, <1>3, <1>5 DEF WorkerEnds, TasksRun, RuntimeInv, Looping
  <1> QED BY <1>4, <1>6 DEF RuntimeInv

LEMMA InterruptWorkerInv ==
  ASSUME RuntimeInv, InterruptWorker
  PROVE  RuntimeInv' /\ Head(list) \notin notified
PROOF
  <1>1. /\ Tail(list) \in Seq(Workers) /\ Head(list) \in Workers
        /\ Range(list) = {Head(list)} \cup Range(Tail(list))
        /\ Head(list) \notin Range(Tail(list)) /\ IsInjective(Tail(list))
    BY HeadAndTail, Zenon DEF InterruptWorker, RuntimeInv, Nodes
  <1>2. Nodes'
    BY <1>1, Appended DEF InterruptWorker, RuntimeInv, Nodes
  <1>3. Looping' /\ Head(list) \notin notified
    BY <1>1 DEF InterruptWorker, RuntimeInv, Looping
  <1> QED BY <1>2, <1>3, Zenon DEF RuntimeInv

LEMMA NextRuntimeInv == RuntimeInv /\ [RuntimeNext]_runtimeVars => RuntimeInv'
PROOF
  <1> SUFFICES ASSUME RuntimeInv, [RuntimeNext]_runtimeVars PROVE RuntimeInv'
    OBVIOUS
  <1>1. CASE Round
    <2>1. list = <<>> /\ Range(<<>>) = {} /\ IsInjective(<<>>)
      BY <1>1 DEF Round, RuntimeInv, Looping, Range, IsInjective
    <2>2. Nodes'
      BY <1>1, <2>1, Zenon DEF Round, RuntimeInv, Nodes
    <2>3. Looping'
      BY <1>1, <2>1, Zenon DEF Round, RuntimeInv, Nodes, Looping
    <2> QED BY <2>2, <2>3 DEF RuntimeInv
  <1>2. CASE Drop \/ InterruptReturns \/ Exit \/ ExitReturns
    BY <1>2, Zenon DEF Drop, InterruptReturns, Exit, ExitReturns, RuntimeInv, Nodes, Looping
  <1>3. CASE Dropped \/ UNCHANGED runtimeVars
    BY <1>3 DEF Dropped, runtimeVars, RuntimeInv, Nodes, Looping
  <1> QED BY <1>1, <1>2, <1>3, SpawnInv, WorkerEndsInv, InterruptWorkerInv DEF RuntimeNext

LEMMA RuntimeInvHolds == RuntimeSpec => []RuntimeInv
PROOF
  BY InitRuntimeInv, NextRuntimeInv, PTL DEF RuntimeSpec

(* Every node that Runtime::drop may follow is that of a worker that exists *)
(* and every worker has one, in one of the two lists.                       *)
THEOREM NodesAreWorkersHolds == RuntimeSpec => []NodesAreWorkers
PROOF
  <1>1. RuntimeInv => NodesAreWorkers
    <2> SUFFICES ASSUME Nodes PROVE NodesAreWorkers
      BY DEF RuntimeInv
    <2>1. workers \in Seq(Workers) /\ list \in Seq(Workers)
      BY DEF Nodes
    <2>2. Range(workers \o list) = Range(workers) \cup Range(list)
      BY <2>1, Concatenated
    <2>3. IsInjective(workers \o list)
      <3>1. /\ IsInjective(workers) /\ IsInjective(list)
            /\ Range(workers) \cap Range(list) = {}
        BY DEF Nodes
      <3> QED BY <2>1, <3>1, Concatenated
    <2> QED BY <2>2, <2>3 DEF Nodes, NodesAreWorkers
  <1> QED BY <1>1, RuntimeInvHolds, PTL

(* Runtime::drop misses no worker, and returns when there are none.         *)
THEOREM DropMissesNoneHolds == RuntimeSpec => []DropMissesNone
PROOF
  <1>1. RuntimeInv => DropMissesNone
    BY DEF RuntimeInv, Looping, DropMissesNone, Range
  <1> QED BY <1>1, RuntimeInvHolds, PTL

(* Runtime::drop interrupts no worker twice in a round: its inner loop does *)
(* not go round for a worker that takes its time.                           *)
THEOREM NoBusyLoopHolds == RuntimeSpec => NoBusyLoop
PROOF
  <1>1. RuntimeInv /\ [RuntimeNext]_runtimeVars =>
          [pc = "interrupt" /\ pc' = "callback" => Head(list) \notin notified]_runtimeVars
    BY InterruptWorkerInv
    DEF RuntimeNext, Spawn, WorkerEnds, Drop, Round, InterruptReturns, Exit, ExitReturns,
        Dropped, runtimeVars
  <1> QED BY <1>1, RuntimeInvHolds, PTL DEF RuntimeSpec, NoBusyLoop
=============================================================================
