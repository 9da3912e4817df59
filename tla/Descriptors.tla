---------------------------- MODULE Descriptors ----------------------------
(***************************************************************************)
(* Who owns a file descriptor: the calls that make sockets and files        *)
(* (Tcp::connect, Tcp::bind, Udp::connect, Udp::bind, TcpListener::accept   *)
(* and DatagramSocket::connect_addrs in net/socket.rs, File::open), those   *)
(* that close them, and the operations of ops/io.rs they are made of.       *)
(*                                                                         *)
(* A call is a series of operations, each refused at its start while the    *)
(* task is interrupted or the driver exits, and each of which may fail; a   *)
(* descriptor in an OwnedFd is closed where that goes out of scope.  The    *)
(* table of descriptors is the kernel's, shared by all threads; so that an  *)
(* operation that the engine does at once, without suspending the task, is  *)
(* a step of its own, too.                                                  *)
(***************************************************************************)
EXTENDS Integers

CONSTANTS
  Tasks,     \* the tasks that make and hold descriptors
  MaxFd,     \* bound: descriptors are 0..MaxFd, more cannot be open
  MaxAddrs   \* bound: addresses that a name resolves to

ASSUME DescriptorsAssumption == {MaxFd, MaxAddrs} \subseteq Nat

Fds == 0..MaxFd

(* In the place of a descriptor, or of an operation's result. *)
None == -1
Failed == -2
Done == -3

VARIABLES
  table,        \* of each descriptor, "free" or what has become of its file
  handle,       \* of each task, the File or Socket it has: the call it comes
                \* from, and its descriptor
  call,         \* of each task, the call it is in: the operation to do next,
                \* the addresses left, and the descriptor in a local variable
  running,      \* tasks whose operation was started and not completed
  res,          \* of those, the operation's result, None until it has one
  cancelled,    \* of those, the tasks whose operation was cancelled
  interrupted,  \* tasks that were interrupted
  exiting       \* is the driver exiting

vars == <<table, handle, call, running, res, cancelled, interrupted, exiting>>

Dialling == {"connect", "bind", "listen"}    \* with foreach_addr, new sockets

NoHandle == [kind |-> "none", fd |-> None]
NoCall == [kind |-> "none", step |-> "none", addrs |-> 0, sock |-> None]

Init ==
  /\ table = [n \in Fds |-> "free"]
  /\ handle = [t \in Tasks |-> NoHandle]
  /\ call = [t \in Tasks |-> NoCall]
  /\ running = {}
  /\ res = [t \in Tasks |-> None]
  /\ cancelled = {}
  /\ interrupted = {}
  /\ exiting = FALSE

-----------------------------------------------------------------------------
(* Calls.                                                                   *)

FirstStep(kind) == IF kind \in Dialling THEN "socket"
                   ELSE IF kind = "connect_addrs" THEN "connect" ELSE kind

Begin(t, kind, addrs, sock) ==
  /\ call[t] = NoCall
  /\ call' = [call EXCEPT ![t] = [kind |-> kind, step |-> FirstStep(kind),
                                  addrs |-> addrs, sock |-> sock]]
  /\ UNCHANGED <<table, running, res, cancelled, interrupted, exiting>>

(* Tcp::connect and Udp::connect, Udp::bind, Tcp::bind.  A name that does   *)
(* not resolve, or to no address, is an error at once.                      *)
Dial(t, kind, n) ==
  /\ handle[t] = NoHandle
  /\ Begin(t, kind, n, None)
  /\ UNCHANGED handle

(* TcpListener::accept and File::open: a single operation. *)
Obtain(t, kind) ==
  /\ handle[t] = NoHandle
  /\ Begin(t, kind, 0, None)
  /\ UNCHANGED handle

(* DatagramSocket::connect_addrs, on a socket that stays where it is. *)
ConnectAddrs(t, n) ==
  /\ handle[t].kind \in {"bind", "connect"}
  /\ Begin(t, "connect_addrs", n, None)
  /\ UNCHANGED handle

(* File::close and Socket::close hand their OwnedFd to io::close. *)
Close(t) ==
  /\ handle[t] # NoHandle
  /\ Begin(t, "close", 0, handle[t].fd)
  /\ handle' = [handle EXCEPT ![t] = NoHandle]

(* A File or Socket goes out of scope. *)
DropHandle(t) ==
  /\ handle[t] # NoHandle /\ call[t] = NoCall
  /\ table' = [table EXCEPT ![handle[t].fd] = "free"]
  /\ handle' = [handle EXCEPT ![t] = NoHandle]
  /\ UNCHANGED <<call, running, res, cancelled, interrupted, exiting>>

-----------------------------------------------------------------------------
(* Operations.                                                              *)

(* The descriptor that the call's operations are for. *)
Sock(t) == IF call[t].kind = "connect_addrs" THEN handle[t].fd ELSE call[t].sock

AtStep(t) == call[t] # NoCall /\ t \notin running
Ended(t) == t \in running /\ res[t] # None

Completes(t) ==
  /\ running' = running \ {t}
  /\ res' = [res EXCEPT ![t] = None]
  /\ cancelled' = cancelled \ {t}
  /\ UNCHANGED <<interrupted, exiting>>

(* Mutant: an interrupt is not looked at. *)
MayStartAnyway(t) == ~exiting \/ call[t].step = "close"

(* async_engine_task: check_interrupt() and check_exiting(), which close is *)
(* exempt from.                                                             *)
MayStart(t) == (t \notin interrupted /\ ~exiting) \/ call[t].step = "close"

Start(t) ==
  /\ AtStep(t)
  /\ MayStart(t)
  /\ running' = running \cup {t}
  /\ UNCHANGED <<table, handle, call, res, cancelled, interrupted, exiting>>

(* The call's own socket goes out of scope. *)
DropSock(t) ==
  table' = [n \in Fds |-> IF n = call[t].sock THEN "free" ELSE table[n]]

(* foreach_addr goes on to the next address, if there is one. *)
NextAddr(t) ==
  call' = [call EXCEPT ![t] =
    IF @.addrs > 1 /\ @.step # "listen"
    THEN [kind |-> @.kind, step |-> FirstStep(@.kind), addrs |-> @.addrs - 1,
          sock |-> None]
    ELSE NoCall]

(* Mutant: a socket that did not connect is kept open. *)
FailLeaks(t) == NextAddr(t) /\ UNCHANGED <<table, handle>>

(* The operation is an error, and `?' ends what the call is doing: for this *)
(* address, or altogether.                                                  *)
Fail(t) == DropSock(t) /\ NextAddr(t) /\ UNCHANGED handle

Refuse(t) ==
  /\ AtStep(t)
  /\ ~MayStart(t)
  /\ Fail(t)
  /\ UNCHANGED <<running, res, cancelled, interrupted, exiting>>

OpFailed(t) ==
  /\ Ended(t) /\ res[t] = Failed
  /\ Fail(t)
  /\ Completes(t)

(* An operation has succeeded.  A socket was created, and set_reuse_addr()  *)
(* called if it is to be bound: that may fail like the bind itself, ...     *)
Created(t) ==
  /\ Ended(t) /\ res[t] # Failed
  /\ call[t].step = "socket"
  /\ call' = [call EXCEPT ![t].step = IF call[t].kind = "connect" THEN "connect"
                                     ELSE "bind",
                          ![t].sock = res[t]]
  /\ Completes(t)
  /\ UNCHANGED <<table, handle>>

(* Mutant: a listener's socket is returned once it is bound. *)
LastStepEarly(t) ==
  call[t].step = "bind" \/ call[t].step = call[t].kind
    \/ call[t].kind = "connect_addrs"

LastStep(t) == call[t].step = call[t].kind \/ call[t].kind = "connect_addrs"

(* ... Tcp::bind has bound it and makes it listen, ... *)
Bound(t) ==
  /\ Ended(t) /\ res[t] # Failed
  /\ call[t].step = "bind" /\ ~LastStep(t)
  /\ call' = [call EXCEPT ![t].step = "listen"]
  /\ Completes(t)
  /\ UNCHANGED <<table, handle>>

(* ... it was the last one, and the call returns, ... *)
Return(t) ==
  /\ Ended(t) /\ res[t] # Failed
  /\ LastStep(t) /\ call[t].kind # "close"
  /\ handle' = [handle EXCEPT ![t] =
       [kind |-> IF call[t].kind = "connect_addrs" THEN "connect" ELSE call[t].kind,
        fd |-> IF res[t] = Done THEN Sock(t) ELSE res[t]]]
  /\ call' = [call EXCEPT ![t] = NoCall]
  /\ Completes(t)
  /\ UNCHANGED table

(* ... or io::close returns, which drops its argument, an OwnedFd. *)
Closed(t) ==
  /\ Ended(t) /\ res[t] # Failed
  /\ call[t].kind = "close"
  /\ DropSock(t)
  /\ call' = [call EXCEPT ![t] = NoCall]
  /\ Completes(t)
  /\ UNCHANGED handle

-----------------------------------------------------------------------------
(* The kernel and other tasks.                                              *)

Finish(t, result) ==
  /\ t \in running /\ res[t] = None
  /\ res' = [res EXCEPT ![t] = result]
  /\ UNCHANGED <<handle, call, running, cancelled, interrupted, exiting>>

Free == {n \in Fds : table[n] = "free"}

(* What an operation makes of its file. *)
Becomes(step) == CASE step = "socket" -> "new"
                   [] step = "open" -> "open"
                   [] step \in {"accept", "connect"} -> "connected"
                   [] step = "bind" -> "bound"
                   [] step = "listen" -> "listening"
                   [] step = "close" -> "free"

(* A file is opened at the lowest descriptor that is free. *)
OpOpens(t) ==
  /\ call[t].step \in {"socket", "accept", "open"}
  /\ \E n \in Free :
       /\ \A m \in Free : n <= m
       /\ Finish(t, n)
       /\ table' = [table EXCEPT ![n] = Becomes(call[t].step)]

(* An operation is done on the file at the call's descriptor. *)
OpChanges(t) ==
  /\ call[t].step \in {"connect", "bind", "listen", "close"}
  /\ table[Sock(t)] # "free"
  /\ Finish(t, Done)
  /\ table' = [table EXCEPT ![Sock(t)] = Becomes(call[t].step)]

OpFails(t) ==
  /\ call[t].step = "close" => table[call[t].sock] = "free"
  /\ Finish(t, Failed)
  /\ UNCHANGED table

(* Another task interrupts this one, at any time: an operation that runs is *)
(* cancelled, and still completes, with an error unless it is too late.     *)
Interrupt(t) ==
  /\ interrupted' = interrupted \cup {t}
  /\ cancelled' = cancelled \cup (running \cap {t})
  /\ UNCHANGED <<table, handle, call, running, res, exiting>>

(* take_interrupt(): the task itself takes note of it, between two calls. *)
TakeInterrupt(t) ==
  /\ call[t] = NoCall
  /\ interrupted' = interrupted \ {t}
  /\ UNCHANGED <<table, handle, call, running, res, cancelled, exiting>>

(* Driver::exit begins, and returns when no operation is left. *)
Exit ==
  /\ \/ ~exiting /\ exiting' = TRUE
     \/ exiting /\ running = {} /\ exiting' = FALSE
  /\ UNCHANGED <<table, handle, call, running, res, cancelled, interrupted>>

-----------------------------------------------------------------------------
TaskNext(t) ==
  \/ Start(t) \/ Refuse(t)
  \/ OpFailed(t) \/ Created(t) \/ Bound(t) \/ Return(t)

KernelNext(t) == OpOpens(t) \/ OpChanges(t) \/ OpFails(t)

(* Handles are dropped, not closed. *)
Next ==
  \/ \E t \in Tasks :
       \/ \E n \in 1..MaxAddrs :
            ConnectAddrs(t, n) \/ \E kind \in Dialling : Dial(t, kind, n)
       \/ \E kind \in {"accept", "open"} : Obtain(t, kind)
       \/ DropHandle(t)
       \/ TaskNext(t) \/ KernelNext(t)
       \/ Interrupt(t) \/ TakeInterrupt(t)
  \/ Exit

(* Tasks go on, and operations end: connect and accept only when they are   *)
(* cancelled.                                                               *)
Fairness ==
  \A t \in Tasks :
    /\ WF_vars(TaskNext(t))
    /\ WF_vars(KernelNext(t) /\ (t \in cancelled
                                 \/ call[t].step \notin {"connect", "accept"}))

Spec == Init /\ [][Next]_vars
FairSpec == Spec /\ Fairness

(* Handles are closed, too. *)
ClosingSpec == Init /\ [][Next \/ \E t \in Tasks : Close(t) \/ Closed(t)]_vars

-----------------------------------------------------------------------------
(* Properties.                                                              *)

(* The descriptors a task is to close: its handle's, its call's, and the    *)
(* one an operation has opened for it, be the task interrupted or not.      *)
Owned(t) ==
  {n \in Fds : \/ n = handle[t].fd
               \/ n = call[t].sock
               \/ n = res[t]}

(* No descriptor leaks, and none has two owners: every open descriptor is   *)
(* in one OwnedFd, or in the result of an operation its task waits for, at  *)
(* whatever step an operation fails, is refused or is cancelled.            *)
OneOwner ==
  /\ \A n \in Fds : table[n] # "free" <=> \E t \in Tasks : n \in Owned(t)
  /\ \A t, u \in Tasks : t # u => Owned(t) \cap Owned(u) = {}

(* A call that returns a socket has done to it what it is for: a Tcp that   *)
(* was bound listens and a connected one is connected, whichever of its     *)
(* addresses it was that worked.                                            *)
AsPromised ==
  \A t \in Tasks :
    /\ handle[t].kind \in {"connect", "accept"} => table[handle[t].fd] = "connected"
    /\ handle[t].kind = "listen" => table[handle[t].fd] = "listening"
    /\ handle[t].kind = "bind" => table[handle[t].fd] \in {"bound", "connected"}

(* A call whose task is interrupted returns: foreach_addr goes on to the    *)
(* next address after an interrupt, but can start no operation for it.      *)
InterruptReturns == \A t \in Tasks : t \in interrupted ~> call[t] = NoCall

(* "The equivalent of a close(2) syscall. Closes the file descriptor fd"    *)
(* (io::close): a handle that nobody closed still has its descriptor, open  *)
(* and to itself.                                                           *)
OpenUntilClosed ==
  \A t \in Tasks :
    handle[t] # NoHandle =>
      /\ table[handle[t].fd] # "free"
      /\ \A u \in Tasks \ {t} : handle[u].fd # handle[t].fd
=============================================================================
