-------------------------------- MODULE File --------------------------------
(***************************************************************************)
(* File (fs/file.rs): reads and writes at an offset kept by the handle,     *)
(* which moves only once an operation is known to have succeeded.  The task *)
(* may be interrupted while it is suspended, and calls again.               *)
(***************************************************************************)
EXTENDS Integers, Sequences

CONSTANTS
  MaxSize,    \* bound: the largest position used
  MaxLen      \* bound: the longest buffer

ASSUME FileAssumption == {MaxSize, MaxLen} \subseteq Nat

VARIABLES
  offset,       \* File::offset
  size,         \* the size of the file
  interrupted,  \* is the task interrupted
  req,           \* the operation the task is suspended in
  res,          \* that operation's result
  from,         \* the position of the last seek
  log,          \* positions of the bytes transferred since, as callers were told
  eof           \* did the last read() return zero before the end of the file

fileVars == <<offset, size, interrupted, req, res, from, log, eof>>

Pending == -2
Failed == -1
Idle == [kind |-> "none", at |-> 0, len |-> 0]

FileInit ==
  /\ offset = 0
  /\ size \in 0..MaxSize
  /\ interrupted = FALSE
  /\ req = Idle
  /\ res = Pending
  /\ from = 0
  /\ log = <<>>
  /\ eof = FALSE

(* Mutant: the offset moves when the operation starts. *)
TransferMovesFirst(kind, len) ==
  /\ req = Idle /\ ~interrupted
  /\ req' = [kind |-> kind, at |-> offset, len |-> len]
  /\ offset' = offset + len
  /\ UNCHANGED <<size, interrupted, res, from, log, eof>>

(* read() and write() start an operation.  While the task is interrupted,   *)
(* or the driver is exiting, they fail and change nothing.                  *)
Transfer(kind, len) ==
  /\ req = Idle /\ ~interrupted
  /\ req' = [kind |-> kind, at |-> offset, len |-> len]
  /\ UNCHANGED <<offset, size, interrupted, res, from, log, eof>>

(* The operation's result is an error, or n bytes that move the offset. *)
TransferResult(fails) ==
  LET n == IF fails THEN 0 ELSE res
  IN  /\ req.kind \in {"read", "write"} /\ res # Pending
      /\ offset' = offset + n
      /\ log' = log \o [i \in 1..n |-> req.at + i - 1]
      /\ eof' = (~fails /\ n = 0 /\ req.kind = "read" /\ req.at < size)
      /\ req' = Idle
      /\ res' = Pending
      /\ UNCHANGED <<size, interrupted, from>>

(* Mutant: a zero is not checked for an interrupt. *)
TransferReturnsZero == TransferResult(res = Failed)

(* check_interrupt_if_zero() makes an error of the zero of an interrupted   *)
(* task.                                                                    *)
TransferReturns == TransferResult(res = Failed \/ (res = 0 /\ interrupted))

(* The offset is set. *)
SeekTo(pos) == offset' = pos /\ from' = pos /\ log' = <<>>

(* SeekFrom::Start and SeekFrom::Current, which do not suspend. *)
SeekNow(pos) ==
  /\ req = Idle
  /\ SeekTo(pos)
  /\ UNCHANGED <<size, interrupted, req, res, eof>>

(* SeekFrom::End asks for the file's size first; rel is relative to it. *)
SeekEnd(rel) ==
  /\ req = Idle /\ ~interrupted
  /\ req' = [kind |-> "seek", at |-> rel, len |-> 0]
  /\ UNCHANGED <<offset, size, interrupted, res, from, log, eof>>

(* The offset stays as it was when that fails, or when the call unwinds as  *)
(* the position would be negative.                                          *)
SeekEndReturns ==
  /\ req.kind = "seek" /\ res # Pending
  /\ IF res = Failed \/ res + req.at < 0
     THEN UNCHANGED <<offset, from, log>>
     ELSE SeekTo(res + req.at)
  /\ req' = Idle
  /\ res' = Pending
  /\ UNCHANGED <<size, interrupted, eof>>

-----------------------------------------------------------------------------
(* The kernel and other tasks.                                              *)

Finishes(result) ==
  /\ req # Idle /\ res = Pending
  /\ res' = result
  /\ UNCHANGED <<offset, interrupted, req, from, log, eof>>

OpReads ==
  /\ req.kind = "read"
  /\ IF req.at < size
     THEN \E n \in 1..req.len : req.at + n <= size /\ Finishes(n)
     ELSE Finishes(0)
  /\ UNCHANGED size

OpWrites ==
  /\ req.kind = "write"
  /\ \E n \in 1..req.len :
       /\ req.at + n <= MaxSize
       /\ Finishes(n)
       /\ size' = IF req.at + n > size THEN req.at + n ELSE size

OpQueries == req.kind = "seek" /\ Finishes(size) /\ UNCHANGED size

(* An operation fails; one that is cancelled may also end with nothing done.*)
OpFails ==
  /\ \/ Finishes(Failed)
     \/ interrupted /\ req.kind \in {"read", "write"} /\ Finishes(0)
  /\ UNCHANGED size

(* Another task interrupts this one, at any time. *)
Interrupt ==
  /\ interrupted' = TRUE
  /\ UNCHANGED <<offset, size, req, res, from, log, eof>>

(* take_interrupt(): the task itself takes note of it. *)
TakeInterrupt ==
  /\ req = Idle
  /\ interrupted' = FALSE
  /\ UNCHANGED <<offset, size, req, res, from, log, eof>>

FileNext ==
  \/ \E kind \in {"read", "write"}, len \in 1..MaxLen : Transfer(kind, len)
  \/ TransferReturns
  \/ \E pos \in 0..MaxSize : SeekNow(pos)
  \/ \E rel \in {-1, 0} : SeekEnd(rel)
  \/ SeekEndReturns
  \/ OpReads \/ OpWrites \/ OpQueries \/ OpFails
  \/ Interrupt \/ TakeInterrupt

FileSpec == FileInit /\ [][FileNext]_fileVars

-----------------------------------------------------------------------------
(* Properties.                                                              *)

(* Reads, writes and seeks are cancel safe, as their documentation says: a  *)
(* caller that goes on after an error or an interrupt misses no byte of the *)
(* file and meets none twice, from the last successful seek on, and the     *)
(* next transfer is where that seek and the transfers since have led to.    *)
CancelSafe ==
  /\ \A i \in 1..Len(log) : log[i] = from + i - 1
  /\ req.kind \in {"read", "write"} => req.at = from + Len(log)

(* read() returns zero at the end of the file only, never for an interrupt. *)
ZeroIsEnd == ~eof
=============================================================================
