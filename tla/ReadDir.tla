------------------------------ MODULE ReadDir ------------------------------
(***************************************************************************)
(* Directory listings (fs/readdir.rs) and run_blocking() (ops/blocking.rs), *)
(* which they use: a thread of the pool reads a block of entries into the   *)
(* iterator, on behalf of a task that is suspended until the work is done   *)
(* and may be interrupted meanwhile.                                        *)
(***************************************************************************)
EXTENDS Integers, Sequences

CONSTANTS
  Entries,    \* how many entries the directory has
  Dots,       \* which of them are "." and ".."
  Block       \* how many a read returns at most

ASSUME ReadDirAssumption == Entries \in Nat /\ Block \in Nat \ {0}

VARIABLES
  unread,       \* entries the kernel still has
  cached,       \* DirEnts: entries read and not returned yet
  is_eof,       \* DirEnts: a read found no more
  returned,     \* entries next() has returned
  interrupt,    \* is the task interrupted
  cancelled,    \* TaskContext::cancelled
  work,         \* the work: "none", "queued", "running", "intr", "ran", "removed"
  result,       \* what read_from_fd() returned last
  stage            \* the task: in its own code, in next(), or suspended

readDirVars == <<unread, cached, is_eof, returned, interrupt, cancelled, work, result, stage>>
dirVars == <<unread, cached, is_eof>>

All == [i \in 1..Entries |-> i]

DirInit ==
  /\ unread = All
  /\ cached = <<>>
  /\ is_eof = FALSE
  /\ returned = <<>>
  /\ interrupt = FALSE
  /\ cancelled = FALSE
  /\ work = "none"
  /\ result = "ok"
  /\ stage = "user"

(* The task calls next(). *)
Call ==
  /\ stage = "user"
  /\ stage' = "next"
  /\ UNCHANGED <<dirVars, returned, interrupt, cancelled, work, result>>

(* next() returns a cached entry. *)
NextEntry ==
  /\ stage = "next" /\ ~is_eof
  /\ cached # <<>> /\ Head(cached) \notin Dots
  /\ returned' = Append(returned, Head(cached))
  /\ cached' = Tail(cached)
  /\ stage' = "user"
  /\ UNCHANGED <<unread, is_eof, interrupt, cancelled, work, result>>

(* next() passes over "." and "..". *)
SkipDot ==
  /\ stage = "next" /\ ~is_eof
  /\ cached # <<>> /\ Head(cached) \in Dots
  /\ cached' = Tail(cached)
  /\ UNCHANGED <<unread, is_eof, returned, interrupt, cancelled, work, result, stage>>

(* next() returns None. *)
NextNone ==
  /\ stage = "next" /\ is_eof
  /\ stage' = "user"
  /\ UNCHANGED <<dirVars, returned, interrupt, cancelled, work, result>>

(* There is no cached entry: run_blocking(), which an interrupted task does *)
(* not get into.                                                            *)
RunBlocking ==
  /\ stage = "next" /\ ~is_eof
  /\ cached = <<>>
  /\ IF interrupt
     THEN stage' = "user" /\ UNCHANGED <<work, cancelled>>
     ELSE stage' = "suspended" /\ work' = "queued" /\ cancelled' = FALSE
  /\ UNCHANGED <<dirVars, returned, interrupt, result>>

(* Mutant: the entries are dropped when the task was interrupted. *)
RunBlockingReturnsDropping ==
  /\ stage = "suspended"
  /\ work \in {"ran", "removed"}
  /\ stage' = IF work = "ran" /\ result = "ok" THEN "next" ELSE "user"
  /\ cached' = IF interrupt THEN <<>> ELSE cached
  /\ work' = "none"
  /\ UNCHANGED <<unread, is_eof, returned, interrupt, cancelled, result>>

(* The work is over.  It did not run, or its read failed: next() returns    *)
(* the error; otherwise next() goes on.                                     *)
RunBlockingReturns ==
  /\ stage = "suspended"
  /\ work \in {"ran", "removed"}
  /\ stage' = IF work = "ran" /\ result = "ok" THEN "next" ELSE "user"
  /\ work' = "none"
  /\ UNCHANGED <<dirVars, returned, interrupt, cancelled, result>>

-----------------------------------------------------------------------------
(* The pool's thread.                                                       *)

StartWork ==
  /\ work = "queued"
  /\ work' = "running"
  /\ UNCHANGED <<dirVars, returned, interrupt, cancelled, result, stage>>

ReadInterrupted ==
  /\ work = "running"
  /\ result' = "intr"
  /\ work' = "intr"
  /\ UNCHANGED <<dirVars, returned, interrupt, cancelled, stage>>

(* Mutant: an interrupted read is always tried again. *)
RetryAlways ==
  /\ work = "intr"
  /\ work' = "running"
  /\ UNCHANGED <<dirVars, returned, interrupt, cancelled, result, stage>>

(* An interrupted read is tried again unless the work is cancelled. *)
Retry ==
  /\ work = "intr"
  /\ work' = IF cancelled THEN "ran" ELSE "running"
  /\ UNCHANGED <<dirVars, returned, interrupt, cancelled, result, stage>>

ReadFails ==
  /\ work = "running"
  /\ result' = "error"
  /\ work' = "ran"
  /\ UNCHANGED <<dirVars, returned, interrupt, cancelled, stage>>

(* read_from_fd() fills the cache, or finds the end. *)
ReadFromFd ==
  /\ work = "running"
  /\ IF unread = <<>>
     THEN is_eof' = TRUE /\ UNCHANGED <<cached, unread>>
     ELSE /\ \E n \in 1..Block :
               /\ n <= Len(unread)
               /\ cached' = SubSeq(unread, 1, n)
               /\ unread' = SubSeq(unread, n + 1, Len(unread))
          /\ UNCHANGED is_eof
  /\ result' = "ok"
  /\ work' = "ran"
  /\ UNCHANGED <<returned, interrupt, cancelled, stage>>

-----------------------------------------------------------------------------
(* Interrupts.                                                              *)

(* cancel_direct(): work that has not started is removed, and work that is  *)
(* running is told.                                                         *)
InterruptListing ==
  /\ interrupt' = TRUE
  /\ cancelled' = (cancelled \/ work \in {"running", "intr"})
  /\ work' = IF work = "queued" THEN "removed" ELSE work
  /\ UNCHANGED <<dirVars, returned, result, stage>>

TakeListingInterrupt ==
  /\ stage = "user"
  /\ interrupt' = FALSE
  /\ UNCHANGED <<dirVars, returned, cancelled, work, result, stage>>

DirNext ==
  \/ Call \/ NextEntry \/ SkipDot \/ NextNone \/ RunBlocking \/ RunBlockingReturns
  \/ StartWork \/ ReadInterrupted \/ Retry \/ ReadFails \/ ReadFromFd
  \/ InterruptListing \/ TakeListingInterrupt

(* The task goes on when it can, and so does a thread of the pool.  Nothing *)
(* says that a read is ever anything but interrupted.                       *)
DirFairness ==
  /\ WF_readDirVars(NextEntry) /\ WF_readDirVars(SkipDot) /\ WF_readDirVars(NextNone)
  /\ WF_readDirVars(RunBlocking) /\ WF_readDirVars(RunBlockingReturns)
  /\ WF_readDirVars(StartWork) /\ WF_readDirVars(Retry)
  /\ WF_readDirVars(ReadInterrupted \/ ReadFails \/ ReadFromFd)

DirSpec == DirInit /\ [][DirNext]_readDirVars
DirFairSpec == DirSpec /\ DirFairness

-----------------------------------------------------------------------------
(* Properties.                                                              *)

Elems(entries) == {entries[i] : i \in DOMAIN entries}

(* next() is cancel safe, as its documentation says: every entry is         *)
(* returned once and in order, wherever the task is interrupted: those that *)
(* are neither cached nor with the kernel, "." and ".." apart, have been.   *)
(* None comes after the last one only.                                      *)
EveryEntryOnce ==
  /\ \A i, j \in DOMAIN returned : i < j => returned[i] < returned[j]
  /\ Elems(returned) = (1..Entries) \ (Dots \cup Elems(cached) \cup Elems(unread))
  /\ is_eof => Elems(returned) = (1..Entries) \ Dots

(* A task that is interrupted gets out of next(), though the reads be       *)
(* interrupted for ever: the retries stop when the work is cancelled.       *)
InterruptEnds == interrupt ~> stage = "user"
=============================================================================
