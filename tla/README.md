# A TLA+ verification of xx-pulse

xx-pulse is an async runtime on stackful coroutines and io_uring. One thread runs
an event loop: it completes timers, waits in `io_uring_enter`, and runs the
callbacks of completed operations, which resume tasks, which start new operations.
Threads of a pool run blocking work and wake the loop through a queue and an event
fd. Most of what can go wrong is in the order of these steps: callbacks run in the
middle of the loops that call them, the kernel acts between any two of the engine's
steps, and tasks are interrupted at any time.

## Inventory: parts of the system and the modules about them

| part | source | module | state |
|---|---|---|---|
| waking the loop from other threads | `engine/uring/engine.rs`, `driver.rs` | `Wake`, `Waker` | modelled, proved |
| rings, counters, event loop of the engine | `engine/uring/engine.rs` | `IoUring`, `AsyncEngine` | modelled, proved |
| the two together | `engine/uring/engine.rs` | `Engine` | modelled, proved |
| timers, `block_while`, `exit` | `driver.rs`, `ops/timers.rs` | `Driver` | modelled, proved |
| worker list and drop of the runtime | `runtime.rs`, `ops/branch.rs` | `Runtime` | modelled, proved |
| interval timers | `interval.rs` | `Interval` | modelled, proved |
| starting operations, descriptors | `ops/io.rs` | `Driver`, `Descriptors` | partly, proved |
| sockets: making them | `net/socket.rs` | `Descriptors` | partly, proved |
| sockets: moving data | `net/socket.rs` | `Socket` | partly, proved |
| files | `fs/file.rs` | `File` | partly, proved |
| directories, blocking work | `fs/readdir.rs`, `ops/blocking.rs` | `ReadDir` | partly, proved |
| ring set-up, probing | `engine/uring/engine.rs` | `IoUring` | result only |
| submission entries, metadata, macros | `engine/uring/op.rs`, ... | - | not modelled |

xx-core (futures, coroutines, thread pool, event fd, linked list, budget) and the
kernel are not part of the repository. They are modelled from how the code uses
them, and marked external in `PROJECT.json`.

Paths are relative to the crate's `src/`. `PROJECT.json` maps each definition to
the lines it models.

## The modules

**Waker** and **AsyncEngine** are contracts. A waker's request is prepared, woken and
completed, in that order. An engine's operation is started, finishes, and is completed.

**Wake** has `expected_wakes`, `wake_queue` and `event_fd` as in `IoUring`; `armed` and
`fired` count the polls of the event fd, with the kernel or completed. `process_wake`
is split where it releases the lock and where it runs callbacks (`Drain`,
`CompleteNext`, `NextBatch`, `Rearm`), `wake` where it unlocks (`WakePush`,
`WakeSignal`). `DropEngine` closes the event fd before the pool's threads are joined,
which is the order of the fields.

**IoUring** has both rings with wrapping indices, `to_submit` and `to_complete`.
`enter()` is a state of its own: the kernel takes entries, posts completions, runs
deferred task work and flushes its overflow list while the engine is in it, and
finishes operations at any time. `platform` is what probing has found, EXT_ARG,
SUBMIT_ALL and deferred task work, and whether the build checks for overflow; it is any
of the constant `Platforms`. A request is identified by its address, which may be used
again after completion.

**Engine** composes the two. It extends `IoUring`, and instantiates `Wake` with `armed`
and `fired` as the polls of the event fd that are in the rings and the kernel. The
poll is an operation with a request of its own (`Event`). `poll_wake` goes through
`start_async`, which may flush a full ring; `process_wake` is what `run_events` calls
when it completes that request. It starts on a kernel with EXT_ARG and in a build
without overflow checks (`EngineInit`); the other kernels and builds are left to
`IoUring`. `Wake`'s steps that leave the polls alone are used as they are; the others
(`PrepareWake`, `Rearm`, `Callback`) share `Wake`'s parts that are not about polls
(`ExpectWake`, `SettleWakes`, `BeginWake`).

**Driver** has the timer set, the clock and the locals of `run_timers`. Callbacks are
the state `pc = "user"`, with `ret` saying where they return to. It uses
`AsyncEngine` for the operations. `main` is the task of `block_on`. Control goes through
`block_on`, then `drop`, which calls `exit` in rounds. `due` is a history variable: when a
sleep was to end by what its task asked for, where `handle` and the timer have what
`timeout()` computed.

**Runtime** has the two lists of `drop`, and workers that start and end in callbacks.

**Interval** has the arithmetic of `next` over `0..U64Max`. `anchor` remembers the
origin of the ticks.

**Descriptors** has the kernel's table of descriptors, and of each task the handle it
holds and the call it is in: the next operation, the addresses left and the socket in
its local variable. `Start` and `Refuse` are the beginning of `async_engine_task!`.
`Fail` is `?`: it drops the local socket, and `foreach_addr` goes on to the next address
(`NextAddr`). `Created`, `Bound` and `Return` are what the calls do after an operation.
The kernel opens the lowest free number. `ClosingSpec` adds `io::close`, which the
other specification leaves out because it closes twice (see below).

**Socket** has a readiness and a budget per half. `avail` and `ended` are the kernel's
side of a direction, `owed` counts, per half and direction, the bytes moved that its
caller was not told of.

**File** has the handle's offset, and a log of the positions callers were told of.

**ReadDir** has the iterator's cache, the state of the work on the pool and the
task's interrupt.

## What the runs check

Passing runs:

| run | shows |
|---|---|
| `wake` | no wake is lost or doubled, one poll at a time, the event fd can always be read, `has_work` is exact; woken tasks are resumed |
| `uring` | five kernels and builds: each operation is in one place and completed once; the counters are exact; a cancel hits its target only; the contract is implemented; finished operations are completed though `work()` may never wait; `exit` returns, given EXT_ARG, with nothing left |
| `engine` | the rings keep what `Wake` assumes of polls, so its properties hold of the composition; `exit` does not return under a blocked task, and returns; woken tasks resume |
| `driver` | timers match sleepers and are all completed, at exit or in time; no sleep ends early; `block_on` returns when its task has finished |
| `runtime` | drop misses no worker, follows no dangling node, does not loop, and returns |
| `interval` | ticks do not drift, no wait is longer than a delay unless the one before was interrupted, Skip takes the first tick not missed |
| `descriptors` | no descriptor leaks or has two owners; a returned socket is connected, bound or listening as promised; an interrupted call returns |
| `socket` | no byte lost, zero is the end of stream, a busy task yields |
| `file` | a caller goes on after errors and interrupts where it was; zero is the end of the file |
| `readdir` | each entry once; an interrupt gets through |

Runs that show a disagreement between the code and what its documentation says:

- `wake_teardown`: a thread that has unlocked the queue in `wake()` and not yet written
  the event fd may find it closed. `driver.rs` then aborts the process.
- `descriptors_close`: `io::close` closes its descriptor twice, the second time when its
  `OwnedFd` argument is dropped. By then another task may have been given the number.

On kernels without EXT_ARG `exit` need not return, which `ExitTerminates` leaves out. A
timeout that is left behind ends the next wait, whose own timeout is then left behind,
if the kernel does not count a timeout's completion for another timeout. The comment in
`submit_and_wait_compat` names a hang of this kind.

Two smaller disagreements are in the models, without a run of their own.
`SubmissionQueue::push` computes `tail + 1`, which panics after 2^32 entries in builds
with overflow checks (`PushPanics`), while `engine/mod.rs` says that the engine never
unwinds. `sleep` panics when the time it ends at is past `u64::MAX`
(`StartTimerPanics`), while `ops/timers.rs` names the duration only.

## Bounds

- Two requests fill the rings of two entries when cancels and timeouts (`MaxNoOps`) are
  added, so both rings wrap, fill and overflow. `IndexSpace` is a small multiple of the
  ring sizes, so that indices wrap, or panic where overflow is checked. `MaxForced`
  bounds the operations that tasks start while the driver exits.
- `Engine` has two tasks, two operations and the poll in rings of two entries: the poll
  may find the ring full, and its completion may overflow. Batches of one make
  `process_wake` take several rounds. It runs on the newest kernel only. There
  `MaxExpected` is 2: both tasks may be blocked, and a resumed one may block again
  while its `process_wake` goes on.
- `Wake` has four tasks and batches of two, so a drain takes several
  rounds. `MaxExpected` bounds `expected_wakes`, which grows while resumed
  tasks block again in one `process_wake`.
- `Driver` has two requests and a clock to 3, which lets timers tie, be overtaken and
  overflow. `Hour` exceeds the clock. `MaxStarts` bounds what tasks start.
- `Runtime` has four workers: some end, some start and some stay in one round.
- `Interval` has delays to 4 and a clock to 12: three periods of the longest.
- `Descriptors` has two tasks, two addresses and two descriptors, so that tasks compete
  for the numbers and run out of them, and the second address is tried after each kind
  of failure of the first.
- `Socket` moves up to three bytes at a time with a budget of two. The instance has one
  half and both directions. Halves share the kernel's side only, so the others are the
  action `OtherMoves`; two halves and both directions together are millions of states.
- `File` has positions to 4 and buffers of 2; `ReadDir` five entries, two of them dots.

`MCIoUring` and `MCEngine` have a `VIEW`. Both leave out ring slots that hold no entry:
such a slot is written before it is read again. `MCEngine`'s also takes ring indices
relative to the head of their ring, as without overflow checks they are only compared
and advanced, and leaves out a value that only the fallback for old kernels reads. States that a view identifies have the same steps, up to the view, and
agree on every property, so it is sound for liveness, too.

## Fairness

The engine's thread is scheduled and callbacks return; the pool's threads run; the
kernel does what a call of `io_uring_enter` asked for. In `Wake`, strong fairness of
`ProcessWake` says that polls do not report odd flags for ever. In `IoUring`, the loop
may call `work()` with a timeout of zero for ever, as it does while timers are due all
the time; it is not assumed to wait. For `exit`, operations end: timeouts and
cancels by themselves, the others because their tasks were interrupted. In `Runtime`, a worker that is interrupted
again and again ends.
In `Engine`, the poll completes when the event fd is readable, and the rest is as in
`IoUring` and `Wake`; `WokenResumes` excepts runs in which tasks fill the submission ring
again and again, which the code does not rule out. In `Descriptors`, tasks go on and
operations end, `connect` and `accept` only when cancelled: a peer may never answer.
In `ReadDir` a read returns, but may be interrupted for ever. `Socket`'s
`YieldsWithinBudget` needs no fairness; it rests on the budget being renewed only when
a task is resumed, which is xx-core's part.

## Proofs

`WakeProofs` (for any finite set of requests, any number of threads, any batch) proves
the invariants of `wake` and that `Wake` implements `Waker`. The properties are not
inductive. `IInv` adds: a request is in one place, queue or batch (`OnePlace`);
`expected_wakes` is the number of blocked tasks plus those resumed in this
`process_wake` (`Counted`), so a resumed task that blocks again finds the count above
zero and does not poll; the event fd stays readable from the poll's completion to the
read (`Readable`).

`DriverProofs` (for any requests and any range of the clock) proves the safety
properties of `driver`. `IInv` adds: the local `now` is the clock until a callback has run
(`ClockRead`), so the timeout that `run_timers` returns does not reach beyond the first
timer (`TimeoutReaches`); once `exit` has drained the timers there are none
(`ExitingHasNoTimers`), as `timeout` refuses new ones. `SleepsLongEnough` rests on
`ClockRead`, on each timer being that of its sleeper, and on `AsAsked`: what `timeout()`
computed is what was asked for, as it panics where the sum does not fit.

The same module has the proofs about files. For any file size and length it proves
`CancelSafe` and `ZeroIsEnd` of `File`: `FileInv` ties the offset to the number of bytes
reported, and a zero that waits to be returned to the end of the file or an interrupt.
For any directory and any block size it proves `EveryEntryOnce` of `ReadDir`: `DirInv`
says that the cached entries and the unread ones are runs that follow each other, that
what was returned is what lies before them, without the dots, and that the cache is
empty while a work that fills it is under way.

`DescriptorsProofs` (for any tasks, table and number of addresses) proves `OneOwner` and
`AsPromised`. Neither is inductive. `IInv` adds where in a call a descriptor may be
(`InPlace`: the handle, the local variable or an operation's result, one at a time) and
what was done to the file there (`AsDone`). A lemma, `StepOfOne`, reduces every step
to the task that takes it: descriptors pass between that task and the free ones only.
The theorems are about `Spec`, in which handles are dropped; with `close` they are false.

`TaskProofs` has the proofs about `Socket`, `Interval` and `Runtime`.

- `Socket`, for any number of halves: `ZeroIsEnd` along the argument for `File`, and
  `NothingLost`. What a half owes its caller is what the result of its pending transfer
  holds (`Settled`), and a transfer is in one direction.
- `Interval`, for any delay and clock: the three properties of `interval`. The invariant
  adds that between two calls the last tick is over unless its wait was interrupted
  (`Over`); the rest is arithmetic on multiples of the delay.
- `Runtime`, for any number of workers: `NodesAreWorkers`, `DropMissesNone` and
  `NoBusyLoop`. The invariant says that the two lists are disjoint and together hold the
  live workers (`Nodes`), and that workers of the round's beginning are in `drop`'s own
  list or interrupted, never both (`Looping`).

Four modules are about `IoUring` and `Engine`, for rings of any size, any index space that
the sizes divide, any set of requests, all kernels and builds of `IoUring`, and finite
sets of tasks. `RingProofs`, `PlaceProofs` and `IoUringProofs`, each on top of the one
before, show that the invariant of `IoUring` is inductive. `EngineProofs` concludes
`OnePlace`, `CountersExact`, `CancelHitsItsTarget`, `ExitLeavesNothing` and
`ImplementsEngine`, and goes on to the composition. None of the five is inductive.
`IInv` has four parts:

- `RingInv`: between its head and its tail a ring holds what the counters say, at most
  its size, and `run_events` is where its locals say it is. A window of positions is
  described by the distance to its start. It grows and shrinks at its ends, it can be
  cut, and its positions have different slots. With that an entry that is pushed
  overwrites none, and how many entries of a kind a window holds changes by one at a
  time.
- `OnePlace` then follows for each kind of step (`Moves`): starting puts a request in
  the submission ring, the kernel's steps move it, `run_events` takes it out.
- `CancelInv`: a cancel that waits in the ring is for a request that is still being
  cancelled, or its target is neither in flight nor ahead of it in the ring.
- `Counted`: `to_submit` and `to_complete` add up to the number of operations on their
  way. No sum over requests is computed. The operations are a set of pairs, and the
  step `CountByKind` gives a bijection for what a step adds or takes away.

The proofs of the three modules take the facts about finite sets from `Counting`, a
conjunct of `RingInv` that `EngineProofs` proves from the library's theorems.

The second part of `EngineProofs` is about the composition, where the two invariants
need each other. `poll_wake` may start `event_request` because no other poll is under way, which is
`SinglePoll` of `Wake`. `SinglePoll` holds because the rings complete a poll once and only when
the event fd is readable, which is `OnePlace`. So `EInv` is the conjunction of `IInv`, of the
invariant of `WakeProofs` under the mapping of `Engine`, and of `Nested`: while `process_wake`
is on the stack, so is `run_events`. One lemma per action shows that its step keeps `IInv`
and is a step of `Wake` or none of it; `WakeProofs` does the rest. This gives `ImplementsWake` and
`ExitWaitsForWakes`. It also gives that both contracts, `AsyncEngine` and `Waker`, hold of the
composed engine (`ComposedImplementsEngine`, `ComposedImplementsWaker`).

The assumptions are the named ones on the constants (`WakeAssumption` and so on): bounds
are natural numbers, the requests of `Wake` a finite set, its threads and batch not zero,
the sizes of the rings divide the index space, the completion ring is the larger
one, and a block of `ReadDir` holds at least one entry.

Only model-checked: the liveness properties (`ImplementsFairWaker`, `WokenResumes`,
`FinishedDelivered`, `ExitTerminates`, `DueTimerCompletes`, `BlockOnReturns`, `DropTerminates`,
`InterruptReturns`, `InterruptEnds`, `YieldsWithinBudget`). They say that something happens
again and again, most of them under fairness, which is outside what the installed
provers do. Every safety property of a passing run is proved.

## Not modelled

- Encodings of submission entries (`engine/uring/op.rs`): data without state. Every
  opcode is the same action of `IoUring`; the kernel's reading of an entry is external.
- Ring set-up, mapping and the probing calls: straight-line code at start-up. What they
  find is `platform`.
- `SyncEngine`: calls that return at once and keep no state. For the callers a descriptor
  passes through, such a call is an operation that ends before anything else happens.
- `join`, `select`, `TaskExt::timeout` and the coroutine switch: their steps are xx-core's, the
  code here passes its arguments on. The same holds for the thread pool's queue.
- Errors after which the process aborts or a call panics, where the model has another
  such error at the same place or nothing has changed: `io_uring_enter` failing with
  nothing to submit (`SubmitFails` is the failure with entries), an error result of the
  poll in `process_wake_cold`, and the panics of `fs/file.rs` on offsets out of range.
- The beginning of `read_dir`, up to the new iterator: it opens a descriptor and asks for
  its type. `ReadDir` starts where the iterator is returned.
- Empty datagrams: `Socket` models streams. `check_interrupt_if_zero` reports an empty
  datagram as an interrupt if the task is interrupted.
- Socket options and addresses, `recv_from_addr`'s filter, file metadata, tracing and the
  attribute macros: they keep no state of their own.
- Memory ordering of the rings, which is taken as sequentially consistent.

## Further work

- `Driver` on top of `Engine` in place of `AsyncEngine`.
- The thread pool's queue and cancellation, once for all users of `run_blocking`, if
  its source is at hand.
