------------------------------ MODULE Interval ------------------------------
(***************************************************************************)
(* Interval::next (interval.rs): when the next tick is due, for a caller    *)
(* that comes late, changes the behaviour or is interrupted while it waits. *)
(***************************************************************************)
EXTENDS Integers

CONSTANTS
  U64Max,    \* largest time
  MaxDelay   \* bound: delays are 1..MaxDelay; with 0 next() returns at once

ASSUME IntervalAssumption == {U64Max, MaxDelay} \subseteq Nat

Behaviors == {"Burst", "Delay", "Skip"}

VARIABLES
  now,        \* the clock, nanotime()
  expire,     \* Interval::expire; 0 before the first call
  delay,      \* Interval::delay
  behavior,   \* Interval::missed_tick_behavior
  status,     \* "idle", "waiting" in timeout(), "panicked" in unwrap()
  called_at,  \* when next() was called last
  cancelled,  \* was the previous wait interrupted
  anchor      \* the first call's time, or the last tick that Delay set

intervalVars == <<now, expire, delay, behavior, status, called_at, cancelled, anchor>>

IntervalInit ==
  /\ now \in 1..U64Max
  /\ expire = 0
  /\ delay \in 1..MaxDelay
  /\ behavior = "Burst"
  /\ status = "idle"
  /\ called_at = 0 /\ cancelled = FALSE /\ anchor = 0

SetMissedTickBehavior ==
  /\ status = "idle"
  /\ behavior' \in Behaviors \ {behavior}
  /\ UNCHANGED <<now, expire, delay, status, called_at, cancelled, anchor>>

(* Mutant: the first call starts one delay from now. *)
LastTickFirstLate == IF expire = 0 THEN now + delay ELSE expire

(* The tick before; the first call's is the call itself. *)
LastTick == IF expire = 0 THEN now ELSE expire

(* Mutant: the remainder is taken of the clock. *)
SkipTickUnaligned(last) ==
  IF now > last + delay THEN now + delay - (now % delay) ELSE last + delay

(* The tick after the last one, or, when that has passed, the next multiple *)
(* of the delay after now.                                                  *)
SkipTick(last) ==
  IF now > last + delay THEN now + delay - ((now - last) % delay) ELSE last + delay

(* Mutant: Burst counts from now. *)
TickDrifts(last) ==
  CASE behavior = "Burst" -> now + delay
    [] behavior = "Delay" -> now + delay
    [] behavior = "Skip"  -> SkipTick(last)

Tick(last) ==
  CASE behavior = "Burst" -> last + delay
    [] behavior = "Delay" -> now + delay
    [] behavior = "Skip"  -> SkipTick(last)

(* The additions are checked; Skip adds the delay before it aligns. *)
Overflows(last) ==
  \/ behavior # "Delay" /\ last + delay > U64Max
  \/ behavior = "Delay" /\ now + delay > U64Max
  \/ behavior = "Skip" /\ now > last + delay /\ now + delay > U64Max

(* next(): waits for the tick unless it is due already. *)
NextTick ==
  LET last == LastTick
  IN  /\ status = "idle"
      /\ IF Overflows(last)
         THEN /\ expire' = last
              /\ status' = "panicked"
         ELSE /\ expire' = Tick(last)
              /\ status' = IF expire' > now THEN "waiting" ELSE "idle"
      /\ anchor' = IF behavior = "Delay" THEN expire'
                   ELSE IF expire = 0 THEN now ELSE anchor
      /\ called_at' = now
      /\ cancelled' = (cancelled /\ expire > now)
      /\ UNCHANGED <<now, delay, behavior>>

(* timeout() returns: not before its time, unless it is interrupted. *)
WaitReturns ==
  /\ status = "waiting"
  /\ status' = "idle"
  /\ cancelled' = (now < expire)
  /\ UNCHANGED <<now, expire, delay, behavior, called_at, anchor>>

ClockTicks ==
  /\ status # "panicked"
  /\ now < U64Max
  /\ now' = now + 1
  /\ UNCHANGED <<expire, delay, behavior, status, called_at, cancelled, anchor>>

Panicked == status = "panicked" /\ UNCHANGED intervalVars

IntervalNext == SetMissedTickBehavior \/ NextTick \/ WaitReturns \/ ClockTicks \/ Panicked
IntervalSpec == IntervalInit /\ [][IntervalNext]_intervalVars

-----------------------------------------------------------------------------
(* Properties.                                                              *)

(* Burst and Skip do not drift: ticks stay whole delays apart, however late *)
(* next() is called and in whatever order the two are used, until Delay     *)
(* sets a new origin.                                                       *)
NoDrift == expire # 0 => (expire - anchor) % delay = 0

(* next() never waits for more than one delay, unless the wait before was   *)
(* interrupted: its tick then counts as taken.                              *)
WaitsAtMostDelay == status = "waiting" /\ ~cancelled => expire <= called_at + delay

(* Skip takes the first tick that was not missed: the next one if it is not *)
(* over, else the first that lies after now.                                *)
SkipTakesFirst ==
  [][behavior = "Skip" /\ status = "idle" /\ expire # 0 /\ expire' # expire =>
       LET ticks == {t \in (expire + 1)..U64Max :
                       /\ (t - expire) % delay = 0
                       /\ t > now \/ (t = now /\ t = expire + delay)}
       IN  expire' \in ticks /\ \A t \in ticks : expire' <= t]_intervalVars
=============================================================================
