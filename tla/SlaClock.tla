------------------------------ MODULE SlaClock ------------------------------
(***************************************************************************)
(* The pausable clock of domain/sla.ts.  An incident has one for its SLA    *)
(* and one for the handoff (OLA) to its assignment group, pauseOlaClock     *)
(* and resumeOlaClock being the same functions under other column names.    *)
(*                                                                         *)
(* The response and the resolution due date move together: "due" is both.  *)
(* Times are natural numbers, NoTime is NULL.                              *)
(***************************************************************************)
EXTENDS Integers

CONSTANT NoTime

ASSUME NoTimeAssumption == NoTime \notin Int

Times == Nat \cup {NoTime}

Clocks == [pausedAt : Times, pausedMs : Nat, due : Times]

NoClock == [pausedAt |-> NoTime, pausedMs |-> 0, due |-> NoTime]

IsPaused(c) == c.pausedAt # NoTime

\* Mutant: pausing a paused clock starts the pause anew.
PausedAnew(c, t) == [c EXCEPT !.pausedAt = t]

\* Pausing a paused clock keeps the time at which it was paused.
Paused(c, t) == IF IsPaused(c) THEN c ELSE [c EXCEPT !.pausedAt = t]

\* Math.max(0, now - pausedAt)
Standstill(c, t) == IF c.pausedAt < t THEN t - c.pausedAt ELSE 0

Resumed(c, t) ==
  IF IsPaused(c)
  THEN [pausedAt |-> NoTime,
        pausedMs |-> c.pausedMs + Standstill(c, t),
        due      |-> IF c.due = NoTime THEN NoTime ELSE c.due + Standstill(c, t)]
  ELSE c
=============================================================================
