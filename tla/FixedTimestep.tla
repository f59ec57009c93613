----------------------------- MODULE FixedTimestep -----------------------------
(***************************************************************************)
(* core/timestep_accumulator.h: real time is handed out in steps of a fixed  *)
(* length.  Times are natural numbers; the rounding of floats is left out.   *)
(***************************************************************************)
EXTENDS Naturals

CONSTANTS FixedDt,       \* the length of a step
          MaxFrameTime,  \* what a frame contributes at most
          MaxDelta,      \* bound: the longest frame
          MaxThrows      \* bound: the steps that throw

\* What the constructor checks.
ASSUME TimestepAssumption ==
  /\ FixedDt \in Nat \ {0} /\ MaxFrameTime \in Nat /\ MaxFrameTime >= FixedDt
  /\ MaxDelta \in Nat /\ MaxThrows \in Nat

VARIABLES
  accumulator,  \* m_accumulator
  ticking,      \* tick() is running its loop
  throws        \* the number of steps that threw

timestepVars == <<accumulator, ticking, throws>>

TimestepTypeOK ==
  /\ accumulator \in Nat
  /\ ticking \in BOOLEAN
  /\ throws \in 0 .. MaxThrows

TimestepInit == accumulator = 0 /\ ticking = FALSE /\ throws = 0

Least(a, b) == IF a < b THEN a ELSE b

\* Fault: a long frame is not cut.
TickUnclamped(delta) ==
  /\ ~ticking
  /\ accumulator' = accumulator + delta
  /\ ticking' = TRUE
  /\ UNCHANGED throws

Tick(delta) ==
  /\ ~ticking
  /\ accumulator' = accumulator + Least(delta, MaxFrameTime)
  /\ ticking' = TRUE
  /\ UNCHANGED throws

\* The callback of a step returns.
Step ==
  /\ ticking /\ accumulator >= FixedDt
  /\ accumulator' = accumulator - FixedDt
  /\ UNCHANGED <<ticking, throws>>

\* The callback throws, through tick(): the step's time is still there.
StepThrows ==
  /\ ticking /\ accumulator >= FixedDt
  /\ throws < MaxThrows
  /\ throws' = throws + 1
  /\ ticking' = FALSE
  /\ UNCHANGED accumulator

TickReturns ==
  /\ ticking /\ accumulator < FixedDt
  /\ ticking' = FALSE
  /\ UNCHANGED <<accumulator, throws>>

(***************************************************************************)
(* However long the frames were, a tick starts with less than one step and   *)
(* one clamped frame to catch up on; every step that threw can add another   *)
(* clamped frame, because its time stays and is handed out again.            *)
(***************************************************************************)
BacklogBounded ==
  accumulator < FixedDt + MaxFrameTime * (throws + IF ticking THEN 1 ELSE 0)
================================================================================
