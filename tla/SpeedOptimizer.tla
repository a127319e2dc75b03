--------------------------- MODULE SpeedOptimizer ---------------------------
(***************************************************************************)
(* basic_autonomy's waypoint_generation::optimize_speed(downtracks,        *)
(* curv_speeds, max_accel), whose source is not in this repository: the    *)
(* model follows the algorithm of spec.md section 4.3, and the unit test   *)
(* optimize_speed (src/unnamed/part_000, lines 383-468) supplies vectors.  *)
(*                                                                         *)
(* Speeds are kept SQUARED: the kinematic bound v' = sqrt(v^2 + 2 a ds)    *)
(* is then v'^2 = v^2 + 2 a ds, and since sqrt is monotone,                *)
(* min(sqrt x, sqrt y) = sqrt(min(x, y)); the model computes exactly the   *)
(* square of each output speed.  Distances and the acceleration are        *)
(* integers.  One step of the model is one iteration of a pass.            *)
(***************************************************************************)
EXTENDS Integers, Sequences

CONSTANTS
    DowntrackInputs,   \* the downtrack sequences a call may receive
    SpeedInputs,       \* the squared curvature-limited speed sequences
    AccelInputs        \* the max_accel values

ASSUME InputsAssumption ==
    /\ \A d \in DowntrackInputs :
          /\ d \in Seq(Nat)
          /\ \A j, k \in 1..Len(d) : j <= k => d[j] <= d[k]
    /\ SpeedInputs \subseteq Seq(Nat)
    /\ AccelInputs \subseteq Int

VARIABLES
    downtracks,    \* input: cumulative distance of each point
    curv_speeds,   \* input: squared curvature-limited speed of each point
    max_accel,     \* input: the acceleration bound
    fwd,           \* the forward-pass speeds (squared)
    out,           \* the backward-pass speeds, the result (squared)
    i,             \* the loop index of the current pass
    pc             \* "validate", "forward", "backward", "done" or "error"

vars == <<downtracks, curv_speeds, max_accel, fwd, out, i, pc>>

N == Len(curv_speeds)

min(a, b) == IF a <= b THEN a ELSE b

\* Fault variant: the segment length taken with the wrong sign.
Gap_reversed(k) == 2 * max_accel * (downtracks[k - 1] - downtracks[k])

\* 2 a ds over the segment that ends at point k: the most the squared speed
\* may change between points k - 1 and k.
Gap(k) == 2 * max_accel * (downtracks[k] - downtracks[k - 1])

Init ==
    /\ downtracks \in DowntrackInputs
    /\ curv_speeds \in SpeedInputs
    /\ max_accel \in AccelInputs
    /\ fwd = <<>>
    /\ out = <<>>
    /\ i = 0
    /\ pc = "validate"

\* The preconditions: equal, non-zero lengths and a positive acceleration;
\* a violation throws invalid_argument and computes nothing.
Validate ==
    /\ pc = "validate"
    /\ IF Len(downtracks) # N \/ N = 0 \/ max_accel <= 0
       THEN /\ pc' = "error"
            /\ UNCHANGED <<fwd, i>>
       ELSE /\ pc' = "forward"
            /\ fwd' = [k \in 1..N |-> IF k = 1 THEN curv_speeds[1] ELSE 0]
            /\ i' = 2
    /\ UNCHANGED <<downtracks, curv_speeds, max_accel, out>>

\* Forward pass: the speed reachable from the previous output, capped by
\* the curvature limit.
ForwardStep ==
    /\ pc = "forward"
    /\ i <= N
    /\ fwd' = [fwd EXCEPT ![i] = min(curv_speeds[i], fwd[i - 1] + Gap(i))]
    /\ i' = i + 1
    /\ UNCHANGED <<downtracks, curv_speeds, max_accel, out, pc>>

\* Fault variant: the result is returned after the forward pass only.
ForwardDone_skips_backward ==
    /\ pc = "forward"
    /\ i > N
    /\ out' = fwd
    /\ i' = 0
    /\ pc' = "done"
    /\ UNCHANGED <<downtracks, curv_speeds, max_accel, fwd>>

\* The backward pass starts from the last forward-pass result.
ForwardDone ==
    /\ pc = "forward"
    /\ i > N
    /\ out' = fwd
    /\ i' = N - 1
    /\ pc' = "backward"
    /\ UNCHANGED <<downtracks, curv_speeds, max_accel, fwd>>

\* Fault variant: the backward pass runs down to the first point and so
\* lowers the anchor (the loop bound off by one).
BackwardStep_past_anchor ==
    /\ pc = "backward"
    /\ i >= 1
    /\ out' = [out EXCEPT ![i] = min(fwd[i], out[i + 1] + Gap(i + 1))]
    /\ i' = i - 1
    /\ UNCHANGED <<downtracks, curv_speeds, max_accel, fwd, pc>>

\* Backward pass: the speed from which the next output is reachable when
\* decelerating, capped by the forward-pass result.  It stops before the
\* first point: the first output is the anchor, the first input unchanged.
BackwardStep ==
    /\ pc = "backward"
    /\ i >= 2
    /\ out' = [out EXCEPT ![i] = min(fwd[i], out[i + 1] + Gap(i + 1))]
    /\ i' = i - 1
    /\ UNCHANGED <<downtracks, curv_speeds, max_accel, fwd, pc>>

BackwardDone ==
    /\ pc = "backward"
    /\ i <= 1
    /\ pc' = "done"
    /\ UNCHANGED <<downtracks, curv_speeds, max_accel, fwd, out, i>>

Next == Validate \/ ForwardStep \/ ForwardDone \/ BackwardStep \/ BackwardDone

\* A call runs to completion once made.
Spec == Init /\ [][Next]_vars /\ WF_vars(Next)

-----------------------------------------------------------------------------
(* Properties                                                              *)

\* Squared speeds never become negative (a negative square would be a NaN
\* speed, which spec.md section 7 forbids to reach the assembler).
TypeOK ==
    /\ downtracks \in Seq(Nat)
    /\ curv_speeds \in Seq(Nat)
    /\ max_accel \in Int
    /\ fwd \in Seq(Nat)
    /\ out \in Seq(Nat)
    /\ i \in 0..N + 1
    /\ pc \in {"validate", "forward", "backward", "done", "error"}

\* The guarantee of spec.md 4.3 as stated: the result stays at or below
\* every curvature limit, and between consecutive points the squared speed
\* rises or falls by at most 2 max_accel ds, i.e. no acceleration or
\* deceleration beyond max_accel is required.
KinematicallyFeasible ==
    pc = "done" =>
        \A k \in 1..N :
            /\ out[k] <= curv_speeds[k]
            /\ k >= 2 => /\ out[k] <= out[k - 1] + Gap(k)
                         /\ out[k - 1] <= out[k] + Gap(k)

\* What the two passes with the anchor rule of spec.md 4.3 guarantee: the
\* first output is the first input; every later point stays at or below
\* its limit and is reachable from its predecessor within max_accel; and
\* every segment but the first (which leaves the anchor) needs no
\* deceleration beyond max_accel.
FeasibleFromAnchor ==
    pc = "done" =>
        /\ out[1] = curv_speeds[1]
        /\ \A k \in 2..N :
              /\ out[k] <= curv_speeds[k]
              /\ out[k] <= out[k - 1] + Gap(k)
              /\ k >= 3 => out[k - 1] <= out[k] + Gap(k)

\* Reference definition of the result: the anchor, then the greatest
\* profile below the limits reachable from it, in closed form.  Point k
\* can go no faster than the limit at any point j plus what max_accel
\* gains over the distance between them.
ReferenceProfile(dts, caps, accel) ==
    LET Bound(k) ==
            LET bounds == {caps[j] + 2 * accel
                             * (IF dts[j] <= dts[k] THEN dts[k] - dts[j]
                                ELSE dts[j] - dts[k]) : j \in 1..Len(caps)}
            IN  CHOOSE b \in bounds : \A x \in bounds : b <= x
    IN  [k \in 1..Len(caps) |-> IF k = 1 THEN caps[1] ELSE Bound(k)]

\* The two passes compute exactly the reference profile: after the anchor,
\* each point is as fast as the limits and max_accel allow, no slower.
MatchesReference ==
    pc = "done" => out = ReferenceProfile(downtracks, curv_speeds, max_accel)

=============================================================================
