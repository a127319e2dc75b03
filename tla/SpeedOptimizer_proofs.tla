------------------------ MODULE SpeedOptimizer_proofs ------------------------
(***************************************************************************)
(* Proofs that the two passes of optimize_speed, with the anchor rule,     *)
(* keep the first speed, stay below every later curvature limit, change    *)
(* the squared speed by at most 2 max_accel ds on every segment after the  *)
(* first, and compute exactly the reference profile.                       *)
(***************************************************************************)
EXTENDS SpeedOptimizer, TLAPS, SequenceTheorems

\* Non-decreasing, stated for every pair of indices.
Sorted(d) == \A j, k \in 1..Len(d) : j <= k => d[j] <= d[k]

\* The bound that point j puts on point k in the reference profile: j's
\* limit plus what max_accel gains over the distance between them.
Cost(j, k) ==
    curv_speeds[j] + 2 * max_accel
        * (IF downtracks[j] <= downtracks[k] THEN downtracks[k] - downtracks[j]
           ELSE downtracks[j] - downtracks[k])

\* Point k of a pass is the least of the costs that points in js put on it.
IsMinCost(v, k, js) ==
    /\ \A j \in js : v <= Cost(j, k)
    /\ \E j \in js : v = Cost(j, k)

\* The forward pass has set every point up to upto to the least cost from
\* the points at or before it.
ForwardMin(upto) == \A k \in 1..upto : IsMinCost(fwd[k], k, 1..k)

\* The backward pass has set every point from from on to the least cost
\* from all points: the reference profile there.
BackwardMin(from) == \A k \in from..N : IsMinCost(out[k], k, 1..N)

\* The forward pass has made the points before i reachable from their
\* predecessor and kept them below their limit.
ForwardOK(upto) ==
    \A k \in 2..upto : /\ fwd[k] <= curv_speeds[k]
                       /\ fwd[k] <= fwd[k - 1] + Gap(k)

\* The backward pass has made the points after i at most the forward
\* result, and consecutive ones reachable from each other both ways.
BackwardOK(from) ==
    /\ \A k \in from..N : out[k] <= fwd[k]
    /\ \A k \in from + 1..N : /\ out[k - 1] <= out[k] + Gap(k)
                              /\ out[k] <= out[k - 1] + Gap(k)

\* After validation: matching non-empty inputs, a positive acceleration,
\* and the forward array defined over the points, starting at the anchor.
Valid ==
    /\ Len(downtracks) = N /\ N >= 1 /\ max_accel > 0
    /\ curv_speeds \in [1..N -> Nat]
    /\ fwd \in [1..N -> Nat]
    /\ fwd[1] = curv_speeds[1]

\* The inductive invariant: the loop invariants of both passes; the
\* backward pass never reaches the anchor.
IInv ==
    /\ TypeOK
    /\ Sorted(downtracks)
    /\ pc \in {"forward", "backward", "done"} => Valid
    /\ pc = "forward" => i \in 2..N + 1 /\ ForwardOK(i - 1)
    /\ pc \in {"backward", "done"} =>
          /\ ForwardOK(N)
          /\ out \in [1..N -> Nat]
          /\ out[1] = curv_speeds[1]
          /\ i \in 0..N - 1
          /\ BackwardOK(i + 1)
    /\ pc = "done" => i <= 1

\* What the passes compute: the loop invariants of optimality.
OInv ==
    /\ pc = "forward" => ForwardMin(i - 1)
    /\ pc \in {"backward", "done"} => ForwardMin(N) /\ BackwardMin(i + 1)

\* A function over 1..n into Nat is a sequence of naturals.
LEMMA FunIsSeq ==
    ASSUME NEW n \in Nat, NEW f \in [1..n -> Nat]
    PROVE  f \in Seq(Nat)
BY SeqDef

\* With sorted downtracks and a positive acceleration, no segment allows a
\* negative change.
LEMMA GapNat ==
    ASSUME TypeOK, Sorted(downtracks), max_accel > 0, Len(downtracks) = N,
           NEW k \in 2..N
    PROVE  Gap(k) \in Nat
<1>0. downtracks \in Seq(Nat) /\ k \in 1..Len(downtracks)
      /\ k - 1 \in 1..Len(downtracks)
  BY DEF TypeOK, N
<1>1. downtracks[k] \in Nat /\ downtracks[k - 1] \in Nat
  BY <1>0, ElementOfSeq
<1>2. downtracks[k] - downtracks[k - 1] \in Nat
  BY <1>1 DEF Sorted, N
<1>3. 2 * max_accel \in Nat
  BY DEF TypeOK
<1>4. QED
  BY <1>2, <1>3 DEF Gap

\* Every step leaves the inputs, hence the segment bounds, alone.
LEMMA GapUnchanged ==
    ASSUME UNCHANGED <<downtracks, max_accel>>
    PROVE  \A k : Gap(k)' = Gap(k)
BY DEF Gap

\* The number of points is a natural.
LEMMA NNat == TypeOK => N \in Nat
BY LenProperties DEF TypeOK, N

\* Multiplication by 2 a distributes over a sum of two distances.
LEMMA Distribute ==
    ASSUME NEW a \in Int, NEW x \in Int, NEW y \in Int, NEW z \in Int
    PROVE  2 * a * (z - x) = 2 * a * (y - x) + 2 * a * (z - y)
BY SMT

\* The distance term of Cost, for points in order.
LEMMA AbsOrdered ==
    ASSUME NEW x \in Int, NEW y \in Int, x <= y
    PROVE  /\ (IF x <= y THEN y - x ELSE x - y) = y - x
           /\ (IF y <= x THEN x - y ELSE y - x) = y - x
OBVIOUS

\* The facts about the inputs every Cost lemma needs.
CostFacts ==
    /\ TypeOK /\ Sorted(downtracks) /\ Valid

\* Every downtrack and every limit is a natural, and max_accel an integer.
LEMMA InputNat ==
    ASSUME CostFacts, NEW k \in 1..N
    PROVE  downtracks[k] \in Nat /\ curv_speeds[k] \in Nat /\ max_accel \in Int
<1>1. downtracks \in Seq(Nat) /\ k \in 1..Len(downtracks)
  BY DEF CostFacts, TypeOK, Valid
<1>2. QED
  BY <1>1, ElementOfSeq DEF CostFacts, TypeOK, Valid

\* The cost of a point on itself is its own limit.
LEMMA CostSelf ==
    ASSUME CostFacts, NEW k \in 1..N
    PROVE  Cost(k, k) = curv_speeds[k]
<1>1. downtracks[k] \in Int /\ curv_speeds[k] \in Int /\ max_accel \in Int
  BY InputNat
<1>2. QED
  BY <1>1 DEF Cost

\* Costs are integers.
LEMMA CostInt ==
    ASSUME CostFacts, NEW j \in 1..N, NEW k \in 1..N
    PROVE  Cost(j, k) \in Int
<1>1. /\ downtracks[k] \in Int /\ downtracks[j] \in Int
      /\ max_accel \in Int /\ curv_speeds[j] \in Int
  BY InputNat
<1>2. QED
  BY <1>1 DEF Cost

\* Moving the target point one step away from an earlier source adds the
\* segment's Gap to the cost.
LEMMA CostForward ==
    ASSUME CostFacts, NEW k \in 2..N, NEW j \in 1..k - 1
    PROVE  Cost(j, k) = Cost(j, k - 1) + Gap(k)
<1> DEFINE dj == downtracks[j]  dk == downtracks[k]  dp == downtracks[k - 1]
           c == curv_speeds[j]  X == 2 * max_accel * (dk - dj)
           Y == 2 * max_accel * (dp - dj)
<1>1. dj \in Int /\ dk \in Int /\ dp \in Int /\ max_accel \in Int /\ c \in Int
  <2>1. N \in Nat
    BY NNat DEF CostFacts
  <2>2. QED
    BY <2>1, InputNat
<1>2. dj <= dp /\ dp <= dk
  BY DEF CostFacts, Sorted, Valid
<1>3. Cost(j, k) = c + X
  BY <1>1, <1>2 DEF Cost
<1>4. Cost(j, k - 1) = c + Y
  BY <1>1, <1>2 DEF Cost
<1>5. X = Y + Gap(k)
  BY <1>1, Distribute DEF Gap
<1>6. Y \in Int /\ Gap(k) \in Int
  BY <1>1 DEF Gap
<1>7. QED
  BY <1>1, <1>3, <1>4, <1>5, <1>6

\* Moving the target point one step away from a later source adds the
\* next segment's Gap to the cost.
LEMMA CostBackward ==
    ASSUME CostFacts, NEW k \in 1..N - 1, NEW j \in k + 1..N
    PROVE  Cost(j, k) = Cost(j, k + 1) + Gap(k + 1)
<1> DEFINE dj == downtracks[j]  dk == downtracks[k]  dn == downtracks[k + 1]
           c == curv_speeds[j]  X == 2 * max_accel * (dj - dk)
           Y == 2 * max_accel * (dj - dn)
<1>1. dj \in Int /\ dk \in Int /\ dn \in Int /\ max_accel \in Int /\ c \in Int
  <2>1. N \in Nat
    BY NNat DEF CostFacts
  <2>2. QED
    BY <2>1, InputNat
<1>2. dk <= dn /\ dn <= dj
  BY DEF CostFacts, Sorted, Valid
<1>3. Cost(j, k) = c + X
  BY <1>1, <1>2 DEF Cost
<1>4. Cost(j, k + 1) = c + Y
  BY <1>1, <1>2 DEF Cost
<1>5. X = Gap(k + 1) + Y
  BY <1>1, Distribute DEF Gap
<1>6. Y \in Int /\ Gap(k + 1) \in Int
  BY <1>1 DEF Gap
<1>7. QED
  BY <1>1, <1>3, <1>4, <1>5, <1>6

LEMMA InitIInv == Init => IInv
BY InputsAssumption DEF Init, IInv, TypeOK, Sorted, N

LEMMA ValidateIInv == IInv /\ Validate => IInv'
<1> SUFFICES ASSUME IInv, Validate PROVE IInv'
  OBVIOUS
<1>0. /\ TypeOK /\ Sorted(downtracks) /\ pc = "validate" /\ N \in Nat /\ N' = N
      /\ max_accel \in Int
  BY NNat DEF IInv, Validate, N, TypeOK
<1>1. CASE Len(downtracks) # N \/ N = 0 \/ max_accel <= 0
  <2>1. pc' = "error" /\ UNCHANGED <<downtracks, curv_speeds, max_accel, fwd, out, i>>
    BY <1>0, <1>1 DEF Validate
  <2>2. QED
    BY <1>0, <2>1 DEF IInv, TypeOK, Sorted
<1>2. CASE ~(Len(downtracks) # N \/ N = 0 \/ max_accel <= 0)
  <2>1. /\ pc' = "forward" /\ i' = 2
        /\ fwd' = [k \in 1..N |-> IF k = 1 THEN curv_speeds[1] ELSE 0]
        /\ UNCHANGED <<downtracks, curv_speeds, max_accel, out>>
    BY <1>0, <1>2 DEF Validate
  <2>2. curv_speeds \in [1..N -> Nat]
    BY <1>0, LenProperties DEF TypeOK, N
  <2>3. Len(downtracks) = N /\ N >= 1 /\ max_accel > 0
    BY <1>0, <1>2
  <2>4. fwd' \in [1..N -> Nat] /\ fwd'[1] = curv_speeds[1]
    BY <1>0, <2>1, <2>2, <2>3
  <2>5. fwd' \in Seq(Nat)
    BY <1>0, <2>4, FunIsSeq
  <2>6. TypeOK'
    BY <1>0, <2>1, <2>3, <2>5 DEF TypeOK
  <2>7. Valid'
    BY <1>0, <2>1, <2>2, <2>3, <2>4 DEF Valid
  <2>8. ForwardOK(1)'
    BY DEF ForwardOK
  <2>9. Sorted(downtracks)'
    BY <1>0, <2>1 DEF Sorted
  <2>10. QED
    BY <1>0, <2>1, <2>3, <2>6, <2>7, <2>8, <2>9 DEF IInv
<1>3. QED
  BY <1>1, <1>2

LEMMA ForwardStepIInv == IInv /\ ForwardStep => IInv'
<1> SUFFICES ASSUME IInv, ForwardStep PROVE IInv'
  OBVIOUS
<1> DEFINE v == min(curv_speeds[i], fwd[i - 1] + Gap(i))
<1>0. /\ TypeOK /\ Sorted(downtracks) /\ N \in Nat /\ i \in Int /\ max_accel \in Int
      /\ pc = "forward" /\ i' = i + 1
      /\ UNCHANGED <<downtracks, curv_speeds, max_accel, out, pc>>
  BY NNat DEF IInv, ForwardStep, TypeOK
<1>1. Valid /\ i \in 2..N /\ ForwardOK(i - 1)
  BY <1>0 DEF IInv, ForwardStep
<1>2. N' = N /\ \A k : Gap(k)' = Gap(k)
  BY <1>0, GapUnchanged DEF N
<1>3. Gap(i) \in Nat
  BY <1>0, <1>1, GapNat DEF Valid
<1>4. /\ curv_speeds \in [1..N -> Nat] /\ fwd \in [1..N -> Nat]
      /\ fwd[1] = curv_speeds[1]
  BY <1>0, <1>1 DEF Valid
<1>5. v \in Nat /\ v <= curv_speeds[i] /\ v <= fwd[i - 1] + Gap(i)
  BY <1>0, <1>1, <1>3, <1>4 DEF min
<1>6. fwd' = [fwd EXCEPT ![i] = v]
  BY DEF ForwardStep
<1>7. fwd' \in [1..N -> Nat]
  BY <1>0, <1>1, <1>4, <1>5, <1>6
<1>8. \A k \in 1..N : fwd'[k] = IF k = i THEN v ELSE fwd[k]
  BY <1>0, <1>1, <1>4, <1>6
<1>9. \A k \in 2..i : /\ fwd'[k] <= curv_speeds[k]
                      /\ fwd'[k] <= fwd'[k - 1] + Gap(k)
  <2> SUFFICES ASSUME NEW k \in 2..i
               PROVE  /\ fwd'[k] <= curv_speeds[k]
                      /\ fwd'[k] <= fwd'[k - 1] + Gap(k)
    OBVIOUS
  <2>1. CASE k = i
    <3>1. fwd'[k] = v /\ fwd'[k - 1] = fwd[i - 1]
      BY <1>0, <1>1, <1>8, <2>1
    <3>2. QED
      BY <1>5, <2>1, <3>1
  <2>2. CASE k # i
    <3>1. k \in 2..i - 1 /\ fwd'[k] = fwd[k] /\ fwd'[k - 1] = fwd[k - 1]
      BY <1>0, <1>1, <1>8, <2>2
    <3>2. fwd[k] <= curv_speeds[k] /\ fwd[k] <= fwd[k - 1] + Gap(k)
      BY <1>1, <3>1 DEF ForwardOK
    <3>3. QED
      BY <3>1, <3>2
  <2>3. QED
    BY <2>1, <2>2
<1>10. (ForwardOK(i - 1))'
  BY <1>0, <1>2, <1>9 DEF ForwardOK
<1>11. Valid'
  BY <1>0, <1>1, <1>2, <1>4, <1>7, <1>8 DEF Valid
<1>12. TypeOK'
  <2>1. fwd' \in Seq(Nat)
    BY <1>0, <1>7, SeqDef
  <2>2. QED
    BY <1>0, <1>1, <1>2, <2>1 DEF TypeOK
<1>13. Sorted(downtracks)'
  BY <1>0 DEF Sorted
<1>14. QED
  BY <1>0, <1>1, <1>2, <1>10, <1>11, <1>12, <1>13 DEF IInv

LEMMA ForwardDoneIInv == IInv /\ ForwardDone => IInv'
<1> SUFFICES ASSUME IInv, ForwardDone PROVE IInv'
  OBVIOUS
<1>0. /\ TypeOK /\ Sorted(downtracks) /\ N \in Nat /\ i \in Int /\ max_accel \in Int
      /\ pc = "forward" /\ pc' = "backward" /\ i' = N - 1 /\ out' = fwd
      /\ UNCHANGED <<downtracks, curv_speeds, max_accel, fwd>>
  BY NNat DEF IInv, ForwardDone, TypeOK
<1>1. Valid /\ i = N + 1 /\ ForwardOK(N)
  BY <1>0 DEF IInv, ForwardDone
<1>2. N' = N /\ \A k : Gap(k)' = Gap(k)
  BY <1>0, GapUnchanged DEF N
<1>3. fwd \in [1..N -> Nat] /\ N >= 1
  BY <1>0, <1>1 DEF Valid
<1>4. ForwardOK(N)'
  BY <1>0, <1>1, <1>2 DEF ForwardOK
<1>5. (BackwardOK(i + 1))'
  <2>1. i' + 1 = N
    BY <1>0, <1>3
  <2>2. \A k \in N..N : out'[k] <= fwd'[k]
    BY <1>0, <1>3
  <2>3. QED
    BY <1>0, <1>2, <1>3, <2>1, <2>2 DEF BackwardOK
<1>6. out' \in [1..N -> Nat] /\ out' \in Seq(Nat)
  BY <1>0, <1>3, FunIsSeq
<1>7. Valid'
  BY <1>0, <1>1, <1>2 DEF Valid
<1>8. TypeOK'
  BY <1>0, <1>2, <1>3, <1>6 DEF TypeOK
<1>9. Sorted(downtracks)'
  BY <1>0 DEF Sorted
<1>10. i' \in 0..N' - 1
  BY <1>0, <1>2, <1>3
<1>10a. out'[1] = curv_speeds'[1]
  BY <1>0, <1>1 DEF Valid
<1>11. QED
  BY <1>0, <1>2, <1>4, <1>5, <1>6, <1>7, <1>8, <1>9, <1>10, <1>10a DEF IInv

LEMMA BackwardStepIInv == IInv /\ BackwardStep => IInv'
<1> SUFFICES ASSUME IInv, BackwardStep PROVE IInv'
  OBVIOUS
<1> DEFINE w == min(fwd[i], out[i + 1] + Gap(i + 1))
<1>0. /\ TypeOK /\ Sorted(downtracks) /\ N \in Nat /\ i \in Int /\ max_accel \in Int
      /\ pc = "backward" /\ i' = i - 1
      /\ UNCHANGED <<downtracks, curv_speeds, max_accel, fwd, pc>>
  BY NNat DEF IInv, BackwardStep, TypeOK
<1>1. /\ Valid /\ i \in 2..N - 1 /\ ForwardOK(N)
      /\ BackwardOK(i + 1) /\ out \in [1..N -> Nat]
      /\ out[1] = curv_speeds[1]
  BY <1>0 DEF IInv, BackwardStep
<1>2. N' = N /\ \A k : Gap(k)' = Gap(k)
  BY <1>0, GapUnchanged DEF N
<1>3. Gap(i + 1) \in Nat
  BY <1>0, <1>1, GapNat DEF Valid
<1>4. fwd \in [1..N -> Nat]
  BY <1>0, <1>1 DEF Valid
<1>5. out[i + 1] <= fwd[i + 1] /\ fwd[i + 1] <= fwd[i] + Gap(i + 1)
  BY <1>0, <1>1 DEF BackwardOK, ForwardOK
<1>6. /\ w \in Nat /\ w <= fwd[i] /\ w <= out[i + 1] + Gap(i + 1)
  BY <1>0, <1>1, <1>3, <1>4 DEF min
<1>7. out[i + 1] <= w + Gap(i + 1)
  BY <1>0, <1>1, <1>3, <1>4, <1>5 DEF min
<1>8. out' = [out EXCEPT ![i] = w]
  BY DEF BackwardStep
<1>9. out' \in [1..N -> Nat]
  BY <1>0, <1>1, <1>6, <1>8
<1>10. \A k \in 1..N : out'[k] = IF k = i THEN w ELSE out[k]
  BY <1>0, <1>1, <1>8
<1>11. \A k \in i..N : out'[k] <= fwd[k]
  BY <1>0, <1>1, <1>6, <1>10 DEF BackwardOK
<1>12. \A k \in i + 1..N : /\ out'[k - 1] <= out'[k] + Gap(k)
                           /\ out'[k] <= out'[k - 1] + Gap(k)
  BY <1>0, <1>1, <1>6, <1>7, <1>10 DEF BackwardOK
<1>13. (BackwardOK(i + 1))'
  BY <1>0, <1>2, <1>11, <1>12 DEF BackwardOK
<1>14. ForwardOK(N)'
  BY <1>0, <1>1, <1>2 DEF ForwardOK
<1>15. Valid'
  BY <1>0, <1>1, <1>2 DEF Valid
<1>16. TypeOK'
  <2>1. out' \in Seq(Nat)
    BY <1>0, <1>9, SeqDef
  <2>2. QED
    BY <1>0, <1>1, <1>2, <2>1 DEF TypeOK
<1>17. Sorted(downtracks)'
  BY <1>0 DEF Sorted
<1>18. i' \in 0..N' - 1
  BY <1>0, <1>1, <1>2
<1>18a. out'[1] = curv_speeds'[1]
  BY <1>0, <1>1, <1>10
<1>19. QED
  BY <1>0, <1>2, <1>9, <1>13, <1>14, <1>15, <1>16, <1>17, <1>18, <1>18a
  DEF IInv

LEMMA BackwardDoneIInv == IInv /\ BackwardDone => IInv'
<1> SUFFICES ASSUME IInv, BackwardDone PROVE IInv'
  OBVIOUS
<1>0. /\ pc = "backward" /\ pc' = "done" /\ i <= 1
      /\ UNCHANGED <<downtracks, curv_speeds, max_accel, fwd, out, i>>
  BY DEF BackwardDone
<1>1. N' = N /\ \A k : Gap(k)' = Gap(k)
  BY <1>0, GapUnchanged DEF N
<1>2. ForwardOK(N)' = ForwardOK(N) /\ BackwardOK(i + 1)' = BackwardOK(i + 1)
  BY <1>0, <1>1 DEF ForwardOK, BackwardOK
<1>3. TypeOK' /\ Sorted(downtracks)' /\ Valid' = Valid
  BY <1>0, <1>1 DEF IInv, TypeOK, Sorted, Valid
<1>4. QED
  BY <1>0, <1>1, <1>2, <1>3 DEF IInv

LEMMA StutterIInv == IInv /\ UNCHANGED vars => IInv'
<1> SUFFICES ASSUME IInv, UNCHANGED vars PROVE IInv'
  OBVIOUS
<1>0. UNCHANGED <<downtracks, curv_speeds, max_accel, fwd, out, i, pc>>
  BY DEF vars
<1>1. N' = N /\ \A k : Gap(k)' = Gap(k)
  BY <1>0, GapUnchanged DEF N
<1>2. \A x : ForwardOK(x)' = ForwardOK(x) /\ BackwardOK(x)' = BackwardOK(x)
  BY <1>0, <1>1 DEF ForwardOK, BackwardOK
<1>3. TypeOK' = TypeOK /\ Sorted(downtracks)' = Sorted(downtracks)
      /\ Valid' = Valid
  BY <1>0, <1>1 DEF TypeOK, Sorted, Valid
<1>4. QED
  BY <1>0, <1>1, <1>2, <1>3 DEF IInv

LEMMA NextIInv == IInv /\ [Next]_vars => IInv'
BY ValidateIInv, ForwardStepIInv, ForwardDoneIInv, BackwardStepIInv,
   BackwardDoneIInv, StutterIInv DEF Next

LEMMA IInvFeasible == IInv => FeasibleFromAnchor
<1> SUFFICES ASSUME IInv, pc = "done"
             PROVE  /\ out[1] = curv_speeds[1]
                    /\ \A k \in 2..N :
                          /\ out[k] <= curv_speeds[k]
                          /\ out[k] <= out[k - 1] + Gap(k)
                          /\ k >= 3 => out[k - 1] <= out[k] + Gap(k)
  BY DEF FeasibleFromAnchor
<1>1. /\ i \in 0..1 /\ BackwardOK(i + 1) /\ ForwardOK(N) /\ Valid
      /\ out \in [1..N -> Nat] /\ out[1] = curv_speeds[1] /\ N \in Nat
  BY NNat DEF IInv
<1>2. ASSUME NEW k \in 2..N
      PROVE  /\ out[k] <= curv_speeds[k]
             /\ out[k] <= out[k - 1] + Gap(k)
             /\ k >= 3 => out[k - 1] <= out[k] + Gap(k)
  <2>1. out[k] <= fwd[k] /\ fwd[k] <= curv_speeds[k]
        /\ fwd[k] <= fwd[k - 1] + Gap(k)
    BY <1>1 DEF BackwardOK, ForwardOK
  <2>2. Gap(k) \in Nat
    BY <1>1, GapNat DEF IInv, Valid
  <2>3. out[k] \in Nat /\ fwd[k] \in Nat /\ curv_speeds[k] \in Nat
        /\ out[k - 1] \in Nat /\ fwd[k - 1] \in Nat
    BY <1>1 DEF Valid
  <2>4. out[k - 1] = fwd[k - 1] \/ k - 1 \in i + 1..N
    BY <1>1 DEF Valid
  <2>5. out[k] <= out[k - 1] + Gap(k)
    <3>1. CASE out[k - 1] = fwd[k - 1]
      BY <2>1, <2>2, <2>3, <3>1
    <3>2. CASE k - 1 \in i + 1..N
      BY <1>1, <3>2 DEF BackwardOK
    <3>3. QED
      BY <2>4, <3>1, <3>2
  <2>6. k >= 3 => out[k - 1] <= out[k] + Gap(k)
    BY <1>1 DEF BackwardOK
  <2>7. QED
    BY <2>1, <2>3, <2>5, <2>6
<1>3. QED
  BY <1>1, <1>2

\* For every input that passes its preconditions, optimize_speed returns a
\* profile that keeps the anchor, stays below every later curvature limit,
\* asks for no acceleration beyond max_accel anywhere and for no
\* deceleration beyond it after the first segment.
THEOREM Feasible == Spec => []FeasibleFromAnchor
<1>1. Init => IInv
  BY InitIInv
<1>2. IInv /\ [Next]_vars => IInv'
  BY NextIInv
<1>3. IInv => FeasibleFromAnchor
  BY IInvFeasible
<1>4. QED
  BY <1>1, <1>2, <1>3, PTL DEF Spec


\* The squared speeds of both passes stay naturals, so no negative square
\* (a NaN speed) is ever produced, and the loop index stays in range.
THEOREM TypeCorrect == Spec => []TypeOK
<1>1. IInv => TypeOK
  BY DEF IInv
<1>2. QED
  BY <1>1, InitIInv, NextIInv, PTL DEF Spec


-----------------------------------------------------------------------------
(* Optimality: the two passes compute the reference profile.               *)

\* No step changes a cost: the inputs are read only.
LEMMA CostUnchanged ==
    ASSUME UNCHANGED <<downtracks, curv_speeds, max_accel>>
    PROVE  \A j, k : Cost(j, k)' = Cost(j, k)
BY DEF Cost

LEMMA InitOInv == Init => OInv
BY DEF Init, OInv

LEMMA ValidateOInv == IInv /\ Validate => OInv'
<1> SUFFICES ASSUME IInv, Validate PROVE OInv'
  OBVIOUS
<1>1. CASE Len(downtracks) # N \/ N = 0 \/ max_accel <= 0
  BY <1>1 DEF Validate, OInv
<1>2. CASE ~(Len(downtracks) # N \/ N = 0 \/ max_accel <= 0)
  <2>1. /\ pc' = "forward" /\ i' = 2
        /\ fwd' = [k \in 1..N |-> IF k = 1 THEN curv_speeds[1] ELSE 0]
        /\ UNCHANGED <<downtracks, curv_speeds, max_accel>>
    BY <1>2 DEF Validate
  <2>2. N \in Nat /\ N >= 1 /\ fwd'[1] = curv_speeds[1]
    BY <1>2, <2>1, NNat DEF IInv
  <2>3. /\ downtracks[1] \in Int /\ curv_speeds[1] \in Int
        /\ max_accel \in Int
    <3>1. downtracks \in Seq(Nat) /\ curv_speeds \in Seq(Nat)
          /\ 1 \in 1..Len(downtracks) /\ 1 \in 1..Len(curv_speeds)
      BY <1>2, <2>2 DEF IInv, TypeOK, N
    <3>2. QED
      BY <3>1, ElementOfSeq DEF IInv, TypeOK
  <2>4. Cost(1, 1) = curv_speeds[1]
    BY <2>3 DEF Cost
  <2>5. Cost(1, 1)' = Cost(1, 1)
    BY <2>1, CostUnchanged
  <2>6. \A k \in 1..i' - 1 : /\ \A j \in 1..k : fwd'[k] <= Cost(j, k)'
                          /\ \E j \in 1..k : fwd'[k] = Cost(j, k)'
    BY <2>1, <2>2, <2>3, <2>4, <2>5
  <2>7. QED
    BY <2>1, <2>6 DEF OInv, ForwardMin, IsMinCost
<1>3. QED
  BY <1>1, <1>2

LEMMA ForwardStepOInv == IInv /\ OInv /\ ForwardStep => OInv'
<1> SUFFICES ASSUME IInv, OInv, ForwardStep PROVE OInv'
  OBVIOUS
<1> DEFINE v == min(curv_speeds[i], fwd[i - 1] + Gap(i))
<1>0. /\ CostFacts /\ N \in Nat /\ i \in 2..N /\ ForwardMin(i - 1)
      /\ fwd \in [1..N -> Nat] /\ curv_speeds \in [1..N -> Nat]
      /\ pc = "forward" /\ pc' = "forward" /\ i' = i + 1
      /\ UNCHANGED <<downtracks, curv_speeds, max_accel>>
  BY NNat DEF IInv, OInv, ForwardStep, CostFacts, Valid
<1>1. Gap(i) \in Nat
  BY <1>0, GapNat DEF CostFacts, Valid
<1>2. /\ v <= curv_speeds[i] /\ v <= fwd[i - 1] + Gap(i)
      /\ v = curv_speeds[i] \/ v = fwd[i - 1] + Gap(i)
  BY <1>0, <1>1 DEF min
<1>3. \A k \in 1..N : fwd'[k] = IF k = i THEN v ELSE fwd[k]
  BY <1>0 DEF ForwardStep
<1>4. IsMinCost(fwd[i - 1], i - 1, 1..i - 1)
  BY <1>0 DEF ForwardMin
<1>5. \A j \in 1..i : v <= Cost(j, i)
  <2> SUFFICES ASSUME NEW j \in 1..i PROVE v <= Cost(j, i)
    OBVIOUS
  <2>1. CASE j = i
    BY <1>0, <1>2, <2>1, CostSelf
  <2>2. CASE j # i
    <3>1. Cost(j, i) = Cost(j, i - 1) + Gap(i)
      BY <1>0, <2>2, CostForward
    <3>2. fwd[i - 1] <= Cost(j, i - 1)
      BY <1>0, <1>4, <2>2 DEF IsMinCost
    <3>3. Cost(j, i - 1) \in Int /\ fwd[i - 1] \in Nat
      <4>1. j \in 1..N /\ i - 1 \in 1..N
        BY <1>0, <2>2, SMT
      <4>2. Cost(j, i - 1) \in Int
        BY <1>0, <4>1, CostInt, Zenon
      <4>3. QED
        BY <1>0, <4>1, <4>2, Zenon
    <3>4. v \in Int
      BY <1>0, <1>1, <1>2, <3>3, SMT
    <3>5. QED
      BY <1>1, <1>2, <3>1, <3>2, <3>3, <3>4, SMT
  <2>3. QED
    BY <2>1, <2>2
<1>6. \E j \in 1..i : v = Cost(j, i)
  <2>1. CASE v = curv_speeds[i]
    BY <1>0, <2>1, CostSelf
  <2>2. CASE v = fwd[i - 1] + Gap(i)
    <3>1. PICK j0 \in 1..i - 1 : fwd[i - 1] = Cost(j0, i - 1)
      BY <1>4 DEF IsMinCost
    <3>2. Cost(j0, i) = Cost(j0, i - 1) + Gap(i)
      BY <1>0, CostForward
    <3>3. QED
      BY <1>0, <2>2, <3>1, <3>2
  <2>3. QED
    BY <1>2, <2>1, <2>2
<1>7. \A k \in 1..i : /\ \A j \in 1..k : fwd'[k] <= Cost(j, k)
                      /\ \E j \in 1..k : fwd'[k] = Cost(j, k)
  <2> SUFFICES ASSUME NEW k \in 1..i
               PROVE  /\ \A j \in 1..k : fwd'[k] <= Cost(j, k)
                      /\ \E j \in 1..k : fwd'[k] = Cost(j, k)
    OBVIOUS
  <2>1. CASE k = i
    BY <1>0, <1>3, <1>5, <1>6, <2>1
  <2>2. CASE k # i
    <3>1. fwd'[k] = fwd[k] /\ k \in 1..i - 1
      BY <1>0, <1>3, <2>2
    <3>2. QED
      BY <1>0, <3>1 DEF ForwardMin, IsMinCost
  <2>3. QED
    BY <2>1, <2>2
<1>8. \A j, k : Cost(j, k)' = Cost(j, k)
  BY <1>0, CostUnchanged
<1>9. QED
  BY <1>0, <1>7, <1>8 DEF OInv, ForwardMin, IsMinCost

LEMMA ForwardDoneOInv == IInv /\ OInv /\ ForwardDone => OInv'
<1> SUFFICES ASSUME IInv, OInv, ForwardDone PROVE OInv'
  OBVIOUS
<1>0. /\ N \in Nat /\ N >= 1 /\ N' = N /\ i = N + 1 /\ ForwardMin(N)
      /\ pc' = "backward" /\ i' = N - 1 /\ out' = fwd /\ fwd' = fwd
      /\ UNCHANGED <<downtracks, curv_speeds, max_accel>>
  BY NNat DEF IInv, OInv, ForwardDone, Valid, N
<1>1. \A j, k : Cost(j, k)' = Cost(j, k)
  BY <1>0, CostUnchanged
<1>2. IsMinCost(fwd[N], N, 1..N)
  BY <1>0 DEF ForwardMin
<1>3. ForwardMin(N)'
  BY <1>0, <1>1 DEF ForwardMin, IsMinCost
<1>4. BackwardMin(i + 1)'
  BY <1>0, <1>1, <1>2 DEF BackwardMin, IsMinCost
<1>5. QED
  BY <1>0, <1>3, <1>4 DEF OInv

LEMMA BackwardStepOInv == IInv /\ OInv /\ BackwardStep => OInv'
<1> SUFFICES ASSUME IInv, OInv, BackwardStep PROVE OInv'
  OBVIOUS
<1> DEFINE w == min(fwd[i], out[i + 1] + Gap(i + 1))
<1>0. /\ CostFacts /\ N \in Nat /\ i \in 1..N - 1
      /\ ForwardMin(N) /\ BackwardMin(i + 1)
      /\ fwd \in [1..N -> Nat] /\ out \in [1..N -> Nat]
      /\ pc = "backward" /\ pc' = "backward" /\ i' = i - 1 /\ fwd' = fwd
      /\ UNCHANGED <<downtracks, curv_speeds, max_accel>>
  BY NNat DEF IInv, OInv, BackwardStep, CostFacts, Valid
<1>1. Gap(i + 1) \in Nat
  BY <1>0, GapNat DEF CostFacts, Valid
<1>2. /\ w <= fwd[i] /\ w <= out[i + 1] + Gap(i + 1)
      /\ w = fwd[i] \/ w = out[i + 1] + Gap(i + 1)
  BY <1>0, <1>1 DEF min
<1>2a. w \in Int
  BY <1>0, <1>1, <1>2
<1>3. \A k \in 1..N : out'[k] = IF k = i THEN w ELSE out[k]
  BY <1>0 DEF BackwardStep
<1>4. IsMinCost(fwd[i], i, 1..i) /\ IsMinCost(out[i + 1], i + 1, 1..N)
  BY <1>0 DEF ForwardMin, BackwardMin
<1>5. \A j \in 1..N : w <= Cost(j, i)
  <2> SUFFICES ASSUME NEW j \in 1..N PROVE w <= Cost(j, i)
    OBVIOUS
  <2>0. Cost(j, i) \in Int /\ fwd[i] \in Nat
    BY <1>0, CostInt
  <2>1. CASE j <= i
    <3>1. fwd[i] <= Cost(j, i)
      BY <1>0, <1>4, <2>1 DEF IsMinCost
    <3>2. QED
      BY <1>2, <1>2a, <2>0, <3>1, SMT
  <2>2. CASE j > i
    <3>1. Cost(j, i) = Cost(j, i + 1) + Gap(i + 1)
      BY <1>0, <2>2, CostBackward
    <3>2. out[i + 1] <= Cost(j, i + 1)
      BY <1>4 DEF IsMinCost
    <3>3. Cost(j, i + 1) \in Int /\ out[i + 1] \in Nat
      BY <1>0, CostInt
    <3>4. w <= Cost(j, i + 1) + Gap(i + 1)
      BY <1>1, <1>2, <1>2a, <3>2, <3>3, SMT
    <3>5. QED
      BY <1>1, <3>1, <3>3, <3>4, SMT
  <2>3. QED
    BY <1>0, <2>1, <2>2
<1>6. \E j \in 1..N : w = Cost(j, i)
  <2>1. CASE w = fwd[i]
    <3>1. PICK j0 \in 1..i : fwd[i] = Cost(j0, i)
      BY <1>4 DEF IsMinCost
    <3>2. QED
      BY <1>0, <2>1, <3>1
  <2>2. CASE w = out[i + 1] + Gap(i + 1)
    <3>1. PICK j0 \in 1..N : out[i + 1] = Cost(j0, i + 1)
      BY <1>4 DEF IsMinCost
    <3>2. CASE j0 > i
      <4>1. Cost(j0, i) = Cost(j0, i + 1) + Gap(i + 1)
        BY <1>0, <3>2, CostBackward
      <4>2. QED
        BY <2>2, <3>1, <4>1
    <3>3. CASE j0 <= i
      <4>1. Cost(j0, i + 1) = Cost(j0, i) + Gap(i + 1)
        BY <1>0, <3>3, CostForward
      <4>2. w <= Cost(j0, i)
        BY <1>5
      <4>3. Cost(j0, i) \in Int
        BY <1>0, CostInt
      <4>4. w = Cost(j0, i)
        BY <1>1, <2>2, <3>1, <4>1, <4>2, <4>3
      <4>5. QED
        BY <4>4
    <3>4. QED
      BY <1>0, <3>2, <3>3
  <2>3. QED
    BY <1>2, <2>1, <2>2
<1>7. \A k \in i..N : /\ \A j \in 1..N : out'[k] <= Cost(j, k)
                      /\ \E j \in 1..N : out'[k] = Cost(j, k)
  <2> SUFFICES ASSUME NEW k \in i..N
               PROVE  /\ \A j \in 1..N : out'[k] <= Cost(j, k)
                      /\ \E j \in 1..N : out'[k] = Cost(j, k)
    OBVIOUS
  <2>1. CASE k = i
    BY <1>0, <1>3, <1>5, <1>6, <2>1
  <2>2. CASE k # i
    <3>1. out'[k] = out[k] /\ k \in i + 1..N
      BY <1>0, <1>3, <2>2
    <3>2. QED
      BY <3>1, <1>0 DEF BackwardMin, IsMinCost
  <2>3. QED
    BY <2>1, <2>2
<1>8. \A j, k : Cost(j, k)' = Cost(j, k)
  BY <1>0, CostUnchanged
<1>9. ForwardMin(N)'
  BY <1>0, <1>8 DEF ForwardMin, IsMinCost, N
<1>10. BackwardMin(i + 1)'
  BY <1>0, <1>7, <1>8 DEF BackwardMin, IsMinCost, N
<1>11. QED
  BY <1>0, <1>9, <1>10 DEF OInv

LEMMA BackwardDoneOInv == OInv /\ BackwardDone => OInv'
<1> SUFFICES ASSUME OInv, BackwardDone PROVE OInv'
  OBVIOUS
<1>0. pc = "backward" /\ pc' = "done"
      /\ UNCHANGED <<downtracks, curv_speeds, max_accel, fwd, out, i>>
  BY DEF BackwardDone
<1>1. \A j, k : Cost(j, k)' = Cost(j, k)
  BY <1>0, CostUnchanged
<1>2. QED
  BY <1>0, <1>1 DEF OInv, ForwardMin, BackwardMin, IsMinCost, N

LEMMA StutterOInv == OInv /\ UNCHANGED vars => OInv'
<1> SUFFICES ASSUME OInv, UNCHANGED vars PROVE OInv'
  OBVIOUS
<1>0. UNCHANGED <<downtracks, curv_speeds, max_accel, fwd, out, i, pc>>
  BY DEF vars
<1>1. \A j, k : Cost(j, k)' = Cost(j, k)
  BY <1>0, CostUnchanged
<1>2. QED
  BY <1>0, <1>1 DEF OInv, ForwardMin, BackwardMin, IsMinCost, N

LEMMA NextOInv == IInv /\ OInv /\ [Next]_vars => OInv'
BY ValidateOInv, ForwardStepOInv, ForwardDoneOInv, BackwardStepOInv,
   BackwardDoneOInv, StutterOInv DEF Next

\* The least element of a set of integers is the one CHOOSE picks.
LEMMA ChooseLeast ==
    ASSUME NEW S \in SUBSET Int, NEW b \in S, \A x \in S : b <= x
    PROVE  (CHOOSE m \in S : \A x \in S : m <= x) = b
<1> DEFINE m == CHOOSE m2 \in S : \A x \in S : m2 <= x
<1>1. \E m2 \in S : \A x \in S : m2 <= x
  OBVIOUS
<1>2. m \in S /\ \A x \in S : m <= x
  BY <1>1, Zenon
<1>3. m <= b /\ b <= m
  BY <1>2, Zenon
<1>4. m \in Int /\ b \in Int
  BY <1>2, Zenon
<1>5. QED
  BY <1>3, <1>4, SMT

LEMMA OInvMatches == IInv /\ OInv => MatchesReference
<1> SUFFICES ASSUME IInv, OInv, pc = "done"
             PROVE  out = ReferenceProfile(downtracks, curv_speeds, max_accel)
  BY DEF MatchesReference
<1>0. /\ CostFacts /\ N \in Nat /\ i \in 0..1 /\ BackwardMin(i + 1)
      /\ out \in [1..N -> Nat] /\ out[1] = curv_speeds[1]
  BY NNat DEF IInv, OInv, CostFacts
<1>1. ASSUME NEW k \in 2..N
      PROVE  out[k] = CHOOSE b \in {Cost(j, k) : j \in 1..N} :
                          \A x \in {Cost(j, k) : j \in 1..N} : b <= x
  <2> DEFINE S == {Cost(j, k) : j \in 1..N}
  <2>1. S \in SUBSET Int
    BY <1>0, CostInt
  <2>2. IsMinCost(out[k], k, 1..N)
    <3>1. k \in i + 1..N
      BY <1>0
    <3>2. QED
      BY <1>0, <3>1 DEF BackwardMin
  <2>3. out[k] \in S
    BY <2>2, Zenon DEF IsMinCost
  <2>4. \A x \in S : out[k] <= x
    BY <2>2, Zenon DEF IsMinCost
  <2>5. QED
    BY <2>1, <2>3, <2>4, ChooseLeast
<1>2. ReferenceProfile(downtracks, curv_speeds, max_accel)
        = [k \in 1..N |-> IF k = 1 THEN curv_speeds[1]
                          ELSE CHOOSE b \in {Cost(j, k) : j \in 1..N} :
                                 \A x \in {Cost(j, k) : j \in 1..N} : b <= x]
  BY DEF ReferenceProfile, Cost, N
<1>3. \A k \in 1..N :
        out[k] = IF k = 1 THEN curv_speeds[1]
                 ELSE CHOOSE b \in {Cost(j, k) : j \in 1..N} :
                        \A x \in {Cost(j, k) : j \in 1..N} : b <= x
  <2> SUFFICES ASSUME NEW k \in 1..N PROVE out[k] = IF k = 1 THEN curv_speeds[1]
                 ELSE CHOOSE b \in {Cost(j, k) : j \in 1..N} :
                        \A x \in {Cost(j, k) : j \in 1..N} : b <= x
    OBVIOUS
  <2>1. CASE k = 1
    BY <1>0, <2>1
  <2>2. CASE k # 1
    <3>1. k \in 2..N
      BY <1>0, <2>2
    <3>2. QED
      BY <1>1, <2>2, <3>1
  <2>3. QED
    BY <2>1, <2>2
<1>4. out = [k \in 1..N |-> IF k = 1 THEN curv_speeds[1]
                          ELSE CHOOSE b \in {Cost(j, k) : j \in 1..N} :
                                 \A x \in {Cost(j, k) : j \in 1..N} : b <= x]
  BY <1>0, <1>3
<1>5. QED
  BY <1>2, <1>4

\* optimize_speed returns exactly the reference profile: the anchor, then
\* at every later point the least of the limit at any point plus what
\* max_accel gains over the distance between them, for every input that
\* passes its preconditions.
THEOREM Optimal == Spec => []MatchesReference
<1>1. Init => IInv /\ OInv
  BY InitIInv, InitOInv
<1>2. IInv /\ OInv /\ [Next]_vars => (IInv /\ OInv)'
  BY NextIInv, NextOInv
<1>3. IInv /\ OInv => MatchesReference
  BY OInvMatches
<1>4. QED
  BY <1>1, <1>2, <1>3, PTL DEF Spec

=============================================================================
