# Verification of the drivers controller and the speed optimizer

This directory holds TLA+ models of the CARMA drivers controller's
`DriverManager` (`src/subsystem_controllers/src/drivers_controller/driver_manager.cpp`)
and of basic_autonomy's speed optimizer `waypoint_generation::optimize_speed`, whose
unit tests are in `src/unnamed/part_000`.
It also holds the TLC configurations that model-check those models, and the
TLAPS proofs of their main safety properties.

## 1. The system

`DriverManager` decides, on every spin of the drivers controller, whether the
vehicle's essential drivers are usable. It publishes the result as a
`SystemAlert`. It has these parts:

| part | state | operations |
|---|---|---|
| `DriverManager` | `starting_up_`, `driver_timeout_`, and the entry manager `em_` | constructor (l. 29-55); `handle_spin` (l. 58-201); `update_driver_status` (l. 204-211); `evaluate_sensor` (l. 214-237); `are_critical_drivers_operational_truck` and `_car` (l. 239-401) |
| `EntryManager` (source not under `src/`) | an ordered list of `Entry` (name, available, timestamp, is_ros1), plus the required, lidar/gps and camera name lists | `update_entry` (update in place by name, or append), `get_entries`, `is_entry_required`, `is_lidar_gps_entry_required` and `is_camera_entry_required` (index or -1) |
| lifecycle manager (environment) | the lifecycle state of each ROS2 driver | `get_managed_node_state` |
| ROS1 drivers (environment) | none | send `DriverStatus` messages, which reach `update_driver_status` |
| clock (environment) | time | passed to `handle_spin` as `time_now` |

**How the parts interact.**
- The constructor registers every ROS2 driver as an entry stamped 0.
- ROS1 status messages create or refresh entries. The entry's `available` field is OPERATIONAL or DEGRADED, and its timestamp is always 0 (see finding 3).
- A spin walks the entry list in list order:
  - each critical entry overwrites the single `ssc` flag;
  - lidar and GPS entries set their flags, which are then forced to 1 (line 277);
  - the camera at index 0 sets `camera`.
- The flags become a status string, and `handle_spin` maps that string to an alert.
- The first "all ready" spin clears `starting_up_`. Until then, and while within `startup_duration`, a failed check gives `NOT_READY`.

**What is hard here:**
- The result depends on the order of the entry list, which is the order in which drivers first appeared.
- Lifecycle changes, status messages and spins interleave in any order.
- The grace period races the first ready answer.
- Status strings are produced in one function and matched in another.
- Timestamps and timeouts decide the boundary cases.

The rest of `src/` holds `src/unnamed/part_000`, the unit tests of basic_autonomy's waypoint generation, whose implementation is not in this repository, and the CI workflow (`src/.github/workflows/Ci.yml`).

**The speed optimizer.** `optimize_speed(downtracks, curv_speeds, max_accel)` is a pure function (spec.md 4.3). It validates its arguments, then makes a forward pass that caps each point at the speed reachable from the previous output, then a backward pass that caps each point at the speed from which the next output is reachable when decelerating. The backward pass stops before the first point: the first output is the anchor, the first input unchanged. It shares no state with `DriverManager`.

## 2. Modules

| module | role |
|---|---|
| `DriverManager.tla` | The component. CONSTANTS: the driver lists (`CriticalDrivers`, `LidarGpsEntries`, `CameraEntries`, `Ros2Drivers`, `Ros1Drivers`), the flags `Truck`/`Car`, `DriverTimeout`, `StartupTimestamp`, `StartupDuration`, and the time bound `MaxTime`. `ASSUME ConstantsAssumption` states what the proofs need. |
| `MC_DriverManager.tla` | Model values and sequence definitions for TLC. |
| `DriverManager_proofs.tla` | TLAPS lemmas and theorems. |
| `ReadinessReport.tla` | The abstract promise about the published alert, in four classes: none, not ready (starting up), ready, fault. Not ready may only be reported before the first ready or fault report, and the startup phase is eventually left (weak fairness). |
| `SpeedOptimizer.tla` | `optimize_speed`, modelled from spec.md 4.3 (spec_modelled). CONSTANTS: the sets of inputs a call may receive. |
| `MC_SpeedOptimizer.tla` | All non-decreasing downtrack sequences over 0..2 and all speed sequences over 0..4 of up to four points, the two test vectors of `part_000`, and `max_accel` in {-1, 0, 1, 2}. |
| `SpeedOptimizer_proofs.tla` | The loop invariant of the two passes and the theorems built on it. |

**State.**
- `entries` is `em_`'s entry list.
- `startingUp` is `starting_up_`.
- `lc` holds the lifecycle state of each ROS2 driver.
- `now` is the clock.
- `alert` is the last alert returned by `handle_spin`.
- `heardAt` is a history variable: the time of each ROS1 driver's last report. It is used only to state properties.

**Actions.**
- `Init` is the constructor.
- `update_driver_status(d, s)` is the whole callback, including `update_entry`.
- `handle_spin` is one timer spin. It runs `are_critical_drivers_operational_*` (the entry walk is `LastEvaluated`, the decision tables are `DecideTruck`/`DecideCar`) and then the whole if-chain (`SpinWith`, `InStartupWindow`, `TruckFaultAlerts`, `CarFaultAlerts`).
- `LifecycleTransition` and `Tick` are the environment.

**Abstractions.**
- Alert descriptions are tags, such as `SSC_Failed`.
- The status strings are kept exactly, so a string mismatch would show up.
- The truck "Camera Failed" branch has no `return` (undefined behaviour). It is modelled as a nondeterministic choice between the alert that was built and `Garbage`, a value of type `UNDEFINED`.
- `EntryManager` is modelled from its use in this file and is marked spec_modelled in `PROJECT.json`.
- `DecideTruck` and `DecideCar` keep every row of the code's decision tables, including the lidar and GPS failure rows. Line 277 forces those flags to 1, so the model, like the code, never reaches these rows. They are kept so that the model follows the code if the manual disable is lifted.

**Refinement.** `DriverManager` is shown to implement `ReadinessReport` through the mapping `report <- ReportOf(alert)`:
- NONE maps to none;
- NOT_READY maps to not ready;
- DRIVERS_READY maps to ready;
- every other alert type maps to fault.

The truck and car runs check `ImplementsReadiness`, the abstract specification including its fairness, as a PROPERTY.

**SpeedOptimizer.**
- The model keeps speeds SQUARED and integral. The bound `v' = sqrt(v^2 + 2 a ds)` becomes `v'^2 = v^2 + 2 a ds` (`Gap`), and since sqrt is monotone, a min of square roots is the square root of the min. The model therefore computes exactly the square of every output.
- `Validate` is the argument check: it raises `invalid_argument` (`pc = "error"`) on a length mismatch, no points, or `max_accel <= 0`.
- `ForwardStep` and `BackwardStep` are one iteration of each pass. `ForwardDone` and `BackwardDone` end the two loops.
- The backward pass runs from `N - 1` down to 2 and never touches point 1. This is the anchor rule of spec.md 4.3 ("the very first output element must equal the first input ... unchanged"), which both tests of `part_000` confirm.
- `ReferenceProfile` is a closed-form reference: point 1 is the anchor `caps[1]`, and every later point k gets the minimum over all j of `caps[j] + 2 a |d_k - d_j|`. An `ASSUME` in `MC_SpeedOptimizer` checks that it reproduces the first test of `part_000` (squared: `<<1,9,16,9,1,0,8,9,17>>`).
- `optimize_speed` is spec-modelled: its implementation is not in this repository. The spec's passes only add `2 a ds`. The second test shows that the implementation also decelerates from the anchor (`sqrt(16 - 8)`), by a rule the spec does not give; that rule is not modelled (finding 6).

## 3. Runs

All runs use these bounds:
- `DriverTimeout = 1`, `StartupTimestamp = 0`, `StartupDuration = 1`, `MaxTime = 3`. The clock passes both the driver timeout and the grace period, so reports can be both fresh and stale.
- The optimizer runs use inputs of 0 to 4 points. They therefore include the empty input, single points, equal downtracks (zero-length segments), limits that rise and fall, and accelerations that are rejected. Every shape of the two loops occurs.
- Seven model-value drivers, with the lifecycle states active and inactive and all four driver statuses.

Reports and lifecycle changes arrive in every order and every number of times up to the time bound. The entry list therefore takes every order the code can produce.

| run | cfg | result | what it shows |
|---|---|---|---|
| truck | `MC_truck.cfg` | pass | The truck configuration (ROS1 SSC, ROS2 lidar and camera, ROS1 gps) satisfies all of these: `TypeOK`; `NoUnknownStatus` (the FATAL unknown-problem alert never occurs, so every string produced is matched); `StartupInv`; `ReadyOnlyWhenHealthy` (the DRIVERS_READY alert only when the critical driver and every camera are really up); `NoRegressionToNotReady`; `LeavesStartup` (NOT_READY eventually stops for good). |
| car | `MC_car.cfg` | pass | The car configuration: `NoUnknownStatus`, `ReadyOnlyWhenHealthy`, `NoRegressionToNotReady`, `LeavesStartup`, `ImplementsReadiness` (the type invariant is checked in the truck run and proved for every configuration), plus `CameraFailureShutsDown`: after startup, with the SSC up and the camera down, the spin returns SHUTDOWN. |
| multi_critical | `MC_multi_critical.cfg` | violation | `ReadyOnlyWhenHealthy` fails with two critical drivers: a ready alert is issued while `ssc` has never reported (finding 1). |
| truck_camera | `MC_truck_camera.cfg` | violation | `CameraFailureShutsDown` fails in truck mode: the missing `return` (finding 2). |
| ros1_stamp | `MC_ros1_stamp.cfg` | violation | `SscFailedOnlyWhenDown` fails: an SSC that reported OPERATIONAL at the current time is declared failed (finding 3). |
| two_cameras | `MC_two_cameras.cfg` | violation | Car mode with cameras `cam` and `cam2`: `ReadyOnlyWhenHealthy` fails, since DRIVERS_READY is published while `cam2` is inactive (finding 4). |
| optimizer | `MC_optimizer.cfg` | pass | For about 370 000 states (every input of up to four points, plus the two nine-point test vectors): `TypeOK` (squared speeds stay naturals in the spec's passes); `FeasibleFromAnchor` (the first output is the first input; every later point is at or below its limit and at most `2 a ds` above its predecessor; every segment after the first falls by at most `2 a ds`); `MatchesReference` (the result equals the closed-form reference profile). |
| optimizer_anchor | `MC_optimizer_anchor.cfg` | violation | `KinematicallyFeasible`, the spec's guarantee as stated (no deceleration beyond `max_accel` between any two consecutive points), fails on the first segment once the anchor is kept (finding 5). |
| optimizer_test | `MC_optimizer_test.cfg` | violation | `MatchesAnchorTest`: on the second test vector the spec's algorithm returns 1 at index 1, where the test expects 2.82847 (finding 6). Every other index agrees. |

Every property of a passing run has a mutant in `PROJECT.json`: an operator named `*_<fault>`, defined just before the operator it replaces, that models a plausible bug. Examples are a typo in a status string, a camera dropped from the car check, a missing deadline or flag in the grace-period test, and a `starting_up_` that is never cleared. TLC finds each property violated under its mutant.

**Fairness.**
- `WF_vars(handle_spin)`: the spin is driven by a periodic timer.
- `WF_vars(Tick)`: time advances.

No fairness is assumed for drivers or the lifecycle manager. `LeavesStartup` and the fairness of `ReadinessReport` need only these two fairness conditions.

The optimizer's `Spec` carries `WF_vars(Next)`: a call, once made, runs to completion (spec.md 5: synchronous, with no blocking). No run checks a liveness property of the optimizer: both loops are bounded by `N`, so termination is not in question.

## 4. Findings

1. **Last-wins aggregation (line 252).** `ssc` is overwritten by every critical entry, so only the last one in the list counts. A critical driver that never reported has no entry at all. With two critical drivers, "All essential drivers are ready" is published while one of them is down.
2. **Missing `return` (lines 78-82).** Truck mode, camera failed, SSC up: control falls off the end of a function returning `SystemAlert`, which is undefined behaviour.
3. **Constant timestamp (line 208).** `update_driver_status` ignores `current_time` and stamps 0. Once `time_now > driver_timeout`, every ROS1 driver counts as timed out, and "SSC Failed" is reported for a healthy SSC.
4. **Only the first camera counts (line 267).** The car check accepts the camera flag only for `is_camera_entry_required(...) == 0`. With two configured cameras, a dead second camera never prevents DRIVERS_READY.
5. **The anchor rule contradicts the feasibility guarantee (spec gap, `part_000` line 448).**
   - spec.md 4.3 says the first output always equals the first input. It also says the output never needs deceleration beyond `max_accel` between consecutive points, and stays at or below every limit.
   - When the second limit is lower than what `max_accel` can decelerate to from the first speed, these cannot all hold. With the anchor kept, TLC finds the first segment needing too much deceleration (limits 1 then 0 over a zero-length segment).
6. **The second test exceeds the curvature limit (spec/code divergence, `part_000` line 448).**
   - The test expects 2.82847 at index 1, which is `sqrt(16 - 8)`: a deceleration from the anchor 4 over 2 m at `max_accel` 2. That point's limit is 1.
   - The spec's two passes give 1 there. So the implementation resolves finding 5 by exceeding the limit, which the spec's "at or below the curvature limit everywhere" forbids.
   - A `sqrt(v^2 - 2 a ds)` term is NaN when `2 a ds > v^2`. The rule is known from this one test value only, so it is not modelled.

## 5. Proofs (`DriverManager_proofs.tla`, checked by tlapm)

The theorems hold for every value of the constants that satisfies `ConstantsAssumption`:
- the ROS1 and ROS2 name sets are disjoint;
- the critical drivers are driver names;
- the flags are Booleans;
- the numeric constants are naturals.

**Lemmas.**
- `UpdateEntryType`: `update_entry` keeps a sequence of well-typed entries, both when it updates in place and when it appends.
- `SpinAlertType`: every alert of the two fault tables, including `Garbage`, has a type other than NONE and NOT_READY.

**Theorems.**
- `TypeCorrect`: `Spec => []TypeOK`. `TypeOK` is inductive: one step per action.
- `StartupInvariant`: `Spec => []StartupInv`. An alert other than NONE/NOT_READY implies that startup is over: the flag is cleared, the deadline has passed, or no vehicle flag is set. `StartupInv` is inductive relative to `TypeOK`. The deadline term needs `now` to be a natural that only grows, which `TypeOK` and `Tick` supply.
- `NoRegression`: `Spec => NoRegressionToNotReady`. Its argument: if the current alert is a fault or ready alert, `StartupInv` says the startup window is closed. A spin then either returns DRIVERS_READY or takes a fault-table alert, and by `SpinAlertType` none of those is NOT_READY. The invariant `TypeOK /\ StartupInv` is the strengthening the action property needs.

- `NoUnknown`: `ASSUME Truck \/ Car PROVE Spec => []NoUnknownStatus`. It rests on `LastEvaluatedBit` (the entry walk yields a 0/1 flag) and `TruckStatusKnown`/`CarStatusKnown` (the decision tables produce only strings that `handle_spin` matches). `NoUnknownStatus` is inductive by itself, because every spin recomputes the status from scratch.
- `RefinesReadiness`: `Spec => Readiness!SafeSpec`. The initial alert maps to none. A step is a `ReadinessReport` step or a stutter, with the cases split into spins that do and do not clear the flag. The argument needs `StartupInv`: once a ready or fault alert has been published, the startup window is closed, so NOT_READY (a return to starting) cannot follow. `FaultReport` shows that every fault-table alert maps to fault.

**What a status of 1 says (`EntryInv`).** `ReadyOnlyWhenHealthy` and `CameraFailureShutsDown` compare what `evaluate_sensor` computed from an entry with `ReallyUp`, which judges a driver by what it last reported and when. The bridge is the invariant `EntryInv`, proved by `EntryInvariant: Spec => [](TypeOK /\ EntryInv)` and first checked by TLC on all five driver configurations. For every entry:
- its `ros1` flag holds exactly when its name is a ROS1 driver;
- its timestamp is 0, since the constructor and `update_driver_status` both stamp 0;
- if it is a ROS1 entry, its driver reported at a time in `0..now`.

It is inductive relative to `TypeOK`. `UpdateEntryShape` shows that `update_entry` either appends or keeps every name and `ros1` flag in place.

**Lemmas about the entry walk.**
- `MaxInSet`: a nonempty set of indices has a greatest element, and `Max` picks it. The proof uses `WFMin` and `NatLessThanWellFounded` of the library.
- `LastSelected`: if `LastEvaluated(names) = 1`, the last selected entry exists and evaluates to 1.
- `SensorUp`: an entry that evaluates to 1 belongs to a driver that is `ReallyUp`. For a ROS1 entry, `now - 0 <= driver_timeout` together with a report time in `0..now` bounds the age of the last report.
- `CameraIndexZero`: with `camera_entries = <<cam>>`, only `cam` has camera index 0.
- `CriticalSelectedUp` and `CameraSelectedUp` combine these lemmas. `TruckReadyBits` and `CarReadyBits` read the decision tables backwards: the all-ready string needs SSC and camera statuses of 1.

**Theorems under a configuration hypothesis.**
- `ReadyWhenHealthy`: `ASSUME CriticalDrivers = {c}, CameraEntries = <<cam>> PROVE Spec => ReadyOnlyWhenHealthy`, for both vehicle kinds. The hypothesis is the truck and car configurations, and it cannot be dropped: with two critical drivers or two cameras the property fails (runs multi_critical and two_cameras, findings 1 and 4).
- `CarCameraShutdown`: `ASSUME ~Truck, Car, CameraEntries = <<cam>> PROVE Spec => CameraFailureShutsDown`. A spin outside the grace period that finds the camera down cannot produce the all-ready string, so it returns "SSC Failed" or "Camera Failed", both SHUTDOWN. In truck mode the property fails (run truck_camera, finding 2).

## 5b. Proofs (`SpeedOptimizer_proofs.tla`)

These proofs hold for every input set allowed by `InputsAssumption`: downtracks are non-decreasing naturals, speeds are natural squares, and accelerations are integers.

**The inductive invariant `IInv`:**
- After validation, the input lengths match, `N >= 1`, `max_accel > 0`, and `fwd` is a function over `1..N` into naturals (`Valid`).
- During the forward pass, `ForwardOK(i - 1)` holds: every computed point is at or below its limit and at most `Gap` above its predecessor.
- `fwd[1]` is the first limit, and during the backward pass and at the end so is `out[1]`: no step writes point 1 after validation.
- During the backward pass and at the end:
  - `ForwardOK(N)` holds;
  - `BackwardOK(i + 1)` holds: every point from `i + 1` on is at most its forward value, and neighbours in that range differ by at most `Gap`.
- At the end, `i <= 1`, so `BackwardOK(2)` holds.

**Lemmas.**
- `GapNat`: sorted downtracks and a positive acceleration make every `Gap` a natural.
- `GapUnchanged`: no step changes `Gap`.
- One lemma per action (`ValidateIInv` ... `BackwardDoneIInv`, `StutterIInv`).

**Theorems.**
- `Feasible`: `Spec => []FeasibleFromAnchor`. The anchor, the later limits and the acceleration bound hold everywhere, and the deceleration bound holds after the first segment. The first segment is excluded because it can fail there (finding 5). The bound `out[2] <= out[1] + Gap(2)` comes from the forward pass, since `out[2] <= fwd[2]` and `out[1] = fwd[1]`.
- `TypeCorrect`: `Spec => []TypeOK`. This covers the spec's passes, which only add; it says nothing about the subtraction the implementation makes (finding 6).
- `Optimal`: `Spec => []MatchesReference`. The spec's passes return exactly the closed-form reference profile: the anchor, then the greatest profile below the later limits that is reachable from it.

**Optimality (`OInv`).** Let `Cost(j, k) = v_j + 2 a |x_k - x_j|`, the bound that point `j`'s limit puts on point `k`. The reference profile takes at each `k` the least `Cost(j, k)` over all `j`. `OInv` is the loop invariant of both passes:
- during the forward pass, `fwd[k]` is the least `Cost(j, k)` over `j <= k`, for every settled `k < i` (`ForwardMin`);
- afterwards, this holds for the whole forward array, and `out[k]` is the least `Cost(j, k)` over all `j`, for every settled `k > i` (`BackwardMin`). At the end `i <= 1`, so this covers every point but the anchor, and `IInv` supplies `out[1] = caps[1]`.

It is inductive relative to `IInv` (lemmas `ValidateOInv` ... `StutterOInv`). The key facts are `CostForward` and `CostBackward`: for sorted downtracks, `Cost(j, k) = Cost(j, k - 1) + Gap(k)` when `j < k`, and symmetrically. So the minimum over `j <= k` is `min(v_k, fwd[k-1] + Gap(k))`, which is exactly what a forward step computes. `ChooseLeast` identifies the reference profile's `CHOOSE` with that minimum, and `OInvMatches` closes the argument at `done`. `InputsAssumption` states sortedness pairwise (`j <= k => d[j] <= d[k]`): from the adjacent form the step to the pairwise form is an induction, which is out of the provers' reach. TLC checks the assumption on every input it enumerates.

**Why the strengthening is needed.** Feasibility is only claimed at `done`. It follows from the loop invariants, which record which prefix or suffix is already settled. The proof keeps `Gap` opaque: only its being a natural is used, which keeps the products `2 a ds` out of the SMT obligations.

**Left to TLC.**
- `LeavesStartup`, and the liveness half of `ImplementsReadiness`. These rest on fairness and `ENABLED`, which the prover does not handle.
- `ReadyOnlyWhenHealthy` and `CameraFailureShutsDown` outside the configurations the theorems assume. There they fail, as the violation runs show.

## 6. Not modelled

- **The rest of basic_autonomy's waypoint generation.** Time-boundary truncation, the nearest-point search, `attach_past_points` and trajectory assembly are not modelled. Only their tests are in `src/unnamed/part_000`, they are real-valued geometry, and their tests check tolerances only.
- **Spline fitting and the Eigen transform test.** These are real-valued and out of TLC's reach.
- **The CI workflow.** It is build configuration, not program behaviour.
- **ROS plumbing.** Subscriptions and publishers are outside `driver_manager.cpp`.

## 7. Plan for later sittings

1. Prove `SscFailedOnlyWhenDown` for a ROS2 critical driver. For a ROS1 one it is false (run ros1_stamp, finding 3). The proof needs an invariant saying that every ROS2 name has an entry.
