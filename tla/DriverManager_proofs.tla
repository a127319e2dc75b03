------------------------- MODULE DriverManager_proofs -------------------------
(***************************************************************************)
(* Proofs about DriverManager for every value of the constants: the type   *)
(* invariant, the startup invariant, and that handle_spin never returns to *)
(* NOT_READY once it has reported anything else.                           *)
(***************************************************************************)
EXTENDS DriverManager, TLAPS, SequenceTheorems, WellFoundedInduction

EntryT == [name : DriverNames, available : BOOLEAN, timestamp : Nat,
           ros1 : BOOLEAN]

\* update_entry keeps the entry list a sequence of entries, wherever the
\* name is found.
LEMMA UpdateEntryType ==
    ASSUME NEW list \in Seq(EntryT), NEW e \in EntryT
    PROVE  update_entry(list, e) \in Seq(EntryT)
<1> DEFINE i == SelectInSeq(list, LAMBDA x : x.name = e.name)
<1>1. CASE i = 0
  BY <1>1, AppendProperties DEF update_entry
<1>2. CASE i # 0
  <2> DEFINE upd == [list EXCEPT ![i].available = e.available,
                                 ![i].timestamp = e.timestamp]
  <2>1. list \in [1..Len(list) -> EntryT] /\ Len(list) \in Nat
    BY LenProperties
  <2>2. \A j \in 1..Len(list) : upd[j] \in EntryT
    BY <2>1 DEF EntryT
  <2>3. upd \in [1..Len(list) -> EntryT]
    BY <2>1, <2>2
  <2>4. QED
    BY <1>2, <2>1, <2>3, SeqDef DEF update_entry
<1>3. QED
  BY <1>1, <1>2

\* Every fault alert handle_spin can return has a type of AlertTypes, and
\* none of them is NOT_READY.
FaultTypes == AlertTypes \ {"NONE", "NOT_READY"}

LEMMA SpinAlertType ==
    ASSUME NEW s
    PROVE  /\ \A a \in TruckFaultAlerts(s) : a.type \in FaultTypes
           /\ \A a \in CarFaultAlerts(s) : a.type \in FaultTypes
BY DEF TruckFaultAlerts, CarFaultAlerts, Alert, Garbage, AlertTypes,
       FaultTypes

\* The initial states and every step keep the type invariant.
THEOREM TypeCorrect == Spec => []TypeOK
<1> USE ConstantsAssumption
<1>1. Init => TypeOK
  <2> SUFFICES ASSUME Init PROVE TypeOK
    OBVIOUS
  <2>1. entries \in Seq(EntryT)
    <3>1. \A i \in 1..Len(Ros2Drivers) : Ros2Drivers[i] \in Ros2Names
      BY DEF Ros2Names, ToSet
    <3>2. QED
      BY <3>1 DEF Init, Entry, EntryT, DriverNames
  <2>2. alert.type \in AlertTypes
    BY DEF Init, NoAlert, Alert, AlertTypes
  <2>3. heardAt \in [Ros1Drivers -> {NoReport} \cup 0..MaxTime]
    BY DEF Init, NoReport
  <2>4. now \in 0..MaxTime /\ startingUp \in BOOLEAN
    BY DEF Init
  <2>5. QED
    BY <2>1, <2>2, <2>3, <2>4 DEF Init, TypeOK, EntryT
<1>2. TypeOK /\ [Next]_vars => TypeOK'
  <2> SUFFICES ASSUME TypeOK, [Next]_vars PROVE TypeOK'
    OBVIOUS
  <2>1. ASSUME NEW d \in Ros1Drivers, NEW s \in DriverStatuses,
               update_driver_status(d, s)
        PROVE  TypeOK'
    <3>1. Entry(d, s \in {"OPERATIONAL", "DEGRADED"}, 0, TRUE) \in EntryT
      BY DEF Entry, EntryT, DriverNames
    <3>2. entries' \in Seq(EntryT)
      BY <2>1, <3>1, UpdateEntryType DEF update_driver_status, TypeOK, EntryT
    <3>3. QED
      BY <2>1, <3>2 DEF update_driver_status, TypeOK, EntryT
  <2>2. CASE handle_spin
    <3>1. alert'.type \in AlertTypes
      BY <2>2, SpinAlertType DEF handle_spin, SpinWith, Alert, AlertTypes,
                                 FaultTypes
    <3>2. startingUp' \in BOOLEAN
      BY <2>2 DEF handle_spin, SpinWith, TypeOK
    <3>3. QED
      BY <2>2, <3>1, <3>2 DEF handle_spin, TypeOK
  <2>3. ASSUME NEW n \in Ros2Names, NEW s \in LcStates,
               LifecycleTransition(n, s)
        PROVE  TypeOK'
    BY <2>3 DEF LifecycleTransition, TypeOK
  <2>4. CASE Tick
    BY <2>4 DEF Tick, TypeOK
  <2>5. CASE UNCHANGED vars
    BY <2>5 DEF vars, TypeOK
  <2>6. QED
    BY <2>1, <2>2, <2>3, <2>4, <2>5 DEF Next
<1>3. QED
  BY <1>1, <1>2, PTL DEF Spec

\* StartupInv holds in every reachable state: an alert other than NOT_READY
\* is published only after starting_up_ is cleared or the grace period has
\* passed, and time never goes back.
THEOREM StartupInvariant == Spec => []StartupInv
<1> USE ConstantsAssumption
<1>1. Init => StartupInv
  BY DEF Init, StartupInv, NoAlert, Alert
<1>2. TypeOK /\ StartupInv /\ [Next]_vars => StartupInv'
  <2> SUFFICES ASSUME TypeOK, StartupInv, [Next]_vars PROVE StartupInv'
    OBVIOUS
  <2>1. CASE handle_spin
    BY <2>1 DEF handle_spin, SpinWith, InStartupWindow, StartupInv, Alert,
                TypeOK
  <2>2. CASE \E d \in Ros1Drivers, s \in DriverStatuses :
                update_driver_status(d, s)
    BY <2>2 DEF update_driver_status, StartupInv
  <2>3. CASE \E n \in Ros2Names, s \in LcStates : LifecycleTransition(n, s)
    BY <2>3 DEF LifecycleTransition, StartupInv
  <2>4. CASE Tick
    BY <2>4 DEF Tick, StartupInv, TypeOK
  <2>5. CASE UNCHANGED vars
    BY <2>5 DEF vars, StartupInv
  <2>6. QED
    BY <2>1, <2>2, <2>3, <2>4, <2>5 DEF Next
<1>3. QED
  BY <1>1, <1>2, TypeCorrect, PTL DEF Spec

\* handle_spin never goes back to NOT_READY once it has reported anything
\* else (the action property NoRegressionToNotReady).
THEOREM NoRegression == Spec => NoRegressionToNotReady
<1> USE ConstantsAssumption
<1>1. TypeOK /\ StartupInv /\ [Next]_vars
        => [alert.type \notin {"NONE", "NOT_READY"} => alert'.type # "NOT_READY"]_vars
  <2> SUFFICES ASSUME TypeOK, StartupInv, [Next]_vars,
                      alert.type \notin {"NONE", "NOT_READY"}
               PROVE  alert'.type # "NOT_READY"
    OBVIOUS
  <2>1. CASE handle_spin /\ (Truck \/ Car)
    <3> DEFINE status == IF Truck THEN are_critical_drivers_operational_truck
                                  ELSE are_critical_drivers_operational_car
               ready == IF Truck THEN "s_1_l1_1_l2_1_g_1_c_1"
                                 ELSE "s_1_l_1_g_1_c_1"
               faults == IF Truck THEN TruckFaultAlerts(status)
                                  ELSE CarFaultAlerts(status)
    <3>1. IF status = ready
          THEN alert' = Alert("DRIVERS_READY", "All_essential_drivers_are_ready")
          ELSE /\ startingUp' = startingUp
               /\ IF InStartupWindow
                  THEN alert' = Alert("NOT_READY", "System_is_starting_up")
                  ELSE alert' \in faults
      BY <2>1 DEF handle_spin, SpinWith
    <3>2. \A a \in faults : a.type # "NOT_READY"
      BY SpinAlertType DEF FaultTypes
    <3>3. ~InStartupWindow
      BY <2>1 DEF StartupInv, InStartupWindow, TypeOK
    <3>4. QED
      BY <3>1, <3>2, <3>3 DEF Alert
  <2>2. CASE handle_spin /\ ~(Truck \/ Car)
    BY <2>2 DEF handle_spin, Alert
  <2>3. CASE ~handle_spin
    BY <2>3 DEF Next, vars, update_driver_status, LifecycleTransition, Tick
  <2>4. QED
    BY <2>1, <2>2, <2>3
<1>2. QED
  BY <1>1, TypeCorrect, StartupInvariant, PTL DEF Spec, NoRegressionToNotReady

\* Each spin's status is one of the strings its table knows, and every
\* selected sensor evaluates to 0 or 1.
LEMMA LastEvaluatedBit ==
    ASSUME NEW names
    PROVE  LastEvaluated(names) \in {0, 1}
BY DEF LastEvaluated, evaluate_sensor

LEMMA TruckStatusKnown ==
    are_critical_drivers_operational_truck
        \in {"s_0", "s_1_l1_1_l2_1_g_1_c_0", "s_1_l1_1_l2_1_g_1_c_1"}
<1> DEFINE ssc == LastEvaluated({n \in DriverNames : is_entry_required(n)})
           cam == LastEvaluated({n \in DriverNames :
                                   /\ is_lidar_gps_entry_required(n) \notin {0, 1, 2}
                                   /\ is_camera_entry_required(n) = 0})
<1>1. ssc \in {0, 1} /\ cam \in {0, 1}
  BY LastEvaluatedBit
<1>2. are_critical_drivers_operational_truck = DecideTruck(ssc, 1, 1, 1, cam)
  BY DEF are_critical_drivers_operational_truck
<1>3. QED
  BY <1>1, <1>2 DEF DecideTruck

LEMMA CarStatusKnown ==
    are_critical_drivers_operational_car
        \in {"s_0", "s_1_l_1_g_1_c_0", "s_1_l_1_g_1_c_1"}
<1> DEFINE ssc == LastEvaluated({n \in DriverNames : is_entry_required(n)})
           cam == LastEvaluated({n \in DriverNames :
                                   /\ is_lidar_gps_entry_required(n) \notin {0, 1}
                                   /\ is_camera_entry_required(n) = 0})
<1>1. ssc \in {0, 1} /\ cam \in {0, 1}
  BY LastEvaluatedBit
<1>2. are_critical_drivers_operational_car = DecideCar(ssc, 1, 1, cam)
  BY DEF are_critical_drivers_operational_car
<1>3. QED
  BY <1>1, <1>2 DEF DecideCar

\* NoUnknownStatus holds in every reachable state when a vehicle flag is
\* set: the strings are_critical_drivers_operational_* builds are all
\* matched by handle_spin, so the FATAL "Unknown problem" alert is never
\* returned.
THEOREM NoUnknown ==
    ASSUME Truck \/ Car
    PROVE  Spec => []NoUnknownStatus
<1>1. Init => NoUnknownStatus
  BY DEF Init, NoUnknownStatus, NoAlert, Alert
<1>2. NoUnknownStatus /\ [Next]_vars => NoUnknownStatus'
  <2> SUFFICES ASSUME NoUnknownStatus, [Next]_vars
               PROVE  NoUnknownStatus'
    OBVIOUS
  <2>1. CASE handle_spin /\ Truck
    <3> DEFINE status == are_critical_drivers_operational_truck
    <3>1. status # "s_1_l1_1_l2_1_g_1_c_1"
            => \A a \in TruckFaultAlerts(status) : a.type # "FATAL"
      BY TruckStatusKnown DEF TruckFaultAlerts, Alert, Garbage
    <3>2. QED
      BY <2>1, <3>1 DEF handle_spin, SpinWith, Alert, NoUnknownStatus
  <2>2. CASE handle_spin /\ ~Truck
    <3> DEFINE status == are_critical_drivers_operational_car
    <3>1. Car
      BY <2>2
    <3>2. status # "s_1_l_1_g_1_c_1"
            => \A a \in CarFaultAlerts(status) : a.type # "FATAL"
      BY CarStatusKnown DEF CarFaultAlerts, Alert
    <3>3. QED
      BY <2>2, <3>1, <3>2 DEF handle_spin, SpinWith, Alert, NoUnknownStatus
  <2>3. CASE ~handle_spin
    BY <2>3 DEF Next, vars, update_driver_status, LifecycleTransition, Tick,
                NoUnknownStatus
  <2>4. QED
    BY <2>1, <2>2, <2>3
<1>3. QED
  BY <1>1, <1>2, PTL DEF Spec

\* Every alert a fault table returns is a ready or fault report.
LEMMA FaultReport ==
    ASSUME NEW a, a.type \in FaultTypes
    PROVE  ReportOf(a) \in Readiness!Settled
BY DEF ReportOf, FaultTypes, AlertTypes, Readiness!Settled

\* The safety part of the refinement: every behaviour of DriverManager,
\* seen through ReportOf, is a behaviour of ReadinessReport.  The liveness
\* part (WF of LeaveStartup) is checked by TLC only.
THEOREM RefinesReadiness == Spec => Readiness!SafeSpec
<1> USE ConstantsAssumption
<1>1. Init => Readiness!Init
  BY DEF Init, Readiness!Init, ReportOf, NoAlert, Alert
<1>2. TypeOK /\ StartupInv /\ [Next]_vars => [Readiness!Next]_(ReportOf(alert))
  <2> SUFFICES ASSUME TypeOK, StartupInv, [Next]_vars
               PROVE  [Readiness!Next]_(ReportOf(alert))
    OBVIOUS
  <2>1. ReportOf(alert) \in Readiness!Starting \/ ReportOf(alert) \in Readiness!Settled
    BY DEF ReportOf, Readiness!Starting, Readiness!Settled
  <2>2. CASE handle_spin /\ (Truck \/ Car)
    <3> DEFINE status == IF Truck THEN are_critical_drivers_operational_truck
                                  ELSE are_critical_drivers_operational_car
               ready == IF Truck THEN "s_1_l1_1_l2_1_g_1_c_1"
                                 ELSE "s_1_l_1_g_1_c_1"
               faults == IF Truck THEN TruckFaultAlerts(status)
                                  ELSE CarFaultAlerts(status)
    <3>1. IF status = ready
          THEN alert' = Alert("DRIVERS_READY", "All_essential_drivers_are_ready")
          ELSE IF InStartupWindow
               THEN alert' = Alert("NOT_READY", "System_is_starting_up")
               ELSE alert' \in faults
      BY <2>2 DEF handle_spin, SpinWith
    <3>2. \A a \in faults : ReportOf(a) \in Readiness!Settled
      BY SpinAlertType, FaultReport
    <3>3. ReportOf(Alert("DRIVERS_READY", "All_essential_drivers_are_ready"))
            \in Readiness!Settled
      BY DEF ReportOf, Alert, Readiness!Settled
    <3>4. ReportOf(Alert("NOT_READY", "System_is_starting_up")) = "not_ready"
      BY DEF ReportOf, Alert
    <3>5. CASE ReportOf(alert) \in Readiness!Starting
      BY <3>1, <3>2, <3>3, <3>4, <3>5
         DEF Readiness!Next, Readiness!StayStarting, Readiness!LeaveStartup
    <3>6. CASE ReportOf(alert) \in Readiness!Settled
      <4>1. alert.type \notin {"NONE", "NOT_READY"}
        BY <3>6 DEF ReportOf, Readiness!Settled
      <4>2. ~InStartupWindow
        BY <2>2, <4>1 DEF StartupInv, InStartupWindow, TypeOK
      <4>3. QED
        BY <3>1, <3>2, <3>3, <3>6, <4>2 DEF Readiness!Next, Readiness!Settle
    <3>7. QED
      BY <2>1, <3>5, <3>6
  <2>3. CASE handle_spin /\ ~(Truck \/ Car)
    <3>1. ReportOf(alert') = "fault"
      BY <2>3 DEF handle_spin, ReportOf, Alert
    <3>2. QED
      BY <2>1, <3>1 DEF Readiness!Next, Readiness!LeaveStartup,
                        Readiness!Settle, Readiness!Settled
  <2>4. CASE ~handle_spin
    BY <2>4 DEF Next, vars, update_driver_status, LifecycleTransition, Tick
  <2>5. QED
    BY <2>2, <2>3, <2>4
<1>3. QED
  BY <1>1, <1>2, TypeCorrect, StartupInvariant, PTL DEF Spec, Readiness!SafeSpec


-----------------------------------------------------------------------------
(* What a status of 1 says about a driver.  evaluate_sensor judges a ROS1  *)
(* entry by its availability flag and its timestamp, a ROS2 entry by the   *)
(* lifecycle state of its name; ReallyUp judges a driver by what it last   *)
(* reported and when.  The two agree on "up" because every entry's ros1    *)
(* flag matches its name, update_driver_status stamps 0, and a ROS1 entry  *)
(* exists only once its driver has reported.                               *)

\* Every entry's ros1 flag tells whether its name is a ROS1 driver, every
\* entry carries the timestamp 0 (the constructor and update_driver_status
\* both stamp 0), and a ROS1 entry's driver reported at a time in 0..now.
EntryInv ==
    \A k \in 1..Len(entries) :
        /\ entries[k].ros1 <=> entries[k].name \in Ros1Drivers
        /\ entries[k].timestamp = 0
        /\ entries[k].ros1 => heardAt[entries[k].name] \in 0..now

\* A function on 1..n is a sequence of length n.
LEMMA FunctionIsSeq ==
    ASSUME NEW S, NEW n \in Nat, NEW f \in [1..n -> S]
    PROVE  f \in Seq(S) /\ Len(f) = n
<1>1. f \in Seq(S)
  BY SeqDef
<1>2. Len(f) \in Nat /\ DOMAIN f = 1..Len(f)
  BY <1>1, LenProperties
<1>3. QED
  BY <1>1, <1>2

\* update_entry changes no name and no ros1 flag of an entry already in the
\* list, stamps the updated entry with the new entry's timestamp, and
\* appends the new entry when its name is not in the list.
LEMMA UpdateEntryShape ==
    ASSUME NEW list \in Seq(EntryT), NEW e \in EntryT
    PROVE  \/ update_entry(list, e) = Append(list, e)
           \/ /\ Len(update_entry(list, e)) = Len(list)
              /\ \A k \in 1..Len(list) :
                    /\ update_entry(list, e)[k].name = list[k].name
                    /\ update_entry(list, e)[k].ros1 = list[k].ros1
                    /\ update_entry(list, e)[k].timestamp
                          \in {list[k].timestamp, e.timestamp}
<1> DEFINE i == SelectInSeq(list, LAMBDA x : x.name = e.name)
<1>1. CASE i = 0
  BY <1>1 DEF update_entry
<1>2. CASE i # 0
  <2> DEFINE upd == [list EXCEPT ![i].available = e.available,
                                 ![i].timestamp = e.timestamp]
  <2>1. list \in [1..Len(list) -> EntryT] /\ Len(list) \in Nat
    BY LenProperties
  <2>2. \A k \in 1..Len(list) :
           /\ upd[k].name = list[k].name
           /\ upd[k].ros1 = list[k].ros1
           /\ upd[k].timestamp \in {list[k].timestamp, e.timestamp}
    BY <2>1, Zenon DEF EntryT
  <2>3. upd \in Seq(EntryT) /\ Len(upd) = Len(list)
    <3>1. \A k \in 1..Len(list) : upd[k] \in EntryT
      BY <2>1, Zenon DEF EntryT
    <3>2. upd \in [1..Len(list) -> EntryT]
      BY <2>1, <3>1, Zenon
    <3>3. QED
      BY <2>1, <3>2, FunctionIsSeq, Zenon
  <2>4. update_entry(list, e) = upd
    BY <1>2, Zenon DEF update_entry
  <2>5. QED
    BY <2>2, <2>3, <2>4, Zenon
<1>3. QED
  BY <1>1, <1>2

\* EntryInv holds in every reachable state.
THEOREM EntryInvariant == Spec => [](TypeOK /\ EntryInv)
<1> USE ConstantsAssumption
<1>1. Init /\ TypeOK => EntryInv
  <2> SUFFICES ASSUME Init, TypeOK, NEW k \in 1..Len(entries) PROVE
                 /\ entries[k].ros1 <=> entries[k].name \in Ros1Drivers
                 /\ entries[k].timestamp = 0
                 /\ entries[k].ros1 => heardAt[entries[k].name] \in 0..now
    BY DEF EntryInv
  <2>1. k \in DOMAIN entries
    BY LenProperties DEF TypeOK
  <2>2. k \in 1..Len(Ros2Drivers)
    BY <2>1 DEF Init
  <2>3. entries[k] = Entry(Ros2Drivers[k], FALSE, 0, FALSE)
    BY <2>2 DEF Init
  <2>4. Ros2Drivers[k] \notin Ros1Drivers
    BY <2>2 DEF Ros2Names, ToSet
  <2>5. entries[k].ros1 = FALSE /\ entries[k].name = Ros2Drivers[k]
        /\ entries[k].timestamp = 0
    BY <2>3 DEF Entry
  <2>6. QED
    BY <2>4, <2>5
<1>2. TypeOK /\ EntryInv /\ [Next]_vars => EntryInv'
  <2> SUFFICES ASSUME TypeOK, EntryInv, [Next]_vars PROVE EntryInv'
    OBVIOUS
  <2>1. ASSUME NEW d \in Ros1Drivers, NEW s \in DriverStatuses,
               update_driver_status(d, s)
        PROVE  EntryInv'
    <3>0. PICK e : e = Entry(d, s \in {"OPERATIONAL", "DEGRADED"}, 0, TRUE)
      BY Zenon
    <3>1. e \in EntryT /\ entries \in Seq(EntryT)
      BY <3>0 DEF Entry, EntryT, DriverNames, TypeOK
    <3>2. entries' = update_entry(entries, e) /\ heardAt' = [heardAt EXCEPT ![d] = now]
          /\ now' = now
      BY <2>1, <3>0 DEF update_driver_status
    <3>3. now \in Nat /\ heardAt \in [Ros1Drivers -> {NoReport} \cup 0..MaxTime]
      BY DEF TypeOK
    <3>4. \A n \in Ros1Drivers : heardAt[n] \in 0..now => heardAt'[n] \in 0..now
      BY <3>2, <3>3
    <3>5. heardAt'[d] \in 0..now
      BY <3>2, <3>3
    <3>6. CASE entries' = Append(entries, e)
      <4> SUFFICES ASSUME NEW k \in 1..Len(entries') PROVE
                     /\ entries'[k].ros1 <=> entries'[k].name \in Ros1Drivers
                     /\ entries'[k].timestamp = 0
                     /\ entries'[k].ros1 => heardAt'[entries'[k].name] \in 0..now'
        BY DEF EntryInv
      <4>1. Len(entries') = Len(entries) + 1 /\ Len(entries) \in Nat
        BY <3>1, <3>6, AppendProperties
      <4>2. CASE k = Len(entries) + 1
        <5>1. Append(entries, e)[Len(entries) + 1] = e
          BY <3>1, AppendProperties, Zenon
        <5>2. entries'[k] = e
          BY <3>6, <4>2, <5>1, Zenon
        <5>3. e.ros1 = TRUE /\ e.name = d /\ e.timestamp = 0
          BY <3>0 DEF Entry
        <5>4. QED
          BY <3>2, <3>5, <5>2, <5>3, Zenon
      <4>3. CASE k \in 1..Len(entries)
        <5>1. \A j \in 1..Len(entries) : Append(entries, e)[j] = entries[j]
          BY <3>1, AppendProperties
        <5>2. entries'[k] = entries[k]
          BY <3>6, <4>3, <5>1
        <5>3. /\ entries[k].ros1 <=> entries[k].name \in Ros1Drivers
              /\ entries[k].timestamp = 0
              /\ entries[k].name \in Ros1Drivers => heardAt[entries[k].name] \in 0..now
          BY <4>3, Zenon DEF EntryInv
        <5>4. QED
          BY <3>2, <3>4, <5>2, <5>3, Zenon
      <4>4. QED
        BY <4>1, <4>2, <4>3
    <3>7. CASE /\ Len(entries') = Len(entries)
               /\ \A k \in 1..Len(entries) :
                     /\ entries'[k].name = entries[k].name
                     /\ entries'[k].ros1 = entries[k].ros1
                     /\ entries'[k].timestamp \in {entries[k].timestamp, e.timestamp}
      <4> SUFFICES ASSUME NEW k \in 1..Len(entries) PROVE
                     /\ entries'[k].ros1 <=> entries'[k].name \in Ros1Drivers
                     /\ entries'[k].timestamp = 0
                     /\ entries'[k].ros1 => heardAt'[entries'[k].name] \in 0..now'
        BY <3>7 DEF EntryInv
      <4>1. /\ entries[k].ros1 <=> entries[k].name \in Ros1Drivers
            /\ entries[k].timestamp = 0
            /\ entries[k].name \in Ros1Drivers => heardAt[entries[k].name] \in 0..now
        BY Zenon DEF EntryInv
      <4>2. e.timestamp = 0
        BY <3>0 DEF Entry
      <4>3. QED
        BY <3>2, <3>4, <3>7, <4>1, <4>2, Zenon
    <3>8. QED
      <4>1. \/ update_entry(entries, e) = Append(entries, e)
            \/ /\ Len(update_entry(entries, e)) = Len(entries)
               /\ \A k \in 1..Len(entries) :
                     /\ update_entry(entries, e)[k].name = entries[k].name
                     /\ update_entry(entries, e)[k].ros1 = entries[k].ros1
                     /\ update_entry(entries, e)[k].timestamp
                           \in {entries[k].timestamp, e.timestamp}
        BY <3>1, UpdateEntryShape, Zenon
      <4>2. QED
        BY <3>2, <3>6, <3>7, <4>1, Zenon
  <2>2. CASE handle_spin
    BY <2>2 DEF handle_spin, EntryInv
  <2>3. ASSUME NEW n \in Ros2Names, NEW s \in LcStates,
               LifecycleTransition(n, s)
        PROVE  EntryInv'
    BY <2>3 DEF LifecycleTransition, EntryInv
  <2>4. CASE Tick
    <3>1. now \in Nat /\ now' = now + 1 /\ UNCHANGED <<entries, heardAt>>
      BY <2>4 DEF Tick, TypeOK
    <3>2. \A x \in 0..now : x \in 0..now'
      BY <3>1
    <3>3. QED
      BY <3>1, <3>2 DEF EntryInv
  <2>5. CASE UNCHANGED vars
    BY <2>5 DEF vars, EntryInv
  <2>6. QED
    BY <2>1, <2>2, <2>3, <2>4, <2>5 DEF Next
<1>3. QED
  BY <1>1, <1>2, TypeCorrect, PTL DEF Spec


\* A nonempty set of indices 1..L has a greatest element, and Max picks it.
LEMMA MaxInSet ==
    ASSUME NEW L \in Nat, NEW I \in SUBSET (1..L), I # {}
    PROVE  Max(I) \in I /\ \A y \in I : y <= Max(I)
<1> DEFINE T == {L - x : x \in I}
<1>1. T \subseteq Nat /\ T # {}
  <2>1. \A x \in I : L - x \in Nat
    BY SMT
  <2>2. QED
    BY <2>1, Zenon
<1>2. PICK t \in T : \A y \in T : ~(<<y, t>> \in OpToRel(<, Nat))
  BY <1>1, NatLessThanWellFounded, WFMin, Zenon
<1>3. PICK x \in I : t = L - x
  OBVIOUS
<1>4. \A y \in I : y <= x
  <2> SUFFICES ASSUME NEW y \in I PROVE y <= x
    OBVIOUS
  <2>1. L - y \in T
    BY Zenon
  <2>2. ~(<<L - y, t>> \in OpToRel(<, Nat))
    BY <1>2, <2>1, Zenon
  <2>3. QED
    BY <1>3, <2>1, <2>2 DEF OpToRel
<1>5. \E m \in I : \A y \in I : m >= y
  BY <1>4
<1>6. Max(I) \in I /\ \A y \in I : Max(I) >= y
  BY <1>5, Zenon DEF Max
<1>7. QED
  BY <1>6

\* When the loop of are_critical_drivers_operational_* ends with 1 for the
\* selected names, the last selected entry exists and evaluated to 1.
LEMMA LastSelected ==
    ASSUME TypeOK, NEW names, LastEvaluated(names) = 1
    PROVE  \E k \in 1..Len(entries) :
              entries[k].name \in names /\ evaluate_sensor(entries[k]) = 1
<1> DEFINE I == {j \in 1..Len(entries) : entries[j].name \in names}
<1>1. SelectLastInSeq(entries, LAMBDA e : e.name \in names)
        = IF I # {} THEN Max(I) ELSE 0
  BY DEF SelectLastInSeq
<1>2. Len(entries) \in Nat
  BY LenProperties DEF TypeOK
<1>3. I # {}
  BY <1>1 DEF LastEvaluated
<1>4. Max(I) \in I
  <2>1. I \in SUBSET (1..Len(entries))
    OBVIOUS
  <2>2. QED
    BY <1>2, <1>3, <2>1, MaxInSet, Zenon
<1>5. Max(I) # 0
  BY <1>4
<1>6. evaluate_sensor(entries[Max(I)]) = 1
  BY <1>1, <1>3, <1>5 DEF LastEvaluated
<1>7. QED
  BY <1>4, <1>6

\* An entry that evaluate_sensor finds up belongs to a driver that really
\* is up: a ROS2 one is active; a ROS1 one said it was available, and since
\* its entry is stamped 0 and it reported at a time in 0..now, it reported
\* no more than driver_timeout ago.
LEMMA SensorUp ==
    ASSUME TypeOK, EntryInv, NEW k \in 1..Len(entries),
           evaluate_sensor(entries[k]) = 1
    PROVE  ReallyUp(entries[k].name)
<1> USE ConstantsAssumption
<1> DEFINE x == entries[k]
<1>1. x \in EntryT
  <2>1. entries \in Seq(EntryT)
    BY DEF TypeOK, EntryT
  <2>2. QED
    BY <2>1, ElementOfSeq
<1>2. /\ x.ros1 <=> x.name \in Ros1Drivers
      /\ x.timestamp = 0
      /\ x.ros1 => heardAt[x.name] \in 0..now
  BY Zenon DEF EntryInv
<1>3. CASE x.ros1
  <2>1. x.name \in Ros1Drivers /\ x.name \notin Ros2Names
    BY <1>2, <1>3
  <2>2. x.available /\ now - 0 <= DriverTimeout
    <3>1. now \in Nat
      BY DEF TypeOK
    <3>2. (IF ~x.available \/ now - x.timestamp > DriverTimeout THEN 0 ELSE 1) = 1
      BY <1>3 DEF evaluate_sensor
    <3>3. QED
      BY <1>2, <3>1, <3>2
  <2>3. heardAt[x.name] \in 0..now /\ now \in Nat
    BY <1>2, <1>3 DEF TypeOK
  <2>4. heardAt[x.name] # NoReport /\ now - heardAt[x.name] <= DriverTimeout
    BY <2>2, <2>3 DEF NoReport
  <2>5. QED
    BY <2>1, <2>2, <2>4 DEF ReallyUp
<1>4. CASE ~x.ros1
  <2>1. x.name \in Ros2Names
    BY <1>1, <1>2, <1>4 DEF EntryT, DriverNames
  <2>2. lc[x.name] = "active"
    BY <1>4 DEF evaluate_sensor
  <2>3. QED
    BY <2>1, <2>2 DEF ReallyUp
<1>5. QED
  BY <1>3, <1>4

\* With a single camera in camera_entries, the only name at camera index 0
\* is that camera.
LEMMA CameraIndexZero ==
    ASSUME NEW cam, CameraEntries = <<cam>>, NEW n,
           is_camera_entry_required(n) = 0
    PROVE  n = cam
<1> DEFINE I == {j \in 1..Len(<<cam>>) : <<cam>>[j] = n}
<1>1. SelectInSeq(CameraEntries, LAMBDA x : x = n) = IF I # {} THEN Min(I) ELSE 0
  BY DEF SelectInSeq
<1>2. I # {}
  BY <1>1 DEF is_camera_entry_required, IndexOf
<1>3. QED
  BY <1>2

\* With a single critical driver, a status of 1 for the critical names
\* means the critical driver really is up.
LEMMA CriticalSelectedUp ==
    ASSUME TypeOK, EntryInv, NEW c, CriticalDrivers = {c},
           NEW names \in SUBSET CriticalDrivers, LastEvaluated(names) = 1
    PROVE  CriticalUp
<1>1. PICK k \in 1..Len(entries) :
            entries[k].name \in names /\ evaluate_sensor(entries[k]) = 1
  BY LastSelected
<1>2. entries[k].name = c
  BY <1>1
<1>3. ReallyUp(c)
  BY <1>1, <1>2, SensorUp
<1>4. QED
  BY <1>3 DEF CriticalUp

\* With a single camera, a status of 1 for names at camera index 0 means
\* the camera really is up.
LEMMA CameraSelectedUp ==
    ASSUME TypeOK, EntryInv, NEW cam, CameraEntries = <<cam>>,
           NEW names, \A n \in names : is_camera_entry_required(n) = 0,
           LastEvaluated(names) = 1
    PROVE  CamerasUp
<1>1. PICK k \in 1..Len(entries) :
            entries[k].name \in names /\ evaluate_sensor(entries[k]) = 1
  BY LastSelected
<1>2. entries[k].name = cam
  BY <1>1, CameraIndexZero
<1>3. ReallyUp(cam)
  BY <1>1, <1>2, SensorUp
<1>4. QED
  BY <1>3 DEF CamerasUp

\* The status strings of a spin that finds everything up: the truck's and
\* the car's all-ready strings require an SSC status of 1 and a camera
\* status of 1.
LEMMA TruckReadyBits ==
    ASSUME NEW ssc \in {0, 1}, NEW cam \in {0, 1},
           DecideTruck(ssc, 1, 1, 1, cam) = "s_1_l1_1_l2_1_g_1_c_1"
    PROVE  ssc = 1 /\ cam = 1
BY DEF DecideTruck

LEMMA CarReadyBits ==
    ASSUME NEW ssc \in {0, 1}, NEW cam \in {0, 1},
           DecideCar(ssc, 1, 1, cam) = "s_1_l_1_g_1_c_1"
    PROVE  ssc = 1 /\ cam = 1
BY DEF DecideCar

\* ReadyOnlyWhenHealthy for a vehicle with one critical driver and one
\* camera (the truck and car configurations): when handle_spin reports
\* "All essential drivers are ready", the critical driver and the camera
\* really are up.  With two critical drivers or two cameras it fails (runs
\* multi_critical and two_cameras): only the last listed critical entry and
\* only camera index 0 are evaluated.
THEOREM ReadyWhenHealthy ==
    ASSUME NEW c, NEW cam, CriticalDrivers = {c}, CameraEntries = <<cam>>
    PROVE  Spec => ReadyOnlyWhenHealthy
<1> USE ConstantsAssumption
<1> DEFINE crit == {n \in DriverNames : is_entry_required(n)}
           camT == {n \in DriverNames :
                      /\ is_lidar_gps_entry_required(n) \notin {0, 1, 2}
                      /\ is_camera_entry_required(n) = 0}
           camC == {n \in DriverNames :
                      /\ is_lidar_gps_entry_required(n) \notin {0, 1}
                      /\ is_camera_entry_required(n) = 0}
<1>1. TypeOK /\ EntryInv /\ [Next]_vars
        => [handle_spin /\ alert'.type = "DRIVERS_READY" => CriticalUp /\ CamerasUp]_vars
  <2> SUFFICES ASSUME TypeOK, EntryInv, handle_spin,
                      alert'.type = "DRIVERS_READY"
               PROVE  CriticalUp /\ CamerasUp
    OBVIOUS
  <2>1. crit \in SUBSET CriticalDrivers
    BY DEF is_entry_required
  <2>2. LastEvaluated(crit) \in {0, 1} /\ LastEvaluated(camT) \in {0, 1}
        /\ LastEvaluated(camC) \in {0, 1}
    BY LastEvaluatedBit
  <2>3. CASE Truck
    <3>1. are_critical_drivers_operational_truck = "s_1_l1_1_l2_1_g_1_c_1"
      <4>1. \A a \in TruckFaultAlerts(are_critical_drivers_operational_truck) :
                a.type # "DRIVERS_READY"
        BY DEF TruckFaultAlerts, Alert, Garbage
      <4>2. QED
        BY <2>3, <4>1 DEF handle_spin, SpinWith, Alert
    <3>2. LastEvaluated(crit) = 1 /\ LastEvaluated(camT) = 1
      BY <2>2, <3>1, TruckReadyBits DEF are_critical_drivers_operational_truck
    <3>3. CriticalUp
      BY <2>1, <3>2, CriticalSelectedUp, Zenon
    <3>4. \A n \in camT : is_camera_entry_required(n) = 0
      OBVIOUS
    <3>5. QED
      BY <3>2, <3>3, <3>4, CameraSelectedUp
  <2>4. CASE ~Truck /\ Car
    <3>1. are_critical_drivers_operational_car = "s_1_l_1_g_1_c_1"
      <4>1. \A a \in CarFaultAlerts(are_critical_drivers_operational_car) :
                a.type # "DRIVERS_READY"
        BY DEF CarFaultAlerts, Alert
      <4>2. QED
        BY <2>4, <4>1 DEF handle_spin, SpinWith, Alert
    <3>2. LastEvaluated(crit) = 1 /\ LastEvaluated(camC) = 1
      BY <2>2, <3>1, CarReadyBits DEF are_critical_drivers_operational_car
    <3>3. CriticalUp
      BY <2>1, <3>2, CriticalSelectedUp, Zenon
    <3>4. \A n \in camC : is_camera_entry_required(n) = 0
      OBVIOUS
    <3>5. QED
      BY <3>2, <3>3, <3>4, CameraSelectedUp
  <2>5. CASE ~Truck /\ ~Car
    BY <2>5 DEF handle_spin, Alert
  <2>6. QED
    BY <2>3, <2>4, <2>5
<1>2. QED
  BY <1>1, EntryInvariant, PTL DEF Spec, ReadyOnlyWhenHealthy

\* CameraFailureShutsDown in car mode with one camera: a spin after the
\* grace period that finds the camera down returns a SHUTDOWN alert ("SSC
\* Failed" or "Camera Failed").  In truck mode it fails (run truck_camera):
\* the "Camera Failed" branch has no return statement.
THEOREM CarCameraShutdown ==
    ASSUME ~Truck, Car, NEW cam, CameraEntries = <<cam>>
    PROVE  Spec => CameraFailureShutsDown
<1> USE ConstantsAssumption
<1> DEFINE camC == {n \in DriverNames :
                      /\ is_lidar_gps_entry_required(n) \notin {0, 1}
                      /\ is_camera_entry_required(n) = 0}
           status == are_critical_drivers_operational_car
<1>1. TypeOK /\ EntryInv /\ [Next]_vars
        => [handle_spin /\ ~InStartupWindow /\ CriticalUp /\ ~CamerasUp
              => alert'.type = "SHUTDOWN"]_vars
  <2> SUFFICES ASSUME TypeOK, EntryInv, handle_spin, ~InStartupWindow,
                      ~CamerasUp
               PROVE  alert'.type = "SHUTDOWN"
    OBVIOUS
  <2>1. status # "s_1_l_1_g_1_c_1"
    <3>1. LastEvaluated(camC) \in {0, 1}
          /\ LastEvaluated({n \in DriverNames : is_entry_required(n)}) \in {0, 1}
      BY LastEvaluatedBit
    <3>2. status = "s_1_l_1_g_1_c_1" => LastEvaluated(camC) = 1
      BY <3>1, CarReadyBits DEF are_critical_drivers_operational_car
    <3>3. LastEvaluated(camC) = 1 => CamerasUp
      BY CameraSelectedUp
    <3>4. QED
      BY <3>2, <3>3
  <2>2. alert' \in CarFaultAlerts(status)
    BY <2>1 DEF handle_spin, SpinWith
  <2>3. status \in {"s_0", "s_1_l_1_g_1_c_0"}
    BY <2>1, CarStatusKnown
  <2>4. QED
    BY <2>2, <2>3 DEF CarFaultAlerts, Alert
<1>2. QED
  BY <1>1, EntryInvariant, PTL DEF Spec, CameraFailureShutsDown
=============================================================================
