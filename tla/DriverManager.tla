---------------------------- MODULE DriverManager ----------------------------
(***************************************************************************)
(* The drivers controller's DriverManager                                  *)
(* (subsystem_controllers/src/drivers_controller/driver_manager.cpp).      *)
(*                                                                         *)
(* The manager keeps an ordered list of driver entries (its EntryManager), *)
(* a starting_up_ flag, and answers the controller's periodic handle_spin  *)
(* with a SystemAlert computed from the entries.  ROS1 drivers enter the  *)
(* list through update_driver_status (a DriverStatus message); ROS2       *)
(* drivers are listed by the constructor and are judged by the state the  *)
(* lifecycle manager reports for them.  The lifecycle manager, the         *)
(* drivers themselves and the clock are the environment.                   *)
(***************************************************************************)
EXTENDS Integers, Sequences, SequencesExt

CONSTANTS
    CriticalDrivers,    \* critical_driver_names (is_entry_required)
    LidarGpsEntries,    \* lidar_gps_entries, a sequence: the index matters
    CameraEntries,      \* camera_entries, a sequence: the index matters
    Ros2Drivers,        \* base_managed_ros2_nodes, a sequence (constructor order)
    Ros1Drivers,        \* names that publish DriverStatus on driver_discovery
    Truck, Car,         \* the truck and car flags passed to handle_spin
    DriverTimeout,      \* driver_timeout_
    StartupTimestamp,   \* start_up_timestamp passed to handle_spin
    StartupDuration,    \* startup_duration passed to handle_spin
    MaxTime             \* bound on the clock (model only)

Ros2Names == ToSet(Ros2Drivers)
DriverNames == Ros1Drivers \cup Ros2Names

ASSUME ConstantsAssumption ==
    /\ Ros1Drivers \cap Ros2Names = {}
    /\ CriticalDrivers \subseteq DriverNames
    /\ Truck \in BOOLEAN /\ Car \in BOOLEAN
    /\ DriverTimeout \in Nat /\ StartupDuration \in Nat
    /\ StartupTimestamp \in Nat /\ MaxTime \in Nat

VARIABLES
    entries,     \* em_->get_entries(): the ordered entry list
    startingUp,  \* starting_up_
    lc,          \* lifecycle state of each ROS2 driver (environment)
    now,         \* the clock read by the controller as time_now
    alert,       \* the SystemAlert returned by the last handle_spin
    heardAt      \* history: time of the last DriverStatus of a ROS1 driver

vars == <<entries, startingUp, lc, now, alert, heardAt>>

NoReport == -1
LcStates == {"active", "inactive"}
\* carma_driver_msgs DriverStatus status values
DriverStatuses == {"OPERATIONAL", "DEGRADED", "FAULT", "OFF"}
\* The SystemAlert types handle_spin can return; "UNDEFINED" stands for the
\* value obtained when control flows off the end of handle_spin.
AlertTypes == {"NONE", "DRIVERS_READY", "NOT_READY", "CAUTION", "WARNING",
               "SHUTDOWN", "FATAL", "UNDEFINED"}

\* A SystemAlert; its description is kept as a tag, the code's text with
\* underscores for blanks and punctuation.
Alert(type, description) == [type |-> type, description |-> description]
NoAlert == Alert("NONE", "NONE")
Garbage == Alert("UNDEFINED", "UNDEFINED")

\* Entry(available, active, name, timestamp, module, is_ros1); the active_
\* and module_ fields are never read by the manager and are left out.
Entry(name, available, timestamp, isRos1) ==
    [name |-> name, available |-> available, timestamp |-> timestamp,
     ros1 |-> isRos1]

-----------------------------------------------------------------------------
(* EntryManager (its source is not under src/): an entry is updated in     *)
(* place by name, otherwise appended; the three lookups give membership    *)
(* and the 0-based index of a name in the configured lists, -1 if absent.  *)

update_entry(list, e) ==
    LET i == SelectInSeq(list, LAMBDA x : x.name = e.name)
    IN  IF i = 0 THEN Append(list, e)
        ELSE [list EXCEPT ![i].available = e.available,
                          ![i].timestamp = e.timestamp]

is_entry_required(n) == n \in CriticalDrivers

IndexOf(seq, n) == SelectInSeq(seq, LAMBDA x : x = n) - 1

is_lidar_gps_entry_required(n) == IndexOf(LidarGpsEntries, n)

is_camera_entry_required(n) == IndexOf(CameraEntries, n)

-----------------------------------------------------------------------------
(* DriverManager                                                           *)

\* Fault variant: the availability flag of a ROS1 entry is not consulted.
evaluate_sensor_ignores_available(e) ==
    IF e.ros1
    THEN IF now - e.timestamp > DriverTimeout THEN 0 ELSE 1
    ELSE IF lc[e.name] = "active" THEN 1 ELSE 0

\* evaluate_sensor: a ROS1 entry is up when available and not timed out, a
\* ROS2 entry when the lifecycle manager reports it active.
evaluate_sensor(e) ==
    IF e.ros1
    THEN IF ~e.available \/ now - e.timestamp > DriverTimeout THEN 0 ELSE 1
    ELSE IF lc[e.name] = "active" THEN 1 ELSE 0

\* The loops of are_critical_drivers_operational_*: each variable starts at 0
\* and every entry whose name is selected overwrites it, so the last selected
\* entry of the list decides.
LastEvaluated(names) ==
    LET i == SelectLastInSeq(entries, LAMBDA e : e.name \in names)
    IN  IF i = 0 THEN 0 ELSE evaluate_sensor(entries[i])

\* Fault variant: the camera-failed status string is misspelt.
DecideTruck_typo(ssc, lidar1, lidar2, gps, camera) ==
    IF ssc = 0 THEN "s_0"
    ELSE CASE lidar1 = 1 /\ lidar2 = 1 /\ gps = 1 /\ camera = 0 -> "s_1_l1_1_l2_1_g_1_c0"
           [] lidar1 = 1 /\ lidar2 = 1 /\ gps = 1 /\ camera = 1 -> "s_1_l1_1_l2_1_g_1_c_1"

\* Decision table of are_critical_drivers_operational_truck.  No branch
\* matches when lidar1, lidar2 and gps are 1 and camera is neither 0 nor 1,
\* which evaluate_sensor never produces.
DecideTruck(ssc, lidar1, lidar2, gps, camera) ==
    IF ssc = 0 THEN "s_0"
    ELSE CASE lidar1 = 0 /\ lidar2 = 0 /\ gps = 0 -> "s_1_l1_0_l2_0_g_0"
           [] lidar1 = 0 /\ lidar2 = 0 /\ gps = 1 -> "s_1_l1_0_l2_0_g_1"
           [] lidar1 = 0 /\ lidar2 = 1 /\ gps = 0 -> "s_1_l1_0_l2_1_g_0"
           [] lidar1 = 0 /\ lidar2 = 1 /\ gps = 1 -> "s_1_l1_0_l2_1_g_1"
           [] lidar1 = 1 /\ lidar2 = 0 /\ gps = 0 -> "s_1_l1_1_l2_0_g_0"
           [] lidar1 = 1 /\ lidar2 = 0 /\ gps = 1 -> "s_1_l1_1_l2_0_g_1"
           [] lidar1 = 1 /\ lidar2 = 1 /\ gps = 0 -> "s_1_l1_1_l2_1_g_0"
           [] camera = 0 /\ lidar1 = 1 /\ lidar2 = 1 /\ gps = 1
                                                  -> "s_1_l1_1_l2_1_g_1_c_0"
           [] lidar1 = 1 /\ lidar2 = 1 /\ gps = 1 /\ camera = 1
                                                  -> "s_1_l1_1_l2_1_g_1_c_1"

\* are_critical_drivers_operational_truck: lidar1, lidar2 and gps are
\* evaluated in the loop and then forced to 1 (failure detection disabled).
are_critical_drivers_operational_truck ==
    LET ssc == LastEvaluated({n \in DriverNames : is_entry_required(n)})
        camera == LastEvaluated({n \in DriverNames :
                                   /\ is_lidar_gps_entry_required(n) \notin {0, 1, 2}
                                   /\ is_camera_entry_required(n) = 0})
    IN  DecideTruck(ssc, 1, 1, 1, camera)

\* Fault variant: the camera-failed status string is misspelt.
DecideCar_typo(ssc, lidar, gps, camera) ==
    IF ssc # 1 THEN "s_0"
    ELSE CASE camera = 0 /\ lidar = 1 /\ gps = 1 -> "s_1_l_1_g_1_c0"
           [] lidar = 1 /\ gps = 1 /\ camera = 1 -> "s_1_l_1_g_1_c_1"

\* Decision table of are_critical_drivers_operational_car.
DecideCar(ssc, lidar, gps, camera) ==
    IF ssc # 1 THEN "s_0"
    ELSE CASE lidar = 0 /\ gps = 0 -> "s_1_l_0_g_0"
           [] lidar = 0 /\ gps = 1 /\ camera = 1 -> "s_1_l_0_g_1"
           [] lidar = 1 /\ gps = 0 /\ camera = 1 -> "s_1_l_1_g_0"
           [] camera = 0 /\ lidar = 1 /\ gps = 1 -> "s_1_l_1_g_1_c_0"
           [] camera = 0 /\ lidar = 0 /\ gps = 1 -> "s_1_l_0_g_1_c_0"
           [] camera = 0 /\ lidar = 1 /\ gps = 0 -> "s_1_l_1_g_0_c_0"
           [] lidar = 1 /\ gps = 1 /\ camera = 1 -> "s_1_l_1_g_1_c_1"

\* Fault variant: the manual override also forces the camera to 1.
are_critical_drivers_operational_car_no_camera ==
    LET ssc == LastEvaluated({n \in DriverNames : is_entry_required(n)})
    IN  DecideCar(ssc, 1, 1, 1)

\* are_critical_drivers_operational_car: lidar and gps forced to 1.
are_critical_drivers_operational_car ==
    LET ssc == LastEvaluated({n \in DriverNames : is_entry_required(n)})
        camera == LastEvaluated({n \in DriverNames :
                                   /\ is_lidar_gps_entry_required(n) \notin {0, 1}
                                   /\ is_camera_entry_required(n) = 0})
    IN  DecideCar(ssc, 1, 1, camera)

\* The alerts handle_spin returns for a truck status once the drivers are
\* not all ready and the startup grace period is over.  The "Camera Failed"
\* branch has no return statement: control flows off the end of the
\* function, so the caller receives either the alert already written into
\* the return slot or an undefined value.
TruckFaultAlerts(status) ==
    CASE status = "s_1_l1_1_l2_1_g_1_c_0" ->
             {Alert("SHUTDOWN", "Camera_Failed"), Garbage}
      [] status \in {"s_1_l1_0_l2_1_g_1", "s_1_l1_1_l2_0_g_1"} ->
             {Alert("CAUTION", "One_LIDAR_Failed")}
      [] status \in {"s_1_l1_0_l2_1_g_0", "s_1_l1_1_l2_0_g_0"} ->
             {Alert("CAUTION", "One_Lidar_and_GPS_Failed")}
      [] status = "s_1_l1_1_l2_1_g_0" -> {Alert("CAUTION", "GPS_Failed")}
      [] status = "s_1_l1_0_l2_0_g_1" -> {Alert("WARNING", "Both_LIDARS_Failed")}
      [] status = "s_1_l1_0_l2_0_g_0" ->
             {Alert("SHUTDOWN", "LIDARS_and_GPS_Failed")}
      [] status = "s_0" -> {Alert("SHUTDOWN", "SSC_Failed")}
      [] OTHER -> {Alert("FATAL", "Unknown_problem_assessing_essential_driver_availability")}

\* Fault variant: a failed camera only raises a CAUTION.
CarFaultAlerts_camera_caution(status) ==
    CASE status = "s_1_l_1_g_1_c_0" -> {Alert("CAUTION", "Camera_Failed")}
      [] OTHER -> {Alert("SHUTDOWN", "SSC_Failed")}

\* The same for a car status.
CarFaultAlerts(status) ==
    CASE status = "s_1_l_1_g_1_c_0" -> {Alert("SHUTDOWN", "Camera_Failed")}
      [] status = "s_1_l_1_g_0" -> {Alert("CAUTION", "GPS_Failed")}
      [] status = "s_1_l_0_g_1" -> {Alert("WARNING", "LIDAR_Failed")}
      [] status = "s_1_l_0_g_0" -> {Alert("SHUTDOWN", "LIDAR_GPS_Failed")}
      [] status = "s_1_l_0_g_1_c_0" -> {Alert("SHUTDOWN", "LIDAR_Camera_Failed")}
      [] status = "s_1_l_1_g_0_c_0" -> {Alert("SHUTDOWN", "GPS_Camera_Failed")}
      [] status = "s_0" -> {Alert("SHUTDOWN", "SSC_Failed")}
      [] OTHER -> {Alert("FATAL", "Unknown_problem_assessing_essential_driver_availability")}

\* Fault variants: the grace period without its deadline, and without the
\* starting_up_ flag.
InStartupWindow_no_deadline == startingUp
InStartupWindow_no_flag == now - StartupTimestamp <= StartupDuration

\* The startup grace period of handle_spin.
InStartupWindow ==
    startingUp /\ now - StartupTimestamp <= StartupDuration

\* Fault variant: all ready does not clear starting_up_.
SpinWith_keeps_starting_up(status, allReady, faults) ==
    /\ startingUp' = startingUp
    /\ IF status = allReady
       THEN alert' = Alert("DRIVERS_READY", "All_essential_drivers_are_ready")
       ELSE IF InStartupWindow
            THEN alert' = Alert("NOT_READY", "System_is_starting_up")
            ELSE alert' \in faults

\* handle_spin for one vehicle kind: all ready clears starting_up_; else the
\* grace period answers NOT_READY; else the fault table decides.
SpinWith(status, allReady, faults) ==
    IF status = allReady
    THEN /\ startingUp' = FALSE
         /\ alert' = Alert("DRIVERS_READY", "All_essential_drivers_are_ready")
    ELSE /\ startingUp' = startingUp
         /\ IF InStartupWindow
            THEN alert' = Alert("NOT_READY", "System_is_starting_up")
            ELSE alert' \in faults

-----------------------------------------------------------------------------
(* Initial state: the constructor lists every ROS2 driver as an entry.     *)

\* Fault variant: the constructor stamps the ROS2 entries with -1.
Init_stamped_never ==
    /\ entries = [i \in 1..Len(Ros2Drivers) |->
                    Entry(Ros2Drivers[i], FALSE, NoReport, FALSE)]
    /\ startingUp = TRUE
    /\ lc \in [Ros2Names -> LcStates]
    /\ now = 0
    /\ alert = NoAlert
    /\ heardAt = [d \in Ros1Drivers |-> NoReport]

Init ==
    /\ entries = [i \in 1..Len(Ros2Drivers) |->
                    Entry(Ros2Drivers[i], FALSE, 0, FALSE)]
    /\ startingUp = TRUE
    /\ lc \in [Ros2Names -> LcStates]
    /\ now = 0
    /\ alert = NoAlert
    /\ heardAt = [d \in Ros1Drivers |-> NoReport]

\* update_driver_status: a DriverStatus message of a ROS1 driver.  The entry
\* is stamped with 0, not with current_time.
update_driver_status(d, status) ==
    /\ entries' = update_entry(entries,
                    Entry(d, status \in {"OPERATIONAL", "DEGRADED"}, 0, TRUE))
    /\ heardAt' = [heardAt EXCEPT ![d] = now]
    /\ UNCHANGED <<startingUp, lc, now, alert>>

\* handle_spin(truck, car, time_now, start_up_timestamp, startup_duration)
handle_spin ==
    /\ IF Truck
       THEN SpinWith(are_critical_drivers_operational_truck,
                     "s_1_l1_1_l2_1_g_1_c_1",
                     TruckFaultAlerts(are_critical_drivers_operational_truck))
       ELSE IF Car
       THEN SpinWith(are_critical_drivers_operational_car,
                     "s_1_l_1_g_1_c_1",
                     CarFaultAlerts(are_critical_drivers_operational_car))
       ELSE /\ alert' = Alert("FATAL", "Need_to_set_either_truck_or_car_flag")
            /\ UNCHANGED startingUp
    /\ UNCHANGED <<entries, lc, now, heardAt>>

\* Environment: the lifecycle manager moves a ROS2 driver between states.
LifecycleTransition(n, s) ==
    /\ lc[n] # s
    /\ lc' = [lc EXCEPT ![n] = s]
    /\ UNCHANGED <<entries, startingUp, now, alert, heardAt>>

\* Environment: time passes.
Tick ==
    /\ now < MaxTime
    /\ now' = now + 1
    /\ UNCHANGED <<entries, startingUp, lc, alert, heardAt>>

Next ==
    \/ \E d \in Ros1Drivers, s \in DriverStatuses : update_driver_status(d, s)
    \/ handle_spin
    \/ \E n \in Ros2Names, s \in LcStates : LifecycleTransition(n, s)
    \/ Tick

\* The controller calls handle_spin from a wall timer and time passes.
Spec == Init /\ [][Next]_vars /\ WF_vars(handle_spin) /\ WF_vars(Tick)

-----------------------------------------------------------------------------
(* Properties                                                              *)

TypeOK ==
    /\ entries \in Seq([name : DriverNames, available : BOOLEAN,
                        timestamp : Nat, ros1 : BOOLEAN])
    /\ startingUp \in BOOLEAN
    /\ lc \in [Ros2Names -> LcStates]
    /\ now \in 0..MaxTime
    /\ alert.type \in AlertTypes
    /\ heardAt \in [Ros1Drivers -> {NoReport} \cup 0..MaxTime]

\* Whether a driver really is up now: a ROS2 driver when active, a ROS1
\* driver when its last DriverStatus said available and came no more than
\* DriverTimeout ago.
ReallyUp(d) ==
    IF d \in Ros2Names THEN lc[d] = "active"
    ELSE /\ heardAt[d] # NoReport
         /\ now - heardAt[d] <= DriverTimeout
         /\ \E i \in 1..Len(entries) :
                entries[i].name = d /\ entries[i].available

CriticalUp == \A d \in CriticalDrivers : ReallyUp(d)
CamerasUp == \A i \in 1..Len(CameraEntries) : ReallyUp(CameraEntries[i])

\* handle_spin reports "All essential drivers are ready" only when every
\* critical driver and every camera is up at that moment.
ReadyOnlyWhenHealthy ==
    [][handle_spin /\ alert'.type = "DRIVERS_READY" => CriticalUp /\ CamerasUp]_vars

\* The status string built by are_critical_drivers_operational_* is always
\* one that handle_spin recognises: no FATAL "Unknown problem" alert.
NoUnknownStatus == alert.type # "FATAL"

\* Once handle_spin has reported anything but NOT_READY, it never goes back
\* to "System is starting up...".
NoRegressionToNotReady ==
    [][alert.type \notin {"NONE", "NOT_READY"} => alert'.type # "NOT_READY"]_vars

\* Every alert other than NOT_READY is published only once starting_up_ is
\* cleared or the grace period is over (or no vehicle flag is set): the
\* invariant behind NoRegressionToNotReady.
StartupInv ==
    alert.type \notin {"NONE", "NOT_READY"}
        => \/ ~startingUp
           \/ now - StartupTimestamp > StartupDuration
           \/ ~(Truck \/ Car)

\* The controller does not stay in NOT_READY forever.
LeavesStartup == <>[](alert.type # "NOT_READY")

\* A spin after the grace period that finds the critical drivers up and a
\* camera down shuts the system down (the "Camera Failed" alert).
CameraFailureShutsDown ==
    [][handle_spin /\ ~InStartupWindow /\ CriticalUp /\ ~CamerasUp
         => alert'.type = "SHUTDOWN"]_vars

\* The class of the published alert, as ReadinessReport sees it.
ReportOf(a) ==
    CASE a.type = "NONE" -> "none"
      [] a.type = "NOT_READY" -> "not_ready"
      [] a.type = "DRIVERS_READY" -> "ready"
      [] OTHER -> "fault"

Readiness == INSTANCE ReadinessReport WITH report <- ReportOf(alert)

\* DriverManager implements ReadinessReport: its alerts start with "System
\* is starting up...", leave that phase for good, and do leave it.
ImplementsReadiness == Readiness!Spec

\* "SSC Failed" is reported only when some critical driver really is down.
SscFailedOnlyWhenDown ==
    [][handle_spin /\ alert'.description = "SSC_Failed" => ~CriticalUp]_vars

=============================================================================
