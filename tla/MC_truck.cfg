\* Truck: one ROS1 critical driver (the SSC), a ROS2 camera and lidar, a
\* ROS1 gps; the clock runs past both the driver timeout and the startup
\* grace period.
CONSTANTS
    ssc = ssc
    ctrl = ctrl
    cam = cam
    cam2 = cam2
    lidar1 = lidar1
    lidar2 = lidar2
    gps = gps
    CriticalDrivers = {ssc}
    Ros1Drivers = {ssc, gps}
    Ros2Drivers <- MCRos2
    LidarGpsEntries <- MCTruckLidarGps
    CameraEntries <- MCCameras
    Truck = TRUE
    Car = FALSE
    DriverTimeout = 1
    StartupTimestamp = 0
    StartupDuration = 1
    MaxTime = 3
SPECIFICATION Spec
INVARIANTS
    TypeOK
    NoUnknownStatus
    StartupInv
PROPERTIES
    ReadyOnlyWhenHealthy
    NoRegressionToNotReady
    LeavesStartup
    ImplementsReadiness
