\* Truck with two critical drivers: ctrl (ROS2, listed first) and ssc (ROS1,
\* appended when it first reports); checks the ready alert against both.
CONSTANTS
    ssc = ssc
    ctrl = ctrl
    cam = cam
    cam2 = cam2
    lidar1 = lidar1
    lidar2 = lidar2
    gps = gps
    CriticalDrivers = {ssc, ctrl}
    Ros1Drivers = {ssc, gps}
    Ros2Drivers <- MCRos2WithCtrl
    LidarGpsEntries <- MCTruckLidarGps
    CameraEntries <- MCCameras
    Truck = TRUE
    Car = FALSE
    DriverTimeout = 1
    StartupTimestamp = 0
    StartupDuration = 1
    MaxTime = 3
SPECIFICATION Spec
PROPERTIES
    ReadyOnlyWhenHealthy
