\* Car with two cameras: the second camera's state never reaches the
\* status string, since only camera_entries index 0 is evaluated.
CONSTANTS
    ssc = ssc
    ctrl = ctrl
    cam = cam
    cam2 = cam2
    lidar1 = lidar1
    lidar2 = lidar2
    gps = gps
    CriticalDrivers = {ctrl}
    Ros1Drivers = {gps}
    Ros2Drivers <- MCRos2TwoCameras
    LidarGpsEntries <- MCCarLidarGps
    CameraEntries <- MCTwoCameras
    Truck = FALSE
    Car = TRUE
    DriverTimeout = 1
    StartupTimestamp = 0
    StartupDuration = 1
    MaxTime = 3
SPECIFICATION Spec
PROPERTIES
    ReadyOnlyWhenHealthy
