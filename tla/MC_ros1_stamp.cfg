\* Car whose critical driver (ssc) is a ROS1 driver that keeps reporting
\* OPERATIONAL; the clock runs past driver_timeout.
CONSTANTS
    ssc = ssc
    ctrl = ctrl
    cam = cam
    cam2 = cam2
    lidar1 = lidar1
    lidar2 = lidar2
    gps = gps
    CriticalDrivers = {ssc}
    Ros1Drivers = {ssc, gps}
    Ros2Drivers <- MCRos2
    LidarGpsEntries <- MCCarLidarGps
    CameraEntries <- MCCameras
    Truck = FALSE
    Car = TRUE
    DriverTimeout = 1
    StartupTimestamp = 0
    StartupDuration = 1
    MaxTime = 3
SPECIFICATION Spec
PROPERTIES
    SscFailedOnlyWhenDown
