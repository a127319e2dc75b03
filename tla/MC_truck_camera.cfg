\* Truck whose critical driver and camera are ROS2 nodes: a camera failure
\* after the grace period takes the branch of handle_spin without return.
CONSTANTS
    ssc = ssc
    ctrl = ctrl
    cam = cam
    cam2 = cam2
    lidar1 = lidar1
    lidar2 = lidar2
    gps = gps
    CriticalDrivers = {ctrl}
    Ros1Drivers = {gps}
    Ros2Drivers <- MCRos2WithCtrl
    LidarGpsEntries <- MCTruckLidarGps
    CameraEntries <- MCCameras
    Truck = TRUE
    Car = FALSE
    DriverTimeout = 1
    StartupTimestamp = 0
    StartupDuration = 1
    MaxTime = 3
SPECIFICATION Spec
PROPERTIES
    CameraFailureShutsDown
