--------------------------- MODULE MC_DriverManager ---------------------------
(***************************************************************************)
(* Instances of DriverManager for TLC.  The driver names are model values; *)
(* the lists whose order the code depends on are sequences defined here.   *)
(***************************************************************************)
EXTENDS DriverManager

CONSTANTS ssc, ctrl, cam, cam2, lidar1, lidar2, gps

\* Truck configuration: lidar_gps_entries holds lidar1, lidar2 and gps in
\* this order (indices 0, 1, 2 of are_critical_drivers_operational_truck).
MCTruckLidarGps == <<lidar1, lidar2, gps>>
\* Car configuration: indices 0 (lidar) and 1 (gps).
MCCarLidarGps == <<lidar1, gps>>
MCCameras == <<cam>>
\* ROS2 drivers listed by the constructor, in this order.
MCRos2 == <<lidar1, cam>>
MCRos2WithCtrl == <<ctrl, cam>>
\* Two cameras, both ROS2 nodes (camera_entries indices 0 and 1).
MCTwoCameras == <<cam, cam2>>
MCRos2TwoCameras == <<ctrl, cam, cam2>>
=============================================================================
