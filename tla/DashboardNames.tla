--------------------------- MODULE DashboardNames ---------------------------
(* The names that the pages of the dashboard share.                         *)

CONSTANTS Rooms, Sensors,
          Null    \* no room, no sensor, nothing loaded, nothing selected

ASSUME NullAssumption == Null \notin Rooms \cup Sensors
=============================================================================
