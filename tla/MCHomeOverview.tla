-------------------------- MODULE MCHomeOverview ---------------------------
(* HomeOverview for TLC: two rooms; readings at the borders of the bands.   *)
EXTENDS HomeOverview

CONSTANTS kitchen, hall

MCRoomList == <<kitchen, hall>>

R(t, h, c) == [temperature |-> t, humidity |-> h, co2 |-> c]

MCSamples ==
  {R(t, 500, Null) : t \in {159, 160, 180, 199, 200, 229, 249, 250, 270}}
    \cup {R(215, h, 700) : h \in {199, 299, 400, 601, 701}}
    \cup {R(215, 500, c) : c \in {800, 801, 2001}}
    \cup {R(179, 199, 1201), R(Null, Null, Null), R(270, 800, 1200)}

MCAlertKinds ==
  [room : {kitchen}, severity : Severities, topic : {"other"}]
    \cup [room : {hall}, severity : {"WARNING"}, topic : {"co2"}]
=============================================================================
