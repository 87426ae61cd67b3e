-------------------------- MODULE MCDBusBinding ----------------------------
(* Model-checking instance of DBusBinding: objects o1 and o2 on paths p1   *)
(* and p2 of connection c1, accepted by a nih_dbus_server (the library     *)
(* keeps no reference of its own on it, so the filters' references are     *)
(* all that keep it alive).  Peer and bus connections share no state with *)
(* the objects and are left out (see README, Bounds).                      *)
EXTENDS DBusBinding, TLC

CONSTANTS c1, o1, o2, p1, p2, noObject

MCConns == {c1}
MCKind == c1 :> "server"
MCObjects == {o1, o2}
MCPaths == {p1, p2}
MCOOMWhole == {"slot_alloc", "add_func", "set_data", "filter"}
=============================================================================
