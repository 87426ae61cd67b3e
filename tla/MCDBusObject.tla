--------------------------- MODULE MCDBusObject ----------------------------
(* Model-checking instance of DBusObject: three objects competing for    *)
(* three paths of one connection, so that a refused registration, a path *)
(* reused after its object was freed, and a finalization that unregisters *)
(* several objects all happen.                                             *)
EXTENDS DBusObject, TLC

CONSTANTS o1, o2, o3, p1, p2, p3

MCObjects == {o1, o2, o3}
MCPaths   == {p1, p2, p3}
=============================================================================
