------------------------ MODULE MCDBusConnection ---------------------------
(* Model-checking instance of DBusConnection: one peer connection         *)
(* (nih_dbus_connect), one bus connection (nih_dbus_bus) and one           *)
(* connection accepted by a nih_dbus_server.                               *)
EXTENDS DBusConnection, TLC

CONSTANTS c1, c2, c3

MCConns == {c1, c2, c3}
MCKind  == (c1 :> "peer") @@ (c2 :> "bus") @@ (c3 :> "server")

\* Every allocation of nih_dbus_setup may fail.
MCOOMAll == SetupSteps
\* Failures that leave no half-installed binding behind (used for liveness:
\* with "watch" or "timeout" failing, FilterImpliesWatched already fails).
MCOOMWhole == {"slot_alloc", "add_func", "set_data", "filter"}
=============================================================================
