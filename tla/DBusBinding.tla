----------------------------- MODULE DBusBinding ---------------------------
(***************************************************************************)
(* The connection lifecycle (DBusConnection) composed with the object     *)
(* registry (DBusObject) of one of its connections, ObjConn.  The two     *)
(* meet where src/nih/dbus.c hands one to the other: an owner registers   *)
(* objects on a connection nih_dbus_connect/bus/new_connection returned,  *)
(* and when nih_dbus_callback's dispatch of Disconnected drops the last   *)
(* reference, libdbus finalizes the connection and calls every object's   *)
(* unregister function in that same step.  The registry's connLive        *)
(* follows the connection's state.  Messages libdbus dispatches to an     *)
(* object path are the registry's own steps, taken while the connection   *)
(* lives.                                                                  *)
(***************************************************************************)
EXTENDS Naturals

CONSTANTS
  Conns, Kind, OOM, MaxSetups, MaxRetries, MaxMsgs,  \* DBusConnection's
  Objects, Paths, NoObject, ObjOOM,                  \* DBusObject's
  ReleaseAfterDisconnect,
  ObjConn                \* the connection the objects are registered on

ASSUME ObjConn \in Conns

VARIABLES st, refs, binding, wire, inq, setups, server,
          mem, frees, registered, dtor, path, tree, held, wrapFrees, result,
          connLive

connVars == <<st, refs, binding, wire, inq, setups, server>>
objVars == <<mem, frees, registered, dtor, path, tree, held, wrapFrees, result>>
vars == <<connVars, objVars, connLive>>

C == INSTANCE DBusConnection

O == INSTANCE DBusObject WITH OOM <- ObjOOM

\* A connection step other than ObjConn's finalization by dispatch.
ConnOnly == UNCHANGED objVars /\ connLive' = (st'[ObjConn] # "finalized")

\* The owner holds a pointer to ObjConn: a connect call has returned it.
Opened == st[ObjConn] # "none"

\* The dispatch that finalizes ObjConn runs libdbus's finalization of its
\* object paths in the same step.
Finalizes(c) == c = ObjConn /\ st'[c] = "finalized"

Init == C!Init /\ O!Init

Next ==
  \/ /\ \E c \in Conns :
          /\ \/ C!NihDBusConnect(c) \/ C!NihDBusBus(c) \/ C!PeerSend(c)
             \/ C!PeerHangup(c) \/ C!WatchHandle(c)
             \/ C!NihDBusCallback(c) /\ ~Finalizes(c)
             \/ C!NihDBusNewConnection(c) /\ ~Finalizes(c)
     /\ ConnOnly
  \/ C!NihDBusServer /\ ConnOnly
  \/ C!NihDBusCallback(ObjConn) /\ Finalizes(ObjConn) /\ O!ConnFinalize
  \/ C!NihDBusNewConnection(ObjConn) /\ Finalizes(ObjConn) /\ ConnOnly
  \/ /\ \/ Opened /\ \E o \in Objects, p \in Paths : O!NihDBusObjectNew(o, p)
        \/ \E o \in Objects : O!OwnerRelease(o)
        \/ \E p \in Paths, k \in O!MessageKinds : O!NihDBusObjectMessage(p, k)
     /\ UNCHANGED connVars

Spec == Init /\ [][Next]_vars /\ C!Fairness

-----------------------------------------------------------------------------
(* An object its owner still holds is freed behind the owner's back only   *)
(* by the dispatch of the library's own Disconnected signal: libdbus       *)
(* unregisters a connection's objects when the connection is finalized,    *)
(* and the binding's filters drop the references that keep it alive only   *)
(* for that signal, never for a look-alike the peer can send.             *)
HeldObjectsFreedOnlyOnDisconnect ==
  [][\A o \in Objects :
       (held[o] /\ held'[o] /\ mem[o] = "alive" /\ mem'[o] = "freed")
         => st[ObjConn] = "disconnected"]_vars

(* The objects of a set-up connection whose peer hangs up are eventually   *)
(* unregistered: the watch reads the end of stream, nih_dbus_callback      *)
(* dispatches Disconnected, the filters release the connection and its     *)
(* finalization calls nih_dbus_object_unregister for every path.           *)
HungUpObjectsUnregistered ==
  (st[ObjConn] = "hungup" /\ binding[ObjConn].filters > 0)
    ~> \A o \in Objects : ~registered[o]

=============================================================================
