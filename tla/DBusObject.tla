----------------------------- MODULE DBusObject ----------------------------
(***************************************************************************)
(* The object registry of libnih's D-Bus binding (src/nih/dbus.c).       *)
(*                                                                         *)
(* nih_dbus_object_new registers a NihDBusObject at a path of one         *)
(* connection with a vtable of two callbacks, unregister and message, and  *)
(* sets a destructor.  The object then dies on one of two paths that call  *)
(* each other back: freeing it runs nih_dbus_object_destroy, which asks    *)
(* libdbus to unregister the path, which calls nih_dbus_object_unregister; *)
(* finalizing the connection calls nih_dbus_object_unregister, which frees *)
(* the object, which runs the destructor.  The "registered" flag, cleared  *)
(* before each call out, is what stops the second free.  A method          *)
(* marshaller called from nih_dbus_object_message may free the object too. *)
(* libdbus's object-path tree and the connection's end are the environment.*)
(***************************************************************************)
EXTENDS Naturals, FiniteSets, FiniteSetsExt

CONSTANTS
  Objects,                 \* NihDBusObject blocks (model values)
  Paths,                   \* object paths of the connection (model values)
  NoObject,                \* "no handler registered at this path"
  OOM,                     \* whether allocations may fail
  ReleaseAfterDisconnect   \* whether an owner may free its object after the
                           \* connection was finalized

ASSUME /\ NoObject \notin Objects
       /\ OOM \in BOOLEAN /\ ReleaseAfterDisconnect \in BOOLEAN

Results == {"HANDLED", "NOT_YET_HANDLED", "NEED_MEMORY"}

\* The kinds of message nih_dbus_object_message tells apart.
MessageKinds == {"Introspect", "Get", "Set", "GetAll", "Method", "Unknown"}

VARIABLES
  mem,         \* mem[o]: "unused" | "alive" | "freed"
  frees,       \* frees[o]: how many times nih_free was called on o
  registered,  \* registered[o]: the object's registered flag
  dtor,        \* dtor[o]: nih_dbus_object_destroy is set as o's destructor
  path,        \* path[o]: the path o was created for
  tree,        \* tree[p]: the object libdbus dispatches path p to
  held,        \* held[o]: the owner still holds its pointer to o
  connLive,    \* the connection has not been finalized
  wrapFrees,   \* nih_free calls on the last NihDBusMessage wrapper
  result       \* what the last nih_dbus_object_message returned

vars == <<mem, frees, registered, dtor, path, tree, held, connLive,
          wrapFrees, result>>

TypeOK ==
  /\ mem \in [Objects -> {"unused", "alive", "freed"}]
  /\ frees \in [Objects -> Nat]
  /\ registered \in [Objects -> BOOLEAN]
  /\ dtor \in [Objects -> BOOLEAN]
  /\ path \in [Objects -> Paths]
  /\ tree \in [Paths -> Objects \cup {NoObject}]
  /\ held \in [Objects -> BOOLEAN]
  /\ connLive \in BOOLEAN
  /\ wrapFrees \in 0..2
  /\ result \in Results \cup {"none"}

-----------------------------------------------------------------------------
(***************************************************************************)
(* The callbacks work on a record of the registry's state, so that the    *)
(* nested calls of one step are composed in the order the code makes them.*)
(***************************************************************************)
State == [mem |-> mem, frees |-> frees, registered |-> registered,
          tree |-> tree, held |-> held]

Become(s) ==
  /\ mem' = s.mem /\ frees' = s.frees /\ registered' = s.registered
  /\ tree' = s.tree /\ held' = s.held

RECURSIVE NihFree(_, _), ObjectUnregister(_, _), UnregisterObjectPath(_, _),
          ObjectDestroy(_, _)

(* nih_free (o): run the destructor, then release the block.  Freeing a   *)
(* block already released is recorded and has no defined effect.         *)
NihFree(s, o) ==
  IF s.mem[o] = "freed"
  THEN [s EXCEPT !.frees[o] = @ + 1]
  ELSE LET d == IF dtor[o] THEN ObjectDestroy(s, o) ELSE s
       IN  [d EXCEPT !.frees[o] = @ + 1, !.mem[o] = "freed"]

(* dbus_connection_unregister_object_path (libdbus): drop the path from   *)
(* the tree, then call the vtable's unregister function for its object.   *)
UnregisterObjectPath(s, o) ==
  IF s.tree[path[o]] = o
  THEN ObjectUnregister([s EXCEPT !.tree[path[o]] = NoObject], o)
  ELSE s

(* nih_dbus_object_unregister: the library gives the object up.           *)
ObjectUnregister(s, o) ==
  IF s.registered[o]
  THEN NihFree([s EXCEPT !.registered[o] = FALSE], o)
  ELSE s

\* The same destructor clearing the flag only after the library returned.
ObjectDestroyLate(s, o) ==
  IF s.registered[o]
  THEN [UnregisterObjectPath(s, o) EXCEPT !.registered[o] = FALSE]
  ELSE s

(* nih_dbus_object_destroy: unregister with libdbus, clearing the flag    *)
(* first.                                                                  *)
ObjectDestroy(s, o) ==
  IF s.registered[o]
  THEN UnregisterObjectPath([s EXCEPT !.registered[o] = FALSE], o)
  ELSE s

(* Connection finalization (libdbus): every registered path's unregister  *)
(* function is called.                                                     *)
FreeAllPaths(s) ==
  FoldSet(LAMBDA p, acc : IF acc.tree[p] = NoObject THEN acc
                          ELSE LET o == acc.tree[p]
                               IN  ObjectUnregister([acc EXCEPT !.tree[p] = NoObject], o),
          s, Paths)

\* The parent of the NihDBusMessage wrapper: nih_new (NULL, NihDBusMessage).
WrapParent == "none"

\* Registration that ignores dbus_connection_register_object_path's refusal.
RegistersUnchecked(ok, p) == ok

\* nih_dbus_object_new succeeds: both allocations did, and libdbus accepted
\* the path (it refuses one that already has a handler).
Registers(ok, p) == ok /\ tree[p] = NoObject

-----------------------------------------------------------------------------
(* nih_dbus_object_new: allocate, copy the path, register it.  Failing   *)
(* allocations and a refused registration (libdbus refuses a path that    *)
(* already has a handler) free the block before it is returned, so they   *)
(* leave no trace; on success the object is registered with a destructor. *)
NihDBusObjectNew(o, p) ==
  /\ connLive /\ mem[o] = "unused"
  /\ \E ok \in IF OOM THEN BOOLEAN ELSE {TRUE} :
       IF Registers(ok, p)
       THEN /\ mem' = [mem EXCEPT ![o] = "alive"]
            /\ path' = [path EXCEPT ![o] = p]
            /\ tree' = [tree EXCEPT ![p] = o]
            /\ registered' = [registered EXCEPT ![o] = TRUE]
            /\ dtor' = [dtor EXCEPT ![o] = TRUE]
            /\ held' = [held EXCEPT ![o] = TRUE]
       ELSE UNCHANGED <<mem, path, tree, registered, dtor, held>>
  /\ UNCHANGED <<frees, connLive, wrapFrees, result>>

(* The owner nih_frees its object, the header comment's way to unregister *)
(* it; the parent block's free is not modelled apart from this.          *)
OwnerRelease(o) ==
  /\ held[o]
  /\ connLive \/ ReleaseAfterDisconnect
  /\ Become(NihFree([State EXCEPT !.held[o] = FALSE], o))
  /\ UNCHANGED <<dtor, path, connLive, wrapFrees, result>>

(* The connection is finalized (its last reference dropped).             *)
ConnFinalize ==
  /\ connLive
  /\ connLive' = FALSE
  /\ Become(FreeAllPaths(State))
  /\ UNCHANGED <<dtor, path, wrapFrees, result>>

(* nih_dbus_object_message, called by libdbus for a message to path p.    *)
(* Introspect is answered by nih_dbus_object_introspect (DBusIntrospect), *)
(* which may run out of memory; Properties calls and unknown methods are  *)
(* left to the library; a method of the interface table is passed to its  *)
(* marshaller in a NihDBusMessage wrapper, and the marshaller may free    *)
(* the object before it returns.  Nothing touches the object afterwards;  *)
(* the wrapper is freed.                                                  *)
NihDBusObjectMessage(p, kind) ==
  /\ connLive /\ tree[p] # NoObject
  /\ LET o == tree[p] IN
     CASE kind = "Introspect" ->
            /\ \E r \in IF OOM THEN {"HANDLED", "NEED_MEMORY"} ELSE {"HANDLED"} :
                 result' = r
            /\ UNCHANGED <<mem, frees, registered, tree, held, wrapFrees>>
       [] kind \in {"Get", "Set", "GetAll", "Unknown"} ->
            /\ result' = "NOT_YET_HANDLED"
            /\ UNCHANGED <<mem, frees, registered, tree, held, wrapFrees>>
       [] OTHER ->
            \/ /\ OOM
               /\ result' = "NEED_MEMORY"
               /\ UNCHANGED <<mem, frees, registered, tree, held, wrapFrees>>
            \/ \E r \in Results, freeIt \in BOOLEAN :
                 LET after == IF freeIt
                              THEN NihFree([State EXCEPT !.held[o] = FALSE], o)
                              ELSE State
                     withObject == WrapParent = "object" /\ after.mem[o] = "freed"
                 IN  /\ Become(after)
                     /\ wrapFrees' = IF withObject THEN 2 ELSE 1
                     /\ result' = r
  /\ UNCHANGED <<dtor, path, connLive>>

-----------------------------------------------------------------------------
Init ==
  /\ mem = [o \in Objects |-> "unused"]
  /\ frees = [o \in Objects |-> 0]
  /\ registered = [o \in Objects |-> FALSE]
  /\ dtor = [o \in Objects |-> FALSE]
  /\ path = [o \in Objects |-> CHOOSE p \in Paths : TRUE]
  /\ tree = [p \in Paths |-> NoObject]
  /\ held = [o \in Objects |-> FALSE]
  /\ connLive = TRUE
  /\ wrapFrees = 0
  /\ result = "none"

Next ==
  \/ \E o \in Objects, p \in Paths : NihDBusObjectNew(o, p)
  \/ \E o \in Objects : OwnerRelease(o)
  \/ ConnFinalize
  \/ \E p \in Paths, kind \in MessageKinds : NihDBusObjectMessage(p, kind)

Spec == Init /\ [][Next]_vars

-----------------------------------------------------------------------------
(***************************************************************************)
(* Properties.                                                             *)
(***************************************************************************)

(* No block is freed twice, on any interleaving of owner frees, libdbus   *)
(* unregister callbacks at finalization and marshallers that free the     *)
(* object they were called for: the destroy and unregister callbacks call *)
(* each other, and only the registered flag stops the second free.        *)
NoDoubleFree ==
  /\ \A o \in Objects : frees[o] <= 1
  /\ wrapFrees <= 1

(* libdbus can reach exactly the registered objects: a path in the tree   *)
(* leads to a live object registered there, and a registered object is in *)
(* the tree (a released object is never dispatched to).                   *)
TreeMatchesRegistered ==
  /\ \A p \in Paths :
       tree[p] # NoObject =>
         LET o == tree[p] IN mem[o] = "alive" /\ registered[o] /\ path[o] = p
  /\ \A o \in Objects : registered[o] => tree[path[o]] = o

=============================================================================
