-------------------------- MODULE DBusConnection ---------------------------
(***************************************************************************)
(* Connection setup and teardown of libnih's D-Bus binding (src/nih/dbus.c)*)
(*                                                                         *)
(* nih_dbus_connect, nih_dbus_bus and the server's nih_dbus_new_connection *)
(* hand a connection to nih_dbus_setup, which stores a main-loop binding   *)
(* in the connection's main_loop_slot, installs the watch, timeout and     *)
(* wakeup functions once, and appends one disconnect filter per call.  The *)
(* filter drops one connection reference when the library's synthesised    *)
(* Disconnected signal is dispatched.  The library side (reference counts, *)
(* the shared-connection table, reading the socket, dispatching) is the    *)
(* environment: its actions are written from the library contract the     *)
(* spec describes.  The watch/timeout bridge itself is DBusWatchBridge;    *)
(* here "watch functions installed" stands for "the socket is read".       *)
(***************************************************************************)
EXTENDS Naturals, Sequences, FiniteSets

CONSTANTS
  Conns,       \* connection handles (model values)
  Kind,        \* Kind[c]: "peer" (nih_dbus_connect), "bus" (nih_dbus_bus)
               \*          or "server" (accepted by nih_dbus_server)
  OOM,         \* the allocation steps of nih_dbus_setup that may fail
  MaxSetups,   \* bound on the setup calls made for one connection
  MaxRetries,  \* bound on failed attempts inside one NIH_ZERO retry loop
  MaxMsgs      \* bound on a peer's messages not yet dispatched

SetupSteps == {"slot_alloc", "add_func", "set_data", "watch", "timeout", "filter"}

ASSUME /\ Kind \in [Conns -> {"peer", "bus", "server"}]
       /\ OOM \subseteq SetupSteps
       /\ {MaxSetups, MaxRetries, MaxMsgs} \subseteq Nat

(***************************************************************************)
(* Messages, abstracted to the header fields the disconnect filter reads.  *)
(* A peer cannot send on the local interface or path (the library rejects *)
(* such messages on the wire), but it can send its own "Disconnected".    *)
(***************************************************************************)
LocalIface == "org.freedesktop.DBus.Local"
LocalPath  == "/org/freedesktop/DBus/Local"
DisconnectedMsg == [type |-> "signal", iface |-> LocalIface,
                    path |-> LocalPath, member |-> "Disconnected"]
PeerMsgs == { [type |-> "method_call", iface |-> "com.example.Job",
               path |-> "/com/example/job", member |-> "Start"],
              [type |-> "signal", iface |-> "com.example.Job",
               path |-> "/com/example/job", member |-> "Disconnected"] }
Messages == PeerMsgs \cup {DisconnectedMsg}

VARIABLES
  st,       \* st[c]: "none" | "connected" | "hungup" (peer closed, unread)
            \*  | "disconnected" (Disconnected queued) | "closed" (Disconnected
            \*  dispatched, still referenced) | "finalized" (freed)
  refs,     \* refs[c]: the connection's reference count
  binding,  \* binding[c]: what nih_dbus_setup has installed on c
  wire,     \* wire[c]: messages written by the peer, not yet read
  inq,      \* inq[c]: messages read by the library, not yet dispatched
  setups,   \* setups[c]: setup calls made for c so far (bounded)
  server    \* the listening server: "none" | "listening" | "failed"

vars == <<st, refs, binding, wire, inq, setups, server>>

(* slot: main_loop_slot holds a NihMainLoopFunc; loops: NihMainLoopFuncs   *)
(* registered for c in the main loop; filters: disconnect filters.         *)
Bindings == [slot : BOOLEAN, loops : 0..2, watch : BOOLEAN,
             timeout : BOOLEAN, wakeup : BOOLEAN, filters : Nat]
NoBinding == [slot |-> FALSE, loops |-> 0, watch |-> FALSE,
              timeout |-> FALSE, wakeup |-> FALSE, filters |-> 0]

TypeOK ==
  /\ st \in [Conns -> {"none", "connected", "hungup", "disconnected",
                       "closed", "finalized"}]
  /\ refs \in [Conns -> Nat]
  /\ binding \in [Conns -> Bindings]
  /\ wire \in [Conns -> 0..MaxMsgs]
  /\ inq \in [Conns -> Seq(Messages)]
  /\ setups \in [Conns -> 0..MaxSetups]
  /\ server \in {"none", "listening", "failed"}

-----------------------------------------------------------------------------
(***************************************************************************)
(* nih_dbus_setup, as a function from the binding before the call and the *)
(* step whose allocation fails ("none": the call returns zero) to the      *)
(* binding after it.  Nothing installed before the failing step is undone. *)
(***************************************************************************)
AddLoop(b) == [b EXCEPT !.loops = @ + 1]              \* nih_main_loop_add_func
StoreLoop(b) == [b EXCEPT !.slot = TRUE]                \* dbus_connection_set_data
FreeLoopMissing(b) == b                                 \* loop leaked
FreeLoop(b) == [b EXCEPT !.loops = @ - 1]              \* nih_free (loop)

AddFilter(b, f) ==
  IF f = "filter" THEN b ELSE [b EXCEPT !.filters = @ + 1]

SetupUnshared(b, f) ==
  LET l == AddLoop(b)
      s == StoreLoop(l)
      w == [s EXCEPT !.watch = TRUE]
      t == [w EXCEPT !.timeout = TRUE, !.wakeup = TRUE]
  IN  CASE f = "add_func" -> b
        [] f = "set_data" -> FreeLoop(l)
        [] f = "watch"    -> s
        [] f = "timeout"  -> w
        [] OTHER          -> AddFilter(t, f)

\* The steps that can fail on this call: a stored binding skips to "shared".
SetupPoints(b) ==
  IF b.slot THEN {"slot_alloc", "filter"} ELSE SetupSteps

Outcomes(b) == (SetupPoints(b) \cap OOM) \cup {"none"}

NihDBusSetup(b, f) ==
  CASE f = "slot_alloc" -> b
    [] b.slot           -> AddFilter(b, f)
    [] OTHER            -> SetupUnshared(b, f)

\* NIH_ZERO (nih_dbus_setup (...)): repeat the call until it returns zero;
\* the set of bindings the loop can leave after at most n failed attempts.
RECURSIVE RetryOutcomes(_, _)
RetryOutcomes(b, n) ==
  {NihDBusSetup(b, "none")}
  \cup (IF n = 0 THEN {}
        ELSE UNION {RetryOutcomes(NihDBusSetup(b, f), n - 1)
                      : f \in SetupPoints(b) \cap OOM})

\* Variants of the filter's match: on the member alone, or on the bus
\* daemon's interface instead of the local one.
IsDisconnectedAnyIface(m) == m.type = "signal" /\ m.member = "Disconnected"
IsDisconnectedBusIface(m) ==
  /\ m.type = "signal" /\ m.iface = "org.freedesktop.DBus"
  /\ m.member = "Disconnected" /\ m.path = LocalPath

(* The disconnect filter: its match and what it returns to the library.   *)
IsDisconnected(m) ==
  /\ m.type = "signal" /\ m.iface = LocalIface /\ m.member = "Disconnected"
  /\ m.path = LocalPath

FilterHandled == "HANDLED"
FilterResult == "NOT_YET_HANDLED"

\* Filters run in order until one returns HANDLED: how many of n ran.
FiltersRun(n) ==
  IF FilterResult = "HANDLED" /\ n > 0 THEN 1 ELSE n

\* The caller's unreference when nih_dbus_setup fails.
KeepOnFailure(r) == r
ReleaseOnFailure(r) == r - 1

-----------------------------------------------------------------------------
(* The library keeps one reference on a shared (peer or bus) connection   *)
(* until its Disconnected signal has been dispatched.                      *)
LibRef(c) ==
  IF Kind[c] \in {"peer", "bus"} /\ st[c] \in {"connected", "hungup", "disconnected"}
  THEN 1 ELSE 0

\* The connection's data slots are freed with it: nih_free (loop).
Finalize(b) ==
  [b EXCEPT !.slot = FALSE, !.loops = IF b.slot THEN @ - 1 ELSE @]

(* nih_dbus_connect / nih_dbus_bus: open (or share) the connection, set   *)
(* it up, and drop the opened reference if setup fails.                    *)
OpenAndSetup(c) ==
  /\ st[c] \in {"none", "connected", "hungup"}
  /\ setups[c] < MaxSetups
  /\ LET opened == IF st[c] = "none" THEN 2 ELSE refs[c] + 1
     IN  \E f \in Outcomes(binding[c]) :
           /\ binding' = [binding EXCEPT ![c] = NihDBusSetup(@, f)]
           /\ refs' = [refs EXCEPT ![c] = IF f = "none" THEN opened
                                           ELSE ReleaseOnFailure(opened)]
  /\ st' = [st EXCEPT ![c] = IF @ = "none" THEN "connected" ELSE @]
  /\ setups' = [setups EXCEPT ![c] = @ + 1]
  /\ UNCHANGED <<wire, inq, server>>

NihDBusConnect(c) == Kind[c] = "peer" /\ OpenAndSetup(c)

\* dbus_connection_set_exit_on_disconnect (conn, FALSE) happens inside the
\* call, before any dispatch: no state of the model can observe it.
NihDBusBus(c) == Kind[c] = "bus" /\ OpenAndSetup(c)

(* nih_dbus_server: listen, store the handlers and the watch and timeout  *)
(* functions; any failure unreferences the half-built server.             *)
NihDBusServer ==
  /\ server = "none"
  /\ \E ok \in BOOLEAN : server' = IF ok THEN "listening" ELSE "failed"
  /\ UNCHANGED <<st, refs, binding, wire, inq, setups>>

(* nih_dbus_new_connection, called by the library with its own reference *)
(* on a fresh private connection; the library drops that reference after  *)
(* the call, which frees a connection nobody else referenced.             *)
NihDBusNewConnection(c) ==
  /\ Kind[c] = "server" /\ server = "listening" /\ st[c] = "none"
  /\ setups' = [setups EXCEPT ![c] = @ + 1]
  /\ \/ /\ st' = [st EXCEPT ![c] = "finalized"]          \* connect_handler: FALSE
        /\ UNCHANGED <<refs, binding>>
     \/ /\ \E b \in RetryOutcomes(binding[c], MaxRetries) : \* TRUE or no handler
             binding' = [binding EXCEPT ![c] = b]
        /\ refs' = [refs EXCEPT ![c] = 1]
        /\ st' = [st EXCEPT ![c] = "connected"]
  /\ UNCHANGED <<wire, inq, server>>

-----------------------------------------------------------------------------
(* The peer and the library's reading of the socket (environment).        *)
PeerSend(c) ==
  /\ st[c] = "connected" /\ wire[c] + Len(inq[c]) < MaxMsgs
  /\ wire' = [wire EXCEPT ![c] = @ + 1]
  /\ UNCHANGED <<st, refs, binding, inq, setups, server>>

PeerHangup(c) ==
  /\ st[c] = "connected"
  /\ st' = [st EXCEPT ![c] = "hungup"]
  /\ UNCHANGED <<refs, binding, wire, inq, setups, server>>

\* nih_dbus_watcher -> dbus_watch_handle: possible only once the watch
\* functions are installed.  Reading the end of the stream queues the
\* synthesised Disconnected signal after everything read before it.
WatchHandle(c) ==
  /\ binding[c].watch
  /\ st[c] \in {"connected", "hungup"}
  /\ wire[c] > 0 \/ st[c] = "hungup"
  /\ \E s \in [1..wire[c] -> PeerMsgs] :
       inq' = [inq EXCEPT ![c] = @ \o s \o
                 (IF st[c] = "hungup" THEN <<DisconnectedMsg>> ELSE <<>>)]
  /\ wire' = [wire EXCEPT ![c] = 0]
  /\ st' = [st EXCEPT ![c] = IF @ = "hungup" THEN "disconnected" ELSE @]
  /\ UNCHANGED <<refs, binding, setups, server>>

(* nih_dbus_callback: on a main-loop iteration, dispatch until no data    *)
(* remains.  Each queued message passes the disconnect filters; each      *)
(* filter that matches drops one reference.  After the library's          *)
(* Disconnected it drops its shared reference; at zero the connection is  *)
(* finalized, freeing the main-loop binding held in its data slot.        *)
NihDBusCallback(c) ==
  /\ binding[c].loops > 0
  /\ inq[c] # <<>>
  /\ LET q        == inq[c]
         matched  == Cardinality({i \in DOMAIN q : IsDisconnected(q[i])})
         unrefs   == matched * FiltersRun(binding[c].filters)
         libDone  == st[c] = "disconnected"
         r        == refs[c] - unrefs - (IF libDone THEN LibRef(c) ELSE 0)
     IN  /\ refs' = [refs EXCEPT ![c] = r]
         /\ st' = [st EXCEPT ![c] = CASE r <= 0  -> "finalized"
                                      [] libDone -> "closed"
                                      [] OTHER   -> @]
         /\ binding' = [binding EXCEPT ![c] = IF r <= 0 THEN Finalize(@) ELSE @]
  /\ inq' = [inq EXCEPT ![c] = <<>>]
  /\ UNCHANGED <<wire, setups, server>>

-----------------------------------------------------------------------------
Init ==
  /\ st = [c \in Conns |-> "none"]
  /\ refs = [c \in Conns |-> 0]
  /\ binding = [c \in Conns |-> NoBinding]
  /\ wire = [c \in Conns |-> 0]
  /\ inq = [c \in Conns |-> <<>>]
  /\ setups = [c \in Conns |-> 0]
  /\ server = "none"

Next ==
  \/ NihDBusServer
  \/ \E c \in Conns :
       \/ NihDBusConnect(c) \/ NihDBusBus(c) \/ NihDBusNewConnection(c)
       \/ PeerSend(c) \/ PeerHangup(c) \/ WatchHandle(c) \/ NihDBusCallback(c)

(* The host main loop runs forever: it reads every ready watch and calls  *)
(* every registered loop function on each iteration.                      *)
Fairness == \A c \in Conns : WF_vars(WatchHandle(c)) /\ WF_vars(NihDBusCallback(c))

Spec == Init /\ [][Next]_vars /\ Fairness

-----------------------------------------------------------------------------
(***************************************************************************)
(* Properties.                                                             *)
(***************************************************************************)

(* Every reference the binding takes is owned by one disconnect filter: a *)
(* live connection's count is its filters plus the library's own shared   *)
(* reference, across failed setups, shared setups and retried setups      *)
(* (nih_dbus_connect/nih_dbus_bus unref on failure, new_connection refs   *)
(* once before NIH_ZERO), and a freed connection holds none.               *)
RefsBalanced ==
  \A c \in Conns :
    IF st[c] \in {"none", "finalized"} THEN refs[c] = 0
    ELSE refs[c] = binding[c].filters + LibRef(c)

(* Once the Disconnected signal has been dispatched no reference is left: *)
(* every filter of every setup call ran and dropped its own reference      *)
(* (the filter "lies" NOT_YET_HANDLED so later filters run), so the        *)
(* connection is finalized at once and never leaks.                        *)
DisconnectReleasesAll ==
  \A c \in Conns : st[c] = "closed" => refs[c] = 0

(* One main-loop binding per connection: a NihMainLoopFunc is registered  *)
(* for c iff main_loop_slot holds it, so it is freed with the connection;  *)
(* a failed set_data must free it, and a second setup must not add one.   *)
LoopBinding ==
  \A c \in Conns :
    /\ binding[c].loops = (IF binding[c].slot THEN 1 ELSE 0)
    /\ st[c] = "finalized" => binding[c].loops = 0

(* A connection that holds a disconnect filter was reported set up by      *)
(* nih_dbus_setup (the filter is its last step), so its socket is watched  *)
(* and its timeouts are timed by the main loop.                            *)
FilterImpliesWatched ==
  \A c \in Conns :
    binding[c].filters > 0 => binding[c].watch /\ binding[c].timeout

(* A set-up connection whose peer hangs up is eventually freed: the        *)
(* watch reads the end of stream, the loop function dispatches the         *)
(* Disconnected signal and the filters release every reference.           *)
HungUpReleased ==
  \A c \in Conns :
    (st[c] = "hungup" /\ binding[c].filters > 0) ~> st[c] = "finalized"


(***************************************************************************)
(* Refinement.  The abstract lifecycle of DBusConnectionAbstract, seen     *)
(* through this module's state: a connection is open from its first       *)
(* setup (or acceptance) until it is finalized; its owners are the         *)
(* references not held by the library itself; it is bound while           *)
(* main_loop_slot holds a binding; its peer has gone once the hangup is    *)
(* pending, read or dispatched.                                            *)
(***************************************************************************)
Abs == INSTANCE DBusConnectionAbstract WITH
         life   <- [c \in Conns |-> CASE st[c] = "none"      -> "unopened"
                                      [] st[c] = "finalized" -> "gone"
                                      [] OTHER               -> "open"],
         owners <- [c \in Conns |-> IF st[c] = "finalized" THEN 0
                                    ELSE refs[c] - LibRef(c)],
         bound  <- [c \in Conns |-> binding[c].slot],
         hung   <- [c \in Conns |-> st[c] \in {"hungup", "disconnected", "closed"}]

(* The binding implements its promised lifecycle: every setup call that    *)
(* reports success adds exactly one owner and binds the connection, a      *)
(* failed one adds none, no reference is dropped except all of them at     *)
(* once when the main loop dispatches the library's Disconnected signal,   *)
(* and a bound connection whose peer hung up is eventually freed.          *)
Refinement == Abs!Spec

=============================================================================
