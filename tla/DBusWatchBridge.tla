-------------------------- MODULE DBusWatchBridge --------------------------
(***************************************************************************)
(* The watch and timeout bridge of libnih's D-Bus binding (src/nih/dbus.c)*)
(*                                                                         *)
(* libdbus asks the binding, through the add/remove/toggled callbacks, to *)
(* watch file descriptors and to time timeouts; the binding pairs each    *)
(* DBusWatch with one NihIoWatch and each DBusTimeout with one periodic    *)
(* NihTimer, kept in the main loop's lists only while enabled.  The        *)
(* library's calls and the host loop (select, nih_timer_poll, the clock)   *)
(* are the environment; every action of the binding is one callback.      *)
(***************************************************************************)
EXTENDS Integers, FiniteSets

CONSTANTS
  Watches,      \* DBusWatch handles (model values)
  WatchFlags,   \* WatchFlags[w] \subseteq {"readable", "writable"}
  Timeouts,     \* DBusTimeout handles (model values)
  Intervals,    \* intervals (ms) libdbus may give a timeout
  TicksPerSec,  \* resolution of the real clock: ticks per second
  AddMayFail    \* whether the allocations in the add callbacks may fail

ASSUME /\ WatchFlags \in [Watches -> SUBSET {"readable", "writable"}]
       /\ Intervals \subseteq Nat /\ Intervals # {}
       /\ TicksPerSec \in Nat \ {0}
       /\ AddMayFail \in BOOLEAN

MsPerTick == 1000 \div TicksPerSec

\* time (NULL): whole seconds of the real clock.
Seconds(tick) == tick \div TicksPerSec

\* The C quotient truncates toward zero, TLA+'s \div rounds down.
CDiv(a, b) == IF a < 0 THEN -((-a) \div b) ELSE a \div b

MaxInterval == CHOOSE i \in Intervals : \A j \in Intervals : j <= i

VARIABLES
  wListed,   \* wListed[w]: libdbus holds w in its watch list (add succeeded)
  wEnabled,  \* wEnabled[w]: libdbus's enabled flag of w
  ioWatch,   \* ioWatch[w]: the NihIoWatch stored as w's data, if any
  ioEvents,  \* ioEvents[w]: the events that NihIoWatch asks for
  ioActive,  \* the DBusWatches whose NihIoWatch is in nih_io_watches
  handled,   \* the last call of dbus_watch_handle: watch, events seen, flags
  tListed,   \* tListed[t]: libdbus holds t in its timeout list
  tEnabled,  \* tEnabled[t]: libdbus's enabled flag of t
  tInterval, \* tInterval[t]: libdbus's interval of t (ms)
  armed,     \* armed[t]: tick at which libdbus last started t's interval
  timer,     \* timer[t]: the periodic NihTimer stored as t's data, if any
  period,    \* period[t]: that timer's period (s)
  due,       \* due[t]: that timer's due time (s)
  tActive,   \* the DBusTimeouts whose NihTimer is in nih_timers
  now        \* the real clock, in ticks

watchVars == <<wListed, wEnabled, ioWatch, ioEvents, ioActive, handled>>
timeoutVars == <<tListed, tEnabled, tInterval, armed, timer, period, due, tActive>>
vars == <<watchVars, timeoutVars, now>>

Events == {"READ", "WRITE", "EXCEPT"}
Conditions == {"readable", "writable", "error"}
NoCall == [watch |-> "none"]

\* Horizon of the clock: past it, every time is moved one second back.
Horizon == TicksPerSec * (CDiv(MaxInterval - 1, 1000) + 3)

TypeOK ==
  /\ wListed \in [Watches -> BOOLEAN] /\ wEnabled \in [Watches -> BOOLEAN]
  /\ ioWatch \in [Watches -> BOOLEAN] /\ ioEvents \in [Watches -> SUBSET Events]
  /\ ioActive \subseteq Watches
  /\ handled \in {NoCall} \cup [watch : Watches, events : SUBSET Events,
                                flags : SUBSET Conditions]
  /\ tListed \in [Timeouts -> BOOLEAN] /\ tEnabled \in [Timeouts -> BOOLEAN]
  /\ tInterval \in [Timeouts -> Intervals]
  /\ armed \in [Timeouts -> Int]
  /\ timer \in [Timeouts -> BOOLEAN]
  /\ period \in [Timeouts -> Nat] /\ due \in [Timeouts -> Nat]
  /\ tActive \subseteq Timeouts
  /\ now \in 0..Horizon

-----------------------------------------------------------------------------
(* Flag translation: nih_dbus_add_watch and nih_dbus_watcher.             *)
EventsOf(flags) ==
  {"EXCEPT"} \cup {e \in Events : \/ e = "READ" /\ "readable" \in flags
                                  \/ e = "WRITE" /\ "writable" \in flags}

\* The translation with the read and write bits crossed.
FlagsOfSwapped(events) ==
  {c \in Conditions : \/ c = "readable" /\ "WRITE" \in events
                      \/ c = "writable" /\ "READ" \in events
                      \/ c = "error" /\ "EXCEPT" \in events}

FlagsOf(events) ==
  {c \in Conditions : \/ c = "readable" /\ "READ" \in events
                      \/ c = "writable" /\ "WRITE" \in events
                      \/ c = "error" /\ "EXCEPT" \in events}

(* The period of the NihTimer for an interval: (interval - 1) / 1000 + 1. *)
PeriodOf(interval) == CDiv(interval - 1, 1000) + 1

\* An add callback that leaves a disabled watch or timer on the list.
AddedActiveAlways(active, x, enabled) == active \cup {x}

\* An add callback that takes the new watch or timer off the list whether
\* or not libdbus has it enabled.
AddedRemovedAlways(active, x, enabled) == active \ {x}

(* The add callbacks create the NihIoWatch (NihTimer) on the main loop's  *)
(* list and take it off again if libdbus has it disabled.                 *)
AddedActive(active, x, enabled) ==
  IF enabled THEN active \cup {x} ELSE active \ {x}

-----------------------------------------------------------------------------
(* nih_dbus_add_watch: libdbus adds w, enabled or not.  The NihIoWatch is *)
(* created in the active list and taken out again if w is disabled.  If    *)
(* its allocation fails the callback returns FALSE and libdbus drops w.    *)
NihDBusAddWatch(w) ==
  /\ ~wListed[w]
  /\ \E enabled \in BOOLEAN, ok \in IF AddMayFail THEN BOOLEAN ELSE {TRUE} :
       IF ok
       THEN /\ wListed' = [wListed EXCEPT ![w] = TRUE]
            /\ wEnabled' = [wEnabled EXCEPT ![w] = enabled]
            /\ ioWatch' = [ioWatch EXCEPT ![w] = TRUE]
            /\ ioEvents' = [ioEvents EXCEPT ![w] = EventsOf(WatchFlags[w])]
            /\ ioActive' = AddedActive(ioActive, w, enabled)
       ELSE UNCHANGED watchVars
  /\ UNCHANGED <<handled, timeoutVars, now>>

(* nih_dbus_remove_watch: take the NihIoWatch off the list and clear the  *)
(* data, which makes libdbus nih_free it.                                  *)
NihDBusRemoveWatch(w) ==
  /\ wListed[w]
  /\ wListed' = [wListed EXCEPT ![w] = FALSE]
  /\ ioActive' = ioActive \ {w}
  /\ ioWatch' = [ioWatch EXCEPT ![w] = FALSE]
  /\ ioEvents' = [ioEvents EXCEPT ![w] = {}]
  /\ UNCHANGED <<wEnabled, handled, timeoutVars, now>>

(* nih_dbus_watch_toggled: libdbus flips w's enabled flag and calls back; *)
(* the NihIoWatch is put on or taken off the list to match.                *)
NihDBusWatchToggled(w) ==
  /\ wListed[w]
  /\ wEnabled' = [wEnabled EXCEPT ![w] = ~@]
  /\ ioActive' = IF wEnabled'[w] THEN ioActive \cup {w} ELSE ioActive \ {w}
  /\ UNCHANGED <<wListed, ioWatch, ioEvents, handled, timeoutVars, now>>

(* select () reports some of the events an active NihIoWatch asks for and *)
(* nih_dbus_watcher hands them to dbus_watch_handle as watch conditions.   *)
NihDBusWatcher(w, events) ==
  /\ w \in ioActive
  /\ events \subseteq ioEvents[w] /\ events # {}
  /\ handled' = [watch |-> w, events |-> events, flags |-> FlagsOf(events)]
  /\ UNCHANGED <<wListed, wEnabled, ioWatch, ioEvents, ioActive,
                 timeoutVars, now>>

-----------------------------------------------------------------------------
(* nih_dbus_add_timeout: a periodic NihTimer due one period from now,     *)
(* taken off the list if t is disabled.                                    *)
NihDBusAddTimeout(t) ==
  /\ ~tListed[t]
  /\ \E enabled \in BOOLEAN, i \in Intervals,
        ok \in IF AddMayFail THEN BOOLEAN ELSE {TRUE} :
       IF ok
       THEN /\ tListed' = [tListed EXCEPT ![t] = TRUE]
            /\ tEnabled' = [tEnabled EXCEPT ![t] = enabled]
            /\ tInterval' = [tInterval EXCEPT ![t] = i]
            /\ armed' = [armed EXCEPT ![t] = now]
            /\ timer' = [timer EXCEPT ![t] = TRUE]
            /\ period' = [period EXCEPT ![t] = PeriodOf(i)]
            /\ due' = [due EXCEPT ![t] = Seconds(now) + PeriodOf(i)]
            /\ tActive' = AddedActive(tActive, t, enabled)
       ELSE UNCHANGED timeoutVars
  /\ UNCHANGED <<watchVars, now>>

NihDBusRemoveTimeout(t) ==
  /\ tListed[t]
  /\ tListed' = [tListed EXCEPT ![t] = FALSE]
  /\ tActive' = tActive \ {t}
  /\ timer' = [timer EXCEPT ![t] = FALSE]
  /\ period' = [period EXCEPT ![t] = 0]
  /\ due' = [due EXCEPT ![t] = 0]
  /\ UNCHANGED <<tEnabled, tInterval, armed, watchVars, now>>

\* A toggle that keeps the period computed when the timeout was added.
StalePeriod(t) == period[t]

(* The period a toggle gives the timer: it re-reads the interval.         *)
ToggledPeriod(t) == PeriodOf(tInterval'[t])

(* nih_dbus_timeout_toggled: libdbus flips t's enabled flag, possibly with *)
(* a new interval; the timer is put on or taken off the list, and its      *)
(* period and due time are recomputed from the interval either way.        *)
NihDBusTimeoutToggled(t) ==
  /\ tListed[t]
  /\ tEnabled' = [tEnabled EXCEPT ![t] = ~@]
  /\ \E i \in Intervals : tInterval' = [tInterval EXCEPT ![t] = i]
  /\ armed' = [armed EXCEPT ![t] = now]
  /\ tActive' = IF tEnabled'[t] THEN tActive \cup {t} ELSE tActive \ {t}
  /\ period' = [period EXCEPT ![t] = ToggledPeriod(t)]
  /\ due' = [due EXCEPT ![t] = Seconds(now) + period'[t]]
  /\ UNCHANGED <<tListed, timer, watchVars, now>>

(* nih_timer_poll finds the periodic timer due, moves its due time one     *)
(* period on, and calls nih_dbus_timer, which calls dbus_timeout_handle;   *)
(* libdbus's timeout then starts its interval again.                       *)
NihDBusTimer(t) ==
  /\ t \in tActive
  /\ due[t] <= Seconds(now)
  /\ due' = [due EXCEPT ![t] = Seconds(now) + period[t]]
  /\ armed' = [armed EXCEPT ![t] = now]
  /\ UNCHANGED <<tListed, tEnabled, tInterval, timer, period, tActive,
                 watchVars, now>>

(* The clock advances one tick.  At the horizon every time is moved back  *)
(* by one second, which keeps all differences and all whole-second         *)
(* boundaries; a start older than the longest interval stays that old.     *)
Tick ==
  IF now + 1 < Horizon
  THEN /\ now' = now + 1
       /\ UNCHANGED <<watchVars, timeoutVars>>
  ELSE /\ now' = now + 1 - TicksPerSec
       /\ due' = [t \in Timeouts |-> IF due[t] > 0 THEN due[t] - 1 ELSE 0]
       /\ armed' = [t \in Timeouts |->
                      IF armed[t] - TicksPerSec < -Horizon THEN -Horizon
                      ELSE armed[t] - TicksPerSec]
       /\ UNCHANGED <<watchVars, tListed, tEnabled, tInterval, timer,
                      period, tActive>>

-----------------------------------------------------------------------------
Init ==
  /\ wListed = [w \in Watches |-> FALSE] /\ wEnabled = [w \in Watches |-> FALSE]
  /\ ioWatch = [w \in Watches |-> FALSE] /\ ioEvents = [w \in Watches |-> {}]
  /\ ioActive = {}
  /\ handled = NoCall
  /\ tListed = [t \in Timeouts |-> FALSE] /\ tEnabled = [t \in Timeouts |-> FALSE]
  /\ tInterval = [t \in Timeouts |-> MaxInterval]
  /\ armed = [t \in Timeouts |-> 0]
  /\ timer = [t \in Timeouts |-> FALSE]
  /\ period = [t \in Timeouts |-> 0] /\ due = [t \in Timeouts |-> 0]
  /\ tActive = {}
  /\ now = 0

Next ==
  \/ \E w \in Watches :
       \/ NihDBusAddWatch(w) \/ NihDBusRemoveWatch(w) \/ NihDBusWatchToggled(w)
       \/ \E events \in SUBSET Events : NihDBusWatcher(w, events)
  \/ \E t \in Timeouts :
       \/ NihDBusAddTimeout(t) \/ NihDBusRemoveTimeout(t)
       \/ NihDBusTimeoutToggled(t) \/ NihDBusTimer(t)
  \/ Tick

(* Real time passes, and the host loop polls its timers on every         *)
(* iteration (nih_main_loop calls nih_timer_poll before it blocks), so a   *)
(* timer that is due is handled.  libdbus's callbacks get no fairness.     *)
Fairness == WF_vars(Tick) /\ \A t \in Timeouts : WF_vars(NihDBusTimer(t))

Spec == Init /\ [][Next]_vars /\ Fairness

-----------------------------------------------------------------------------
(***************************************************************************)
(* Properties.                                                             *)
(***************************************************************************)

(* The main loop mirrors libdbus: every DBusWatch (DBusTimeout) libdbus   *)
(* holds has exactly one NihIoWatch (NihTimer), and it is in the main      *)
(* loop's list exactly when libdbus has it enabled, whatever order of      *)
(* add (enabled or not), toggle and remove callbacks libdbus makes.        *)
BridgeMirrorsLibrary ==
  /\ \A w \in Watches :
       /\ ioWatch[w] = wListed[w]
       /\ (w \in ioActive) = (wListed[w] /\ wEnabled[w])
  /\ \A t \in Timeouts :
       /\ timer[t] = tListed[t]
       /\ (t \in tActive) = (tListed[t] /\ tEnabled[t])

(* libdbus's handle functions run only for what it holds enabled: a step  *)
(* of nih_dbus_watcher calls dbus_watch_handle only for a watch libdbus     *)
(* lists and has enabled, with no condition the watch did not ask for      *)
(* beyond an error, and a step of nih_dbus_timer calls dbus_timeout_handle *)
(* only for an enabled timeout.  An event on a watch that was disabled,    *)
(* or added disabled, is never dispatched, whatever the order of the add   *)
(* and toggled callbacks before it (spec section 8, test 4).               *)
DispatchOnlyEnabled ==
  [][/\ \A w \in Watches, ev \in SUBSET Events :
          NihDBusWatcher(w, ev) =>
            /\ wListed[w] /\ wEnabled[w]
            /\ handled'.flags \subseteq WatchFlags[w] \cup {"error"}
     /\ \A t \in Timeouts : NihDBusTimer(t) => tListed[t] /\ tEnabled[t]]_vars

(* Every NihTimer's period is the interval libdbus now asks for, rounded  *)
(* up to whole seconds and at least one second, after any sequence of      *)
(* adds and toggles that change the interval.                              *)
TimerTracksInterval ==
  \A t \in Timeouts :
    timer[t] =>
      /\ period[t] >= 1
      /\ period[t] * 1000 >= tInterval[t]
      /\ (period[t] - 1) * 1000 < tInterval[t] \/ period[t] = 1

(* A timeout libdbus keeps enabled keeps firing: unless libdbus disables  *)
(* or removes it again and again, nih_dbus_timer calls                     *)
(* dbus_timeout_handle for it infinitely often, whatever the order of the  *)
(* add and toggle callbacks that enabled it.                               *)
EnabledTimeoutsFire ==
  \A t \in Timeouts :
    []<>~(tListed[t] /\ tEnabled[t]) \/ []<><<NihDBusTimer(t)>>_vars

(* A timeout never fires before the interval libdbus asked for has passed *)
(* since it was started (spec: "must not fire earlier than the D-Bus-      *)
(* requested interval").                                                   *)
NeverFiresEarly ==
  [][\A t \in Timeouts :
       NihDBusTimer(t) => (now - armed[t]) * MsPerTick >= tInterval[t]]_vars

=============================================================================
