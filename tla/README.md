# TLA+ models of libnih's D-Bus binding

This directory holds TLA+ models of `src/nih/dbus.c`, the layer that connects
libdbus to libnih's main loop. Each module is translated from the C functions
that `PROJECT.json` ("map") lists, line by line. The TLC configurations check
the properties the code must keep. `src/init/job_process.h` belongs to an
unrelated component and is not modelled.

## The system

`dbus.c` sits between two event models. Both are external to it and act as the
environment in the models.

* **libdbus** owns connections, servers, watches, timeouts, reference counts
  and the object-path tree. It calls back into the binding.
* **libnih's main loop** owns I/O watches and timers, and the loop functions it
  calls on every iteration.

| Part | Functions | Module |
|------|-----------|--------|
| C1 Connection setup | `nih_dbus_connect`, `nih_dbus_bus`, `nih_dbus_setup`, `nih_dbus_callback`, `nih_dbus_connection_disconnected` | `DBusConnection` |
| C2 Server setup | `nih_dbus_server`, `nih_dbus_new_connection` | `DBusConnection` |
| C3 Watch/timeout bridge | `nih_dbus_{add,remove}_watch`, `nih_dbus_watch_toggled`, `nih_dbus_watcher`, `nih_dbus_{add,remove}_timeout`, `nih_dbus_timeout_toggled`, `nih_dbus_timer` | `DBusWatchBridge` |
| C4 Object registry | `nih_dbus_object_new`, `nih_dbus_object_destroy`, `nih_dbus_object_unregister`, `nih_dbus_object_message` | `DBusObject` |
| C5a Introspection | `nih_dbus_object_introspect` | `DBusIntrospect` |
| C5b Path encoding | `nih_dbus_path` | `DBusPath` |
| Error model | `nih_dbus_error_raise[_printf]`, the error paths of `nih_dbus_connect`, `nih_dbus_bus`, `nih_dbus_server` | `DBusError` |
| C1 promised lifecycle | spec sections 3, 4.2, 5 | `DBusConnectionAbstract` |
| C1 with C4 | a connection and the objects registered on it | `DBusBinding` |

The parts interact as follows:

* **Setup.** Setting up a connection (C1, or C2 for an accepted one) installs
  the bridge's callbacks (C3). It stores a loop function in the connection's
  `main_loop_slot` and adds one disconnect filter per setup call. That filter
  owns one connection reference.
* **Reading and timing.** The bridge turns libdbus's watches into NihIoWatches
  and its timeouts into periodic NihTimers. When a watch fires, libdbus reads
  the socket. The loop function then dispatches messages, through the filters,
  to the objects of C4.
* **Introspect.** An Introspect call to an object is answered by C5a.
  Applications name their objects with C5b.
* **Two-way calls in C4.** Freeing an object unregisters its path. libdbus then
  calls the vtable's unregister function, which frees the object. Finalizing a
  connection does the same for every object still registered.

The program is single-threaded. The hard cases are the orders in which
callbacks arrive, and re-entrant callbacks:

* the callbacks libdbus makes, and their order;
* allocation failures part-way through a multi-step setup;
* `NIH_ZERO` retries;
* filters that all have to run;
* the clock's one-second resolution;
* a free that calls back into the code that frees.

## Modules

### `DBusConnection` (C1, C2)

**State per connection:**

* lifecycle `st`: none, connected, hungup, disconnected, closed or finalized;
* reference count `refs`;
* the `binding` that `nih_dbus_setup` installed:
  * the slot;
  * the number of loop functions;
  * watch, timeout and wakeup functions installed or not;
  * the number of filters;
* bytes the peer has sent but that are not read yet (`wire`);
* the library's queue of messages read but not dispatched (`inq`);
* a bound on setup calls.

**Setup:**

* `NihDBusSetup(b, f)` is `nih_dbus_setup` as a function of the binding and of
  the step whose allocation fails. The steps are `slot_alloc`, `add_func`,
  `set_data`, `watch`, `timeout` and `filter`, or `none` for success. Nothing
  is undone on failure, as in the code.
* `RetryOutcomes` is the `NIH_ZERO` loop. It is RECURSIVE over the failed
  attempts, up to `MaxRetries` of them.

**Actions:**

* One action each for the binding's entry points: `NihDBusConnect`,
  `NihDBusBus`, `NihDBusServer`, `NihDBusNewConnection` and `NihDBusCallback`.
  `NihDBusCallback` dispatches the whole queue, runs every filter, and
  finalizes at zero.
* Environment actions: `PeerSend`, `PeerHangup` and `WatchHandle`. The last is
  libdbus reading the socket when the watch fires; it queues the synthesised
  Disconnected signal after the stream ends.

**Refinement.** `Abs` is `DBusConnectionAbstract` instantiated `WITH` a
mapping from this module's state. `Refinement == Abs!Spec` is checked as a
PROPERTY. The mapping:

* `life`: `st` none is unopened, finalized is gone, anything else is open;
* `owners`: `refs` minus the library's own shared reference (`LibRef`);
* `bound`: `main_loop_slot` holds a binding;
* `hung`: the hangup is pending, read or dispatched.

### `DBusConnectionAbstract` (what C1 promises)

Written from spec sections 3, 4.2 and 5, with no reference counts, filters or
slots. Per connection it keeps `life`, `owners`, `bound` and `hung`.

* `Setup` either succeeds, adding one owner and binding the connection, or
  fails, adding no owner (it may leave the binding, which is idempotent).
* `Reject` is a server's connect handler refusing a connection.
* `Hangup` is the peer going away.
* `Disconnect` frees a hung-up, bound connection and releases every owner in
  one step. It is weakly fair: the main loop always gets to it.

### `DBusBinding` (C1 with C4)

Composes `DBusConnection` (as `C`) with `DBusObject` (as `O`) for the objects
registered on one connection, `ObjConn`.

* Connection steps leave the registry alone, and `connLive` follows `st`.
* The `NihDBusCallback` step that finalizes `ObjConn` is conjoined with
  `O!ConnFinalize`: libdbus unregisters every object path in the step that
  drops the last reference.
* Registry steps leave the connections alone. An object can be created only
  once a connect call has returned the connection (`Opened`).
* Method calls to objects are the registry's own steps, taken while the
  connection lives. They are not tied to the messages in `inq`.
* The fairness is `DBusConnection`'s.

### `DBusWatchBridge` (C3)

**State:**

* libdbus's side of each watch and timeout: listed, enabled, interval, and the
  tick at which it last armed;
* the bridge's side:
  * the NihIoWatch and its events;
  * the NihTimer, with its period and due time;
  * the active lists;
  * the last `dbus_watch_handle` call.

**The clock.** `now` counts ticks (`TicksPerSec` per second). `time (NULL)` is
`Seconds(now)`. At `Horizon` every time moves back one second. This keeps the
state space finite and preserves every difference and every whole-second
boundary.

**Actions.** There is one action per callback. `PeriodOf` is
`(interval - 1) / 1000 + 1` with C's truncating division (`CDiv`).

### `DBusObject` (C4)

**Nested calls.** The nested calls are mutually RECURSIVE operators over a
record of the registry's state:

* `NihFree` runs the destructor, then releases the block;
* `ObjectDestroy` is `nih_dbus_object_destroy`;
* `UnregisterObjectPath` is libdbus: it removes the tree entry, then calls
  unregister;
* `ObjectUnregister` is `nih_dbus_object_unregister`.

One action's primed state is the result of the whole chain of calls.
`FreeAllPaths` is the library's finalization, a `FoldSet` over the paths.

**Freeing.** A block freed twice is recorded (`frees`), not prevented.

**Message dispatch.** `NihDBusObjectMessage` covers each branch of
`nih_dbus_object_message`: Introspect, the Properties stubs, an unknown
method, and a method whose marshaller may free its own object.

### `DBusIntrospect` (C5a)

**The calls.** The function is the list of calls it makes, in order
(`IntrospectCalls`):

* the `nih_strdup` of the doctype;
* one `nih_strcat[_sprintf]` per piece of the document, built from the
  interface table by `InterfaceCalls`, `MemberCalls` and `ArgCalls`;
* the Properties interface if `HaveProps`;
* `dbus_connection_list_registered`, then one piece per child;
* freeing the children array;
* `new_method_return`, `append_args` and `send`.

A document is the sequence of pieces, each a record naming what it describes.
The XML text is left out.

**Executing the calls.** `Exec` runs one call on the function's locals (the
three pointers, the document, the reply's argument, what was sent, and the
releases). `ErrorPath` is the `error:` label. `Finish` is the success path's
releases.

**The action.** `NihDBusObjectIntrospect` either runs every call, or chooses
the call that fails and returns through `error:`.

`SpecDocument` is a reference written from spec section 4.6.

### `DBusPath` (C5b)

**The two passes.** `nih_dbus_path` is operators over byte sequences:

* the sizing pass is `ElementSize` and `PathSize`;
* the writing pass is `CopyByte`, `CopyElement` and `WritePath`;
* `Store` writes into a block that may grow past the size allocated.

**sprintf.** `Format02x` is `sprintf("%02x")` of a char promoted to int. If
`CharSigned` holds, a byte of 0x80 or above is negative and is sign-extended
to 32 bits.

**The reference.** `SpecPath` is a reference written from spec section 4.7,
independent of the code's definitions.

**Inputs.** `Init` enumerates every input within the bounds. `NihDBusPath` is
the call.

### `DBusError` (error model)

**State.** Memory is `live` (the allocated blocks), `parent` (each block's
nih_alloc parent) and `text` (the string a block holds; strings are model
values). `pending` is the error in libnih's error context, `failed` the call
and path that raised it, and `libErr` the name and message libdbus last put
in a `DBusError`.

**Operators.** `NihDBusErrorRaise` is `nih_dbus_error_raise`: a parentless
`NihDBusError` and `nih_strdup` copies of name and message whose parent is
`ErrStringParent`, the error itself. `DBusErrorFree` is `dbus_error_free`.
`Alloc`, `NihFree` (a block with its descendants) and `RaiseSystem`
(`nih_error_raise_system` with ENOMEM) are libnih's, written from its
documented behaviour.

**Actions.**

* `OpenFailure(call)`: `dbus_connection_open`, `dbus_bus_get` or
  `dbus_server_listen` fills the `DBusError`; the binding raises it, frees it
  and returns NULL.
* `SetupFailure(call)`: `nih_dbus_setup`, or a server slot or function,
  failed; ENOMEM is raised.
* `NihDBusErrorRaisePrintf`: a handler raises a named error whose message is
  `nih_vsprintf`'s output (a value distinct from any plain text).
* `CallerHandles`: the caller takes the error with `nih_error_get` and frees it.

Every raising action requires that no error is pending: each call that fails
has its error taken before the next call. NIH_MUST retries change no state,
so each allocation succeeds in one step.

### MC modules

`MCDBusConnection`, `MCDBusWatchBridge`, `MCDBusObject`, `MCDBusIntrospect`,
`MCDBusPath`, `MCDBusBinding` and `MCDBusError` give
the constants their values: model values and small sets.

## Runs

| Run | cfg | Expect | What it shows |
|-----|-----|--------|---------------|
| connection_safety | `DBusConnection_safety.cfg` | pass (438k states) | Across failing, shared, retried and server-accepted setups and disconnects, references always equal filters plus the library's shared reference (`RefsBalanced`). A dispatched Disconnected leaves none (`DisconnectReleasesAll`). There is exactly one loop function per binding, freed with the connection (`LoopBinding`). No unref goes below zero (`TypeOK`). |
| connection_liveness | `DBusConnection_liveness.cfg` | pass (76k states) | A set-up connection whose peer hangs up is eventually finalized (`HungUpReleased`). With failures only at whole setup steps, `DBusConnection` implements `DBusConnectionAbstract` (`Refinement`). No reference is dropped except all at once when the library's Disconnected is dispatched, and a bound connection whose peer hung up is eventually freed. With every step failing, the refinement fails: this is the first finding. |
| binding_objects | `DBusBinding_objects.cfg` | pass (1.9k states) | On a server-accepted connection, where the filters' references are all that keep it alive, an object its owner holds is freed only by the dispatch of the library's Disconnected (`HeldObjectsFreedOnlyOnDisconnect`). After a hangup of a set-up connection, every object is eventually unregistered (`HungUpObjectsUnregistered`). |
| connection_partial_setup | `DBusConnection_partial_setup.cfg` | violation | `FilterImpliesWatched` fails: see the first finding below. |
| bridge_safety | `DBusWatchBridge_safety.cfg` | pass (70k states) | The loop's lists mirror libdbus's enabled watches and timeouts (`BridgeMirrorsLibrary`). libdbus's handle functions run only for a watch or timeout it holds enabled, and a watch gets only conditions it asked for, whatever the order of add and toggled callbacks (`DispatchOnlyEnabled`). Periods are the rounded-up current interval (`TimerTracksInterval`). A timeout libdbus keeps enabled fires infinitely often (`EnabledTimeoutsFire`). |
| bridge_early_timeout | `DBusWatchBridge_early_timeout.cfg` | violation | `NeverFiresEarly` fails: a 1000 ms timeout armed at 0.5 s fires at 1.0 s. |
| object_safety | `DBusObject_safety.cfg` | pass (4k states) | No block is freed twice (`NoDoubleFree`). The path tree holds exactly the registered objects (`TreeMatchesRegistered`). |
| object_release_after_disconnect | `DBusObject_release_after_disconnect.cfg` | violation | An owner freeing its object after the connection was finalized frees it twice. |
| error_model | `DBusError.cfg` | pass (132 states) | Whichever call fails and however, the error the caller takes is live, and for an open failure it carries libdbus's name and message, although the `DBusError` was freed before the call returned. Setup failures are ENOMEM (`RaisedErrorIntact`). Once the caller frees the error, no block is left (`NothingLeaked`). |
| introspect_reply | `DBusIntrospect_reply.cfg` | pass (546 states) | Introspect sends the document spec section 4.6 describes, with Properties iff some interface declares a property, or sends nothing on NEED_MEMORY (`ReplyDescribesObject`). Whichever allocation fails, each block is released exactly once (`ReleasedOnce`). |
| path_encoding | `DBusPath_encoding.cfg` | pass (350k states) | With unsigned char, the output equals `SpecPath` and nothing is written past the block. |
| path_signed_char | `DBusPath_signed_char.cfg` | violation | With signed char, `nih_dbus_path("/", "\xff")` writes 12 bytes into a 6-byte block. |

Each property of a passing run has a mutant in `PROJECT.json`: a plausible bug
in a mapped definition (for example a filter returning HANDLED, a toggle
keeping the old period, a destructor clearing `registered` too late) that TLC
shows breaks it.

## Findings

1. **Setup is not undone on failure** (`dbus.c:347`).
   * What happens: when the watch or timeout functions cannot be installed,
     the loop binding stored at 340 stays.
   * Why it matters: the next setup of that connection finds the slot set and
     returns success without watching the socket. That setup may be NIH_ZERO's
     retry, or a second `nih_dbus_bus` of a shared connection.
   * The spec (section 7) says partial installation is undone.
2. **Timeouts fire early** (`dbus.c:704`, `633`).
   * What happens: due times are whole seconds of `time (NULL)`, so a timer can
     fire up to a second before its interval.
   * The spec (section 4.4) says a timeout must not fire earlier than its
     interval.
3. **Double free after finalize** (`dbus.c:950`).
   * What happens: finalizing the connection frees every registered object, and
     the owner's later free is a second free.
   * The spec (section 8) says releasing an unregistered object is a no-op.
4. **Signed char overflow** (`dbus.c:1305`).
   * What happens: on signed-char ABIs, `sprintf("%02x", *ptr)` prints 8 digits
     for bytes of 0x80 or above. The heap block overflows and the path is
     wrong.
5. **The doc comment of `nih_dbus_path` is wrong** (`dbus.c:1238-1240`).
   * What the comment says: non-permissible characters are "removed".
   * What the code does: it writes each one as `_` and two hex digits, as spec
     section 4.7 says. `EncodesAsSpecified` passing in `path_encoding` shows
     this for every byte. The code and the spec agree; a caller who trusts the
     comment expects `a-b` to give `ab`, and gets `a_2db`.

## Bounds

* **DBusConnection:**
  * three connections, one of each kind;
  * every setup step may fail;
  * `MaxSetups = 2`, enough for a shared second setup after a failed or
    successful first;
  * `MaxRetries = 2`, two failed attempts before the successful one;
  * `MaxMsgs = 1`: a peer message and the Disconnected signal can share a
    dispatch, and a message can arrive before a hangup.
  * The liveness run lets only whole steps fail, because a `watch` or
    `timeout` failure is the finding above, and it already stops the socket
    from being read.
* **DBusBinding:**
  * one connection, accepted by a server, so no library reference hides a
    premature unref;
  * two objects on two paths;
  * whole-step setup failures, `MaxSetups = 2`, `MaxRetries = 1`,
    `MaxMsgs = 1`, so a peer's own "Disconnected" can be dispatched.
  * Adding a peer and a bus connection beside it does not finish in minutes.
    Those connections share no state with the objects.
* **DBusWatchBridge:**
  * two watches, one readable and one writable;
  * one timeout, with intervals 0, 1000 and 1500 ms: the zero edge, an exact
    second, and a rounded-up one;
  * two ticks per second, the least resolution that shows a timer armed
    mid-second.
* **DBusObject:** three objects and three paths. This covers a refused
  duplicate path, a path reused after free, and finalization of several
  objects while a third is still unused.
* **DBusIntrospect:**
  * three interfaces: one with a method and an argument, one with a signal and
    a property, and one empty;
  * tables of up to two of them in either order, so the property can come
    first or last;
  * up to two children;
  * every call may fail.
* **DBusError:** two error names, two messages and two printf formats, so
  that each raised copy can be told from the one raised before it; all three
  calls and all four raising paths.
* **DBusPath:**
  * roots "/" and "/x";
  * up to 2 elements of up to 2 bytes;
  * the bytes are every edge of the three kept ranges, '_', 0x80 and 0xff.

## Fairness

`DBusWatchBridge` assumes weak fairness of `Tick` (real time passes) and of
`NihDBusTimer` for each timeout: `nih_main_loop` polls its timers on every
iteration, so a due timer is handled. libdbus's callbacks get none.

Liveness is also asserted by `DBusConnection`, its refinement and `DBusBinding`. They all assume weak fairness of
`WatchHandle` and `NihDBusCallback` for each connection. The host main loop
runs forever: on every iteration it calls each registered loop function and
handles each ready watch, and nothing in the binding blocks it. The peer and
the setup calls get no fairness, since they may never happen.

## Deadlock

Runs that say `CHECK_DEADLOCK FALSE` model systems that really stop:

* a main loop idle in select() with every connection quiet or freed;
* a registry whose connection is gone;
* a completed call to `nih_dbus_path`.

## Not modelled

* **Memory exhaustion that never ends.** NIH_MUST in the error model retries
  until allocation succeeds. A failed attempt changes no state.
* **`nih_dbus_wakeup_main`.** It only interrupts the host loop.
* **libdbus's failure to open a connection** outside `DBusError`. It returns
  before any state of the connection changes, so `DBusConnection` leaves it out.
* **XML text, message payloads and names.** These are model values.
* **`src/init/job_process.h`.** It declares upstart's `JobProcessErrorType`,
  `JobProcessError` and five prototypes. The functions are defined in
  `job_process.c`, which is not part of this repository. The header has no
  statement that changes state, so there is nothing to translate.
* **Prototypes, the object vtable and the slot statics** (dbus.c lines
  48–116). They are declarations. The slots' lazy allocation is the
  `slot_alloc` step of `DBusConnection`.

## Plan

1. **Done:**
   * `DBusConnection`, `DBusWatchBridge`, `DBusObject`, `DBusIntrospect` and
     `DBusPath`;
   * the refinement of `DBusConnectionAbstract`;
   * the `DBusBinding` composition.
   * liveness of the bridge's timers;
   * the error model, `DBusError`;
   * `DispatchOnlyEnabled`, which replaced a check of the flag translation
     alone.
2. **Open:** the one hazard without a property, NIH_MUST under exhaustion that
   never ends. A model in which the retries change state would only restate
   the fairness assumed for the allocator.
