------------------------------ MODULE DBusError -----------------------------
(***************************************************************************)
(* The error model of libnih's D-Bus binding (src/nih/dbus.c) and the     *)
(* error paths that use it.                                                *)
(*                                                                         *)
(* nih_dbus_error_raise builds a NihDBusError whose name and message are   *)
(* nih_strdup'd children of the error, and raises it in libnih's error    *)
(* context; nih_dbus_error_raise_printf formats the message instead.       *)
(* nih_dbus_connect, nih_dbus_bus and nih_dbus_server raise the DBusError  *)
(* the library filled when it cannot open (listen), then dbus_error_free   *)
(* it; when setup fails they raise ENOMEM with nih_error_raise_system.     *)
(* Memory is a set of live blocks with nih_alloc parents and contents;    *)
(* strings are model values.  Every NIH_MUST allocation is retried until  *)
(* it succeeds, so a failed attempt leaves no trace and is not a step.    *)
(***************************************************************************)
CONSTANTS
  Names,    \* D-Bus error names the library or a handler may give
  Texts,    \* human-readable messages
  Formats,  \* printf formats a handler may pass (with their arguments)
  NoParent, \* nih_alloc parent NULL
  NoText    \* the contents of a block that is not a string

\* The blocks one raise involves: the DBusError's two strings (owned by
\* libdbus), the NihDBusError and its two strings, libnih's system error.
LibName == "error.name"
LibMsg  == "error.message"
ErrBlk  == "err"
NameBlk == "err->name"
MsgBlk  == "err->error.message"
SysBlk  == "nih_error"
Blocks == {LibName, LibMsg, ErrBlk, NameBlk, MsgBlk, SysBlk}

\* strerror (ENOMEM): a static string, never allocated or freed.
StrErrorENOMEM == "strerror"

Contents == Names \cup Texts \cup {[format |-> f] : f \in Formats}
NoError == [number |-> "none"]
Calls == {"connect", "bus", "server"}

VARIABLES
  live,     \* the blocks currently allocated
  parent,   \* parent[b]: b's nih_alloc parent (freed with it)
  text,     \* text[b]: the string block b holds
  pending,  \* the error raised in libnih's context and not yet taken
  failed,   \* the call and path that raised it, or none
  libErr    \* the name and message of the DBusError the library last filled

vars == <<live, parent, text, pending, failed, libErr>>

Mem == [live |-> live, parent |-> parent, text |-> text]

TypeOK ==
  /\ live \subseteq Blocks
  /\ parent \in [Blocks -> Blocks \cup {NoParent}]
  /\ text \in [Blocks -> Contents \cup {NoText}]
  /\ pending \in {NoError} \cup
       [number : {"NIH_DBUS_ERROR", "ENOMEM"}, block : Blocks,
        name : Blocks \cup {"none"}, message : Blocks \cup {StrErrorENOMEM}]
  /\ failed \in [call : Calls \cup {"handler", "none"},
                path : {"open", "setup", "handler", "none"}]

-----------------------------------------------------------------------------
\* nih_alloc of block b with parent p, holding s.
Alloc(m, b, p, s) ==
  [m EXCEPT !.live = @ \cup {b}, !.parent[b] = p, !.text[b] = s]

\* nih_free (b): b, its children and their children (the depth these blocks have).
NihFree(m, b) ==
  LET dead == {d \in m.live : d = b \/ m.parent[d] = b
                              \/ (m.parent[d] \in Blocks /\ m.parent[m.parent[d]] = b)}
  IN  [m EXCEPT !.live = @ \ dead]

\* The parent the error's strings get: a mutant passes NULL.
ErrStringParentNone == NoParent

ErrStringParent == ErrBlk

\* A raise that stores the caller's pointers instead of copying them.
NihDBusErrorRaiseBorrowed(m, name, message) ==
  [mem |-> Alloc(m, ErrBlk, NoParent, NoText),
   err |-> [number |-> "NIH_DBUS_ERROR", block |-> ErrBlk,
            name |-> name, message |-> message]]

(* nih_dbus_error_raise (name, message): the error and copies of both     *)
(* strings, children of the error; the result is the memory after it and  *)
(* the error raised.                                                       *)
NihDBusErrorRaise(m, name, message) ==
  LET e == Alloc(m, ErrBlk, NoParent, NoText)
      n == Alloc(e, NameBlk, ErrStringParent, m.text[name])
  IN  [mem |-> Alloc(n, MsgBlk, ErrStringParent, m.text[message]),
       err |-> [number |-> "NIH_DBUS_ERROR", block |-> ErrBlk,
                name |-> NameBlk, message |-> MsgBlk]]

\* nih_error_raise_system () with errno = ENOMEM (libnih).
RaiseSystem(m) ==
  [mem |-> Alloc(m, SysBlk, NoParent, NoText),
   err |-> [number |-> "ENOMEM", block |-> SysBlk, name |-> "none",
            message |-> StrErrorENOMEM]]

\* dbus_error_free (&error): libdbus frees the DBusError's strings.
DBusErrorFree(m) == [m EXCEPT !.live = @ \ {LibName, LibMsg}]

Become(m, err, why) ==
  /\ live' = m.live /\ parent' = m.parent /\ text' = m.text
  /\ pending' = err /\ failed' = why

-----------------------------------------------------------------------------
(* The open (listen) failure of nih_dbus_connect, nih_dbus_bus or         *)
(* nih_dbus_server (call): libdbus fills the DBusError, the binding    *)
(* raises it and frees it, and the call returns NULL.                      *)
OpenFailure(call) ==
  /\ pending = NoError
  /\ \E n \in Names, t \in Texts :
       LET filled == Alloc(Alloc(Mem, LibName, NoParent, n), LibMsg, NoParent, t)
           r == NihDBusErrorRaise(filled, LibName, LibMsg)
       IN  /\ Become(DBusErrorFree(r.mem), r.err, [call |-> call, path |-> "open"])
           /\ libErr' = [name |-> n, message |-> t]

(* nih_dbus_setup failed, or a server data slot or function could not be  *)
(* set: errno = ENOMEM; nih_error_raise_system (); the call returns NULL.  *)
SetupFailure(call) ==
  /\ pending = NoError
  /\ LET r == RaiseSystem(Mem)
     IN  Become(r.mem, r.err, [call |-> call, path |-> "setup"])
  /\ UNCHANGED libErr

(* A method handler calls nih_dbus_error_raise_printf (name, format, ...): *)
(* the name is copied and the message is nih_vsprintf's output.            *)
NihDBusErrorRaisePrintf ==
  /\ pending = NoError
  /\ \E n \in Names, f \in Formats :
       LET e == Alloc(Mem, ErrBlk, NoParent, NoText)
           r == Alloc(Alloc(e, NameBlk, ErrStringParent, n),
                      MsgBlk, ErrStringParent, [format |-> f])
       IN  Become(r, [number |-> "NIH_DBUS_ERROR", block |-> ErrBlk,
                      name |-> NameBlk, message |-> MsgBlk],
                  [call |-> "handler", path |-> "handler"])
  /\ UNCHANGED libErr

(* The caller takes the error (nih_error_get) and frees it.               *)
CallerHandles ==
  /\ pending # NoError
  /\ Become(NihFree(Mem, pending.block), NoError, [call |-> "none", path |-> "none"])
  /\ UNCHANGED libErr

Init ==
  /\ live = {}
  /\ parent = [b \in Blocks |-> NoParent]
  /\ text = [b \in Blocks |-> NoText]
  /\ pending = NoError
  /\ failed = [call |-> "none", path |-> "none"]
  /\ libErr = [name |-> NoText, message |-> NoText]

Next ==
  \/ \E call \in Calls : OpenFailure(call)
  \/ \E call \in Calls : SetupFailure(call)
  \/ NihDBusErrorRaisePrintf \/ CallerHandles

Spec == Init /\ [][Next]_vars

-----------------------------------------------------------------------------
(* The raised error is whole when the caller gets it: its name and message *)
(* are live blocks even though the call freed the DBusError they came from *)
(* before returning, they carry the library's name and message, and the    *)
(* error's kind tells an open failure (a D-Bus named error) from a setup   *)
(* failure (ENOMEM), as spec section 4.2 requires.                         *)
RaisedErrorIntact ==
  pending # NoError =>
    /\ pending.block \in live
    /\ ({pending.name, pending.message} \ {"none", StrErrorENOMEM}) \subseteq live
    /\ failed.path = "open" =>
         /\ pending.number = "NIH_DBUS_ERROR"
         /\ text[pending.name] = libErr.name
         /\ text[pending.message] = libErr.message
    /\ failed.path = "setup" => pending.number = "ENOMEM"

(* Once the caller has freed the error nothing of it is left: the           *)
(* DBusError's strings were freed by the binding and the error's own       *)
(* strings went with it, whichever path raised it.                         *)
NothingLeaked ==
  pending = NoError => live = {}

=============================================================================
