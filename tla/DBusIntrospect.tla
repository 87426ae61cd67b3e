--------------------------- MODULE DBusIntrospect ---------------------------
(***************************************************************************)
(* nih_dbus_object_introspect (src/nih/dbus.c): answer Introspect for a   *)
(* registered object with an XML document built from its interface table  *)
(* and from the child paths libdbus lists.                                 *)
(*                                                                         *)
(* The document is the sequence of the pieces the code appends, one       *)
(* element per nih_strdup/nih_strcat/nih_strcat_sprintf call, each piece   *)
(* a record naming what it describes (the XML text itself is left out).   *)
(* The function is the list of calls it makes in order; every allocating  *)
(* call may fail, and a failure jumps to the error label, which releases  *)
(* what the pointers reply, children and xml still hold.                  *)
(***************************************************************************)
EXTENDS Naturals, Sequences, SequencesExt

CONSTANTS
  ObjPath,     \* the object's path (a model value)
  Tables,      \* the interface tables an object may have
  ChildLists,  \* the child lists dbus_connection_list_registered may return
  OOM          \* whether allocations may fail

ASSUME OOM \in BOOLEAN

Allocs == {"xml", "children", "reply"}

-----------------------------------------------------------------------------
(* The calls the function makes, in order.  op says what a call does;     *)
(* "strdup", "strcat", "list", "reply", "append" and "send" allocate and  *)
(* may fail, "free_children" cannot.                                       *)
Strcat(el) == [op |-> "strcat", el |-> el]
Call(op) == [op |-> op, el |-> [k |-> "none"]]

ArgCalls(args, withDir) ==
  [a \in DOMAIN args |->
     Strcat(IF withDir THEN [k |-> "arg", name |-> args[a].name, dir |-> args[a].dir]
            ELSE [k |-> "arg", name |-> args[a].name])]

\* A method or signal: its opening element, its args, its closing element.
MemberCalls(m, kind, withDir) ==
  <<Strcat([k |-> kind, name |-> m.name])>> \o ArgCalls(m.args, withDir)
  \o <<Strcat([k |-> "/" \o kind])>>

InterfaceCalls(i) ==
  <<Strcat([k |-> "interface", name |-> i.name])>>
  \o FlattenSeq([m \in DOMAIN i.methods |-> MemberCalls(i.methods[m], "method", TRUE)])
  \o FlattenSeq([s \in DOMAIN i.signals |-> MemberCalls(i.signals[s], "signal", FALSE)])
  \o [p \in DOMAIN i.properties |->
        Strcat([k |-> "property", name |-> i.properties[p].name,
                access |-> i.properties[p].access])]
  \o <<Strcat([k |-> "/interface"])>>

\* have_props as a flag reset for each interface instead of once.
HavePropsLast(table) ==
  table # <<>> /\ table[Len(table)].properties # <<>>

\* have_props: set by the property loop of any interface.
HaveProps(table) ==
  \E i \in DOMAIN table : table[i].properties # <<>>

IntrospectCalls(table, kids) ==
  << [op |-> "strdup", el |-> [k |-> "doctype"]],
     Strcat([k |-> "node", name |-> ObjPath]),
     Strcat([k |-> "introspectable"]) >>
  \o FlattenSeq([i \in DOMAIN table |-> InterfaceCalls(table[i])])
  \o (IF HaveProps(table) THEN <<Strcat([k |-> "properties"])>> ELSE <<>>)
  \o <<Call("list")>>
  \o [c \in DOMAIN kids |-> Strcat([k |-> "child", name |-> kids[c]])]
  \o <<Strcat([k |-> "/node"]), Call("free_children"),
       Call("reply"), Call("append"), Call("send")>>

-----------------------------------------------------------------------------
(* The function's locals: the three pointers, the document so far, the    *)
(* reply's argument, what was sent, and the releases made so far.         *)
Start == [xml |-> FALSE, children |-> FALSE, reply |-> FALSE, doc |-> <<>>,
          arg |-> <<>>, sent |-> <<>>, released |-> [a \in Allocs |-> 0]]

Release(e, a) == [e EXCEPT !.released[a] = @ + 1]

\* A variant of lines 1198-1199 that frees the array but keeps the pointer.
ChildrenFreedKept(e) == Release(e, "children")

\* dbus_free_string_array (children); children = NULL;
FreeChildren(e) == [Release(e, "children") EXCEPT !.children = FALSE]

(* One call that succeeds.                                                 *)
Exec(e, call) ==
  CASE call.op = "strdup" -> [e EXCEPT !.xml = TRUE, !.doc = <<call.el>>]
    [] call.op = "strcat" -> [e EXCEPT !.doc = Append(@, call.el)]
    [] call.op = "list"   -> [e EXCEPT !.children = TRUE]
    [] call.op = "free_children" -> FreeChildren(e)
    [] call.op = "reply"  -> [e EXCEPT !.reply = TRUE]
    [] call.op = "append" -> [e EXCEPT !.arg = e.doc]
    [] OTHER              -> [e EXCEPT !.sent = e.arg]        \* "send"

\* error: release what reply, children and xml still point to.
ErrorPath(e) ==
  LET r == IF e.reply THEN Release(e, "reply") ELSE e
      c == IF r.children THEN Release(r, "children") ELSE r
  IN  IF c.xml THEN Release(c, "xml") ELSE c

\* After the send: dbus_message_unref (reply); nih_free (xml).
Finish(e) == Release(Release(e, "reply"), "xml")

\* The positions of calls that can fail.
FailPoints(calls) == {n \in DOMAIN calls : calls[n].op # "free_children"}

-----------------------------------------------------------------------------
VARIABLES
  table,     \* the object's interface table
  kids,      \* the child paths libdbus lists under the object's path
  result,    \* "pending", "HANDLED" or "NEED_MEMORY"
  sent,      \* the document sent as the reply (<<>>: nothing sent)
  made,      \* the allocations the call made
  released   \* released[a]: how many times allocation a was released

vars == <<table, kids, result, sent, made, released>>

Init ==
  /\ table \in Tables
  /\ kids \in ChildLists
  /\ result = "pending"
  /\ sent = <<>>
  /\ made = {}
  /\ released = [a \in Allocs |-> 0]

\* The allocations the first n calls made.
MadeBy(calls, n) ==
  {a \in Allocs : \E j \in 1..n :
     calls[j].op = CASE a = "xml" -> "strdup" [] a = "children" -> "list"
                     [] OTHER -> "reply"}

(* libdbus calls the function for Introspect (via nih_dbus_object_message).*)
(* Either every call succeeds and the reply is sent, or the call at some  *)
(* position fails and the function returns through its error label.       *)
NihDBusObjectIntrospect ==
  /\ result = "pending"
  /\ LET calls == IntrospectCalls(table, kids) IN
     \/ LET e == Finish(FoldLeft(Exec, Start, calls)) IN
          /\ result' = "HANDLED"
          /\ sent' = e.sent
          /\ made' = MadeBy(calls, Len(calls))
          /\ released' = e.released
     \/ /\ OOM
        /\ \E f \in FailPoints(calls) :
             LET e == ErrorPath(FoldLeft(Exec, Start, SubSeq(calls, 1, f - 1))) IN
               /\ result' = "NEED_MEMORY"
               /\ sent' = e.sent
               /\ made' = MadeBy(calls, f - 1)
               /\ released' = e.released
  /\ UNCHANGED <<table, kids>>

Next == NihDBusObjectIntrospect

Spec == Init /\ [][Next]_vars

-----------------------------------------------------------------------------
(***************************************************************************)
(* Properties.                                                             *)
(***************************************************************************)

(* The reply spec section 4.6 describes, written from the spec: doctype,  *)
(* root node, Introspectable, each interface in table order with its       *)
(* methods (args with direction), signals (args without) and properties,  *)
(* Properties iff some property is declared anywhere, then one node per   *)
(* child.                                                                  *)
SpecArgs(args, withDir) ==
  [a \in DOMAIN args |->
     IF withDir THEN [k |-> "arg", name |-> args[a].name, dir |-> args[a].dir]
     ELSE [k |-> "arg", name |-> args[a].name]]
SpecMembers(ms, kind, withDir) ==
  FlattenSeq([m \in DOMAIN ms |->
     <<[k |-> kind, name |-> ms[m].name]>> \o SpecArgs(ms[m].args, withDir)
     \o <<[k |-> "/" \o kind]>>])
SpecInterface(i) ==
  <<[k |-> "interface", name |-> i.name]>>
  \o SpecMembers(i.methods, "method", TRUE)
  \o SpecMembers(i.signals, "signal", FALSE)
  \o [p \in DOMAIN i.properties |->
        [k |-> "property", name |-> i.properties[p].name,
         access |-> i.properties[p].access]]
  \o <<[k |-> "/interface"]>>
SpecDocument(t, cs) ==
  <<[k |-> "doctype"], [k |-> "node", name |-> ObjPath], [k |-> "introspectable"]>>
  \o FlattenSeq([i \in DOMAIN t |-> SpecInterface(t[i])])
  \o (IF UNION {ToSet(t[i].properties) : i \in DOMAIN t} # {}
      THEN <<[k |-> "properties"]>> ELSE <<>>)
  \o [c \in DOMAIN cs |-> [k |-> "child", name |-> cs[c]]]
  \o <<[k |-> "/node"]>>

(* A handled Introspect sent exactly the document the spec describes for  *)
(* the object's table and children; one that ran out of memory sent        *)
(* nothing (no partial reply).                                             *)
ReplyDescribesObject ==
  /\ result = "HANDLED" => sent = SpecDocument(table, kids)
  /\ result = "NEED_MEMORY" => sent = <<>>

(* Whichever call fails, by the time the function returns every block it  *)
(* allocated (the XML string, the children array, the reply) has been     *)
(* released exactly once, and nothing else was released.                  *)
ReleasedOnce ==
  result # "pending" =>
    \A a \in Allocs : released[a] = IF a \in made THEN 1 ELSE 0

=============================================================================
