------------------------- MODULE MCDBusIntrospect --------------------------
(* Model-checking instance of DBusIntrospect.  Three interfaces: one with *)
(* a method and an in argument, one with a signal and a property, one     *)
(* empty; tables of up to two of them, in either order, and up to two      *)
(* child paths.                                                            *)
EXTENDS DBusIntrospect, TLC


IfaceMethod == [name |-> "com.example.Job", properties |-> <<>>, signals |-> <<>>,
                methods |-> <<[name |-> "Start", args |-> <<[name |-> "env", dir |-> "in"]>>]>>]
IfaceProps  == [name |-> "com.example.State", methods |-> <<>>,
                signals |-> <<[name |-> "Changed", args |-> <<[name |-> "value"]>>]>>,
                properties |-> <<[name |-> "Goal", access |-> "readwrite"]>>]
IfaceEmpty  == [name |-> "com.example.Empty", methods |-> <<>>, signals |-> <<>>,
                properties |-> <<>>]

MCTables == SeqOf({IfaceMethod, IfaceProps, IfaceEmpty}, 2)
MCChildLists == SeqOf({"a", "b"}, 2)
=============================================================================
