---------------------------- MODULE MCDBusPath -----------------------------
(* Model-checking instance of DBusPath.  The bytes are the edges of the   *)
(* three kept ranges ('/', '0', '9', ':', '@', 'A', 'Z', '[', '`', 'a',   *)
(* 'z', '{'), the escape character itself, and two bytes above 0x7f.      *)
EXTENDS DBusPath, TLC

MCRoots == {<<47>>, <<47, 120>>}                        \* "/", "/x"
MCBytes == {47, 48, 57, 58, 64, 65, 90, 91, 95, 96, 97, 122, 123, 128, 255}
=============================================================================
