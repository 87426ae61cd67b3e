----------------------------- MODULE DBusPath ------------------------------
(***************************************************************************)
(* nih_dbus_path (src/nih/dbus.c): build an object path from a root and   *)
(* a NULL-terminated list of elements, each appended after a "/" with      *)
(* every byte outside [A-Za-z0-9] written as "_" and two hex digits.       *)
(*                                                                         *)
(* The function makes two passes over the elements: the first sizes the    *)
(* block (1 byte per kept character, 3 per escaped one, 1 per separator),  *)
(* the second writes into it, escaping with sprintf (path + len, "%02x",   *)
(* *ptr).  Strings are sequences of byte codes; the block is the sequence  *)
(* of the bytes written, which may grow past the size allocated for it.    *)
(* Whether the plain char *ptr is signed is the C implementation's choice  *)
(* (CharSigned): it is signed on x86 and unsigned on ARM and PowerPC.      *)
(***************************************************************************)
EXTENDS Naturals, Integers, Sequences, SequencesExt

CONSTANTS
  Roots,       \* root paths given (sequences of byte codes)
  Bytes,       \* the byte codes elements are made of (no NUL)
  MaxArgs,     \* bound on the number of elements
  MaxArgLen,   \* bound on the length of one element
  CharSigned,  \* whether char is a signed type in the build
  OOM          \* whether nih_alloc may fail

ASSUME /\ Bytes \subseteq 1..255
       /\ {MaxArgs, MaxArgLen} \subseteq Nat
       /\ CharSigned \in BOOLEAN /\ OOM \in BOOLEAN

NUL == 0
Slash == 47
Underscore == 95

\* Width of int, the type a char is promoted to when passed to sprintf.
IntBits == 32

\* The value of a byte read through a plain char.
CharValue(b) == IF CharSigned /\ b >= 128 THEN b - 256 ELSE b

\* A variant of the test that escapes '9' and 'z'.
PermissibleOpen(c) ==
  \/ c \in 97..121 \/ c \in 65..90 \/ c \in 48..56

\* The test both passes make: 'a'..'z', 'A'..'Z' or '0'..'9'.
Permissible(c) ==
  \/ c \in 97..122      \* (*ptr >= 'a') && (*ptr <= 'z')
  \/ c \in 65..90       \* (*ptr >= 'A') && (*ptr <= 'Z')
  \/ c \in 48..57       \* (*ptr >= '0') && (*ptr <= '9')

-----------------------------------------------------------------------------
\* A sizing pass that forgets the separator.
ElementSizeNoSep(arg) ==
  FoldLeft(LAMBDA n, b : n + (IF Permissible(CharValue(b)) THEN 1 ELSE 3),
           0, arg)

(* First pass: the length of the path, not counting its NUL.               *)
ElementSize(arg) ==
  1 + FoldLeft(LAMBDA n, b : n + (IF Permissible(CharValue(b)) THEN 1 ELSE 3),
               0, arg)

PathSize(root, args) ==
  Len(root) + FoldLeft(LAMBDA n, a : n + ElementSize(a), 0, args)

(* sprintf "%02x" of a char promoted to int: the int as an unsigned        *)
(* number in lowercase hex, at least two digits, then a NUL.  A negative   *)
(* char is sign-extended, so every byte above its lowest is 0xff.          *)
HexDigit(d) == IF d < 10 THEN 48 + d ELSE 87 + d

Format02x(v) ==
  LET low == <<HexDigit((v % 256) \div 16), HexDigit(v % 16)>>
      ext == IF v < 0 THEN [i \in 1..(IntBits \div 4 - 2) |-> HexDigit(15)]
             ELSE <<>>
  IN  ext \o low \o <<NUL>>

\* Write the bytes s at offset i of the block (written bytes only).
Store(mem, i, s) ==
  LET n == IF i + Len(s) > Len(mem) THEN i + Len(s) ELSE Len(mem)
  IN  [k \in 1..n |-> IF k > i /\ k <= i + Len(s) THEN s[k - i] ELSE mem[k]]

(* Second pass: one byte of an element, then a whole element.             *)
CopyByte(acc, b) ==
  IF Permissible(CharValue(b))
  THEN [mem |-> Store(acc.mem, acc.len, <<b>>), len |-> acc.len + 1]
  ELSE [mem |-> Store(Store(acc.mem, acc.len, <<Underscore>>),
                      acc.len + 1, Format02x(CharValue(b))),
        len |-> acc.len + 3]

CopyElement(acc, arg) ==
  FoldLeft(CopyByte, [mem |-> Store(acc.mem, acc.len, <<Slash>>),
                      len |-> acc.len + 1], arg)

\* strcpy (path, root), the elements, then path[len] = '\0'.
WritePath(root, args) ==
  LET done == FoldLeft(CopyElement, [mem |-> root \o <<NUL>>, len |-> Len(root)],
                       args)
  IN  Store(done.mem, done.len, <<NUL>>)

\* The C string a block holds: its bytes before the first NUL.
CString(mem) ==
  LET ends == {k \in DOMAIN mem : mem[k] = NUL}
  IN  SubSeq(mem, 1, (CHOOSE k \in ends : \A j \in ends : k <= j) - 1)

-----------------------------------------------------------------------------
VARIABLES
  root,    \* the root argument
  args,    \* the elements passed before the terminating NULL
  size,    \* bytes allocated for the path: PathSize + 1
  block,   \* the bytes the call wrote into (and past) the block
  result   \* "pending" before the call, "NULL" or "path" after it

vars == <<root, args, size, block, result>>

Init ==
  /\ root \in Roots
  /\ args \in SeqOf(SeqOf(Bytes, MaxArgLen), MaxArgs)
  /\ size = 0 /\ block = <<>>
  /\ result = "pending"

(* The call: size the path, allocate it (which may fail), write it.       *)
NihDBusPath ==
  /\ result = "pending"
  /\ \/ /\ OOM
        /\ result' = "NULL"
        /\ UNCHANGED <<size, block>>
     \/ /\ size' = PathSize(root, args) + 1
        /\ block' = WritePath(root, args)
        /\ result' = "path"
  /\ UNCHANGED <<root, args>>

Next == NihDBusPath

Spec == Init /\ [][Next]_vars

-----------------------------------------------------------------------------
(***************************************************************************)
(* Properties.                                                             *)
(***************************************************************************)

(* The encoding spec section 4.7 defines, written independently of the    *)
(* code: letters and digits kept, any other byte b as "_" and the two      *)
(* lowercase hex digits of b, elements joined to the root with "/".        *)
SpecKept == (48..57) \cup (65..90) \cup (97..122)
SpecHex == <<48, 49, 50, 51, 52, 53, 54, 55, 56, 57, 97, 98, 99, 100, 101, 102>>
SpecEscape(b) ==
  IF b \in SpecKept THEN <<b>>
  ELSE <<Underscore, SpecHex[(b \div 16) + 1], SpecHex[(b % 16) + 1]>>
SpecPath(r, as) ==
  r \o FlattenSeq([i \in DOMAIN as |->
                     <<Slash>> \o FlattenSeq([j \in DOMAIN as[i] |->
                                                SpecEscape(as[i][j])])])

(* nih_dbus_path returns exactly the encoding of its root and elements,   *)
(* for every byte an element may hold, with the sizing pass and the        *)
(* writing pass agreeing on which bytes are escaped.  This is spec section *)
(* 4.7's escaping, not the removal of non-permissible characters that the *)
(* function's doc comment (dbus.c:1238-1240) describes.                    *)
EncodesAsSpecified ==
  result = "path" => CString(block) = SpecPath(root, args)

(* Nothing is written past the block nih_alloc returned: the sizing pass   *)
(* accounts for every byte the writing pass stores, sprintf's NULs         *)
(* included.                                                               *)
WritesWithinBlock ==
  result = "path" => Len(block) <= size

=============================================================================
