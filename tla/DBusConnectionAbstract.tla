---------------------- MODULE DBusConnectionAbstract -----------------------
(***************************************************************************)
(* What the binding promises about a connection's life (spec sections 3,  *)
(* 4.2 and 5), with no reference counts, filters or data slots: each      *)
(* setup call that succeeds makes its caller an owner and leaves the      *)
(* connection bound to the main loop; a failed call makes no owner; the    *)
(* connection is freed only when its peer has gone and the main loop has  *)
(* seen it, and then every owner is released in that one step.  A bound    *)
(* connection whose peer has gone is eventually freed.                    *)
(***************************************************************************)
EXTENDS Naturals

CONSTANT Conns

VARIABLES
  life,    \* life[c]: "unopened" | "open" | "gone"
  owners,  \* owners[c]: setup callers holding a reference to c
  bound,   \* bound[c]: c has a main-loop binding
  hung     \* hung[c]: c's peer has closed it and c is not yet freed

vars == <<life, owners, bound, hung>>

Init ==
  /\ life = [c \in Conns |-> "unopened"]
  /\ owners = [c \in Conns |-> 0]
  /\ bound = [c \in Conns |-> FALSE]
  /\ hung = [c \in Conns |-> FALSE]

\* A setup call: it succeeds and adds an owner, or fails having perhaps
\* bound the connection (binding is idempotent, so that is harmless).
Setup(c) ==
  /\ life[c] \in {"unopened", "open"}
  /\ life' = [life EXCEPT ![c] = "open"]
  /\ \/ /\ owners' = [owners EXCEPT ![c] = @ + 1]
        /\ bound' = [bound EXCEPT ![c] = TRUE]
     \/ /\ UNCHANGED owners
        /\ \E b \in {bound[c], TRUE} : bound' = [bound EXCEPT ![c] = b]
  /\ UNCHANGED hung

\* A server's connect handler refuses an inbound connection.
Reject(c) ==
  /\ life[c] = "unopened"
  /\ life' = [life EXCEPT ![c] = "gone"]
  /\ UNCHANGED <<owners, bound, hung>>

Hangup(c) ==
  /\ life[c] = "open" /\ ~hung[c]
  /\ hung' = [hung EXCEPT ![c] = TRUE]
  /\ UNCHANGED <<life, owners, bound>>

\* The disconnect is seen by the main loop: all owners let go at once.
Disconnect(c) ==
  /\ life[c] = "open" /\ hung[c] /\ bound[c]
  /\ life' = [life EXCEPT ![c] = "gone"]
  /\ owners' = [owners EXCEPT ![c] = 0]
  /\ bound' = [bound EXCEPT ![c] = FALSE]
  /\ hung' = [hung EXCEPT ![c] = FALSE]

Next == \E c \in Conns : Setup(c) \/ Reject(c) \/ Hangup(c) \/ Disconnect(c)

Spec == Init /\ [][Next]_vars /\ \A c \in Conns : WF_vars(Disconnect(c))

=============================================================================
