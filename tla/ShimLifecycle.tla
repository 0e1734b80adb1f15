---------------------------- MODULE ShimLifecycle ----------------------------
(***************************************************************************)
(* What the managed wrapper store promises a user, without directories,    *)
(* locks or processes: every artifact is absent, inactive (recorded) or    *)
(* active (recorded and reachable under its command), one step at a time;  *)
(* a command taken by something foreign is left to its owner.              *)
(***************************************************************************)
CONSTANTS Artifact, Command, CommandOf

VARIABLES
  life,   \* the state of each artifact
  taken   \* commands whose bin entry is foreign

vars == <<life, taken>>

Init ==
  /\ life = [a \in Artifact |-> "absent"]
  /\ taken = {}

(* Nothing is reachable under the command. *)
Free(c) == c \notin taken /\ \A a \in Artifact : CommandOf[a] = c => life[a] # "active"

Move(a, from, to) == life[a] = from /\ life' = [life EXCEPT ![a] = to] /\ UNCHANGED taken

(* A complete record appears at once, and never while another artifact is   *)
(* active under the same command.                                          *)
Publish(a) ==
  /\ \A b \in Artifact : CommandOf[b] = CommandOf[a] => life[b] # "active"
  /\ Move(a, "absent", "inactive")

Activate(a)   == Free(CommandOf[a]) /\ Move(a, "inactive", "active")
Deactivate(a) == Move(a, "active", "inactive")

(* Only an inactive artifact disappears. *)
Retire(a) == Move(a, "inactive", "absent")

(* The user puts something of their own under a command, or takes it away. *)
Take(c) ==
  /\ c \notin taken
  /\ taken' = taken \cup {c}
  /\ life' = [a \in Artifact |-> IF CommandOf[a] = c /\ life[a] = "active"
                                   THEN "inactive" ELSE life[a]]

Release(c) ==
  /\ c \in taken
  /\ taken' = taken \ {c}
  /\ UNCHANGED life

Next ==
  \/ \E a \in Artifact : Publish(a) \/ Activate(a) \/ Deactivate(a) \/ Retire(a)
  \/ \E c \in Command : Take(c) \/ Release(c)

Spec == Init /\ [][Next]_vars
=============================================================================
