----------------------------- MODULE SessionLog -----------------------------
(***************************************************************************)
(* What solo_session_append promises of a session: entries are added one   *)
(* at a time and in order, a question before its answer; and only while    *)
(* the file is being replaced can the session be lost, and then as a       *)
(* whole.  SoloTurn, with two files and a copy in memory, implements it.   *)
(***************************************************************************)
EXTENDS Integers

CONSTANT Turns

VARIABLES log,         \* the entries <<turn, role>> of the session
          replacing    \* the session file is not in place

Entries == Turns \X {"user", "assistant"}

Init == log = {} /\ replacing = FALSE

Before(e, f) == e[1] < f[1] \/ (e[1] = f[1] /\ e[2] = "user" /\ f[2] = "assistant")

Append(e) ==
  /\ ~replacing /\ replacing' = TRUE
  /\ \A f \in log : Before(f, e)
  /\ log' = log \cup {e}

Settle == replacing /\ replacing' = FALSE /\ UNCHANGED log

\* Power is lost or the file cannot be put in place, which the next boot repairs.
Lose == replacing /\ replacing' \in BOOLEAN /\ log' = {}

Next == (\E e \in Entries : Append(e)) \/ Settle \/ Lose

Spec == Init /\ [][Next]_<<log, replacing>>
=============================================================================
