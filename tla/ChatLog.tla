------------------------------ MODULE ChatLog ------------------------------
(***************************************************************************)
(* What main/chat_msg_store.h promises its callers: a bounded log of chat  *)
(* bubbles for one session.  Appending to a full log forgets the oldest    *)
(* bubble; every other operation edits a bubble in place, drops the newest *)
(* one or empties the log.  ChatStore, the ring buffer, implements it.     *)
(***************************************************************************)
EXTENDS Integers, Sequences

CONSTANTS Capacity,      \* BSP_CHAT_MAX_MESSAGES
          Messages       \* the bubbles a caller may store

VARIABLE log             \* oldest bubble first

Init == log = <<>>

\* chat_store_add: one bubble goes to the end, the oldest leaves a full log.
AppendBubble ==
  /\ log' # <<>> /\ log'[Len(log')] \in Messages
  /\ log' = Append(IF Len(log) < Capacity THEN log ELSE Tail(log), log'[Len(log')])

\* chat_store_update_last_text, attach_receipt_ex, writes through get_mut:
\* one bubble changes where it stands.
EditBubble ==
  \E i \in 1..Len(log) :
    /\ i <= Len(log') /\ log'[i] \in Messages
    /\ log' = [log EXCEPT ![i] = log'[i]]

\* chat_store_pop_last.
DropNewest == log # <<>> /\ log' = SubSeq(log, 1, Len(log) - 1)

\* chat_store_clear, a session switch.
Empty == log' = <<>>

Next == AppendBubble \/ EditBubble \/ DropNewest \/ Empty

Spec == Init /\ [][Next]_log
=============================================================================
