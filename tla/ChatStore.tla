----------------------------- MODULE ChatStore -----------------------------
(***************************************************************************)
(* main/chat_msg_store.c: the ring buffer behind the chat transcript.      *)
(* All callers run on the LVGL thread, so each operation is one action and *)
(* takes its arguments from everything a caller may pass.  A bubble keeps  *)
(* what the code tells apart: its kind, its author, its text, its receipt; *)
(* cached heights, URLs, timestamps and the eviction counter are left out. *)
(***************************************************************************)
EXTENDS Integers, Sequences

CONSTANTS MaxMessages,    \* BSP_CHAT_MAX_MESSAGES (bsp/tab5/bsp_config.h)
          Sessions,       \* session ids
          NoSession,
          Texts,          \* non-empty bubble texts
          NoText

ASSUME MaxMessagesAssumption == MaxMessages \in Nat \ {0}
ASSUME NoneAssumption == NoSession \notin Sessions /\ NoText \notin Texts

Kinds == {"text", "media", "system"}   \* media stands for image, card and audio clip

Bubble == [active : BOOLEAN, kind : Kinds, is_user : BOOLEAN,
           text : Texts \cup {NoText}, receipt : BOOLEAN,
           from : Sessions \cup {NoSession}]   \* auxiliary: the session it was added in

\* memset(0): MSG_TEXT is 0, so a cleared slot looks like empty reply text.
Zeroed == [active |-> FALSE, kind |-> "text", is_user |-> FALSE,
           text |-> NoText, receipt |-> FALSE, from |-> NoSession]

VARIABLES
  session,        \* s_active: the session id, or NoSession while it is not valid
  s_msgs,         \* the slots
  s_count,
  s_write_idx

store == <<s_msgs, s_count, s_write_idx>>
storeVars == <<session, store>>

Slots == 0..MaxMessages - 1

StoreTypeOK ==
  /\ session \in Sessions \cup {NoSession}
  /\ s_msgs \in [Slots -> Bubble]
  /\ s_count \in 0..MaxMessages
  /\ s_write_idx \in Slots

\* chat_store_init, at boot.
StoreInit ==
  /\ session = NoSession
  /\ s_msgs = [i \in Slots |-> Zeroed]
  /\ s_count = 0 /\ s_write_idx = 0

NewBubble(kind, is_user, text) ==
  [active |-> TRUE, kind |-> kind, is_user |-> is_user, text |-> text,
   receipt |-> FALSE, from |-> session]

\* Mutant: the ring read from slot 0, right until the first eviction.
RingStartMutant == 0

RingStart == (s_write_idx - s_count + MaxMessages) % MaxMessages

\* logical_to_real: the slot of the index-th oldest bubble (0 = oldest).
LogicalToReal(index) == (RingStart + index) % MaxMessages

Get(index) == s_msgs[LogicalToReal(index)]

IsReply(m) == m.kind = "text" /\ ~m.is_user

\* Mutant: the full-ring branch forgets that s_count is already at its cap.
AddMutant(m) ==
  /\ s_msgs' = [s_msgs EXCEPT ![s_write_idx] = m]
  /\ s_write_idx' = (s_write_idx + 1) % MaxMessages
  /\ s_count' = s_count + 1
  /\ UNCHANGED session

\* chat_store_add: take the slot at s_write_idx, evicting when the ring is full.
Add(m) ==
  /\ s_msgs' = [s_msgs EXCEPT ![s_write_idx] = m]
  /\ s_write_idx' = (s_write_idx + 1) % MaxMessages
  /\ s_count' = IF s_count < MaxMessages THEN s_count + 1 ELSE s_count
  /\ UNCHANGED session

\* A write through the pointer of chat_store_get_mut(index).
Rewrite(index, m) ==
  /\ s_msgs' = [s_msgs EXCEPT ![LogicalToReal(index)] = m]
  /\ UNCHANGED <<session, s_count, s_write_idx>>

SetText(index, text) == Rewrite(index, [Get(index) EXCEPT !.text = text])

\* chat_store_update_last_text; nothing to do on an empty ring.
UpdateLastText(text) ==
  IF s_count = 0 THEN UNCHANGED storeVars ELSE SetText(s_count - 1, text)

\* Mutant: the walk that skips user bubbles only, so a card takes the stamp.
RepliesMutant == {k \in 0..s_count - 1 : Get(k).active /\ ~Get(k).is_user}

\* chat_store_attach_receipt_ex: the newest reply text, if there is one.
Replies == {k \in 0..s_count - 1 : Get(k).active /\ IsReply(Get(k))}

AttachReceipt ==
  \E k \in Replies :
    /\ \A j \in Replies : j <= k
    /\ Rewrite(k, [Get(k) EXCEPT !.receipt = TRUE])

\* Mutant: s_write_idx stays where it was.
PopLastMutant ==
  /\ s_count > 0
  /\ s_msgs' = [s_msgs EXCEPT ![(s_write_idx - 1 + MaxMessages) % MaxMessages] = Zeroed]
  /\ s_count' = s_count - 1
  /\ UNCHANGED <<session, s_write_idx>>

\* chat_store_pop_last.
PopLast ==
  /\ s_count > 0
  /\ LET real == (s_write_idx - 1 + MaxMessages) % MaxMessages IN
     /\ s_msgs' = [s_msgs EXCEPT ![real] = Zeroed]
     /\ s_write_idx' = real
  /\ s_count' = s_count - 1
  /\ UNCHANGED session

Wipe ==
  /\ s_msgs' = [i \in Slots |-> Zeroed]
  /\ s_count' = 0 /\ s_write_idx' = 0

\* chat_store_clear: the session descriptor is preserved.
Clear == Wipe /\ UNCHANGED session

\* Mutant: the descriptor changes and the bubbles stay.
SetSessionMutant(id) == session' = id /\ UNCHANGED store

\* chat_store_set_session: wipe only when leaving a valid session for another id.
SetSession(id) ==
  /\ IF session # NoSession /\ session # id THEN Wipe ELSE UNCHANGED store
  /\ session' = id

\* chat_store_set_session(NULL).
DropSession == Wipe /\ session' = NoSession

StoreNext ==
  \/ \E t \in Texts : \E kind \in Kinds : Add(NewBubble(kind, FALSE, t))
  \/ \E t \in Texts : Add(NewBubble("text", TRUE, t))   \* users only write text
  \/ Add(NewBubble("text", FALSE, NoText))              \* streaming placeholder
  \/ \E k \in Replies : \E t \in Texts \cup {NoText} : SetText(k, t)
  \/ \E t \in Texts \cup {NoText} : UpdateLastText(t)
  \/ AttachReceipt \/ PopLast \/ Clear \/ DropSession
  \/ \E id \in Sessions : SetSession(id)

StoreSpec == StoreInit /\ [][StoreNext]_storeVars

---------------------------------------------------------------------------
(* Properties *)

Window == {LogicalToReal(k) : k \in 0..s_count - 1}

Transcript == [i \in 1..s_count |-> Get(i - 1)]

\* A slot outside the window holds nothing: pop_last and the wipes leave no
\* bubble behind that a later change of s_count could bring back.
OnlyWindowIsActive ==
  \A i \in Slots : IF i \in Window THEN s_msgs[i].active ELSE s_msgs[i] = Zeroed

\* A receipt sits under a text reply and nowhere else, whatever bubbles arrive
\* between llm_done and the receipt frame (chat_msg_store.c:196-208).  The header
\* asks for less: any bubble that is not the user's (chat_msg_store.h:122).
ReceiptsUnderReplies == \A i \in Slots : s_msgs[i].receipt => IsReply(s_msgs[i])

\* Chat never shows one session's bubbles under another: what is stored was
\* added in the active session, or before any session was loaded.
OneSessionShown == \A i \in Slots : s_msgs[i].from \in {session, NoSession}

Log == INSTANCE ChatLog WITH
         Capacity <- MaxMessages,
         Messages <- {m \in Bubble : m.active},
         log <- Transcript

\* The ring and its index arithmetic read as a bounded log: bubbles keep their
\* order, only the oldest is ever evicted, and an edit touches one bubble.
ImplementsLog == Log!Spec
=============================================================================
