------------------------------ MODULE ChatUI ------------------------------
(***************************************************************************)
(* main/ui_chat.c: the chat overlay's writers of the transcript.  Typed    *)
(* text, WS frames marshalled with tab5_lv_async_call and the 150 ms poll  *)
(* of voice.c all edit the same ring; every handler runs whole on the LVGL *)
(* thread, the voice state it polls changes under it from the WS task.     *)
(* Widgets, headers, toasts and heights are left out.                      *)
(***************************************************************************)
EXTENDS ChatStore

CONSTANTS
  MergeWindow,      \* 6: how far the poll and async_push_msg_cb look back
  UpdateWindow,     \* 4: how far async_update_last_cb looks back
  UserTexts,        \* the texts users type or say; the other Texts are replies
  NewSession        \* the empty session id of a conversation not yet on Dragon

ASSUME WindowAssumption == MergeWindow \in Nat \ {0} /\ UpdateWindow \in Nat \ {0}
ReplyTexts == Texts \ UserTexts

ASSUME TextAssumption == UserTexts \subseteq Texts /\ ReplyTexts # {} /\ NewSession \in Sessions

VARIABLES
  s_streaming,
  s_last_busy,      \* s_last_state, all that is read of it: was it busy
  overlay,          \* "none" until ui_chat_create, then "shown" or "hidden"
  v_state,          \* voice_get_state(): "busy" is PROCESSING or SPEAKING,
                    \* "rest" is READY or IDLE, "other" is every other state
  v_llm             \* voice_get_llm_text()

voice == <<v_state, v_llm>>
poll == <<s_streaming, s_last_busy>>
chatVars == <<storeVars, poll, overlay, voice>>

VoiceStates == {"busy", "rest", "other"}

ChatTypeOK ==
  /\ StoreTypeOK
  /\ s_streaming \in BOOLEAN /\ s_last_busy \in BOOLEAN
  /\ v_state \in VoiceStates
  /\ overlay \in {"none", "shown", "hidden"}
  /\ v_llm \in ReplyTexts \cup {NoText}

ChatInit ==
  /\ StoreInit
  /\ s_streaming = FALSE /\ s_last_busy = FALSE
  /\ overlay = "none"
  /\ v_state = "rest" /\ v_llm = NoText

\* The newest reply in the last `window` bubbles with only Skip bubbles after
\* it, or -1.
WalkBack(window, Skip(_)) ==
  LET found == {k \in 0..s_count - 1 :
                  /\ k >= s_count - window /\ IsReply(Get(k))
                  /\ \A j \in k + 1..s_count - 1 : Skip(Get(j))}
  IN  IF found = {} THEN -1 ELSE CHOOSE k \in found : TRUE

IsSystem(m) == m.kind = "system"
IsUserText(m) == m.kind = "text" /\ m.is_user

\* Mutant: the last bubble only, as before #129.
MergeIndexMutant == WalkBack(1, IsSystem)

\* Mutant: the walk looks at the kind of a bubble and not at its role.
MergeRoleMutant ==
  LET found == {k \in 0..s_count - 1 :
                  /\ k >= s_count - MergeWindow /\ Get(k).kind = "text"
                  /\ \A j \in k + 1..s_count - 1 : IsSystem(Get(j))}
  IN  IF found = {} THEN -1 ELSE CHOOSE k \in found : TRUE

\* The walk that poll_voice and async_push_msg_cb share, past tool activity.
MergeIndex == WalkBack(MergeWindow, IsSystem)

\* Mutant: no walk, whatever bubble is last takes the delta, a question
\* whose placeholder is not there yet included.
UpdateIndexMutant == IF s_count = 0 THEN -1 ELSE s_count - 1

\* The walk of async_update_last_cb, past anything but user text.
UpdateIndex == WalkBack(UpdateWindow, LAMBDA m : ~IsUserText(m) /\ ~IsReply(m))

\* on_text_submit; async_push_msg_cb for the role "user".
PushUser(text) ==
  /\ Add(NewBubble("text", TRUE, text))
  /\ UNCHANGED <<poll, overlay, voice>>

\* async_push_msg_cb for the role "assistant"; an empty text is the
\* placeholder that streaming deltas fill.
PushAssistant(text) ==
  /\ LET merge_idx == MergeIndex IN
     IF merge_idx >= 0 THEN SetText(merge_idx, text)
                       ELSE Add(NewBubble("text", FALSE, text))
  /\ UNCHANGED <<poll, overlay, voice>>

\* async_push_system_cb, _media_cb, _card_cb, _audio_cb.
PushOther(kind) ==
  /\ Add(NewBubble(kind, FALSE, CHOOSE t \in ReplyTexts : TRUE))
  /\ UNCHANGED <<poll, overlay, voice>>

\* async_update_last_cb: a delta, a text_update or an empty text_update.
UpdateLastMessage(text) ==
  /\ IF text = NoText
       THEN IF s_count = 0 THEN UNCHANGED storeVars ELSE PopLast
       ELSE LET idx == UpdateIndex IN
            IF idx >= 0 THEN SetText(idx, text)
                        ELSE Add(NewBubble("text", FALSE, text))
  /\ UNCHANGED <<poll, overlay, voice>>

\* The store half of poll_voice.
ShowStream ==
  IF v_state # "busy" \/ v_llm = NoText THEN UNCHANGED storeVars
  ELSE LET reuse_idx == MergeIndex IN
       IF reuse_idx >= 0 THEN SetText(reuse_idx, v_llm)
       ELSE IF s_streaming THEN UpdateLastText(v_llm)
       ELSE Add(NewBubble("text", FALSE, v_llm))

\* poll_voice: the timer is paused while the overlay is hidden.
PollVoice ==
  /\ overlay = "shown"
  /\ ShowStream
  /\ s_streaming' = IF s_last_busy /\ v_state = "rest" THEN FALSE
                    ELSE s_streaming \/ (v_state = "busy" /\ v_llm # NoText)
  /\ s_last_busy' = (v_state = "busy")
  /\ UNCHANGED <<overlay, voice>>

\* receipt_attach_async_cb.
Receipt == AttachReceipt /\ UNCHANGED <<poll, overlay, voice>>

\* on_pick_session.
PickSession(id) ==
  /\ overlay = "shown" /\ SetSession(id) /\ UNCHANGED <<poll, overlay, voice>>

\* on_drawer_new: a descriptor whose session id is still empty.
DrawerNew ==
  /\ overlay = "shown" /\ SetSession(NewSession) /\ UNCHANGED <<poll, overlay, voice>>

\* on_plus.
NewChat == overlay = "shown" /\ Clear /\ UNCHANGED <<poll, overlay, voice>>

\* ensure_session_loaded inside ui_chat_create seeds the session from NVS.
ChatCreate ==
  /\ overlay = "none" /\ overlay' = "shown"
  /\ IF session # NoSession THEN UNCHANGED storeVars
                            ELSE \E id \in Sessions : SetSession(id)
  /\ s_last_busy' = (v_state = "busy")
  /\ UNCHANGED <<s_streaming, voice>>

ShowChat ==
  /\ overlay = "hidden" /\ overlay' = "shown" /\ UNCHANGED <<storeVars, poll, voice>>

\* ui_chat_hide: s_streaming is kept.
HideChat ==
  /\ overlay = "shown" /\ overlay' = "hidden" /\ UNCHANGED <<storeVars, poll, voice>>

\* The voice task: a turn starts (stt and voice_send_text clear the reply
\* text, tool_call and a TTS chunk keep it), streams and ends.
TurnStart ==
  /\ v_state # "busy" /\ v_state' = "busy" /\ v_llm' \in {NoText, v_llm}
  /\ UNCHANGED <<storeVars, poll, overlay>>
Token ==
  /\ v_state = "busy" /\ v_llm' \in ReplyTexts /\ UNCHANGED <<storeVars, poll, overlay, v_state>>
TurnEnd ==
  /\ v_state' \in {"rest", "other"} /\ UNCHANGED <<storeVars, poll, overlay, v_llm>>

ChatNext ==
  \/ \E t \in UserTexts : PushUser(t)
  \/ \E t \in ReplyTexts \cup {NoText} : PushAssistant(t) \/ UpdateLastMessage(t)
  \/ \E kind \in {"system", "media"} : PushOther(kind)
  \/ PollVoice \/ Receipt
  \/ \E id \in Sessions \ {NewSession} : PickSession(id)
  \/ DrawerNew \/ NewChat \/ ChatCreate \/ ShowChat \/ HideChat
  \/ TurnStart \/ Token \/ TurnEnd

ChatSpec == ChatInit /\ [][ChatNext]_chatVars

---------------------------------------------------------------------------
(* Properties *)

OnlySystemBetween(i, k) == \A j \in 0..s_count - 1 : i < j /\ j < k => IsSystem(Get(j))

\* A reply near the end of the transcript is not shown twice (#129): the poll, the final
\* push and a delta each look for it past tool activity, so two replies with only system
\* bubbles between them are further apart than one of the two walks, the shorter, goes
\* back.  Between the two walks a reply may still show twice.
RepliesNotSplit ==
  \A i, k \in 0..s_count - 1 :
    (i < k /\ IsReply(Get(i)) /\ IsReply(Get(k)) /\ OnlySystemBetween(i, k))
      => (k - i > MergeWindow \/ k - i > UpdateWindow)

\* The overlay's handlers, several calls each, use the store as its operations allow: they
\* write through get_mut into replies only, and nothing they do takes the ring apart
\* (chat_msg_store.h).
UsesStore == StoreSpec

\* A delta that overtakes its placeholder, or a final text without a bubble of
\* its own, never lands in the question (W1-E in async_update_last_cb): no
\* handler edits a user's bubble but a poll that believes it is streaming.
AsyncTextSparesUser ==
  [][\A i \in Slots :
       (IsUserText(s_msgs[i]) /\ s_msgs'[i].active /\ s_write_idx' = s_write_idx)
         => \/ s_msgs'[i] = s_msgs[i]
            \/ overlay = "shown" /\ v_state = "busy" /\ s_streaming]_chatVars
=============================================================================
