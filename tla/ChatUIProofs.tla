--------------------------- MODULE ChatUIProofs ---------------------------
(***************************************************************************)
(* Proofs about the chat overlay of main/ui_chat.c, for every ring size,   *)
(* both walk-back windows, and every set of texts and sessions.  Whatever  *)
(* the overlay does is an operation of the store (so all that is proved of *)
(* the store is true under the overlay); the walks find a reply or prove   *)
(* that none is near; from both follow one bubble per reply and questions  *)
(* that no answer overwrites.                                              *)
(***************************************************************************)
EXTENDS ChatUI, ChatStoreProofs

(* ---- the walks -----------------------------------------------------------*)

\* Every reply of the last `window` bubbles has a bubble after it that is not
\* tool activity.
NoneNear(window) ==
  \A k \in 0..s_count - 1 :
    k >= s_count - window /\ IsReply(Get(k)) => \E j \in k + 1..s_count - 1 : ~IsSystem(Get(j))

\* poll_voice, async_push_msg_cb: the walk ends on a reply, or no reply is near.
LEMMA MergeWalk ==
  IF MergeIndex >= 0
    THEN MergeIndex \in 0..s_count - 1 /\ IsReply(Get(MergeIndex))
    ELSE NoneNear(MergeWindow)
<1> DEFINE found == {k \in 0..s_count - 1 :
                       /\ k >= s_count - MergeWindow /\ IsReply(Get(k))
                       /\ \A j \in k + 1..s_count - 1 : IsSystem(Get(j))}
<1>1. MergeIndex = IF found = {} THEN -1 ELSE CHOOSE k \in found : TRUE
  BY DEF MergeIndex, WalkBack
<1>2. CASE found = {}
  BY <1>1, <1>2 DEF NoneNear
<1>3. CASE found # {}
  <2>1. MergeIndex \in found
    BY <1>1, <1>3
  <2> QED BY <2>1
<1> QED BY <1>2, <1>3

\* async_update_last_cb: its walk passes more bubbles, tool activity included.
LEMMA UpdateWalk ==
  IF UpdateIndex >= 0
    THEN UpdateIndex \in 0..s_count - 1 /\ IsReply(Get(UpdateIndex))
    ELSE NoneNear(UpdateWindow)
<1> DEFINE passed(m) == ~IsUserText(m) /\ ~IsReply(m)
           found == {k \in 0..s_count - 1 :
                       /\ k >= s_count - UpdateWindow /\ IsReply(Get(k))
                       /\ \A j \in k + 1..s_count - 1 : passed(Get(j))}
<1>1. UpdateIndex = IF found = {} THEN -1 ELSE CHOOSE k \in found : TRUE
  BY DEF UpdateIndex, WalkBack
<1>2. \A m : IsSystem(m) => passed(m)
  BY DEF IsSystem, IsUserText, IsReply
<1>3. CASE found = {}
  BY <1>1, <1>2, <1>3 DEF NoneNear
<1>4. CASE found # {}
  <2>1. UpdateIndex \in found
    BY <1>1, <1>4
  <2> QED BY <2>1
<1> QED BY <1>3, <1>4

(* ---- what a step of the overlay does to the store --------------------------*)

\* A reply is added only where no reply is near; any other bubble always is.
Grows ==
  \E kind \in Kinds, u \in BOOLEAN, t \in Texts \cup {NoText} :
    /\ Add(NewBubble(kind, u, t))
    /\ kind = "text" /\ ~u => NoneNear(MergeWindow) \/ NoneNear(UpdateWindow)

\* The poll while s_streaming is set writes into the newest bubble unseen.
BlindPoll == overlay = "shown" /\ v_state = "busy" /\ s_streaming

\* An edit goes to a reply and leaves it one, the blind poll's apart.
Edits ==
  \E k \in 0..s_count - 1 : \E m \in Shown :
    /\ Rewrite(k, m)
    /\ m.kind = Get(k).kind /\ m.is_user = Get(k).is_user
    /\ IsReply(Get(k)) \/ BlindPoll

StoreStep ==
  /\ [StoreNext]_storeVars
  /\ UNCHANGED store \/ Grows \/ Edits \/ PopLast \/ Wipe

LEMMA StepKind ==
  ASSUME ChatTypeOK, ByAge, [ChatNext]_chatVars
  PROVE  StoreStep
<1> USE MaxMessagesAssumption, TextAssumption
<1>1. StoreTypeOK /\ v_llm \in ReplyTexts \cup {NoText}
  BY DEF ChatTypeOK
<1>2. ReplyTexts \subseteq Texts /\ UserTexts \subseteq Texts /\ NewSession \in Sessions
  BY DEF ReplyTexts
<1>3. ASSUME NEW k \in 0..s_count - 1
      PROVE  Get(k) \in Shown /\ (IsReply(Get(k)) => k \in Replies)
  <2>1. LogicalToReal(k) \in Slots /\ Get(k).active
    BY <1>1, RewriteInside
  <2> QED BY <1>1, <2>1 DEF Get, Shown, StoreTypeOK, Replies
<1>4. ASSUME NEW k \in 0..s_count - 1, NEW t \in Texts \cup {NoText}, SetText(k, t),
             IsReply(Get(k)) \/ BlindPoll
      PROVE  Edits
  <2> DEFINE m == [Get(k) EXCEPT !.text = t]
  <2>1. m \in Shown /\ m.kind = Get(k).kind /\ m.is_user = Get(k).is_user
    BY <1>3 DEF Shown, Bubble
  <2> QED BY <1>4, <2>1 DEF Edits, SetText
<1>5. ASSUME NEW k \in 0..s_count - 1, NEW t \in Texts \cup {NoText}, SetText(k, t),
             IsReply(Get(k))
      PROVE  StoreStep
  BY <1>3, <1>4, <1>5 DEF StoreStep, StoreNext
<1>6. ASSUME NEW t \in ReplyTexts \cup {NoText}, Add(NewBubble("text", FALSE, t)),
             NoneNear(MergeWindow) \/ NoneNear(UpdateWindow)
      PROVE  StoreStep
  <2>1. Grows
    BY <1>2, <1>6 DEF Grows, Kinds
  <2>2. StoreNext
    BY <1>2, <1>6 DEF StoreNext, Kinds
  <2> QED BY <2>1, <2>2 DEF StoreStep
<1>7. ASSUME NEW t \in UserTexts, PushUser(t) PROVE StoreStep
  <2>1. Add(NewBubble("text", TRUE, t))
    BY <1>7 DEF PushUser
  <2>2. Grows
    BY <1>2, <2>1 DEF Grows, Kinds
  <2> QED BY <1>2, <2>1, <2>2 DEF StoreStep, StoreNext
<1>8. ASSUME NEW t \in ReplyTexts \cup {NoText}, PushAssistant(t) PROVE StoreStep
  <2>1. CASE MergeIndex >= 0
    BY <1>2, <1>5, <1>8, <2>1, MergeWalk DEF PushAssistant
  <2>2. CASE ~(MergeIndex >= 0)
    BY <1>6, <1>8, <2>2, MergeWalk DEF PushAssistant
  <2> QED BY <2>1, <2>2
<1>9. ASSUME NEW t \in ReplyTexts \cup {NoText}, UpdateLastMessage(t) PROVE StoreStep
  <2>1. CASE t = NoText
    BY <1>9, <2>1 DEF UpdateLastMessage, StoreStep, StoreNext, storeVars
  <2>2. CASE t # NoText /\ UpdateIndex >= 0
    BY <1>2, <1>5, <1>9, <2>2, UpdateWalk DEF UpdateLastMessage
  <2>3. CASE t # NoText /\ ~(UpdateIndex >= 0)
    BY <1>6, <1>9, <2>3, UpdateWalk DEF UpdateLastMessage
  <2> QED BY <2>1, <2>2, <2>3
<1>10. ASSUME NEW kind \in {"system", "media"}, PushOther(kind) PROVE StoreStep
  <2>1. PICK t \in Texts : Add(NewBubble(kind, FALSE, t))
    BY <1>2, <1>10 DEF PushOther
  <2>2. Grows
    BY <2>1 DEF Grows, Kinds
  <2>3. StoreNext
    BY <2>1 DEF StoreNext, Kinds
  <2> QED BY <2>2, <2>3 DEF StoreStep
<1>11. ASSUME PollVoice PROVE StoreStep
  <2>1. CASE v_state # "busy" \/ v_llm = NoText
    BY <1>11, <2>1 DEF PollVoice, ShowStream, StoreStep, storeVars
  <2>2. CASE v_state = "busy" /\ v_llm # NoText
    <3>1. CASE MergeIndex >= 0
      BY <1>1, <1>2, <1>5, <1>11, <2>2, <3>1, MergeWalk DEF PollVoice, ShowStream
    <3>2. CASE ~(MergeIndex >= 0) /\ s_streaming
      <4>1. UpdateLastText(v_llm) /\ BlindPoll
        BY <1>11, <2>2, <3>2 DEF PollVoice, ShowStream, BlindPoll
      <4>2. v_llm \in Texts \cup {NoText}
        BY <1>1, <1>2
      <4>3. StoreNext
        BY <4>1, <4>2 DEF StoreNext
      <4>4. UNCHANGED store \/ Edits
        <5>1. CASE s_count = 0
          BY <4>1, <5>1 DEF UpdateLastText, storeVars
        <5>2. CASE s_count # 0
          <6>1. s_count - 1 \in 0..s_count - 1
            BY <1>1, <5>2 DEF StoreTypeOK
          <6> QED BY <1>4, <4>1, <4>2, <5>2, <6>1 DEF UpdateLastText
        <5> QED BY <5>1, <5>2
      <4> QED BY <4>3, <4>4 DEF StoreStep
    <3>3. CASE ~(MergeIndex >= 0) /\ ~s_streaming
      BY <1>1, <1>6, <1>11, <2>2, <3>3, MergeWalk DEF PollVoice, ShowStream
    <3> QED BY <3>1, <3>2, <3>3
  <2> QED BY <2>1, <2>2
<1>12. ASSUME Receipt PROVE StoreStep
  <2>1. AttachReceipt
    BY <1>12 DEF Receipt
  <2>2. PICK k \in Replies : Rewrite(k, [Get(k) EXCEPT !.receipt = TRUE])
    BY <2>1 DEF AttachReceipt
  <2>3. k \in 0..s_count - 1 /\ IsReply(Get(k))
    BY DEF Replies
  <2> DEFINE m == [Get(k) EXCEPT !.receipt = TRUE]
  <2>4. m \in Shown /\ m.kind = Get(k).kind /\ m.is_user = Get(k).is_user
    BY <1>3, <2>3 DEF Shown, Bubble
  <2> QED BY <2>1, <2>2, <2>3, <2>4 DEF StoreStep, StoreNext, Edits
<1>13. ASSUME NEW id \in Sessions, SetSession(id) PROVE StoreStep
  BY <1>13 DEF SetSession, StoreStep, StoreNext
<1>14. ASSUME UNCHANGED storeVars PROVE StoreStep
  BY <1>14 DEF StoreStep, storeVars
<1>15. ASSUME Clear PROVE StoreStep
  BY <1>15 DEF Clear, StoreStep, StoreNext
<1>16. ASSUME NEW id \in Sessions, PickSession(id) PROVE StoreStep
  BY <1>13, <1>16 DEF PickSession
<1>17. ASSUME DrawerNew \/ NewChat \/ ChatCreate PROVE StoreStep
  BY <1>2, <1>13, <1>14, <1>15, <1>17 DEF DrawerNew, NewChat, ChatCreate
<1>18. ASSUME ShowChat \/ HideChat \/ TurnStart \/ Token \/ TurnEnd \/ UNCHANGED chatVars
       PROVE  StoreStep
  BY <1>14, <1>18 DEF ShowChat, HideChat, TurnStart, Token, TurnEnd, chatVars
<1> QED
  BY <1>7, <1>8, <1>9, <1>10, <1>11, <1>12, <1>16, <1>17, <1>18 DEF ChatNext

(* ---- types, and the store under the overlay ------------------------------*)

LEMMA ChatTypeStep ==
  ASSUME ChatTypeOK, StoreTypeOK', [ChatNext]_chatVars
  PROVE  ChatTypeOK'
<1> USE DEF ChatTypeOK, poll, voice, VoiceStates
<1>1. ASSUME NEW t, PushUser(t) \/ PushAssistant(t) \/ UpdateLastMessage(t) \/ PushOther(t)
      PROVE  ChatTypeOK'
  BY <1>1 DEF PushUser, PushAssistant, UpdateLastMessage, PushOther
<1>2. ASSUME PollVoice PROVE ChatTypeOK'
  BY <1>2 DEF PollVoice
<1>3. ASSUME Receipt \/ DrawerNew \/ NewChat \/ ChatCreate \/ ShowChat \/ HideChat
      PROVE  ChatTypeOK'
  BY <1>3 DEF Receipt, DrawerNew, NewChat, ChatCreate, ShowChat, HideChat
<1>4. ASSUME NEW id, PickSession(id) PROVE ChatTypeOK'
  BY <1>4 DEF PickSession
<1>5. ASSUME TurnStart \/ Token \/ TurnEnd PROVE ChatTypeOK'
  BY <1>5 DEF TurnStart, Token, TurnEnd
<1>6. ASSUME UNCHANGED chatVars PROVE ChatTypeOK'
  BY <1>6 DEF chatVars
<1> QED BY <1>1, <1>2, <1>3, <1>4, <1>5, <1>6 DEF ChatNext

ChatInv == ChatTypeOK /\ ByAge

LEMMA ChatInvStep ==
  ASSUME ChatInv, [ChatNext]_chatVars
  PROVE  ChatInv'
<1>1. StoreTypeOK /\ [StoreNext]_storeVars
  BY StepKind DEF ChatInv, ChatTypeOK, StoreStep
<1>2. StoreTypeOK' /\ ByAge'
  BY <1>1, StoreTypeStep, WindowStep DEF ChatInv
<1> QED BY <1>2, ChatTypeStep DEF ChatInv

LEMMA ChatStart == ChatInit => ChatInv /\ StoreInit
<1> SUFFICES ASSUME ChatInit PROVE ChatInv
  BY DEF ChatInit
<1>1. StoreTypeOK
  BY MaxMessagesAssumption DEF ChatInit, StoreInit, StoreTypeOK, Slots, Zeroed, Bubble, Kinds
<1>2. ByAge
  BY WindowInit DEF ChatInit
<1> QED BY <1>1, <1>2 DEF ChatInit, ChatInv, ChatTypeOK, VoiceStates

\* ui_chat.c: the flags of the poll, the overlay's state and the polled voice
\* state stay well formed with the ring.
THEOREM ChatTypeSafe == ChatSpec => []ChatTypeOK
<1>1. ChatInit => ChatInv
  BY ChatStart
<1>2. ChatInv /\ [ChatNext]_chatVars => ChatInv'
  BY ChatInvStep
<1>3. ChatInv => ChatTypeOK
  BY DEF ChatInv
<1> QED BY <1>1, <1>2, <1>3, PTL DEF ChatSpec

\* ui_chat.c writes to the store in no other way than chat_msg_store.h offers,
\* the writes through get_mut included.
THEOREM OverlayUsesStore == ChatSpec => UsesStore
<1>1. ChatInit => ChatInv /\ StoreInit
  BY ChatStart
<1>2. ChatInv /\ [ChatNext]_chatVars => ChatInv'
  BY ChatInvStep
<1>3. ChatInv /\ [ChatNext]_chatVars => [StoreNext]_storeVars
  BY StepKind DEF ChatInv, StoreStep
<1> QED BY <1>1, <1>2, <1>3, PTL DEF ChatSpec, UsesStore, StoreSpec
\* So all that is proved of the store holds of the transcript on screen: it is a
\* bounded log, whose cleared slots are blank, whose receipts are under replies
\* and whose bubbles are of one session.
THEOREM StoreUnderOverlay ==
  ChatSpec => ImplementsLog /\ [](OnlyWindowIsActive /\ ReceiptsUnderReplies /\ OneSessionShown)
BY OverlayUsesStore, RingImplementsLog, OnlyWindowSafe, ReceiptsSafe, OneSessionSafe, PTL
   DEF UsesStore

(* ---- one bubble per reply, in a log ----------------------------------------*)

Apart(d) == d > MergeWindow \/ d > UpdateWindow

SystemBetween(log, i, k) == \A j \in 1..Len(log) : i < j /\ j < k => IsSystem(log[j])

SplitFree(log) ==
  \A i, k \in 1..Len(log) :
    (i < k /\ IsReply(log[i]) /\ IsReply(log[k]) /\ SystemBetween(log, i, k)) => Apart(k - i)

\* A reply may go to the end of the log without splitting another.
RoomAtEnd(log) ==
  \A i \in 1..Len(log) :
    IsReply(log[i]) /\ SystemBetween(log, i, Len(log) + 1) => Apart(Len(log) + 1 - i)

LEMMA AppendKeepsFree ==
  ASSUME NEW log \in Seq(Shown), NEW m \in Shown, SplitFree(log), IsReply(m) => RoomAtEnd(log)
  PROVE  SplitFree(Append(log, m))
<1> DEFINE n == Len(log)
           new == Append(log, m)
<1>1. /\ n \in Nat /\ Len(new) = n + 1 /\ new[n + 1] = m
      /\ \A i \in 1..n : new[i] = log[i]
  BY AppendProperties, LenProperties
<1> SUFFICES ASSUME NEW i \in 1..n + 1, NEW k \in 1..n + 1, i < k, IsReply(new[i]),
                    IsReply(new[k]), SystemBetween(new, i, k)
             PROVE  Apart(k - i)
  BY <1>1 DEF SplitFree
<1>2. i \in 1..n /\ IsReply(log[i])
  BY <1>1
<1>3. SystemBetween(log, i, k)
  BY <1>1 DEF SystemBetween
<1>4. CASE k = n + 1
  <2>1. IsReply(m)
    BY <1>1, <1>4
  <2> QED BY <1>2, <1>3, <1>4, <2>1 DEF RoomAtEnd
<1>5. CASE k # n + 1
  <2>1. k \in 1..n /\ IsReply(log[k])
    BY <1>1, <1>5
  <2> QED BY <1>2, <1>3, <2>1 DEF SplitFree
<1> QED BY <1>4, <1>5

\* Eviction moves every bubble by one place and brings none closer.
LEMMA TailKeepsFree ==
  ASSUME NEW log \in Seq(Shown), log # <<>>
  PROVE  /\ SplitFree(log) => SplitFree(Tail(log))
         /\ RoomAtEnd(log) => RoomAtEnd(Tail(log))
<1> DEFINE n == Len(log)
           new == Tail(log)
<1>1. /\ n \in Nat \ {0} /\ Len(new) = n - 1
      /\ \A i \in 1..n - 1 : new[i] = log[i + 1]
  BY HeadTailProperties, LenProperties, EmptySeq
<1>2. ASSUME NEW i \in 1..n - 1, NEW k \in 1..n, SystemBetween(new, i, k)
      PROVE  SystemBetween(log, i + 1, k + 1)
  <2> SUFFICES ASSUME NEW j \in 1..n, i + 1 < j, j < k + 1 PROVE IsSystem(log[j])
    BY DEF SystemBetween
  <2>1. PICK h \in 1..n - 1 : h = j - 1
    BY <1>1
  <2>2. IsSystem(new[h])
    BY <1>1, <1>2, <2>1 DEF SystemBetween
  <2>3. new[h] = log[j]
    BY <1>1, <2>1
  <2> QED BY <2>2, <2>3
<1>3. ASSUME SplitFree(log), NEW i \in 1..n - 1, NEW k \in 1..n - 1, i < k, IsReply(new[i]),
             IsReply(new[k]), SystemBetween(new, i, k)
      PROVE  Apart(k - i)
  <2>1. i + 1 \in 1..n /\ k + 1 \in 1..n /\ i + 1 < k + 1 /\ k + 1 - (i + 1) = k - i
    BY <1>1, <1>3
  <2>2. IsReply(log[i + 1]) /\ IsReply(log[k + 1])
    BY <1>1, <1>3
  <2>3. SystemBetween(log, i + 1, k + 1)
    BY <1>1, <1>2, <1>3
  <2>4. Apart(k + 1 - (i + 1))
    BY <1>3, <2>1, <2>2, <2>3 DEF SplitFree
  <2> QED BY <2>1, <2>4
<1>4. ASSUME RoomAtEnd(log), NEW i \in 1..n - 1, IsReply(new[i]), SystemBetween(new, i, n)
      PROVE  Apart(n - i)
  <2>1. i + 1 \in 1..n /\ n + 1 - (i + 1) = n - i
    <3> HIDE DEF n, new
    <3> QED BY <1>1
  <2>2. IsReply(log[i + 1])
    BY <1>1, <1>4
  <2>3. SystemBetween(log, i + 1, n + 1)
    BY <1>1, <1>2, <1>4
  <2>4. Apart(n + 1 - (i + 1))
    BY <1>4, <2>1, <2>2, <2>3 DEF RoomAtEnd
  <2> QED BY <2>1, <2>4
<1>5. Len(new) + 1 = n
  BY <1>1
<1>6. SplitFree(log) => SplitFree(new)
  <2> HIDE DEF new, n
  <2> QED BY <1>1, <1>3 DEF SplitFree
<1>7. RoomAtEnd(log) => RoomAtEnd(new)
  <2> HIDE DEF new, n
  <2> QED BY <1>1, <1>4, <1>5 DEF RoomAtEnd
<1> QED BY <1>6, <1>7

LEMMA PopKeepsFree ==
  ASSUME NEW log \in Seq(Shown), log # <<>>, SplitFree(log)
  PROVE  SplitFree(SubSeq(log, 1, Len(log) - 1))
<1> DEFINE n == Len(log)
           new == SubSeq(log, 1, n - 1)
<1>1. n \in Nat \ {0}
  BY LenProperties, EmptySeq
<1>2. \A i \in 1..n - 1 : log[i] \in Shown
  BY <1>1, ElementOfSeq
<1>3. Len(new) = n - 1 /\ \A i \in 1..n - 1 : new[i] = log[i]
  <2> HIDE DEF n
  <2> QED BY <1>1, <1>2, SubSeqProperties
<1> SUFFICES ASSUME NEW i \in 1..n - 1, NEW k \in 1..n - 1, i < k, IsReply(new[i]),
                    IsReply(new[k]), SystemBetween(new, i, k)
             PROVE  Apart(k - i)
  BY <1>3 DEF SplitFree
<1>4. SystemBetween(log, i, k)
  BY <1>1, <1>3 DEF SystemBetween
<1> QED BY <1>1, <1>3, <1>4 DEF SplitFree

\* What may follow a bubble depends on its kind and its author only.
LEMMA EditKeepsFree ==
  ASSUME NEW log \in Seq(Shown), NEW at \in 1..Len(log), NEW m \in Shown,
         m.kind = log[at].kind, m.is_user = log[at].is_user, SplitFree(log)
  PROVE  SplitFree([log EXCEPT ![at] = m])
<1> DEFINE n == Len(log)
           new == [log EXCEPT ![at] = m]
<1>1. Len(new) = n /\ \A i \in 1..n : new[i] = IF i = at THEN m ELSE log[i]
  BY ExceptSeq
<1>2. \A i \in 1..n : /\ IsReply(new[i]) <=> IsReply(log[i])
                      /\ IsSystem(new[i]) <=> IsSystem(log[i])
  BY <1>1 DEF IsReply, IsSystem
<1> HIDE DEF new
<1>3. \A i, k \in 1..n : SystemBetween(new, i, k) <=> SystemBetween(log, i, k)
  BY <1>1, <1>2 DEF SystemBetween
<1> QED BY <1>1, <1>2, <1>3 DEF SplitFree, new
(* ---- one bubble per reply, on screen ----------------------------------------*)

\* The transcript counts from 1, chat_store_get from 0.
LEMMA SplitInLog ==
  ASSUME StoreTypeOK, Reads
  PROVE  /\ SplitFree(Transcript) <=> RepliesNotSplit
         /\ NoneNear(MergeWindow) \/ NoneNear(UpdateWindow) => RoomAtEnd(Transcript)
<1>1. s_count \in Nat /\ Len(Transcript) = s_count
  BY DEF StoreTypeOK, Reads
<1>2. \A i \in 1..s_count : Transcript[i] = Get(i - 1)
  BY DEF Transcript
<1>3. \A i \in 0..s_count - 1 : Get(i) = Transcript[i + 1] /\ i + 1 \in 1..s_count
  <2> SUFFICES ASSUME NEW i \in 0..s_count - 1 PROVE Get(i) = Transcript[i + 1] /\ i + 1 \in 1..s_count
    OBVIOUS
  <2>1. i + 1 \in 1..s_count /\ i + 1 - 1 = i
    BY <1>1
  <2>2. Transcript[i + 1] = Get(i + 1 - 1)
    BY <1>2, <2>1
  <2> QED BY <2>1, <2>2
<1>4. \A i, k \in Int : SystemBetween(Transcript, i + 1, k + 1) <=> OnlySystemBetween(i, k)
  <2> SUFFICES ASSUME NEW i \in Int, NEW k \in Int
               PROVE  SystemBetween(Transcript, i + 1, k + 1) <=> OnlySystemBetween(i, k)
    OBVIOUS
  <2>1. ASSUME SystemBetween(Transcript, i + 1, k + 1) PROVE OnlySystemBetween(i, k)
    <3> SUFFICES ASSUME NEW j \in 0..s_count - 1, i < j, j < k PROVE IsSystem(Get(j))
      BY DEF OnlySystemBetween
    <3>1. j + 1 \in 1..s_count /\ i + 1 < j + 1 /\ j + 1 < k + 1
      BY <1>1
    <3>2. IsSystem(Transcript[j + 1])
      BY <1>1, <2>1, <3>1 DEF SystemBetween
    <3> QED BY <1>3, <3>2
  <2>2. ASSUME OnlySystemBetween(i, k) PROVE SystemBetween(Transcript, i + 1, k + 1)
    <3> SUFFICES ASSUME NEW j \in 1..s_count, i + 1 < j, j < k + 1 PROVE IsSystem(Transcript[j])
      BY <1>1 DEF SystemBetween
    <3>1. j - 1 \in 0..s_count - 1 /\ i < j - 1 /\ j - 1 < k
      BY <1>1
    <3>2. IsSystem(Get(j - 1))
      BY <2>2, <3>1 DEF OnlySystemBetween
    <3> QED BY <1>2, <3>2
  <2> QED BY <2>1, <2>2
<1>5. ASSUME SplitFree(Transcript), NEW i \in 0..s_count - 1, NEW k \in 0..s_count - 1, i < k,
             IsReply(Get(i)), IsReply(Get(k)), OnlySystemBetween(i, k)
      PROVE  Apart(k - i)
  <2>1. /\ i + 1 \in 1..s_count /\ k + 1 \in 1..s_count /\ i + 1 < k + 1
        /\ k + 1 - (i + 1) = k - i
    BY <1>1, <1>5
  <2>2. IsReply(Transcript[i + 1]) /\ IsReply(Transcript[k + 1])
    BY <1>3, <1>5
  <2>3. SystemBetween(Transcript, i + 1, k + 1)
    BY <1>4, <1>5
  <2>4. Apart(k + 1 - (i + 1))
    BY <1>1, <1>5, <2>1, <2>2, <2>3 DEF SplitFree
  <2> QED BY <2>1, <2>4
<1>6. ASSUME RepliesNotSplit, NEW i \in 1..s_count, NEW k \in 1..s_count, i < k,
             IsReply(Transcript[i]), IsReply(Transcript[k]), SystemBetween(Transcript, i, k)
      PROVE  Apart(k - i)
  <2>1. /\ i - 1 \in 0..s_count - 1 /\ k - 1 \in 0..s_count - 1 /\ i - 1 < k - 1
        /\ i - 1 + 1 = i /\ k - 1 + 1 = k /\ k - 1 - (i - 1) = k - i
    BY <1>1, <1>6
  <2>2. IsReply(Get(i - 1)) /\ IsReply(Get(k - 1))
    BY <1>2, <1>6
  <2>3. OnlySystemBetween(i - 1, k - 1)
    <3>1. i - 1 \in Int /\ k - 1 \in Int
      BY <1>1
    <3>2. SystemBetween(Transcript, i - 1 + 1, k - 1 + 1)
      BY <1>6, <2>1
    <3> QED BY <1>4, <3>1, <3>2
  <2>4. k - 1 - (i - 1) > MergeWindow \/ k - 1 - (i - 1) > UpdateWindow
    BY <1>6, <2>1, <2>2, <2>3 DEF RepliesNotSplit
  <2> QED BY <2>1, <2>4 DEF Apart
<1>7. ASSUME NEW window \in Nat, NoneNear(window), NEW i \in 1..s_count, IsReply(Transcript[i]),
             SystemBetween(Transcript, i, s_count + 1)
      PROVE  s_count + 1 - i > window
  <2> SUFFICES ASSUME s_count + 1 - i <= window PROVE FALSE
    BY <1>1
  <2>1. i - 1 \in 0..s_count - 1 /\ i - 1 >= s_count - window
    BY <1>1
  <2>2. IsReply(Get(i - 1))
    BY <1>2, <1>7
  <2>3. PICK j \in i - 1 + 1..s_count - 1 : ~IsSystem(Get(j))
    BY <1>7, <2>1, <2>2 DEF NoneNear
  <2>4. j \in 0..s_count - 1 /\ j + 1 \in 1..s_count /\ i < j + 1 /\ j + 1 < s_count + 1
    BY <1>1, <2>1
  <2>5. IsSystem(Transcript[j + 1])
    BY <1>1, <1>7, <2>4 DEF SystemBetween
  <2> QED BY <1>3, <2>3, <2>4, <2>5
<1>8. SplitFree(Transcript) => RepliesNotSplit
  BY <1>5 DEF RepliesNotSplit, Apart
<1>9. RepliesNotSplit => SplitFree(Transcript)
  BY <1>1, <1>6 DEF SplitFree
<1>10. NoneNear(MergeWindow) \/ NoneNear(UpdateWindow) => RoomAtEnd(Transcript)
  BY <1>1, <1>7, WindowAssumption DEF RoomAtEnd, Apart
<1> QED BY <1>8, <1>9, <1>10

LogFree == SplitFree(Transcript)

LEMMA SplitStep ==
  ASSUME StoreTypeOK, Reads, Reads', StoreStep, LogFree
  PROVE  LogFree'
<1> USE MaxMessagesAssumption
<1> SUFFICES SplitFree(Transcript')
  BY DEF LogFree
<1>0. SplitFree(Transcript)
  BY DEF LogFree
<1>1. Transcript \in Seq(Shown) /\ Len(Transcript) = s_count /\ s_count \in 0..MaxMessages
  BY DEF Reads, StoreTypeOK
<1>2. CASE UNCHANGED store
  <2>1. Transcript' = Transcript
    BY <1>2 DEF store, Transcript, Get, LogicalToReal, RingStart
  <2> QED BY <1>0, <2>1
<1>3. CASE Grows
  <2>1. PICK kind \in Kinds, u \in BOOLEAN, t \in Texts \cup {NoText} :
          /\ Add(NewBubble(kind, u, t))
          /\ kind = "text" /\ ~u => RoomAtEnd(Transcript)
    BY <1>3, SplitInLog DEF Grows
  <2> DEFINE m == NewBubble(kind, u, t)
             old == IF s_count < MaxMessages THEN Transcript ELSE Tail(Transcript)
  <2>2. m \in Shown /\ (IsReply(m) => RoomAtEnd(Transcript))
    BY <2>1 DEF NewBubble, Shown, Bubble, StoreTypeOK, IsReply
  <2>3. Transcript' = Append(old, m)
    BY <2>1, <2>2, AddAppends
  <2>4. old \in Seq(Shown) /\ SplitFree(old) /\ (RoomAtEnd(Transcript) => RoomAtEnd(old))
    <3>1. CASE s_count < MaxMessages
      BY <1>0, <1>1, <3>1
    <3>2. CASE ~(s_count < MaxMessages)
      <4>1. Transcript # <<>>
        BY <1>1, <3>2, EmptySeq
      <4>2. Tail(Transcript) \in Seq(Shown)
        BY <1>1, <4>1, HeadTailProperties
      <4> QED BY <1>0, <1>1, <3>2, <4>1, <4>2, TailKeepsFree
    <3> QED BY <3>1, <3>2
  <2>5. SplitFree(Append(old, m))
    <3> HIDE DEF old, m
    <3> QED BY <2>2, <2>4, AppendKeepsFree
  <2> QED BY <2>3, <2>5
<1>4. CASE Edits
  <2>1. PICK k \in 0..s_count - 1, m \in Shown :
          Rewrite(k, m) /\ m.kind = Get(k).kind /\ m.is_user = Get(k).is_user
    BY <1>4 DEF Edits
  <2>2. PICK at \in 1..s_count : at = k + 1
    BY <1>1
  <2>3. Transcript' = [Transcript EXCEPT ![at] = m]
    BY <2>1, <2>2, RewriteEdits
  <2>4. Transcript[at] = Get(k)
    <3>1. Transcript[at] = Get(at - 1) /\ at - 1 = k
      BY <2>2 DEF Transcript
    <3> QED BY <3>1
  <2> QED BY <1>0, <1>1, <2>1, <2>3, <2>4, EditKeepsFree
<1>5. CASE PopLast
  <2>1. Transcript # <<>> /\ Transcript' = SubSeq(Transcript, 1, Len(Transcript) - 1)
    BY <1>5, PopDrops DEF Log!DropNewest
  <2> QED BY <1>0, <1>1, <2>1, PopKeepsFree
<1>6. CASE Wipe
  <2>1. Transcript' = <<>>
    BY <1>6, WipeEmpties DEF Log!Empty
  <2> QED BY <2>1 DEF SplitFree
<1> QED BY <1>2, <1>3, <1>4, <1>5, <1>6 DEF StoreStep

\* poll_voice, async_push_msg_cb and async_update_last_cb race for the bubble of
\* the reply and never show it twice within the shorter of their two windows (#129).
THEOREM RepliesNotSplitSafe == ChatSpec => []RepliesNotSplit
<1>1. ChatInit => ChatInv
  BY ChatStart
<1>2. ChatInit => RepliesNotSplit
  BY DEF ChatInit, StoreInit, RepliesNotSplit
<1>3. ChatInv /\ [ChatNext]_chatVars => ChatInv'
  BY ChatInvStep
<1>4. ChatInv => StoreTypeOK /\ Reads
  BY TranscriptReads DEF ChatInv, ChatTypeOK
<1>5. StoreTypeOK /\ Reads => (LogFree <=> RepliesNotSplit)
  BY SplitInLog DEF LogFree
<1>6. ChatInv /\ [ChatNext]_chatVars => StoreStep
  BY StepKind DEF ChatInv
<1>7. StoreTypeOK /\ Reads /\ Reads' /\ StoreStep /\ LogFree => LogFree'
  BY SplitStep
<1> QED BY <1>1, <1>2, <1>3, <1>4, <1>5, <1>6, <1>7, PTL DEF ChatSpec

(* ---- questions ---------------------------------------------------------------*)

\* Two slots or more: adding and popping always move s_write_idx.
LEMMA IdxAlwaysMoves ==
  ASSUME MaxMessages # 1, NEW w \in Slots
  PROVE  NextIdx(w) # w /\ PrevIdx(w) # w
BY MaxMessagesAssumption DEF Slots, NextIdx, PrevIdx

LEMMA SparesStep ==
  ASSUME MaxMessages # 1, ChatInv, StoreStep, NEW i \in Slots,
         IsUserText(s_msgs[i]), s_msgs'[i].active, s_write_idx' = s_write_idx
  PROVE  s_msgs'[i] = s_msgs[i] \/ BlindPoll
<1> USE MaxMessagesAssumption
<1>1. StoreTypeOK /\ s_write_idx \in Slots /\ s_msgs \in [Slots -> Bubble]
  BY DEF ChatInv, ChatTypeOK, StoreTypeOK
<1>2. CASE UNCHANGED store
  BY <1>2 DEF store
<1>3. ~Grows /\ ~PopLast
  BY <1>1, IdxMoves, IdxAlwaysMoves DEF Grows, Add, PopLast
<1>4. CASE Edits
  <2>1. PICK k \in 0..s_count - 1, m \in Shown :
          Rewrite(k, m) /\ (IsReply(Get(k)) \/ BlindPoll)
    BY <1>4 DEF Edits
  <2>2. LogicalToReal(k) = i => ~IsReply(Get(k))
    BY DEF Get, IsReply, IsUserText
  <2>3. s_msgs' = [s_msgs EXCEPT ![LogicalToReal(k)] = m]
    BY <2>1 DEF Rewrite
  <2> QED BY <1>1, <2>1, <2>2, <2>3
<1>5. CASE Wipe
  BY <1>5 DEF Wipe, Zeroed
<1> QED BY <1>2, <1>3, <1>4, <1>5 DEF StoreStep

\* W1-E: neither a delta, a final text nor a receipt ever lands in the user's
\* question, but for a poll that believes it is streaming and no longer is
\* (ui_chat.c:521 writes the reply over the question then).  A ring of one slot has
\* no place beside the question, and the code's has a hundred.
THEOREM AsyncTextSparesUserSafe ==
  ASSUME MaxMessages # 1
  PROVE  ChatSpec => AsyncTextSparesUser
<1>1. ChatInit => ChatInv
  BY ChatStart
<1>2. ChatInv /\ [ChatNext]_chatVars => ChatInv'
  BY ChatInvStep
<1>3. ChatInv /\ [ChatNext]_chatVars =>
        [\A i \in Slots :
           (IsUserText(s_msgs[i]) /\ s_msgs'[i].active /\ s_write_idx' = s_write_idx)
             => \/ s_msgs'[i] = s_msgs[i]
                \/ overlay = "shown" /\ v_state = "busy" /\ s_streaming]_chatVars
  BY StepKind, SparesStep DEF ChatInv, BlindPoll
<1> QED BY <1>1, <1>2, <1>3, PTL DEF ChatSpec, AsyncTextSparesUser
=============================================================================
