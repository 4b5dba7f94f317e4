-------------------------- MODULE ChatStoreProofs --------------------------
(* Proofs about main/chat_msg_store.c for every ring size, session and text.*)
EXTENDS ChatStore, SequenceTheorems, TLAPS

\* Every index the code computes modulo BSP_CHAT_MAX_MESSAGES is a slot.
LEMMA ModInSlots == \A x \in Int : x % MaxMessages \in Slots
BY MaxMessagesAssumption DEF Slots

LEMMA StoreTypeStep ==
  ASSUME StoreTypeOK, [StoreNext]_storeVars
  PROVE  StoreTypeOK'
<1> USE MaxMessagesAssumption
<1>0. /\ \A k \in Int : LogicalToReal(k) \in Slots
      /\ RingStart \in Slots
  <2>1. s_write_idx \in Int /\ s_count \in Int /\ MaxMessages \in Int
    BY DEF StoreTypeOK, Slots
  <2>2. RingStart \in Slots
    BY <2>1, ModInSlots DEF RingStart
  <2>3. RingStart \in Int
    BY <2>2 DEF Slots
  <2> QED BY <2>2, <2>3, ModInSlots DEF LogicalToReal
<1>1. ASSUME NEW kind \in Kinds, NEW u \in BOOLEAN, NEW t \in Texts \cup {NoText},
             Add(NewBubble(kind, u, t))
      PROVE  StoreTypeOK'
  <2>1. NewBubble(kind, u, t) \in Bubble
    BY DEF NewBubble, Bubble, StoreTypeOK
  <2>2. (s_write_idx + 1) % MaxMessages \in Slots
    <3>1. s_write_idx + 1 \in Int
      BY DEF StoreTypeOK, Slots
    <3> QED BY <3>1, ModInSlots
  <2> QED BY <1>1, <2>1, <2>2 DEF Add, StoreTypeOK
<1>2. ASSUME NEW k \in 0..s_count - 1, NEW t \in Texts \cup {NoText}, SetText(k, t)
      PROVE  StoreTypeOK'
  <2>1. LogicalToReal(k) \in Slots
    BY <1>0
  <2>2. [Get(k) EXCEPT !.text = t] \in Bubble
    BY <2>1 DEF Get, StoreTypeOK, Bubble
  <2> QED BY <1>2, <2>1, <2>2 DEF SetText, Rewrite, StoreTypeOK
<1>3. ASSUME NEW t \in Texts \cup {NoText}, UpdateLastText(t) PROVE StoreTypeOK'
  <2>1. CASE s_count = 0
    BY <1>3, <2>1 DEF UpdateLastText, storeVars, store, StoreTypeOK
  <2>2. CASE s_count # 0
    <3>1. s_count - 1 \in 0..s_count - 1
      BY <2>2 DEF StoreTypeOK
    <3> QED BY <1>3, <1>2, <2>2, <3>1 DEF UpdateLastText
  <2> QED BY <2>1, <2>2
<1>4. ASSUME AttachReceipt PROVE StoreTypeOK'
  <2>1. PICK k \in Replies : Rewrite(k, [Get(k) EXCEPT !.receipt = TRUE])
    BY <1>4 DEF AttachReceipt
  <2>2. LogicalToReal(k) \in Slots
    BY <1>0 DEF Replies
  <2>3. [Get(k) EXCEPT !.receipt = TRUE] \in Bubble
    BY <2>2 DEF Get, StoreTypeOK, Bubble
  <2> QED BY <2>1, <2>2, <2>3 DEF Rewrite, StoreTypeOK
<1>5. Zeroed \in Bubble
  BY DEF Zeroed, Bubble, Kinds
<1>6. ASSUME PopLast PROVE StoreTypeOK'
  <2>1. (s_write_idx - 1 + MaxMessages) % MaxMessages \in Slots
    <3>1. s_write_idx - 1 + MaxMessages \in Int
      BY DEF StoreTypeOK, Slots
    <3> QED BY <3>1, ModInSlots
  <2> QED BY <1>5, <1>6, <2>1 DEF PopLast, StoreTypeOK
<1>7. ASSUME Wipe, session' \in Sessions \cup {NoSession} PROVE StoreTypeOK'
  BY <1>5, <1>7 DEF Wipe, StoreTypeOK, Slots
<1>8. CASE UNCHANGED storeVars
  BY <1>8 DEF storeVars, store, StoreTypeOK
<1>9. ASSUME NEW id \in Sessions, SetSession(id) PROVE StoreTypeOK'
  BY <1>7, <1>9 DEF SetSession, store, StoreTypeOK
<1>10. CASE Clear
  BY <1>7, <1>10 DEF Clear, StoreTypeOK
<1>11. CASE DropSession
  BY <1>7, <1>11 DEF DropSession
<1>12. ASSUME NEW k \in Replies PROVE k \in 0..s_count - 1
  BY DEF Replies
<1> QED
  BY <1>1, <1>2, <1>3, <1>4, <1>6, <1>8, <1>9, <1>10, <1>11, <1>12
  DEF StoreNext, Kinds

\* chat_store_*: every operation keeps the counters inside the ring and the
\* slots well formed.
THEOREM StoreTypeSafe == StoreSpec => []StoreTypeOK
<1>1. StoreInit => StoreTypeOK
  BY MaxMessagesAssumption DEF StoreInit, StoreTypeOK, Slots, Zeroed, Bubble, Kinds
<1>2. StoreTypeOK /\ [StoreNext]_storeVars => StoreTypeOK'
  BY StoreTypeStep
<1> QED BY <1>1, <1>2, PTL DEF StoreSpec

(* ---- index arithmetic --------------------------------------------------*)

\* The remainder of an index that is at most one turn ahead of the ring.
LEMMA ModOnce ==
  ASSUME NEW x \in 0..2 * MaxMessages - 1
  PROVE  x % MaxMessages = IF x < MaxMessages THEN x ELSE x - MaxMessages
<1>1. CASE x \in 0..MaxMessages - 1
  BY <1>1, MaxMessagesAssumption
<1>2. CASE x \in MaxMessages..2 * MaxMessages - 1
  BY <1>2, MaxMessagesAssumption
<1> QED BY <1>1, <1>2, MaxMessagesAssumption

\* The slot of the a-th newest bubble (1 = newest) when w is written next.
Aged(w, a) == IF w < a THEN w - a + MaxMessages ELSE w - a

\* chat_msg_store.c counts from the oldest bubble: that is a slot by age.
LEMMA RealIsAged ==
  ASSUME NEW w \in Slots, NEW c \in 0..MaxMessages, NEW k \in 0..c - 1
  PROVE  (((w - c + MaxMessages) % MaxMessages) + k) % MaxMessages = Aged(w, c - k)
<1>1. PICK r \in Int : r = (w - c + MaxMessages) % MaxMessages
  BY ModInSlots, MaxMessagesAssumption DEF Slots
<1>2. r = IF w < c THEN w - c + MaxMessages ELSE w - c
  <2>1. w - c + MaxMessages \in 0..2 * MaxMessages - 1
    BY MaxMessagesAssumption DEF Slots
  <2> QED BY <1>1, <2>1, ModOnce, MaxMessagesAssumption DEF Slots
<1>3. PICK x \in 0..2 * MaxMessages - 1 : x = r + k
  BY <1>2, MaxMessagesAssumption DEF Slots
<1>4. x % MaxMessages = IF x < MaxMessages THEN x ELSE x - MaxMessages
  BY ModOnce
<1>5. (IF x < MaxMessages THEN x ELSE x - MaxMessages) = Aged(w, c - k)
  BY <1>2, <1>3, MaxMessagesAssumption DEF Slots, Aged
<1> QED BY <1>1, <1>3, <1>4, <1>5

LEMMA RealIsSlot ==
  ASSUME StoreTypeOK, NEW k \in Int
  PROVE  LogicalToReal(k) \in Slots
<1>1. RingStart \in Int
  <2>1. s_write_idx - s_count + MaxMessages \in Int
    BY MaxMessagesAssumption DEF StoreTypeOK, Slots
  <2> QED BY <2>1, ModInSlots DEF RingStart, Slots
<1> QED BY <1>1, ModInSlots DEF LogicalToReal

\* chat_store_set_session, chat_store_add: under every session the store holds
\* bubbles of that session and of none, however it was entered.
THEOREM OneSessionSafe == StoreSpec => []OneSessionShown
<1>1. StoreInit => OneSessionShown
  BY DEF StoreInit, OneSessionShown, Zeroed
<1>2. StoreTypeOK /\ OneSessionShown /\ [StoreNext]_storeVars => OneSessionShown'
  <2> SUFFICES ASSUME StoreTypeOK, OneSessionShown, [StoreNext]_storeVars
               PROVE  OneSessionShown'
    OBVIOUS
  <2> USE MaxMessagesAssumption
  <2>1. \A k \in 0..s_count - 1 : LogicalToReal(k) \in Slots
    BY RealIsSlot
  <2>2. ASSUME NEW kind, NEW u, NEW t, Add(NewBubble(kind, u, t)) PROVE OneSessionShown'
    BY <2>2 DEF Add, NewBubble, OneSessionShown, StoreTypeOK
  <2>3. ASSUME NEW k \in 0..s_count - 1, NEW m, m.from = Get(k).from, Rewrite(k, m)
        PROVE  OneSessionShown'
    BY <2>1, <2>3 DEF Rewrite, Get, OneSessionShown, StoreTypeOK
  <2>4. ASSUME NEW k \in 0..s_count - 1, NEW t, SetText(k, t) PROVE OneSessionShown'
    <3>1. [Get(k) EXCEPT !.text = t].from = Get(k).from
      BY <2>1 DEF Get, StoreTypeOK, Bubble
    <3> QED BY <2>3, <2>4, <3>1 DEF SetText
  <2>5. ASSUME NEW t, UpdateLastText(t) PROVE OneSessionShown'
    <3>1. s_count # 0 => s_count - 1 \in 0..s_count - 1
      BY DEF StoreTypeOK
    <3> QED BY <2>4, <2>5, <3>1 DEF UpdateLastText, storeVars, store, OneSessionShown
  <2>6. ASSUME AttachReceipt PROVE OneSessionShown'
    <3>1. PICK k \in 0..s_count - 1 : Rewrite(k, [Get(k) EXCEPT !.receipt = TRUE])
      BY <2>6 DEF AttachReceipt, Replies
    <3>2. [Get(k) EXCEPT !.receipt = TRUE].from = Get(k).from
      BY <2>1 DEF Get, StoreTypeOK, Bubble
    <3> QED BY <2>3, <3>1, <3>2
  <2>7. ASSUME PopLast PROVE OneSessionShown'
    BY <2>7 DEF PopLast, OneSessionShown, StoreTypeOK, Zeroed
  <2>8. ASSUME Wipe PROVE OneSessionShown'
    BY <2>8 DEF Wipe, OneSessionShown, Zeroed
  <2>9. ASSUME NEW id \in Sessions, SetSession(id) PROVE OneSessionShown'
    BY <2>8, <2>9 DEF SetSession, store, OneSessionShown
  <2>10. CASE UNCHANGED storeVars
    BY <2>10 DEF storeVars, store, OneSessionShown
  <2> QED
    BY <2>2, <2>4, <2>5, <2>6, <2>7, <2>8, <2>9, <2>10
    DEF StoreNext, Clear, DropSession, Replies
<1> QED BY <1>1, <1>2, StoreTypeSafe, PTL DEF StoreSpec

\* chat_store_attach_receipt_ex: a receipt is never found under the user's words,
\* a card or a cleared slot.
THEOREM ReceiptsSafe == StoreSpec => []ReceiptsUnderReplies
<1>1. StoreInit => ReceiptsUnderReplies
  BY DEF StoreInit, ReceiptsUnderReplies, Zeroed
<1>2. StoreTypeOK /\ ReceiptsUnderReplies /\ [StoreNext]_storeVars => ReceiptsUnderReplies'
  <2> SUFFICES ASSUME StoreTypeOK, ReceiptsUnderReplies, [StoreNext]_storeVars
               PROVE  ReceiptsUnderReplies'
    OBVIOUS
  <2> USE MaxMessagesAssumption
  <2>1. \A k \in 0..s_count - 1 : LogicalToReal(k) \in Slots
    BY RealIsSlot
  <2>2. ASSUME NEW kind, NEW u, NEW t, Add(NewBubble(kind, u, t)) PROVE ReceiptsUnderReplies'
    BY <2>2 DEF Add, NewBubble, ReceiptsUnderReplies, StoreTypeOK, IsReply
  <2>3. ASSUME NEW k \in 0..s_count - 1, NEW m, m.receipt => IsReply(m), Rewrite(k, m)
        PROVE  ReceiptsUnderReplies'
    BY <2>1, <2>3 DEF Rewrite, ReceiptsUnderReplies, StoreTypeOK
  <2>4. ASSUME NEW k \in 0..s_count - 1, NEW t, SetText(k, t) PROVE ReceiptsUnderReplies'
    <3> DEFINE m == [Get(k) EXCEPT !.text = t]
    <3>1. m.receipt = Get(k).receipt /\ m.kind = Get(k).kind /\ m.is_user = Get(k).is_user
      BY <2>1 DEF Get, StoreTypeOK, Bubble
    <3>2. m.receipt => IsReply(m)
      BY <2>1, <3>1 DEF ReceiptsUnderReplies, IsReply, Get
    <3> QED BY <2>3, <2>4, <3>2 DEF SetText
  <2>5. ASSUME NEW t, UpdateLastText(t) PROVE ReceiptsUnderReplies'
    <3>1. s_count # 0 => s_count - 1 \in 0..s_count - 1
      BY DEF StoreTypeOK
    <3> QED BY <2>4, <2>5, <3>1 DEF UpdateLastText, storeVars, store, ReceiptsUnderReplies
  <2>6. ASSUME AttachReceipt PROVE ReceiptsUnderReplies'
    <3>1. PICK k \in Replies : Rewrite(k, [Get(k) EXCEPT !.receipt = TRUE])
      BY <2>6 DEF AttachReceipt
    <3>2. k \in 0..s_count - 1 /\ IsReply(Get(k))
      BY DEF Replies
    <3>3. IsReply([Get(k) EXCEPT !.receipt = TRUE])
      BY <2>1, <3>2 DEF Get, StoreTypeOK, Bubble, IsReply
    <3> QED BY <2>3, <3>1, <3>2, <3>3
  <2>7. ASSUME PopLast PROVE ReceiptsUnderReplies'
    BY <2>7 DEF PopLast, ReceiptsUnderReplies, StoreTypeOK, Zeroed
  <2>8. ASSUME Wipe PROVE ReceiptsUnderReplies'
    BY <2>8 DEF Wipe, ReceiptsUnderReplies, Zeroed
  <2>9. ASSUME NEW id \in Sessions, SetSession(id) PROVE ReceiptsUnderReplies'
    BY <2>8, <2>9 DEF SetSession, store, ReceiptsUnderReplies
  <2>10. CASE UNCHANGED storeVars
    BY <2>10 DEF storeVars, store, ReceiptsUnderReplies
  <2> QED
    BY <2>2, <2>4, <2>5, <2>6, <2>7, <2>8, <2>9, <2>10
    DEF StoreNext, Clear, DropSession, Replies
<1> QED BY <1>1, <1>2, StoreTypeSafe, PTL DEF StoreSpec

(* ---- the window --------------------------------------------------------*)

\* A slot is in the window when the bubble in it is not older than the count.
Age(w, i) == IF i < w THEN w - i ELSE w - i + MaxMessages

LEMMA AgeOfAged ==
  ASSUME NEW w \in Slots, NEW a \in 1..MaxMessages
  PROVE  Aged(w, a) \in Slots /\ Age(w, Aged(w, a)) = a
BY MaxMessagesAssumption DEF Slots, Aged, Age

LEMMA AgedOfAge ==
  ASSUME NEW w \in Slots, NEW i \in Slots
  PROVE  Age(w, i) \in 1..MaxMessages /\ Aged(w, Age(w, i)) = i
BY MaxMessagesAssumption DEF Slots, Aged, Age

LEMMA WindowIsAged ==
  ASSUME StoreTypeOK
  PROVE  /\ \A k \in 0..s_count - 1 : LogicalToReal(k) = Aged(s_write_idx, s_count - k)
         /\ \A i \in Slots : i \in Window <=> Age(s_write_idx, i) <= s_count
<1> USE MaxMessagesAssumption
<1>1. s_write_idx \in Slots /\ s_count \in 0..MaxMessages
  BY DEF StoreTypeOK
<1>2. \A k \in 0..s_count - 1 : LogicalToReal(k) = Aged(s_write_idx, s_count - k)
  BY <1>1, RealIsAged DEF LogicalToReal, RingStart
<1>3. ASSUME NEW i \in Slots, i \in Window PROVE Age(s_write_idx, i) <= s_count
  <2>1. PICK k \in 0..s_count - 1 : i = Aged(s_write_idx, s_count - k)
    BY <1>2, <1>3 DEF Window
  <2>2. s_count - k \in 1..MaxMessages
    BY <1>1
  <2> QED BY <1>1, <2>1, <2>2, AgeOfAged
<1>4. ASSUME NEW i \in Slots, Age(s_write_idx, i) <= s_count PROVE i \in Window
  <2>1. Age(s_write_idx, i) \in 1..MaxMessages /\ Aged(s_write_idx, Age(s_write_idx, i)) = i
    BY <1>1, AgedOfAge
  <2>2. PICK k \in 0..s_count - 1 : s_count - k = Age(s_write_idx, i)
    <3> DEFINE k == s_count - Age(s_write_idx, i)
    <3>1. k \in 0..s_count - 1 /\ s_count - k = Age(s_write_idx, i)
      BY <1>1, <1>4, <2>1
    <3> QED BY <3>1
  <2> QED BY <1>2, <2>1, <2>2 DEF Window
<1> QED BY <1>2, <1>3, <1>4

\* What the next index does to ages: the new bubble is the youngest, all others
\* are one older, and pop_last takes that back.
NextIdx(w) == IF w = MaxMessages - 1 THEN 0 ELSE w + 1
PrevIdx(w) == IF w = 0 THEN MaxMessages - 1 ELSE w - 1

LEMMA IdxMoves ==
  ASSUME NEW w \in Slots
  PROVE  /\ (w + 1) % MaxMessages = NextIdx(w) /\ NextIdx(w) \in Slots
         /\ (w - 1 + MaxMessages) % MaxMessages = PrevIdx(w) /\ PrevIdx(w) \in Slots
<1> USE MaxMessagesAssumption
<1>1. PICK x \in 0..2 * MaxMessages - 1 : x = w + 1
  BY DEF Slots
<1>2. PICK y \in 0..2 * MaxMessages - 1 : y = w - 1 + MaxMessages
  BY DEF Slots
<1>3. x % MaxMessages = IF x < MaxMessages THEN x ELSE x - MaxMessages
  BY ModOnce
<1>4. y % MaxMessages = IF y < MaxMessages THEN y ELSE y - MaxMessages
  BY ModOnce
<1>5. (IF x < MaxMessages THEN x ELSE x - MaxMessages) = NextIdx(w)
  BY <1>1 DEF Slots, NextIdx
<1>6. (IF y < MaxMessages THEN y ELSE y - MaxMessages) = PrevIdx(w)
  BY <1>2 DEF Slots, PrevIdx
<1>7. NextIdx(w) \in Slots /\ PrevIdx(w) \in Slots
  BY DEF Slots, NextIdx, PrevIdx
<1> QED BY <1>1, <1>2, <1>3, <1>4, <1>5, <1>6, <1>7

LEMMA AgeMoves ==
  ASSUME NEW w \in Slots, NEW i \in Slots
  PROVE  /\ Age(NextIdx(w), i) = IF i = w THEN 1 ELSE Age(w, i) + 1
         /\ Age(PrevIdx(w), i) = IF i = PrevIdx(w) THEN MaxMessages ELSE Age(w, i) - 1
         /\ Age(w, i) = MaxMessages <=> i = w
         /\ Age(w, i) = 1 <=> i = PrevIdx(w)
BY MaxMessagesAssumption DEF Slots, Age, NextIdx, PrevIdx

\* The window by ages, in both states of a step.
Inside(w, c, i) == Age(w, i) <= c
ByAge == \A i \in Slots : IF Inside(s_write_idx, s_count, i) THEN s_msgs[i].active
                          ELSE s_msgs[i] = Zeroed

LEMMA OnlyWindowByAge == StoreTypeOK => (OnlyWindowIsActive <=> ByAge)
BY WindowIsAged DEF OnlyWindowIsActive, ByAge, Inside

\* A write through get_mut goes to a bubble of the window.
LEMMA RewriteInside ==
  ASSUME StoreTypeOK, NEW k \in 0..s_count - 1
  PROVE  /\ LogicalToReal(k) \in Slots
         /\ Inside(s_write_idx, s_count, LogicalToReal(k))
         /\ ByAge => Get(k).active
<1> USE MaxMessagesAssumption
<1>1. s_count - k \in 1..MaxMessages /\ s_count - k <= s_count /\ s_write_idx \in Slots
  BY DEF StoreTypeOK
<1>2. LogicalToReal(k) = Aged(s_write_idx, s_count - k)
  BY WindowIsAged
<1>3. LogicalToReal(k) \in Slots /\ Age(s_write_idx, LogicalToReal(k)) = s_count - k
  BY <1>1, <1>2, AgeOfAged
<1> QED BY <1>1, <1>3 DEF Inside, ByAge, Get

LEMMA WindowStep ==
  ASSUME StoreTypeOK, ByAge, [StoreNext]_storeVars
  PROVE  ByAge'
<1> USE MaxMessagesAssumption
<1>1. /\ s_write_idx \in Slots /\ s_count \in 0..MaxMessages
      /\ s_msgs \in [Slots -> Bubble]
  BY DEF StoreTypeOK
<1>2. ASSUME NEW kind, NEW u, NEW t, Add(NewBubble(kind, u, t)) PROVE ByAge'
  <2>1. /\ s_write_idx' = NextIdx(s_write_idx)
        /\ s_count' = IF s_count < MaxMessages THEN s_count + 1 ELSE s_count
        /\ s_msgs' = [s_msgs EXCEPT ![s_write_idx] = NewBubble(kind, u, t)]
    BY <1>1, <1>2, IdxMoves DEF Add
  <2>2. NewBubble(kind, u, t).active
    BY DEF NewBubble
  <2> SUFFICES ASSUME NEW i \in Slots
               PROVE  IF Inside(s_write_idx', s_count', i) THEN s_msgs'[i].active
                      ELSE s_msgs'[i] = Zeroed
    BY DEF ByAge
  <2>3. CASE i = s_write_idx
    <3>1. Age(s_write_idx', i) = 1
      BY <1>1, <2>1, <2>3, AgeMoves
    <3>2. s_count' >= 1
      BY <1>1, <2>1
    <3> QED BY <1>1, <2>1, <2>2, <2>3, <3>1, <3>2 DEF Inside
  <2>4. CASE i # s_write_idx
    <3>1. /\ Age(s_write_idx', i) = Age(s_write_idx, i) + 1
          /\ Age(s_write_idx, i) \in 1..MaxMessages /\ Age(s_write_idx, i) # MaxMessages
      BY <1>1, <2>1, <2>4, AgeMoves, AgedOfAge
    <3>2. Inside(s_write_idx', s_count', i) <=> Inside(s_write_idx, s_count, i)
      BY <1>1, <2>1, <3>1 DEF Inside
    <3> QED BY <1>1, <2>1, <2>4, <3>2 DEF ByAge
  <2> QED BY <2>3, <2>4
<1>3. ASSUME NEW k \in 0..s_count - 1, NEW m, m.active, Rewrite(k, m) PROVE ByAge'
  BY <1>1, <1>3, RewriteInside DEF Rewrite, ByAge
<1>4. ASSUME NEW k \in 0..s_count - 1, NEW t, SetText(k, t) PROVE ByAge'
  <2>1. [Get(k) EXCEPT !.text = t].active
    BY <1>1, RewriteInside DEF Get, Bubble
  <2> QED BY <1>3, <1>4, <2>1 DEF SetText
<1>5. ASSUME NEW t, UpdateLastText(t) PROVE ByAge'
  <2>1. s_count # 0 => s_count - 1 \in 0..s_count - 1
    BY <1>1
  <2> QED BY <1>4, <1>5, <2>1 DEF UpdateLastText, storeVars, store, ByAge
<1>6. ASSUME AttachReceipt PROVE ByAge'
  <2>1. PICK k \in 0..s_count - 1 : Rewrite(k, [Get(k) EXCEPT !.receipt = TRUE])
    BY <1>6 DEF AttachReceipt, Replies
  <2>2. [Get(k) EXCEPT !.receipt = TRUE].active
    BY <1>1, RewriteInside DEF Get, Bubble
  <2> QED BY <1>3, <2>1, <2>2
<1>7. ASSUME PopLast PROVE ByAge'
  <2>1. /\ s_write_idx' = PrevIdx(s_write_idx) /\ s_write_idx' \in Slots
        /\ s_count > 0 /\ s_count' = s_count - 1
        /\ s_msgs' = [s_msgs EXCEPT ![s_write_idx'] = Zeroed]
    BY <1>1, <1>7, IdxMoves DEF PopLast
  <2> SUFFICES ASSUME NEW i \in Slots
               PROVE  IF Inside(s_write_idx', s_count', i) THEN s_msgs'[i].active
                      ELSE s_msgs'[i] = Zeroed
    BY DEF ByAge
  <2>2. CASE i = s_write_idx'
    <3>1. Age(s_write_idx', i) = MaxMessages
      BY <1>1, <2>1, <2>2, AgeMoves
    <3> QED BY <1>1, <2>1, <2>2, <3>1 DEF Inside
  <2>3. CASE i # s_write_idx'
    <3>1. Age(s_write_idx', i) = Age(s_write_idx, i) - 1 /\ Age(s_write_idx, i) \in 1..MaxMessages
      BY <1>1, <2>1, <2>3, AgeMoves, AgedOfAge
    <3>2. Inside(s_write_idx', s_count', i) <=> Inside(s_write_idx, s_count, i)
      BY <1>1, <2>1, <3>1 DEF Inside
    <3> QED BY <1>1, <2>1, <2>3, <3>2 DEF ByAge
  <2> QED BY <2>2, <2>3
<1>8. ASSUME Wipe PROVE ByAge'
  <2>1. /\ s_write_idx' = 0 /\ s_count' = 0 /\ \A i \in Slots : s_msgs'[i] = Zeroed
    BY <1>8 DEF Wipe
  <2>2. \A i \in Slots : ~Inside(0, 0, i)
    BY DEF Inside, Age, Slots
  <2> QED BY <2>1, <2>2 DEF ByAge
<1>9. CASE UNCHANGED store
  BY <1>9 DEF store, ByAge
<1> QED
  BY <1>2, <1>4, <1>5, <1>6, <1>7, <1>8, <1>9
  DEF StoreNext, storeVars, SetSession, Clear, DropSession, Replies

LEMMA WindowInit == StoreInit => ByAge
<1>1. StoreInit => s_write_idx = 0 /\ s_count = 0 /\ \A i \in Slots : s_msgs[i] = Zeroed
  BY DEF StoreInit
<1>2. \A i \in Slots : ~Inside(0, 0, i)
  BY MaxMessagesAssumption DEF Inside, Age, Slots
<1> QED BY <1>1, <1>2 DEF ByAge

\* Every wipe, eviction and pop leaves a ring whose slots outside the window are
\* blank, for every size of the ring.
THEOREM OnlyWindowSafe == StoreSpec => []OnlyWindowIsActive
<1>1. StoreInit => ByAge
  BY WindowInit
<1>2. StoreTypeOK /\ ByAge /\ [StoreNext]_storeVars => ByAge'
  BY WindowStep
<1>3. StoreTypeOK /\ ByAge => OnlyWindowIsActive
  BY OnlyWindowByAge
<1> QED BY <1>1, <1>2, <1>3, StoreTypeSafe, PTL DEF StoreSpec

(* ---- the ring as a log ---------------------------------------------------*)

Shown == {m \in Bubble : m.active}

\* The i-th bubble of the transcript, by age.
Reads ==
  /\ Transcript \in Seq(Shown) /\ Len(Transcript) = s_count
  /\ \A i \in 1..s_count : Transcript[i] = s_msgs[Aged(s_write_idx, s_count - i + 1)]

LEMMA TranscriptReads == StoreTypeOK /\ ByAge => Reads
<1> SUFFICES ASSUME StoreTypeOK, ByAge PROVE Reads
  OBVIOUS
<1> USE MaxMessagesAssumption
<1>1. s_count \in Nat /\ s_msgs \in [Slots -> Bubble]
  BY DEF StoreTypeOK
<1>2. ASSUME NEW i \in 1..s_count
      PROVE  /\ Transcript[i] = s_msgs[Aged(s_write_idx, s_count - i + 1)]
             /\ Transcript[i] \in Shown
  <2>1. i - 1 \in 0..s_count - 1 /\ s_count - (i - 1) = s_count - i + 1
    BY <1>1
  <2>2. LogicalToReal(i - 1) = Aged(s_write_idx, s_count - i + 1)
    BY <2>1, WindowIsAged
  <2>3. Get(i - 1) \in Shown
    BY <1>1, <2>1, RewriteInside DEF Get, Shown
  <2> QED BY <2>2, <2>3 DEF Transcript, Get
<1>3. Transcript \in [1..s_count -> Shown]
  BY <1>2 DEF Transcript
<1>4. Transcript \in Seq(Shown)
  BY <1>1, <1>3, SeqDef
<1>5. Len(Transcript) = s_count
  BY <1>1, <1>3, <1>4, LenProperties
<1> QED BY <1>2, <1>4, <1>5 DEF Reads

LEMMA AgedMoves ==
  ASSUME NEW w \in Slots, NEW a \in 1..MaxMessages
  PROVE  /\ Aged(w, a) \in Slots
         /\ Aged(w, a) = w <=> a = MaxMessages
         /\ Aged(NextIdx(w), 1) = w
         /\ a < MaxMessages => Aged(NextIdx(w), a + 1) = Aged(w, a)
         /\ Aged(w, 1) = PrevIdx(w)
         /\ a < MaxMessages => Aged(PrevIdx(w), a) = Aged(w, a + 1)
         /\ \A b \in 1..MaxMessages : Aged(w, a) = Aged(w, b) => a = b
BY MaxMessagesAssumption DEF Slots, Aged, NextIdx, PrevIdx

\* chat_store_add appends, and forgets the oldest bubble of a full ring.
LEMMA AddAppends ==
  ASSUME StoreTypeOK, Reads, Reads', NEW m \in Shown, Add(m)
  PROVE  /\ Log!AppendBubble
         /\ Transcript' = Append(IF s_count < MaxMessages THEN Transcript ELSE Tail(Transcript), m)
<1> USE MaxMessagesAssumption
<1>1. /\ s_write_idx \in Slots /\ s_count \in 0..MaxMessages
      /\ s_msgs \in [Slots -> Bubble]
  BY DEF StoreTypeOK
<1>2. /\ s_write_idx' = NextIdx(s_write_idx)
      /\ s_count' = IF s_count < MaxMessages THEN s_count + 1 ELSE s_count
      /\ s_msgs' = [s_msgs EXCEPT ![s_write_idx] = m]
  BY <1>1, IdxMoves DEF Add
<1>3. PICK n \in 1..MaxMessages : n = s_count'
  BY <1>1, <1>2
<1> DEFINE old == IF s_count < MaxMessages THEN Transcript ELSE Tail(Transcript)
<1>4. /\ old \in Seq(Shown) /\ Len(old) = n - 1
      /\ \A i \in 1..n - 1 : old[i] = s_msgs[Aged(s_write_idx, n - i)]
  <2>1. CASE s_count < MaxMessages
    <3>1. n = s_count + 1 /\ \A i \in 1..s_count : n - i = s_count - i + 1
      BY <1>1, <1>2, <1>3, <2>1
    <3> QED BY <1>1, <2>1, <3>1 DEF Reads
  <2>2. CASE ~(s_count < MaxMessages)
    <3>1. Transcript \in Seq(Shown) /\ Transcript # <<>> /\ Len(Transcript) = MaxMessages
      BY <1>1, <2>2, EmptySeq DEF Reads
    <3>2. /\ Tail(Transcript) \in Seq(Shown) /\ Len(Tail(Transcript)) = MaxMessages - 1
          /\ \A i \in 1..MaxMessages - 1 : Tail(Transcript)[i] = Transcript[i + 1]
      BY <3>1, HeadTailProperties
    <3>3. ASSUME NEW i \in 1..MaxMessages - 1
          PROVE  Transcript[i + 1] = s_msgs[Aged(s_write_idx, MaxMessages - i)]
      <4>1. i + 1 \in 1..s_count /\ s_count - (i + 1) + 1 = MaxMessages - i
        BY <1>1, <2>2
      <4> QED BY <4>1 DEF Reads
    <3>4. n = MaxMessages
      BY <1>1, <1>2, <1>3, <2>2
    <3> QED BY <2>2, <3>2, <3>3, <3>4
  <2> QED BY <2>1, <2>2
<1>5. /\ Append(old, m) \in Seq(Shown) /\ Len(Append(old, m)) = n
      /\ \A i \in 1..n : Append(old, m)[i] = IF i = n THEN m ELSE old[i]
  <2> HIDE DEF old
  <2> QED BY <1>4, AppendProperties
<1>6. ASSUME NEW i \in 1..n PROVE Transcript'[i] = IF i = n THEN m ELSE old[i]
  <2>1. Transcript'[i] = s_msgs'[Aged(NextIdx(s_write_idx), n - i + 1)]
    BY <1>2, <1>3 DEF Reads
  <2>2. CASE i = n
    <3>1. n - i + 1 = 1 /\ 1 \in 1..MaxMessages
      BY <2>2
    <3>2. Aged(NextIdx(s_write_idx), n - i + 1) = s_write_idx
      BY <1>1, <3>1, AgedMoves
    <3> QED BY <1>1, <1>2, <2>1, <2>2, <3>2
  <2>3. CASE i # n
    <3>1. PICK a \in 1..MaxMessages : a = n - i
      BY <2>3
    <3>2. a < MaxMessages /\ i \in 1..n - 1
      BY <2>3, <3>1
    <3>3. Aged(NextIdx(s_write_idx), a + 1) = Aged(s_write_idx, a)
      BY <1>1, <3>2, AgedMoves
    <3>4. Aged(s_write_idx, a) \in Slots /\ Aged(s_write_idx, a) # s_write_idx
      BY <1>1, <3>2, AgedMoves
    <3>5. Transcript'[i] = s_msgs[Aged(s_write_idx, a)]
      BY <1>1, <1>2, <2>1, <3>1, <3>3, <3>4
    <3> QED BY <1>4, <2>3, <3>1, <3>2, <3>5
  <2> QED BY <2>2, <2>3
<1>7. Transcript' \in Seq(Shown) /\ Len(Transcript') = n
  BY <1>3 DEF Reads
<1>8. Transcript' = Append(old, m)
  <2> HIDE DEF old
  <2>1. \A i \in 1..n : Transcript'[i] = Append(old, m)[i]
    BY <1>5, <1>6
  <2> QED BY <1>5, <1>7, <2>1, SeqEqual
<1>9. Transcript'[n] = m /\ Transcript' # <<>>
  BY <1>6, <1>7, EmptySeq
<1>10. Len(Transcript) = s_count
  BY DEF Reads
<1>11. Transcript' = Append(IF s_count < MaxMessages THEN Transcript ELSE Tail(Transcript), m)
  BY <1>8
<1> HIDE DEF old
<1> QED BY <1>7, <1>9, <1>10, <1>11 DEF Log!AppendBubble, Shown

\* A write through get_mut edits the bubble it was meant for.
LEMMA RewriteEdits ==
  ASSUME StoreTypeOK, Reads, Reads', NEW k \in 0..s_count - 1, NEW m \in Shown, Rewrite(k, m)
  PROVE  Log!EditBubble /\ Transcript' = [Transcript EXCEPT ![k + 1] = m]
<1> USE MaxMessagesAssumption
<1>1. /\ s_write_idx \in Slots /\ s_count \in 0..MaxMessages
      /\ s_msgs \in [Slots -> Bubble]
  BY DEF StoreTypeOK
<1>2. LogicalToReal(k) = Aged(s_write_idx, s_count - k)
  BY WindowIsAged
<1>3. /\ s_count' = s_count /\ s_write_idx' = s_write_idx
      /\ s_msgs' = [s_msgs EXCEPT ![Aged(s_write_idx, s_count - k)] = m]
  BY <1>2 DEF Rewrite
<1> DEFINE at == k + 1
<1>4. at \in 1..s_count /\ s_count - k \in 1..MaxMessages /\ s_count - k = s_count - at + 1
  BY <1>1
<1>5. ASSUME NEW i \in 1..s_count PROVE Transcript'[i] = IF i = at THEN m ELSE Transcript[i]
  <2> DEFINE a == s_count - i + 1
  <2>1. a \in 1..MaxMessages /\ (a = s_count - k <=> i = at)
    BY <1>1
  <2>2. Aged(s_write_idx, a) = Aged(s_write_idx, s_count - k) <=> i = at
    BY <1>1, <1>4, <2>1, AgedMoves
  <2>3. Aged(s_write_idx, a) \in Slots
    BY <1>1, <2>1, AgedMoves
  <2>4. /\ Transcript'[i] = s_msgs'[Aged(s_write_idx, a)]
        /\ Transcript[i] = s_msgs[Aged(s_write_idx, a)]
    BY <1>3 DEF Reads
  <2> QED BY <1>1, <1>3, <2>2, <2>3, <2>4
<1>6. /\ Transcript \in Seq(Shown) /\ Len(Transcript) = s_count
      /\ Transcript' \in Seq(Shown) /\ Len(Transcript') = s_count
  BY <1>3 DEF Reads
<1>7. Transcript' = [Transcript EXCEPT ![at] = m]
  <2>1. /\ [Transcript EXCEPT ![at] = m] \in Seq(Shown)
        /\ Len([Transcript EXCEPT ![at] = m]) = s_count
        /\ \A i \in 1..s_count :
             [Transcript EXCEPT ![at] = m][i] = IF i = at THEN m ELSE Transcript[i]
    BY <1>4, <1>6, ExceptSeq
  <2>2. \A i \in 1..s_count : Transcript'[i] = [Transcript EXCEPT ![at] = m][i]
    BY <1>5, <2>1
  <2> QED BY <1>6, <2>1, <2>2, SeqEqual
<1>8. Transcript'[at] = m
  BY <1>4, <1>5
<1>9. at <= Len(Transcript') /\ at \in 1..Len(Transcript) /\ Transcript'[at] \in Shown
  BY <1>1, <1>4, <1>6, <1>8
<1>10. Transcript' = [Transcript EXCEPT ![at] = Transcript'[at]]
  BY <1>7, <1>8
<1>11. Log!EditBubble
  <2> HIDE DEF at
  <2> QED BY <1>9, <1>10 DEF Log!EditBubble, Shown
<1> QED BY <1>7, <1>11

\* chat_store_pop_last takes the newest bubble off.
LEMMA PopDrops ==
  ASSUME StoreTypeOK, Reads, Reads', PopLast
  PROVE  Log!DropNewest
<1> USE MaxMessagesAssumption
<1>1. /\ s_write_idx \in Slots /\ s_count \in 1..MaxMessages
      /\ s_msgs \in [Slots -> Bubble]
  BY DEF StoreTypeOK, PopLast
<1>2. /\ s_write_idx' = PrevIdx(s_write_idx) /\ s_count' = s_count - 1
      /\ s_msgs' = [s_msgs EXCEPT ![PrevIdx(s_write_idx)] = Zeroed]
  BY <1>1, IdxMoves DEF PopLast
<1>3. ASSUME NEW i \in 1..s_count - 1 PROVE Transcript'[i] = Transcript[i]
  <2> DEFINE a == s_count' - i + 1
  <2>1. /\ a \in 1..MaxMessages /\ a < MaxMessages /\ a + 1 = s_count - i + 1
        /\ a + 1 \in 1..MaxMessages /\ a + 1 # 1 /\ 1 \in 1..MaxMessages
    BY <1>1, <1>2
  <2>2. Transcript'[i] = s_msgs'[Aged(PrevIdx(s_write_idx), a)]
    BY <1>2 DEF Reads
  <2>3. Aged(PrevIdx(s_write_idx), a) = Aged(s_write_idx, a + 1)
    BY <1>1, <2>1, AgedMoves
  <2>4. /\ Aged(s_write_idx, a + 1) # PrevIdx(s_write_idx)
        /\ Aged(s_write_idx, a + 1) \in Slots
    <3> HIDE DEF a
    <3>1. Aged(s_write_idx, 1) = PrevIdx(s_write_idx)
      BY <1>1, <2>1, AgedMoves
    <3>2. Aged(s_write_idx, a + 1) = Aged(s_write_idx, 1) => a + 1 = 1
      BY <1>1, <2>1, AgedMoves
    <3> QED BY <1>1, <2>1, <3>1, <3>2, AgedMoves
  <2>5. Transcript[i] = s_msgs[Aged(s_write_idx, a + 1)]
    BY <1>1, <2>1 DEF Reads
  <2> QED BY <1>1, <1>2, <2>2, <2>3, <2>4, <2>5
<1>4. /\ Transcript \in Seq(Shown) /\ Len(Transcript) = s_count
      /\ Transcript' \in Seq(Shown) /\ Len(Transcript') = s_count - 1
  BY <1>2 DEF Reads
<1>5. /\ SubSeq(Transcript, 1, s_count - 1) \in Seq(Shown)
      /\ Len(SubSeq(Transcript, 1, s_count - 1)) = s_count - 1
      /\ \A i \in 1..s_count - 1 : SubSeq(Transcript, 1, s_count - 1)[i] = Transcript[i]
  <2>1. \A i \in 1..s_count - 1 : Transcript[i] \in Shown
    BY <1>1, <1>4, ElementOfSeq
  <2> QED BY <1>1, <2>1, SubSeqProperties
<1>6. Transcript' = SubSeq(Transcript, 1, Len(Transcript) - 1)
  BY <1>3, <1>4, <1>5, SeqEqual
<1>7. Transcript # <<>>
  BY <1>1, <1>4, EmptySeq
<1> QED BY <1>6, <1>7 DEF Log!DropNewest

LEMMA WipeEmpties ==
  ASSUME Reads', Wipe
  PROVE  Log!Empty
<1>1. Transcript' \in Seq(Shown) /\ Len(Transcript') = 0
  BY DEF Reads, Wipe
<1>2. Transcript' = <<>>
  BY <1>1, EmptySeq
<1> QED BY <1>2 DEF Log!Empty

LEMMA LogStep ==
  ASSUME StoreTypeOK, ByAge, Reads, Reads', [StoreNext]_storeVars
  PROVE  [Log!Next]_Transcript
<1> USE MaxMessagesAssumption
<1>1. ASSUME NEW kind \in Kinds, NEW u \in BOOLEAN, NEW t \in Texts \cup {NoText},
             Add(NewBubble(kind, u, t))
      PROVE  Log!Next
  <2>1. NewBubble(kind, u, t) \in Shown
    BY DEF NewBubble, Shown, Bubble, StoreTypeOK
  <2> QED BY <1>1, <2>1, AddAppends DEF Log!Next
<1>2. ASSUME NEW k \in 0..s_count - 1, NEW m \in Shown, Rewrite(k, m) PROVE Log!Next
  BY <1>2, RewriteEdits DEF Log!Next
<1>3. \A k \in 0..s_count - 1 : Get(k) \in Shown
  BY RewriteInside DEF Get, Shown, StoreTypeOK
<1>4. ASSUME NEW k \in 0..s_count - 1, NEW t \in Texts \cup {NoText}, SetText(k, t)
      PROVE  Log!Next
  <2>1. [Get(k) EXCEPT !.text = t] \in Shown
    BY <1>3 DEF Shown, Bubble
  <2> QED BY <1>2, <1>4, <2>1 DEF SetText
<1>5. ASSUME AttachReceipt PROVE Log!Next
  <2>1. PICK k \in 0..s_count - 1 : Rewrite(k, [Get(k) EXCEPT !.receipt = TRUE])
    BY <1>5 DEF AttachReceipt, Replies
  <2>2. [Get(k) EXCEPT !.receipt = TRUE] \in Shown
    BY <1>3 DEF Shown, Bubble
  <2> QED BY <1>2, <2>1, <2>2
<1>6. ASSUME UNCHANGED store PROVE UNCHANGED Transcript
  BY <1>6 DEF store, Transcript, Get, LogicalToReal, RingStart
<1>7. ASSUME NEW t \in Texts \cup {NoText}, UpdateLastText(t) PROVE [Log!Next]_Transcript
  <2>1. s_count # 0 => s_count - 1 \in 0..s_count - 1
    BY DEF StoreTypeOK
  <2> QED BY <1>4, <1>6, <1>7, <2>1 DEF UpdateLastText, storeVars
<1>8. ASSUME PopLast PROVE Log!Next
  BY <1>8, PopDrops DEF Log!Next
<1>9. ASSUME Wipe PROVE Log!Next
  BY <1>9, WipeEmpties DEF Log!Next
<1>10. ASSUME NEW id \in Sessions, SetSession(id) PROVE [Log!Next]_Transcript
  BY <1>6, <1>9, <1>10 DEF SetSession
<1>11. CASE UNCHANGED storeVars
  BY <1>6, <1>11 DEF storeVars
<1> QED
  BY <1>1, <1>4, <1>5, <1>7, <1>8, <1>9, <1>10, <1>11
  DEF StoreNext, Clear, DropSession, Replies, Kinds

\* What callers rely on: for every size of the ring, chat_msg_store.c is the
\* bounded log of chat_msg_store.h.
THEOREM RingImplementsLog == StoreSpec => ImplementsLog
<1>1. StoreInit => Log!Init
  <2> SUFFICES ASSUME StoreInit PROVE Transcript = <<>>
    BY DEF Log!Init
  <2>1. s_count = 0
    BY DEF StoreInit
  <2>2. Transcript \in [1..0 -> {}]
    BY <2>1 DEF Transcript
  <2>3. Transcript \in Seq({})
    BY <2>2, SeqDef
  <2>4. Len(Transcript) = 0
    BY <2>2, <2>3, LenProperties
  <2> QED BY <2>3, <2>4, EmptySeq
<1>2. StoreInit => ByAge
  BY WindowInit
<1>3. StoreTypeOK /\ ByAge /\ [StoreNext]_storeVars => ByAge'
  BY WindowStep
<1>4. StoreTypeOK /\ ByAge => Reads
  BY TranscriptReads
<1>5. StoreTypeOK /\ ByAge /\ Reads /\ Reads' /\ [StoreNext]_storeVars => [Log!Next]_Transcript
  BY LogStep
<1> QED
  BY <1>1, <1>2, <1>3, <1>4, <1>5, StoreTypeSafe, PTL DEF StoreSpec, ImplementsLog, Log!Spec
=============================================================================
