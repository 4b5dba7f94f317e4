--------------------------- MODULE OnboardProofs ---------------------------
(***************************************************************************)
(* OnboardFailover for any depth of the queue, any budget of retries and   *)
(* any number of pings.  ProbingHasJob needs the stage of the job that     *)
(* probes; RetryOrReason needs a timer that runs only within the budget,   *)
(* and that a reset stays in the queue until the worker takes it.          *)
(***************************************************************************)
EXTENDS OnboardFailover, TLAPS

\* The requests that set the wake source, and the disarms that are on their way.
AskPump ==
  SelectK144 \/ SelectPump \/ PumpSelected \/ \E t \in Lowerers : Lowered(t)

Jobs == {q \in Seq(Kinds) : Len(q) <= QueueDepth}

FlagType ==
  /\ s_m5_failover_in_flight \in BOOLEAN
  /\ s_auto_retry_timer \in BOOLEAN /\ s_auto_retry_suppressed \in BOOLEAN
  /\ s_chain_stop_flag \in BOOLEAN /\ starting \in BOOLEAN /\ s_armed \in BOOLEAN
  /\ orphan \in BOOLEAN
QueueType == jobs \in Jobs
ModuleType ==
  /\ s_m5_failover \in {"UNKNOWN", "PROBING", "READY", "UNAVAILABLE"}
  /\ s_auto_retry_count \in 0..RetryMax
  /\ gave_up \in {"no", "turn timeout", "queue full", "suppressed", "released",
                  "no timer", "exhausted"}
PumpType ==
  /\ wake_src \in {"k144", "ext_pcm"} /\ http \in {"none", "bump"}
  /\ lowering \subseteq Lowerers
WorkerType ==
  /\ job \in Kinds \cup {"none"}
  /\ stage \in {"none", "probe", "infer", "arm", "armPump", "baud", "play"}
  /\ tries \in 0..MaxProbes - 1
TalkType ==
  /\ s_state \in {"IDLE", "READY", "LISTENING"} \cup Busy
  /\ chain \in {"off", "setup", "run"} /\ tails \in 0..MaxTails

Probing == s_m5_failover = "PROBING" => job \in {"warmup", "reset"} /\ stage = "probe"
TimerLeft == s_auto_retry_timer = TRUE => s_auto_retry_count < RetryMax
HasReset(q) == \E i \in DOMAIN q : q[i] = "reset"
Retried ==
  s_m5_failover = "UNAVAILABLE" => s_auto_retry_timer = TRUE \/ gave_up # "no" \/ HasReset(jobs)
\* A retry left to the release of its suppression waits for that only.
StillSuppressed == gave_up = "suppressed" => s_auto_retry_suppressed = TRUE

\* The baud rate is raised by a probe that succeeded, and only then, or with the pump
\* armed, is the retry suppressed.
Raising == stage \in {"probe", "armPump", "baud"} => job \in {"warmup", "reset"}
Suppressed ==
  s_auto_retry_suppressed = TRUE =>
    s_armed = TRUE \/ stage = "baud" \/ http = "bump" \/ lowering # {}

FailoverInv ==
  /\ FlagType /\ QueueType /\ ModuleType /\ WorkerType /\ TalkType /\ PumpType
  /\ Probing /\ ListeningIsReal /\ TimerLeft /\ Retried /\ StillSuppressed /\ Raising
  /\ Suppressed

(* ---- the queue -------------------------------------------------------------*)
LEMMA AppendJob ==
  ASSUME NEW q \in Seq(Kinds), NEW j \in Kinds
  PROVE  /\ Append(q, j) \in Seq(Kinds) /\ Len(Append(q, j)) = Len(q) + 1
         /\ HasReset(q) => HasReset(Append(q, j))
         /\ j = "reset" => HasReset(Append(q, j))
  <1> DEFINE K == Kinds
  <1>1. q \in Seq(K) /\ j \in K
    OBVIOUS
  <1> HIDE DEF K
  <1>2. /\ Append(q, j) \in Seq(K) /\ Len(Append(q, j)) = Len(q) + 1 /\ Len(q) \in Nat
        /\ DOMAIN Append(q, j) = 1..(Len(q) + 1) /\ DOMAIN q = 1..Len(q)
        /\ \A i \in 1..Len(q) : Append(q, j)[i] = q[i]
        /\ Append(q, j)[Len(q) + 1] = j
    BY <1>1
  <1>3. \A i \in DOMAIN q : i \in DOMAIN Append(q, j) /\ Append(q, j)[i] = q[i]
    BY <1>2
  <1>4. Len(q) + 1 \in DOMAIN Append(q, j)
    BY <1>2
  <1> QED BY <1>2, <1>3, <1>4 DEF K, HasReset

LEMMA TakeJob ==
  ASSUME NEW q \in Seq(Kinds), q # <<>>
  PROVE  /\ Tail(q) \in Seq(Kinds) /\ Len(Tail(q)) = Len(q) - 1 /\ Head(q) \in Kinds
         /\ HasReset(q) /\ Head(q) # "reset" => HasReset(Tail(q))
  <1> DEFINE K == Kinds
  <1>1. q \in Seq(K)
    OBVIOUS
  <1> HIDE DEF K
  <1>2. /\ Tail(q) \in Seq(K) /\ Len(Tail(q)) = Len(q) - 1 /\ Head(q) \in K
        /\ Len(q) \in Nat \ {0} /\ DOMAIN q = 1..Len(q) /\ Head(q) = q[1]
        /\ DOMAIN Tail(q) = 1..(Len(q) - 1)
        /\ \A i \in 1..(Len(q) - 1) : Tail(q)[i] = q[i + 1]
    BY <1>1
  <1>3. ASSUME NEW i \in DOMAIN q, q[i] = "reset", Head(q) # "reset"
        PROVE  i - 1 \in DOMAIN Tail(q) /\ Tail(q)[i - 1] = "reset"
    BY <1>2, <1>3
  <1> QED BY <1>2, <1>3 DEF K, HasReset

\* A job that finds no room is dropped; those in the queue stay.
LEMMA EnqueueKeeps ==
  ASSUME QueueType, NEW j \in Kinds, Enqueue(j)
  PROVE  /\ jobs' \in Jobs
         /\ HasReset(jobs) => HasReset(jobs')
         /\ j = "reset" /\ Room => HasReset(jobs')
  <1>1. jobs \in Seq(Kinds) /\ Len(jobs) \in Nat
    BY DEF QueueType, Jobs
  <1> QED BY <1>1, AppendJob, FailoverAssumption DEF QueueType, Jobs, Enqueue, Room

\* The worker takes the oldest job.
LEMMA TakeKeeps ==
  ASSUME QueueType, jobs # <<>>, jobs' = Tail(jobs)
  PROVE  /\ jobs' \in Jobs
         /\ HasReset(jobs) /\ Head(jobs) # "reset" => HasReset(jobs')
  <1>1. jobs \in Seq(Kinds) /\ Len(jobs) \in Nat
    BY DEF QueueType, Jobs
  <1> QED BY <1>1, TakeJob, FailoverAssumption DEF QueueType, Jobs

LEMMA ArmJobKeeps ==
  ASSUME QueueType, ArmJob
  PROVE  jobs' \in Jobs /\ (HasReset(jobs) => HasReset(jobs'))
  <1>1. /\ jobs \in Seq(Kinds) /\ Len(jobs) \in Nat /\ Len(jobs) <= QueueDepth
        /\ jobs # <<>> /\ Head(jobs) # "reset"
    BY DEF QueueType, Jobs, ArmJob
  <1>2. Tail(jobs) \in Seq(Kinds) /\ Len(Tail(jobs)) = Len(jobs) - 1
        /\ (HasReset(jobs) => HasReset(Tail(jobs)))
    BY <1>1, TakeJob
  <1>3. "arm" \in Kinds
    BY DEF Kinds
  <1>4. /\ Append(Tail(jobs), "arm") \in Seq(Kinds)
        /\ Len(Append(Tail(jobs), "arm")) = Len(Tail(jobs)) + 1
        /\ HasReset(Tail(jobs)) => HasReset(Append(Tail(jobs), "arm"))
    BY <1>2, <1>3, AppendJob
  <1>5. Tail(jobs) \in Jobs
    BY <1>1, <1>2, FailoverAssumption DEF Jobs
  <1>6. Append(Tail(jobs), "arm") \in Jobs
    BY <1>1, <1>2, <1>4 DEF Jobs
  <1>7. jobs' = Tail(jobs) \/ jobs' = Append(Tail(jobs), "arm")
    BY DEF ArmJob
  <1> QED BY <1>2, <1>4, <1>5, <1>6, <1>7, Zenon

LEMMA Ranges ==
  /\ 0 \in 0..RetryMax /\ 0 \in 0..MaxProbes - 1
  /\ \A n \in 0..RetryMax : n < RetryMax => n + 1 \in 0..RetryMax /\ ~(n >= RetryMax)
  /\ \A n \in 0..MaxTails : n < MaxTails => n + 1 \in 0..MaxTails
  /\ \A n \in 0..MaxTails : n > 0 => n - 1 \in 0..MaxTails
  BY FailoverAssumption

(* ---- types -----------------------------------------------------------------*)
LEMMA FlagStep ==
  ASSUME FlagType, FailoverNext
  PROVE  FlagType'
  <1> USE DEF FlagType, retry, worker, chains, offChain, voice, pump, SetState, SetIdle, Disarm
  <1>1. CASE ProbeBegins \/ ProbeUnanswered
    BY <1>1, Zenon
       DEF ProbeBegins, ProbeUnanswered, Take, Finish, MarkUnavailable
  <1>2. CASE WarmOk \/ WarmFails
    BY <1>2, Zenon
       DEF WarmOk, WarmFails, MarkRecovered, MarkUnavailable, Finish
  <1>3. CASE ArmEnds \/ ArmRefused \/ PumpBaud \/ ArmPump \/ ArmJob
    BY <1>3, Zenon
       DEF ArmEnds, ArmRefused, PumpBaud, ArmPump, ArmJob, Finish, Suppress
  <1>4. CASE TextBegins \/ TextAnswered \/ TextFails
    BY <1>4, Zenon
       DEF TextBegins, TextAnswered, TextFails, Take, Finish
  <1>5. CASE TtsBegins \/ TtsNoMemory \/ TtsPlayed
    BY <1>5, Zenon
       DEF TtsBegins, TtsNoMemory, TtsPlayed, Take, Finish, Active
  <1>6. CASE ChainReady \/ ChainSetupFails \/ ChainToken \/ ChainReply \/ ChainEnds \/
            ChainTail
    BY <1>6, Zenon
       DEF ChainReady, ChainSetupFails, ChainToken, ChainReply, ChainEnds, ChainTail
  <1>7. CASE SendText \/ ResetRequested \/ ChainStart \/ ChainStop \/ VoiceCancel \/
            ChainStartEnds
    BY <1>7, Zenon
       DEF SendText, ResetRequested, ChainStart, ChainStop, VoiceCancel, ChainStartEnds, ResetAsked, Active
  <1>8. CASE AskPump
    BY <1>8, Zenon DEF AskPump, SelectPump, PumpSelected, SelectK144, Lowered, Suppress, Release, Disarm
  <1>9. CASE AutoRetryFires
    BY <1>9, Zenon DEF AutoRetryFires
  <1> QED BY <1>1, <1>2, <1>3, <1>4, <1>5, <1>6, <1>7, <1>8, <1>9, Zenon
       DEF FailoverNext, WorkerNext, ChainNext, PumpNext, AskPump

LEMMA QueueStep ==
  ASSUME QueueType, FailoverNext
  PROVE  QueueType'
  <1> USE DEF QueueType, retry, worker, chains, offChain, voice, pump, SetState, SetIdle, Disarm
  <1>1. CASE ProbeBegins \/ TextBegins \/ TtsBegins
    BY <1>1, TakeKeeps
       DEF ProbeBegins, TextBegins, TtsBegins, Take
  <1>2. CASE ArmJob
    BY <1>2, ArmJobKeeps DEF ArmJob
  <1>3. CASE ProbeUnanswered \/ WarmOk \/ WarmFails \/ ArmEnds \/
            PumpBaud \/ ArmPump \/ TextFails \/ TtsNoMemory \/ TtsPlayed
    BY <1>3
       DEF ProbeUnanswered, WarmOk, WarmFails, ArmEnds, PumpBaud, ArmPump, TextFails,
           TtsNoMemory, TtsPlayed
  <1>4. CASE ChainReady \/ ChainSetupFails \/ ChainToken \/ ChainEnds \/ ChainTail \/
            ChainStart \/ ChainStop \/ VoiceCancel \/ ChainStartEnds
    BY <1>4
       DEF ChainReady, ChainSetupFails, ChainToken, ChainEnds, ChainTail, ChainStart, ChainStop,
           VoiceCancel, ChainStartEnds
  <1>5. CASE ArmRefused
    BY <1>5, EnqueueKeeps DEF ArmRefused, Kinds
  <1>6. CASE TextAnswered
    BY <1>6, EnqueueKeeps DEF TextAnswered, Kinds
  <1>7. CASE ChainReply
    BY <1>7, EnqueueKeeps DEF ChainReply, Kinds
  <1>8. CASE SendText
    BY <1>8, EnqueueKeeps DEF SendText, Kinds
  <1>9. CASE ResetRequested
    BY <1>9, EnqueueKeeps DEF ResetRequested, ResetAsked, Kinds
  <1>10. CASE AskPump
    BY <1>10, EnqueueKeeps
       DEF AskPump, SelectPump, PumpSelected, SelectK144, Lowered, Suppress, Release, Disarm, Kinds
  <1>11. CASE AutoRetryFires
    BY <1>11, EnqueueKeeps DEF AutoRetryFires, Kinds
  <1> QED BY <1>1, <1>2, <1>3, <1>4, <1>5, <1>6, <1>7, <1>8, <1>9, <1>10, <1>11
       DEF FailoverNext, WorkerNext, ChainNext, PumpNext, AskPump

LEMMA ModuleStep ==
  ASSUME ModuleType, FailoverNext
  PROVE  ModuleType'
  <1> USE DEF ModuleType, retry, worker, chains, offChain, voice, pump, SetState, SetIdle, Disarm
  <1>1. CASE ProbeBegins \/ ProbeUnanswered
    BY <1>1
       DEF ProbeBegins, ProbeUnanswered, Take, Finish, MarkUnavailable
  <1>2. CASE WarmOk
    <2>1. /\ s_auto_retry_count' = 0 /\ gave_up' = "no"
          /\ s_m5_failover' = "READY"
      BY <1>2 DEF WarmOk, MarkRecovered
    <2>2. 0 \in 0..RetryMax
      BY Ranges
    <2> QED BY <2>1, <2>2
  <1>3. CASE WarmFails
    BY <1>3
       DEF WarmFails, MarkRecovered, MarkUnavailable, Finish
  <1>4. CASE ArmEnds \/ ArmRefused \/ PumpBaud \/ ArmPump \/ ArmJob
    BY <1>4
       DEF ArmEnds, ArmRefused, PumpBaud, ArmPump, ArmJob, Finish, Suppress
  <1>5. CASE TextBegins \/ TextAnswered \/ TextFails
    BY <1>5
       DEF TextBegins, TextAnswered, TextFails, Take, Finish
  <1>6. CASE TtsBegins \/ TtsNoMemory \/ TtsPlayed
    BY <1>6
       DEF TtsBegins, TtsNoMemory, TtsPlayed, Take, Finish, Active
  <1>7. CASE ChainReady \/ ChainSetupFails \/ ChainToken \/ ChainReply \/ ChainEnds \/
            ChainTail
    BY <1>7
       DEF ChainReady, ChainSetupFails, ChainToken, ChainReply, ChainEnds, ChainTail
  <1>8. CASE SendText \/ ResetRequested \/ ChainStart \/ ChainStop \/ VoiceCancel \/
            ChainStartEnds
    BY <1>8
       DEF SendText, ResetRequested, ChainStart, ChainStop, VoiceCancel, ChainStartEnds, ResetAsked, Active
  <1>9. CASE AskPump
    BY <1>9 DEF AskPump, SelectPump, PumpSelected, SelectK144, Lowered, Suppress, Release, Disarm
  <1>10. CASE AutoRetryFires
    <2>1. \/ s_auto_retry_count' = s_auto_retry_count
          \/ s_auto_retry_count' = s_auto_retry_count + 1 /\ s_auto_retry_count < RetryMax
      BY <1>10 DEF AutoRetryFires
    <2>2. s_auto_retry_count' \in 0..RetryMax
      BY <2>1, Ranges
    <2>3. /\ s_m5_failover' = s_m5_failover
          /\ gave_up' \in {gave_up, "queue full", "suppressed", "no"}
      BY <1>10 DEF AutoRetryFires
    <2> QED BY <2>2, <2>3
  <1> QED BY <1>1, <1>2, <1>3, <1>4, <1>5, <1>6, <1>7, <1>8, <1>9, <1>10
       DEF FailoverNext, WorkerNext, ChainNext, PumpNext, AskPump

LEMMA WorkerStep ==
  ASSUME WorkerType, FailoverNext
  PROVE  WorkerType'
  <1> USE DEF WorkerType, retry, worker, chains, offChain
  <1>1. CASE ProbeBegins
    BY <1>1, FailoverAssumption DEF ProbeBegins, Take, Kinds
  <1>11. CASE ProbeUnanswered
    BY <1>11, FailoverAssumption DEF ProbeUnanswered, Finish
  <1>2. CASE WarmOk \/ WarmFails
    BY <1>2, FailoverAssumption
       DEF WarmOk, WarmFails, MarkRecovered, Finish, Kinds
  <1>3. CASE ArmEnds \/ ArmRefused \/ PumpBaud \/ ArmPump \/ ArmJob
    BY <1>3, FailoverAssumption
       DEF ArmEnds, ArmRefused, PumpBaud, ArmPump, ArmJob, Finish, Suppress, Kinds
  <1>4. CASE TextFails
    <2>1. job' = "none" /\ stage' = "none" /\ tries' = 0
      BY <1>4 DEF TextFails, Finish
    <2>2. 0 \in 0..MaxProbes - 1
      BY Ranges
    <2> QED BY <2>1, <2>2
  <1>5. CASE TextBegins \/ TextAnswered
    BY <1>5, FailoverAssumption
       DEF TextBegins, TextAnswered, Take, Finish, Kinds
  <1>6. CASE TtsBegins \/ TtsNoMemory \/ TtsPlayed
    BY <1>6, FailoverAssumption
       DEF TtsBegins, TtsNoMemory, TtsPlayed, Take, Finish, Active, Kinds
  <1>7. CASE ChainReady \/ ChainSetupFails \/ ChainToken \/ ChainReply \/ ChainEnds \/
            ChainTail
    BY <1>7, FailoverAssumption
       DEF ChainReady, ChainSetupFails, ChainToken, ChainReply, ChainEnds, ChainTail, Kinds
  <1>8. CASE SendText \/ ResetRequested \/ ChainStart \/ ChainStop \/ VoiceCancel \/
            ChainStartEnds
    BY <1>8, FailoverAssumption
       DEF SendText, ResetRequested, ChainStart, ChainStop, VoiceCancel, ChainStartEnds, ResetAsked, Active, Kinds
  <1>9. CASE AskPump
    BY <1>9, FailoverAssumption
       DEF AskPump, SelectPump, PumpSelected, SelectK144, Lowered, Suppress, Release, Disarm, Kinds
  <1>10. CASE AutoRetryFires
    BY <1>10, FailoverAssumption DEF AutoRetryFires, Kinds
  <1> QED BY <1>1, <1>2, <1>3, <1>4, <1>5, <1>6, <1>7, <1>8, <1>9, <1>10, <1>11
       DEF FailoverNext, WorkerNext, ChainNext, PumpNext, AskPump

LEMMA TalkStep ==
  ASSUME TalkType, FailoverNext
  PROVE  TalkType'
  <1> USE DEF TalkType, Busy, retry, worker, chains, offChain, voice, pump, SetState, SetIdle, Disarm
  <1>1. CASE ProbeBegins \/ ProbeUnanswered
    BY <1>1, Ranges
       DEF ProbeBegins, ProbeUnanswered, Take, Finish, MarkUnavailable
  <1>2. CASE WarmOk \/ WarmFails
    BY <1>2, Ranges
       DEF WarmOk, WarmFails, MarkRecovered, MarkUnavailable, Finish
  <1>3. CASE ArmEnds \/ ArmRefused \/ PumpBaud \/ ArmPump \/ ArmJob
    BY <1>3, Ranges
       DEF ArmEnds, ArmRefused, PumpBaud, ArmPump, ArmJob, Finish, Suppress
  <1>4. CASE TextBegins \/ TextAnswered \/ TextFails
    BY <1>4, Ranges
       DEF TextBegins, TextAnswered, TextFails, Take, Finish
  <1>5. CASE TtsBegins \/ TtsNoMemory \/ TtsPlayed
    BY <1>5, Ranges
       DEF TtsBegins, TtsNoMemory, TtsPlayed, Take, Finish, Active
  <1>6. CASE ChainReady \/ ChainSetupFails \/ ChainToken \/ ChainReply \/ ChainEnds \/
            ChainTail
    BY <1>6, Ranges
       DEF ChainReady, ChainSetupFails, ChainToken, ChainReply, ChainEnds, ChainTail
  <1>7. CASE SendText \/ ResetRequested \/ ChainStart \/ ChainStop \/ VoiceCancel \/
            ChainStartEnds
    BY <1>7, Ranges
       DEF SendText, ResetRequested, ChainStart, ChainStop, VoiceCancel, ChainStartEnds, ResetAsked, Active
  <1>8. CASE AskPump
    BY <1>8, Ranges DEF AskPump, SelectPump, PumpSelected, SelectK144, Lowered, Suppress, Release, Disarm
  <1>9. CASE AutoRetryFires
    BY <1>9, Ranges DEF AutoRetryFires
  <1> QED BY <1>1, <1>2, <1>3, <1>4, <1>5, <1>6, <1>7, <1>8, <1>9
       DEF FailoverNext, WorkerNext, ChainNext, PumpNext, AskPump

\* Nothing but the hook of a store, the requests and the arming of the worker touches
\* the pump.
LEMMA PumpTypeStep ==
  ASSUME PumpType, FailoverNext
  PROVE  PumpType'
  <1> USE DEF PumpType, retry, worker, chains, offChain, voice, pump, SetState, Lowerers
  <1>1. CASE ProbeBegins \/ ProbeUnanswered \/ WarmOk \/ WarmFails
    BY <1>1 DEF ProbeBegins, ProbeUnanswered, WarmOk, WarmFails
  <1>2. CASE ArmEnds \/ ArmRefused \/ PumpBaud \/ ArmPump \/ ArmJob
    BY <1>2 DEF ArmEnds, ArmRefused, PumpBaud, ArmPump, ArmJob
  <1>3. CASE TextBegins \/ TextAnswered \/ TextFails \/ TtsBegins \/ TtsNoMemory \/ TtsPlayed
    BY <1>3 DEF TextBegins, TextAnswered, TextFails, TtsBegins, TtsNoMemory, TtsPlayed
  <1>4. CASE ChainReady \/ ChainSetupFails \/ ChainToken \/ ChainReply \/ ChainEnds \/
            ChainTail
    BY <1>4 DEF ChainReady, ChainSetupFails, ChainToken, ChainReply, ChainEnds, ChainTail
  <1>5. CASE SendText \/ ResetRequested \/ ChainStart \/ ChainStop \/ ChainStartEnds \/
            AutoRetryFires
    BY <1>5 DEF SendText, ResetRequested, ChainStart, ChainStop, ChainStartEnds, AutoRetryFires
  <1>6. CASE VoiceCancel
    BY <1>6 DEF VoiceCancel, SetIdle, Disarm
  <1>7. CASE AskPump
    BY <1>7 DEF AskPump, SelectPump, PumpSelected, SelectK144, Lowered, Disarm
  <1> QED BY <1>1, <1>2, <1>3, <1>4, <1>5, <1>6, <1>7
       DEF FailoverNext, WorkerNext, ChainNext, PumpNext, AskPump

(* ---- the failover state ------------------------------------------------------*)
\* No way out of a job that probes leaves PROBING behind.
LEMMA ProbingStep ==
  ASSUME Probing, FailoverNext
  PROVE  Probing'
  <1> USE DEF Probing, retry, worker, chains, offChain, voice, pump, SetState, SetIdle, Disarm
  <1>1. CASE ProbeBegins \/ ProbeUnanswered
    BY <1>1
       DEF ProbeBegins, ProbeUnanswered, Take, Finish, MarkUnavailable
  <1>2. CASE WarmOk \/ WarmFails
    BY <1>2
       DEF WarmOk, WarmFails, MarkRecovered, MarkUnavailable, Finish
  <1>3. CASE ArmEnds \/ ArmRefused \/ PumpBaud \/ ArmPump \/ ArmJob
    BY <1>3
       DEF ArmEnds, ArmRefused, PumpBaud, ArmPump, ArmJob, Finish, Suppress
  <1>4. CASE TextBegins \/ TextAnswered \/ TextFails
    BY <1>4
       DEF TextBegins, TextAnswered, TextFails, Take, Finish
  <1>5. CASE TtsBegins \/ TtsNoMemory \/ TtsPlayed
    BY <1>5
       DEF TtsBegins, TtsNoMemory, TtsPlayed, Take, Finish, Active
  <1>6. CASE ChainReady \/ ChainSetupFails \/ ChainToken \/ ChainReply \/ ChainEnds \/
            ChainTail
    BY <1>6
       DEF ChainReady, ChainSetupFails, ChainToken, ChainReply, ChainEnds, ChainTail
  <1>7. CASE SendText \/ ResetRequested \/ ChainStart \/ ChainStop \/ VoiceCancel \/
            ChainStartEnds
    BY <1>7
       DEF SendText, ResetRequested, ChainStart, ChainStop, VoiceCancel, ChainStartEnds, ResetAsked, Active
  <1>8. CASE AskPump
    BY <1>8 DEF AskPump, SelectPump, PumpSelected, SelectK144, Lowered, Suppress, Release, Disarm
  <1>9. CASE AutoRetryFires
    BY <1>9 DEF AutoRetryFires
  <1> QED BY <1>1, <1>2, <1>3, <1>4, <1>5, <1>6, <1>7, <1>8, <1>9
       DEF FailoverNext, WorkerNext, ChainNext, PumpNext, AskPump

\* A chain that goes down is an unfinished task first.
LEMMA ListeningStep ==
  ASSUME TalkType, ListeningIsReal, FailoverNext
  PROVE  ListeningIsReal'
  <1> USE DEF ListeningIsReal, TalkType, Busy, retry, worker, chains, offChain, voice, pump, SetState, SetIdle, Disarm
  <1>1. CASE ProbeBegins \/ ProbeUnanswered
    BY <1>1
       DEF ProbeBegins, ProbeUnanswered, Take, Finish, MarkUnavailable
  <1>2. CASE WarmOk \/ WarmFails
    BY <1>2
       DEF WarmOk, WarmFails, MarkRecovered, MarkUnavailable, Finish
  <1>3. CASE ArmEnds \/ ArmRefused \/ PumpBaud \/ ArmPump \/ ArmJob
    BY <1>3
       DEF ArmEnds, ArmRefused, PumpBaud, ArmPump, ArmJob, Finish, Suppress
  <1>4. CASE TextBegins \/ TextAnswered \/ TextFails
    BY <1>4
       DEF TextBegins, TextAnswered, TextFails, Take, Finish
  <1>5. CASE TtsBegins \/ TtsNoMemory \/ TtsPlayed
    BY <1>5
       DEF TtsBegins, TtsNoMemory, TtsPlayed, Take, Finish, Active
  <1>6. CASE ChainReady \/ ChainSetupFails \/ ChainToken \/ ChainReply \/ ChainEnds \/
            ChainTail
    BY <1>6
       DEF ChainReady, ChainSetupFails, ChainToken, ChainReply, ChainEnds, ChainTail
  <1>7. CASE SendText \/ ResetRequested \/ ChainStart \/ ChainStop \/ VoiceCancel \/
            ChainStartEnds
    BY <1>7
       DEF SendText, ResetRequested, ChainStart, ChainStop, VoiceCancel, ChainStartEnds, ResetAsked, Active
  <1>8. CASE AskPump
    BY <1>8 DEF AskPump, SelectPump, PumpSelected, SelectK144, Lowered, Suppress, Release, Disarm
  <1>9. CASE AutoRetryFires
    BY <1>9 DEF AutoRetryFires
  <1> QED BY <1>1, <1>2, <1>3, <1>4, <1>5, <1>6, <1>7, <1>8, <1>9
       DEF FailoverNext, WorkerNext, ChainNext, PumpNext, AskPump

\* The timer is started within the budget only, and counts when it has fired.
LEMMA TimerStep ==
  ASSUME FlagType, TimerLeft, FailoverNext
  PROVE  TimerLeft'
  <1> USE DEF TimerLeft, retry, worker, chains, offChain, voice, pump, SetState, SetIdle, Disarm
  <1>1. CASE ProbeBegins \/ ProbeUnanswered
    BY <1>1
       DEF ProbeBegins, ProbeUnanswered, Take, Finish, MarkUnavailable
  <1>2. CASE WarmOk \/ WarmFails
    BY <1>2
       DEF WarmOk, WarmFails, MarkRecovered, MarkUnavailable, Finish
  <1>3. CASE ArmEnds \/ ArmRefused \/ PumpBaud \/ ArmPump \/ ArmJob
    BY <1>3
       DEF ArmEnds, ArmRefused, PumpBaud, ArmPump, ArmJob, Finish, Suppress
  <1>4. CASE TextBegins \/ TextAnswered \/ TextFails
    BY <1>4
       DEF TextBegins, TextAnswered, TextFails, Take, Finish
  <1>5. CASE TtsBegins \/ TtsNoMemory \/ TtsPlayed
    BY <1>5
       DEF TtsBegins, TtsNoMemory, TtsPlayed, Take, Finish, Active
  <1>6. CASE ChainReady \/ ChainSetupFails \/ ChainToken \/ ChainReply \/ ChainEnds \/
            ChainTail
    BY <1>6
       DEF ChainReady, ChainSetupFails, ChainToken, ChainReply, ChainEnds, ChainTail
  <1>7. CASE SendText \/ ResetRequested \/ ChainStart \/ ChainStop \/ VoiceCancel \/
            ChainStartEnds
    BY <1>7
       DEF SendText, ResetRequested, ChainStart, ChainStop, VoiceCancel, ChainStartEnds, ResetAsked, Active
  <1>8. CASE AskPump
    BY <1>8 DEF AskPump, SelectPump, PumpSelected, SelectK144, Lowered, Suppress, Release, Disarm
  <1>9. CASE AutoRetryFires
    BY <1>9 DEF AutoRetryFires
  <1> QED BY <1>1, <1>2, <1>3, <1>4, <1>5, <1>6, <1>7, <1>8, <1>9
       DEF FailoverNext, WorkerNext, ChainNext, PumpNext, AskPump

(* ---- the retry ----------------------------------------------------------------*)
LEMMA SameModule ==
  ASSUME Retried, UNCHANGED <<s_m5_failover, s_auto_retry_timer, gave_up>>,
         HasReset(jobs) => HasReset(jobs')
  PROVE  Retried'
  BY DEF Retried

\* mark_k144_unavailable starts the timer or says why not.
LEMMA MarkedRetried ==
  ASSUME MarkUnavailable PROVE Retried'
  BY DEF MarkUnavailable, Retried

LEMMA FiredRetried ==
  ASSUME FlagType, QueueType, ModuleType, TimerLeft, Retried, AutoRetryFires
  PROVE  Retried'
  <1>1. s_auto_retry_timer = TRUE
    BY Zenon DEF AutoRetryFires, FlagType
  <1>2. s_m5_failover' = s_m5_failover /\ s_auto_retry_count < RetryMax
    BY <1>1 DEF AutoRetryFires, TimerLeft
  <1>3. CASE s_m5_failover = "UNAVAILABLE" /\ s_auto_retry_suppressed
    BY <1>2, <1>3 DEF AutoRetryFires, Retried
  <1>4. CASE s_m5_failover = "UNAVAILABLE" /\ ~s_auto_retry_suppressed
    <2>1. ~(s_auto_retry_count >= RetryMax)
      BY <1>2, Ranges DEF ModuleType
    <2>2. Enqueue("reset") /\ gave_up' = IF Room THEN gave_up ELSE "queue full"
      BY <1>4, <2>1, Zenon DEF AutoRetryFires
    <2>3. Room => HasReset(jobs')
      BY <2>2, EnqueueKeeps DEF Kinds
    <2> QED BY <2>2, <2>3 DEF Retried
  <1>5. CASE s_m5_failover # "UNAVAILABLE"
    BY <1>2, <1>5 DEF Retried
  <1> QED BY <1>3, <1>4, <1>5

LEMMA RetriedStep ==
  ASSUME FlagType, QueueType, ModuleType, TimerLeft, Retried, FailoverNext
  PROVE  Retried'
  <1> USE DEF retry, worker, chains, offChain, voice, pump, SetState, SetIdle, Disarm
  <1>1. CASE ProbeBegins \/ WarmOk
    BY <1>1
       DEF ProbeBegins, WarmOk, MarkRecovered, Retried
  <1>2. CASE ProbeUnanswered \/ WarmFails
    BY <1>2, MarkedRetried DEF ProbeUnanswered, WarmFails, Retried
  <1>3. CASE ArmEnds \/ TtsNoMemory \/ TtsPlayed \/ ChainReady \/
            ChainSetupFails \/ ChainToken
    BY <1>3, SameModule
       DEF ArmEnds, TtsNoMemory, TtsPlayed, ChainReady, ChainSetupFails, ChainToken
  <1>4. CASE ChainEnds \/ ChainTail \/ ChainStart \/ ChainStop \/ VoiceCancel \/
            ChainStartEnds
    BY <1>4, SameModule
       DEF ChainEnds, ChainTail, ChainStart, ChainStop, VoiceCancel, ChainStartEnds
  <1>5. CASE PumpBaud \/ ArmPump
    BY <1>5, SameModule DEF PumpBaud, ArmPump, Suppress, Retried
  <1>6. CASE ArmJob
    BY <1>6, SameModule, ArmJobKeeps DEF ArmJob
  <1>7. CASE ArmRefused
    BY <1>7, SameModule, EnqueueKeeps DEF ArmRefused, Kinds
  <1>8. CASE TextBegins \/ TtsBegins
    BY <1>8, SameModule, TakeKeeps DEF TextBegins, TtsBegins, Take
  <1>9. CASE TextAnswered \/ ChainReply \/ SendText
    BY <1>9, SameModule, EnqueueKeeps
       DEF TextAnswered, ChainReply, SendText, Kinds
  <1>10. CASE TextFails
    <2>1. /\ jobs' = jobs /\ s_auto_retry_timer' = s_auto_retry_timer
          /\ \/ UNCHANGED <<s_m5_failover, gave_up>>
             \/ /\ s_m5_failover' = "UNAVAILABLE"
                /\ gave_up' = IF s_auto_retry_timer THEN gave_up ELSE "turn timeout"
      BY <1>10 DEF TextFails
    <2>2. CASE UNCHANGED <<s_m5_failover, gave_up>>
      BY <2>1, <2>2 DEF Retried
    <2>3. CASE ~UNCHANGED <<s_m5_failover, gave_up>>
      <3>1. s_auto_retry_timer = TRUE \/ gave_up' = "turn timeout"
        BY <2>1, <2>3, Zenon DEF FlagType
      <3> QED BY <2>1, <3>1 DEF Retried
    <2> QED BY <2>2, <2>3
  <1>11. CASE ResetRequested
    BY <1>11, SameModule, EnqueueKeeps DEF ResetRequested, ResetAsked, Kinds
  <1>12. CASE AskPump
    BY <1>12, SameModule, EnqueueKeeps
       DEF AskPump, SelectPump, PumpSelected, SelectK144, Lowered, Suppress, Release, Disarm, Kinds, Retried
  <1>13. CASE AutoRetryFires
    BY <1>13, FiredRetried DEF AutoRetryFires
  <1> QED BY <1>1, <1>2, <1>3, <1>4, <1>5, <1>6, <1>7, <1>8, <1>9, <1>10, <1>11, <1>12, <1>13
       DEF FailoverNext, WorkerNext, ChainNext, PumpNext, AskPump

\* Another job neither begins nor ends while the worker raises the baud rate.
LEMMA RaisingStep ==
  ASSUME Raising, FailoverNext
  PROVE  /\ Raising'
         /\ \/ stage' = stage \/ stage # "baud" \/ ArmPump
  <1> USE DEF Raising, retry, worker, chains, offChain, voice, pump, SetState, SetIdle, Disarm
  <1>1. CASE ProbeBegins \/ ProbeUnanswered
    BY <1>1 DEF ProbeBegins, ProbeUnanswered, Take, Finish
  <1>2. CASE WarmOk \/ WarmFails
    BY <1>2 DEF WarmOk, WarmFails, Finish
  <1>3. CASE ArmEnds \/ ArmRefused \/ PumpBaud \/ ArmPump \/ ArmJob
    BY <1>3 DEF ArmEnds, ArmRefused, PumpBaud, ArmPump, ArmJob, Finish
  <1>4. CASE TextBegins \/ TextAnswered \/ TextFails
    BY <1>4 DEF TextBegins, TextAnswered, TextFails, Take, Finish
  <1>5. CASE TtsBegins \/ TtsNoMemory \/ TtsPlayed
    BY <1>5 DEF TtsBegins, TtsNoMemory, TtsPlayed, Take, Finish
  <1>6. CASE ChainReady \/ ChainSetupFails \/ ChainToken \/ ChainReply \/ ChainEnds \/
            ChainTail
    BY <1>6 DEF ChainReady, ChainSetupFails, ChainToken, ChainReply, ChainEnds, ChainTail
  <1>7. CASE SendText \/ ResetRequested \/ ChainStart \/ ChainStop \/ VoiceCancel \/
            ChainStartEnds
    BY <1>7
       DEF SendText, ResetRequested, ChainStart, ChainStop, VoiceCancel, ChainStartEnds
  <1>8. CASE AskPump \/ AutoRetryFires
    BY <1>8 DEF AskPump, SelectPump, PumpSelected, SelectK144, Lowered, AutoRetryFires
  <1> QED BY <1>1, <1>2, <1>3, <1>4, <1>5, <1>6, <1>7, <1>8
       DEF FailoverNext, WorkerNext, ChainNext, PumpNext, AskPump

\* The worker, the store of a state and the requests touch the suppression or the pump;
\* no other step does.
LEMMA OnlyPump ==
  ASSUME FailoverNext, ~PumpBaud, ~ArmPump, ~VoiceCancel, ~AskPump
  PROVE  /\ UNCHANGED <<s_auto_retry_suppressed, http, lowering>>
         /\ s_armed' = s_armed \/ \E st \in {"READY", "LISTENING"} \cup Busy : SetState(st)
  <1> USE DEF retry, worker, chains, offChain, voice, pump, Busy
  <1>1. CASE ProbeBegins \/ ProbeUnanswered \/ WarmOk \/ WarmFails
    BY <1>1 DEF ProbeBegins, ProbeUnanswered, WarmOk, WarmFails, MarkUnavailable,
                MarkRecovered
  <1>2. CASE ArmEnds \/ ArmRefused \/ ArmJob \/ TextBegins \/ TextAnswered \/ TextFails
    BY <1>2, Zenon DEF ArmEnds, ArmRefused, ArmJob, TextBegins, TextAnswered, TextFails, SetState
  <1>3. CASE TtsBegins \/ TtsNoMemory \/ TtsPlayed \/ AutoRetryFires
    BY <1>3, Zenon DEF TtsBegins, TtsNoMemory, TtsPlayed, AutoRetryFires, SetState
  <1>4. CASE ChainReady \/ ChainSetupFails \/ ChainToken \/ ChainReply \/ ChainEnds \/
            ChainTail
    BY <1>4, Zenon
       DEF ChainReady, ChainSetupFails, ChainToken, ChainReply, ChainEnds, ChainTail, SetState
  <1>5. CASE SendText \/ ResetRequested \/ ChainStart \/ ChainStop \/ ChainStartEnds
    BY <1>5 DEF SendText, ResetRequested, ChainStart, ChainStop, ChainStartEnds
  <1> QED BY <1>1, <1>2, <1>3, <1>4, <1>5
       DEF FailoverNext, WorkerNext, ChainNext, PumpNext, AskPump

\* A store may arm the pump; only a task that is bound to give the retry back disarms it.
LEMMA StoreSuppressed ==
  ASSUME FlagType, Suppressed, NEW st, SetState(st), UNCHANGED s_auto_retry_suppressed,
         stage' = stage \/ stage # "baud"
  PROVE  Suppressed'
  <1>1. s_armed = TRUE => s_armed' = TRUE
    BY Zenon DEF SetState, FlagType
  <1> QED BY <1>1 DEF SetState, Suppressed

LEMMA DisarmSuppressed ==
  ASSUME FlagType, Suppressed, NEW t, Disarm(t), UNCHANGED <<s_auto_retry_suppressed, stage>>,
         http' = http \/ http # "bump"
  PROVE  Suppressed'
  <1>1. CASE s_armed = TRUE
    <2>1. lowering' # {}
      BY <1>1, Zenon DEF Disarm
    <2> QED BY <2>1 DEF Suppressed
  <1>2. CASE s_armed # TRUE
    <2>1. lowering' = lowering
      BY <1>2, Zenon DEF Disarm, FlagType
    <2> QED BY <1>2, <2>1 DEF Suppressed
  <1> QED BY <1>1, <1>2

LEMMA SuppressedStep ==
  ASSUME FlagType, Raising, Suppressed, FailoverNext
  PROVE  Suppressed'
  <1> USE DEF worker, pump, voice, retry
  <1>1. CASE PumpBaud
    BY <1>1 DEF PumpBaud, Suppressed
  <1>2. CASE ArmPump
    BY <1>2 DEF ArmPump, Suppressed
  <1>3. CASE VoiceCancel
    <2>1. UNCHANGED <<s_auto_retry_suppressed, stage>>
      BY <1>3 DEF VoiceCancel
    <2>2. CASE SetState("READY")
      BY <2>1, <2>2, StoreSuppressed
    <2>3. ASSUME NEW t \in Storers, SetIdle(t)
          PROVE  Suppressed'
      BY <2>1, <2>3, DisarmSuppressed DEF SetIdle
    <2> QED BY <1>3, <2>2, <2>3 DEF VoiceCancel
  <1>4. CASE SelectK144
    BY <1>4, DisarmSuppressed DEF SelectK144
  <1>5. CASE SelectPump \/ PumpSelected
    BY <1>5 DEF SelectPump, PumpSelected, Suppressed
  <1>6. ASSUME NEW t \in Lowerers, Lowered(t)
        PROVE  Suppressed'
    BY <1>6 DEF Lowered, Release, Suppressed
  <1>7. CASE ~PumpBaud /\ ~ArmPump /\ ~VoiceCancel /\ ~AskPump
    <2>1. stage' = stage \/ stage # "baud"
      BY <1>7, RaisingStep
    <2>2. CASE s_armed' = s_armed
      BY <1>7, <2>1, <2>2, OnlyPump DEF Suppressed
    <2>3. CASE \E st \in {"READY", "LISTENING"} \cup Busy : SetState(st)
      BY <1>7, <2>1, <2>3, OnlyPump, StoreSuppressed
    <2> QED BY <1>7, <2>2, <2>3, OnlyPump
  <1> QED BY <1>1, <1>2, <1>3, <1>4, <1>5, <1>6, <1>7 DEF AskPump

\* Only mark_k144_unavailable and a suppressed timer leave a retry to the suppression, and
\* the release takes it back.
LEMMA StillStep ==
  ASSUME FlagType, StillSuppressed, FailoverNext
  PROVE  StillSuppressed'
  <1> USE DEF StillSuppressed, retry, worker, chains, offChain
  <1>1. CASE ProbeBegins \/ ProbeUnanswered \/ WarmOk \/ WarmFails
    BY <1>1, Zenon DEF ProbeBegins, ProbeUnanswered, WarmOk, WarmFails,
                       MarkUnavailable, MarkRecovered, FlagType
  <1>2. CASE ArmEnds \/ ArmRefused \/ PumpBaud \/ ArmPump \/ ArmJob
    BY <1>2 DEF ArmEnds, ArmRefused, PumpBaud, ArmPump, ArmJob, Suppress
  <1>3. CASE TextBegins \/ TextAnswered
    BY <1>3 DEF TextBegins, TextAnswered
  <1>4. CASE TextFails
    BY <1>4 DEF TextFails
  <1>5. CASE TtsBegins \/ TtsNoMemory \/ TtsPlayed
    BY <1>5 DEF TtsBegins, TtsNoMemory, TtsPlayed
  <1>6. CASE ChainReady \/ ChainSetupFails \/ ChainToken \/ ChainReply \/ ChainEnds \/
            ChainTail
    BY <1>6 DEF ChainReady, ChainSetupFails, ChainToken, ChainReply, ChainEnds, ChainTail
  <1>7. CASE SendText \/ ResetRequested \/ ChainStart \/ ChainStop \/ VoiceCancel \/
            ChainStartEnds
    BY <1>7 DEF SendText, ResetRequested, ChainStart, ChainStop, VoiceCancel, ChainStartEnds
  <1>8. CASE AskPump
    BY <1>8 DEF AskPump, SelectPump, PumpSelected, SelectK144, Lowered, Suppress,
                Release
  <1>9. CASE AutoRetryFires
    <2>1. /\ s_auto_retry_suppressed' = s_auto_retry_suppressed
          /\ gave_up' = "suppressed" => gave_up = "suppressed" \/ s_auto_retry_suppressed = TRUE
      BY <1>9, Zenon DEF AutoRetryFires, FlagType
    <2> QED BY <2>1
  <1> QED BY <1>1, <1>2, <1>3, <1>4, <1>5, <1>6, <1>7, <1>8, <1>9
       DEF FailoverNext, WorkerNext, ChainNext, PumpNext, AskPump

(* ---- the specification -----------------------------------------------------------*)
LEMMA InitInv == FailoverInit => FailoverInv
  <1> SUFFICES ASSUME FailoverInit PROVE FailoverInv
    OBVIOUS
  <1>1. FlagType
    BY Zenon DEF FailoverInit, FlagType
  <1>2. QueueType
    <2>1. "warmup" \in Kinds
      BY DEF Kinds
    <2>2. <<"warmup">> \in Seq(Kinds) /\ Len(<<"warmup">>) = 1
      BY <2>1
    <2> QED BY <2>2, FailoverAssumption DEF FailoverInit, QueueType, Jobs
  <1>3. ModuleType /\ WorkerType /\ TalkType /\ PumpType
    <2>1. 0 \in 0..RetryMax /\ 0 \in 0..MaxProbes - 1 /\ 0 \in 0..MaxTails
      BY FailoverAssumption
    <2> QED BY <2>1 DEF FailoverInit, ModuleType, WorkerType, TalkType, PumpType
  <1>4. Probing /\ ListeningIsReal /\ TimerLeft /\ Retried
    BY DEF FailoverInit, Probing, ListeningIsReal, TimerLeft, Retried
  <1>5. Raising /\ Suppressed /\ StillSuppressed
    BY DEF FailoverInit, Raising, Suppressed, StillSuppressed
  <1> QED BY <1>1, <1>2, <1>3, <1>4, <1>5 DEF FailoverInv

LEMMA StepInv == FailoverInv /\ FailoverNext => FailoverInv'
  <1> SUFFICES ASSUME FailoverInv, FailoverNext PROVE FailoverInv'
    OBVIOUS
  <1>1. FlagType' /\ QueueType'
    BY FlagStep, QueueStep DEF FailoverInv
  <1>2. ModuleType' /\ WorkerType' /\ TalkType' /\ PumpType'
    BY ModuleStep, WorkerStep, TalkStep, PumpTypeStep DEF FailoverInv
  <1>3. Probing' /\ ListeningIsReal'
    BY ProbingStep, ListeningStep DEF FailoverInv
  <1>4. TimerLeft' /\ Retried'
    BY TimerStep, RetriedStep DEF FailoverInv
  <1>5. Raising' /\ Suppressed' /\ StillSuppressed'
    BY RaisingStep, SuppressedStep, StillStep DEF FailoverInv
  <1> QED BY <1>1, <1>2, <1>3, <1>4, <1>5 DEF FailoverInv

LEMMA StutterInv == FailoverInv /\ UNCHANGED failoverVars => FailoverInv'
  <1> SUFFICES ASSUME FailoverInv, UNCHANGED failoverVars PROVE FailoverInv'
    OBVIOUS
  <1> USE DEF failoverVars, retry, worker, chains, voice, pump
  <1>1. FlagType'
    BY Zenon DEF FailoverInv, FlagType
  <1>2. (QueueType /\ ModuleType /\ WorkerType /\ TalkType)'
    BY DEF FailoverInv, QueueType, ModuleType, WorkerType, TalkType
  <1>3. (Probing /\ ListeningIsReal /\ TimerLeft /\ Retried)'
    BY DEF FailoverInv, Probing, ListeningIsReal, TimerLeft, Retried
  <1>4. (PumpType /\ StillSuppressed /\ Raising /\ Suppressed)'
    BY DEF FailoverInv, PumpType, StillSuppressed, Raising, Suppressed
  <1> QED BY <1>1, <1>2, <1>3, <1>4 DEF FailoverInv

\* Every reachable state has FailoverInv, whatever K144 answers and fails to answer.
LEMMA Invariant == FailoverSpec => []FailoverInv
  <1>1. FailoverInv /\ [FailoverNext]_failoverVars => FailoverInv'
    BY StepInv, StutterInv
  <1> QED BY InitInv, <1>1, PTL DEF FailoverSpec

\* Types: the failover state, the queue of the worker and the chain keep the values
\* voice_onboard.c gives them.
THEOREM FailoverTypes == FailoverSpec => []FailoverTypeOK
  <1>1. FailoverInv => FailoverTypeOK
    <2> SUFFICES ASSUME FailoverInv PROVE FailoverTypeOK
      OBVIOUS
    <2>1. FlagType /\ QueueType /\ ModuleType /\ WorkerType /\ TalkType /\ PumpType
      BY DEF FailoverInv
    <2>2. jobs \in Seq(Kinds) /\ Len(jobs) <= QueueDepth
      BY <2>1 DEF QueueType, Jobs
    <2> QED BY <2>1, <2>2, Zenon
         DEF FailoverTypeOK, FlagType, ModuleType, WorkerType, TalkType, PumpType
  <1> QED BY Invariant, <1>1, PTL

\* The state PROBING, which refuses resets and text turns, belongs to a job that the
\* worker is running (onboard_warmup_job, onboard_reset_failover_job).
THEOREM ProbingEnds == FailoverSpec => []ProbingHasJob
  <1>1. FailoverInv => ProbingHasJob
    BY DEF FailoverInv, Probing, ProbingHasJob
  <1> QED BY Invariant, <1>1, PTL

\* A module left alone is left alone for a reason (mark_k144_unavailable,
\* auto_retry_timer_cb).
THEOREM RetriedOrGivenUp == FailoverSpec => []RetryOrReason
  <1>1. FailoverInv => RetryOrReason
    <2> SUFFICES ASSUME FailoverInv, s_m5_failover = "UNAVAILABLE" PROVE RetryOrReason
      BY DEF RetryOrReason
    <2>1. CASE s_auto_retry_timer = TRUE \/ HasReset(jobs)
      BY <2>1, Zenon DEF HasReset, RetryOrReason
    <2>2. CASE gave_up = "suppressed"
      BY <2>2, Zenon DEF FailoverInv, StillSuppressed, RetryOrReason
    <2>3. CASE gave_up # "suppressed" /\ gave_up # "no"
      BY <2>3, Zenon DEF FailoverInv, ModuleType, RetryOrReason
    <2> QED BY <2>1, <2>2, <2>3 DEF FailoverInv, Retried
  <1> QED BY Invariant, <1>1, PTL

\* LISTENING is on the screen only with a chain or the end of one behind it
\* (onboard_chain_drain_task).
THEOREM ListeningReal == FailoverSpec => []ListeningIsReal
  <1>1. FailoverInv => ListeningIsReal
    BY DEF FailoverInv
  <1> QED BY Invariant, <1>1, PTL

\* No order of the worker's bump, the two bumps and disarms of the HTTP task and the hooks
\* of READY and IDLE leaves the retry suppressed without the pump or a task about to arm it
\* or to release the retry (onboard_warmup_job, voice_ext_pcm_stream_disarm,
\* voice_set_state).
THEOREM SuppressionHeld == FailoverSpec => []SuppressedForPump
  <1>1. FailoverInv => SuppressedForPump
    <2> SUFFICES ASSUME FlagType, Suppressed PROVE SuppressedForPump
      BY DEF FailoverInv
    <2> QED BY Zenon DEF FlagType, Suppressed, SuppressedForPump
  <1> QED BY Invariant, <1>1, PTL
=============================================================================
