----------------------------- MODULE LiveProofs ------------------------------
(***************************************************************************)
(* That the stream a customer follows a task by never gets ahead of its    *)
(* events, however its connections break; and that nothing a customer      *)
(* waits for ever takes a value its columns do not allow.                  *)
(***************************************************************************)
EXTENDS MCLive, TaskProofs

-----------------------------------------------------------------------------
(***************************************************************************)
(* The stream of a task's events (TaskStream).                             *)
(***************************************************************************)

Streams ==
  [at : {"off", "refused", "polling", "sending", "complete", "failed"},
   cursor : Nat, upto : Nat, sent : Nat, empty : BOOLEAN]

(* What the page was given stays behind the events also while it is not    *)
(* connected, and a batch lies between the cursor and the last event.      *)
StreamInv ==
  /\ stage \in TaskStatuses /\ undecided \in Nat /\ log \in Seq(EventTypes \cup {"manual"})
  /\ stream \in Streams
  /\ page \in [shown : TaskStatuses, watching : BOOLEAN, seen : Nat]
  /\ answers \in [TaskStatuses -> Nat] /\ asked \in Nat /\ drops \in 0 .. MaxDrops
  /\ missed \in BOOLEAN
  /\ stream.sent <= stream.cursor /\ stream.cursor <= Len(log) /\ stream.upto <= Len(log)
  /\ stream.at = "sending" => stream.cursor <= stream.upto
  /\ page.seen <= Len(log)
  /\ stream.at \notin {"off", "refused"} => page.seen <= stream.sent

LEMMA WritesStep ==
  ASSUME StreamInv, NEW new \in TaskStatuses, NEW types \in Seq(EventTypes \cup {"manual"}),
         Writes(new, types), undecided' \in Nat, answers' \in [TaskStatuses -> Nat], asked' \in Nat
  PROVE  StreamInv'
<1>1. /\ stage' = new /\ log' = log \o types /\ UNCHANGED <<stream, page, drops, missed>>
      /\ log \in Seq(EventTypes \cup {"manual"})
  BY DEF Writes, StreamInv
<1>2. log' \in Seq(EventTypes \cup {"manual"}) /\ Len(log') = Len(log) + Len(types)
  BY <1>1, ConcatProperties
<1>3. Len(log) \in Nat /\ Len(types) \in Nat /\ Len(log) <= Len(log')
  BY <1>1, <1>2
<1> QED
  BY <1>1, <1>2, <1>3 DEF StreamInv, Streams

LEMMA TaskStepKeeps ==
  ASSUME StreamInv, TaskStep
  PROVE  StreamInv'
<1>0. /\ undecided \in Nat /\ asked \in Nat /\ answers \in [TaskStatuses -> Nat]
      /\ {"queued", "generating", "reviewing", "succeeded", "failed", "cancelled"} = TaskStatuses
  BY DEF StreamInv, TaskStatuses
<1>1. CASE TaskStarts
  <2>1. \E types \in Seq(EventTypes \cup {"manual"}) :
          Writes("generating", types) /\ UNCHANGED <<undecided, answers, asked>>
    <3>1. <<"generating">> \in Seq(EventTypes \cup {"manual"})
          /\ <<"retrying">> \in Seq(EventTypes \cup {"manual"})
      BY DEF EventTypes
    <3> QED
      BY <1>1, <3>1 DEF TaskStarts
  <2> QED
    BY <1>0, <2>1, WritesStep
<1>2. CASE \E opened \in {0, 1} : RecordModeration(opened)
  <2>1. <<"moderated">> \in Seq(EventTypes \cup {"manual"})
    BY DEF EventTypes
  <2>2. Writes("generating", <<"moderated">>) /\ undecided' \in Nat /\ UNCHANGED <<answers, asked>>
    BY <1>0, <1>2 DEF RecordModeration
  <2> QED
    BY <1>0, <2>1, <2>2, WritesStep
<1>3. CASE \E opened \in {0, 2} : TaskHeld(opened)
  <2>1. <<"reviewing">> \in Seq(EventTypes \cup {"manual"})
    BY DEF EventTypes
  <2>2. Writes("reviewing", <<"reviewing">>) /\ undecided' \in Nat /\ UNCHANGED <<answers, asked>>
    BY <1>0, <1>3 DEF TaskHeld
  <2> QED
    BY <1>0, <2>1, <2>2, WritesStep
<1>4. CASE TaskSucceeds
  <2>1. <<"succeeded">> \in Seq(EventTypes \cup {"manual"})
    BY DEF EventTypes
  <2>2. Writes("succeeded", <<"succeeded">>) /\ UNCHANGED <<undecided, answers, asked>>
    BY <1>4 DEF TaskSucceeds
  <2> QED
    BY <1>0, <2>1, <2>2, WritesStep
<1>5. CASE \E deadLetter \in BOOLEAN : TaskFails(deadLetter)
  <2>1. <<"failed">> \in Seq(EventTypes \cup {"manual"})
        /\ <<"dead_lettered", "failed">> \in Seq(EventTypes \cup {"manual"})
    BY DEF EventTypes
  <2>2. \E types \in Seq(EventTypes \cup {"manual"}) :
          Writes("failed", types) /\ UNCHANGED <<undecided, answers, asked>>
    BY <1>5, <2>1 DEF TaskFails
  <2> QED
    BY <1>0, <2>2, WritesStep
<1>6. CASE DecideReview
  <2>1. <<"manual">> \in Seq(EventTypes \cup {"manual"})
    OBVIOUS
  <2>2. undecided' \in Nat /\ UNCHANGED <<answers, asked>>
        /\ \E new \in TaskStatuses : Writes(new, <<"manual">>)
    BY <1>0, <1>6 DEF DecideReview
  <2> QED
    BY <1>0, <2>1, <2>2, WritesStep
<1>7. CASE \E answered \in BOOLEAN : TaskCancelled(answered)
  <2>1. <<"cancelled">> \in Seq(EventTypes \cup {"manual"})
    BY DEF EventTypes
  <2>2. Writes("cancelled", <<"cancelled">>) /\ answers' \in [TaskStatuses -> Nat]
        /\ UNCHANGED <<undecided, asked>>
    BY <1>0, <1>7 DEF TaskCancelled
  <2> QED
    BY <1>0, <2>1, <2>2, WritesStep
<1> QED
  BY <1>1, <1>2, <1>3, <1>4, <1>5, <1>6, <1>7 DEF TaskStep

LEMMA MovesKeep ==
  ASSUME StreamInv,
         \/ Moves \/ ConnectionBreaks \/ ConnectionRefused
         \/ \E s \in TaskStatuses : ShowTask(s) \/ FetchFails(s)
  PROVE  StreamInv'
<1>0. Len(log) \in Nat /\ MaxDrops \in Nat /\ PageSize \in Nat \ {0}
  BY StreamAssumption DEF StreamInv
<1>1. CASE ListEvents
  <2> DEFINE upto == Min({Len(log), stream.cursor + PageSize})
  <2>1. /\ stream' = [stream EXCEPT !.at = "sending", !.upto = upto, !.empty = (upto = stream.cursor)]
        /\ UNCHANGED <<stage, undecided, log, page, answers, asked, drops, missed>> /\ stream.at = "polling"
    BY <1>1 DEF ListEvents
  <2>2. upto \in Nat /\ upto <= Len(log) /\ stream.cursor <= upto
    <3>1. ASSUME NEW m \in Nat, NEW n \in Nat
          PROVE  Min({m, n}) \in {m, n} /\ Min({m, n}) <= m /\ Min({m, n}) <= n
      <4>1. \E x \in {m, n} : \A y \in {m, n} : x <= y
        BY <3>1
      <4> QED
        BY <4>1 DEF Min
    <3>2. stream.cursor \in Nat /\ stream.cursor + PageSize \in Nat
          /\ stream.cursor <= stream.cursor + PageSize /\ stream.cursor <= Len(log)
      BY <1>0 DEF StreamInv, Streams
    <3>3. upto \in {Len(log), stream.cursor + PageSize} /\ upto <= Len(log)
      BY <1>0, <3>1, <3>2
    <3> HIDE DEF upto
    <3> QED
      BY <1>0, <3>2, <3>3
  <2> HIDE DEF upto
  <2> QED
    BY <2>1, <2>2 DEF StreamInv, Streams
<1>2. CASE SendEvent
  <2>1. /\ stream.at = "sending" /\ stream.cursor < stream.upto
        /\ \/ stream' = [stream EXCEPT !.cursor = @ + 1, !.sent = stream.cursor + 1]
           \/ stream' = [stream EXCEPT !.cursor = @ + 1, !.at = "failed"]
        /\ UNCHANGED <<stage, undecided, log, page, answers, asked, drops, missed>>
    BY <1>2 DEF SendEvent
  <2>2. /\ stream.cursor \in Nat /\ stream.upto \in Nat /\ stream.sent \in Nat /\ page.seen \in Nat
        /\ stream.cursor + 1 \in Nat /\ stream.cursor + 1 <= stream.upto
        /\ stream.sent <= stream.cursor + 1 /\ page.seen <= stream.sent
        /\ page.seen <= stream.cursor + 1 /\ stream.cursor + 1 <= Len(log)
    BY <1>0, <2>1 DEF StreamInv, Streams
  <2>3. /\ stream' \in Streams /\ stream'.cursor = stream.cursor + 1 /\ stream'.upto = stream.upto
        /\ stream'.sent \in {stream.sent, stream.cursor + 1} /\ stream'.at \in {"sending", "failed"}
    BY <2>1, <2>2 DEF StreamInv, Streams
  <2> QED
    BY <1>0, <2>1, <2>2, <2>3 DEF StreamInv
<1>3. CASE CheckTask
  <2>1. /\ stream.at = "sending"
        /\ \E s \in {"complete", "polling"} : stream' = [stream EXCEPT !.at = s]
        /\ UNCHANGED <<stage, undecided, log, page, answers, asked, drops, missed>>
    BY <1>3 DEF CheckTask
  <2> QED
    BY <1>0, <2>1 DEF StreamInv, Streams
<1>4. CASE Connect
  <2>1. PICK cursor \in Replays : stream' = OpenedAt(cursor) /\ page' = [page EXCEPT !.seen = cursor]
    BY <1>4 DEF Connect
  <2>2. UNCHANGED <<stage, undecided, log, answers, asked, drops, missed>>
    BY <1>4 DEF Connect
  <2>3. cursor \in Nat /\ cursor <= Len(log)
    BY <1>0 DEF Replays, StreamInv
  <2>4. stream' = [at |-> "polling", cursor |-> cursor, upto |-> 0, sent |-> cursor, empty |-> FALSE]
    BY <2>1 DEF OpenedAt, Off
  <2>5. page' \in [shown : TaskStatuses, watching : BOOLEAN, seen : Nat] /\ page'.seen = cursor
    BY <2>1, <2>3 DEF StreamInv
  <2>6. /\ stream' \in Streams /\ stream'.at = "polling" /\ stream'.cursor = cursor
        /\ stream'.sent = cursor /\ stream'.upto = 0
    BY <2>3, <2>4 DEF Streams
  <2> QED
    BY <1>0, <2>2, <2>3, <2>5, <2>6 DEF StreamInv
<1>5. CASE ReceiveEvent
  <2>1. /\ stream.at \notin {"off", "refused"} /\ page.seen < stream.sent /\ page' = [page EXCEPT !.seen = @ + 1]
        /\ asked' = asked + 1 /\ UNCHANGED <<stage, undecided, log, stream, answers, drops, missed>>
    BY <1>5 DEF ReceiveEvent
  <2>2. /\ page' \in [shown : TaskStatuses, watching : BOOLEAN, seen : Nat]
        /\ page'.seen = page.seen + 1 /\ page.seen \in Nat
    BY <2>1 DEF StreamInv
  <2>3. page.seen + 1 <= stream.sent /\ page.seen + 1 <= Len(log)
    BY <1>0, <2>1, <2>2 DEF StreamInv, Streams
  <2> QED
    BY <1>0, <2>1, <2>2, <2>3 DEF StreamInv
<1>6. CASE GetTask
  <2>1. /\ asked > 0 /\ asked' = asked - 1 /\ answers' = [answers EXCEPT ![stage] = @ + 1]
        /\ UNCHANGED <<stage, undecided, log, stream, page, drops, missed>>
    BY <1>6 DEF GetTask
  <2> QED
    BY <1>0, <2>1 DEF StreamInv, Streams
<1>7. CASE ConnectionBreaks \/ ConnectionRefused
  <2>1. /\ drops < MaxDrops /\ drops' = drops + 1
        /\ \E at \in {"off", "refused"} :
             stream' = [at |-> at, cursor |-> 0, upto |-> 0, sent |-> 0, empty |-> FALSE]
        /\ UNCHANGED <<stage, undecided, log, page, answers, asked, missed>>
    BY <1>7 DEF ConnectionBreaks, ConnectionRefused, Fails, Off
  <2> QED
    BY <1>0, <2>1 DEF StreamInv, Streams
<1>8. CASE \E s \in TaskStatuses : ShowTask(s)
  <2>1. PICK s \in TaskStatuses : ShowTask(s)
    BY <1>8
  <2>2. /\ answers' \in [TaskStatuses -> Nat]
        /\ missed' \in BOOLEAN /\ UNCHANGED <<stage, undecided, log, asked, drops>>
    BY <2>1 DEF ShowTask, StreamInv
  <2>3. /\ page' \in [shown : TaskStatuses, watching : BOOLEAN, seen : Nat]
        /\ page'.seen \in {page.seen, 0}
    BY <2>1 DEF ShowTask, Watches, StreamInv
  <2>4. stream' = stream \/ stream' = [at |-> "off", cursor |-> 0, upto |-> 0, sent |-> 0, empty |-> FALSE]
    BY <2>1 DEF ShowTask, Off
  <2>5. CASE stream' = stream
    <3>1. page'.seen <= Len(log) /\ (stream.at \notin {"off", "refused"} => page'.seen <= stream.sent)
      BY <1>0, <2>3 DEF StreamInv, Streams
    <3> QED
      BY <2>2, <2>3, <2>5, <3>1 DEF StreamInv
  <2>6. CASE stream' = [at |-> "off", cursor |-> 0, upto |-> 0, sent |-> 0, empty |-> FALSE]
    <3>1. /\ stream' \in Streams /\ stream'.at = "off" /\ stream'.cursor = 0 /\ stream'.sent = 0
          /\ stream'.upto = 0
      BY <2>6 DEF Streams
    <3> QED
      BY <1>0, <2>2, <2>3, <3>1 DEF StreamInv
  <2> QED
    BY <2>4, <2>5, <2>6
<1>9. CASE \E s \in TaskStatuses : FetchFails(s)
  <2>1. PICK s \in TaskStatuses : FetchFails(s)
    BY <1>9
  <2>2. /\ answers[s] > 0 /\ drops < MaxDrops /\ drops' = drops + 1
        /\ answers' = [answers EXCEPT ![s] = @ - 1] /\ missed' \in BOOLEAN
        /\ UNCHANGED <<stage, undecided, log, stream, page, asked>>
    BY <2>1 DEF FetchFails, Fails, StreamInv
  <2> QED
    BY <1>0, <2>2 DEF StreamInv
<1> QED
  BY <1>1, <1>2, <1>3, <1>4, <1>5, <1>6, <1>7, <1>8, <1>9 DEF Moves

LEMMA StreamValues == StreamInit /\ [][StreamNext]_svars => []StreamTypeOK
<1>1. ASSUME StreamInit PROVE StreamInv
  <2>1. log \in Seq(EventTypes \cup {"manual"}) /\ Len(log) = 1
    BY <1>1 DEF StreamInit, EventTypes
  <2>2. stream \in Streams /\ drops \in 0 .. MaxDrops
    BY <1>1, StreamAssumption DEF StreamInit, Streams, Off
  <2>3. missed \in BOOLEAN
    BY <1>1, Zenon DEF StreamInit
  <2> QED
    BY <1>1, <2>1, <2>2, <2>3 DEF StreamInit, StreamInv, Off, TaskStatuses
<1>2. StreamInv /\ [StreamNext]_svars => StreamInv'
  <2> SUFFICES ASSUME StreamInv, [StreamNext]_svars PROVE StreamInv'
    OBVIOUS
  <2>1. CASE StreamNext
    BY <2>1, TaskStepKeeps, MovesKeep DEF StreamNext
  <2>2. CASE UNCHANGED svars
    BY <2>2 DEF svars, StreamInv
  <2> QED
    BY <2>1, <2>2
<1>3. StreamInv => StreamTypeOK
  BY DEF StreamInv, Streams, StreamTypeOK
<1> QED
  BY <1>1, <1>2, <1>3, PTL

(* Whatever breaks and overtakes, the stream never gets ahead of the       *)
(* task's events nor the page of the stream (TaskStream:                   *)
(* streamTaskEvents() and Last-Event-ID).                                  *)
THEOREM StreamKeepsBehind == StreamSpec => []StreamTypeOK
BY StreamValues, PTL DEF StreamSpec

-----------------------------------------------------------------------------
(* The task and its stream together (MCLive).                              *)

(* What a customer waits for has the values its columns allow, the task    *)
(* with its credits and its job, and the stream its page follows it by.    *)
THEOREM LiveTypesCorrect == LiveSpec => []LiveTypeOK
<1>1. LiveInit => Init /\ StreamInit
  BY DEF LiveInit
<1> DEFINE Told == TaskStory \/ StreamStory
<1>2. [Told]_allvars => [Next]_vars
  BY DEF TaskStory, StreamStory, allvars
<1>3. [Told]_allvars => [StreamNext]_svars
  BY DEF TaskStory, StreamStory, allvars
<1>4. LiveSpec => Spec /\ StreamInit /\ [][StreamNext]_svars
  BY <1>1, <1>2, <1>3, PTL DEF LiveSpec, Spec
<1> QED
  BY <1>4, TypeCorrect, StreamValues, PTL DEF LiveTypeOK

==============================================================================
