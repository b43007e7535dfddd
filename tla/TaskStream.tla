----------------------------- MODULE TaskStream ------------------------------
(***************************************************************************)
(* The progress of one task, from the events its transactions write to the *)
(* status the workspace shows: streamTaskEvents() polls the events and     *)
(* sends them, the page answers each of them by fetching the task, and the *)
(* fetched tasks may come back in any order, or not at all.                *)
(*                                                                         *)
(* An event is written by the transaction that changes the task's row, and *)
(* every one of them locks that row first: the ids of a task's events are  *)
(* in the order of its commits, and stand here for their position.         *)
(***************************************************************************)
EXTENDS Naturals, Sequences, FiniteSetsExt, Functions
CONSTANTS MaxEvents,   \* bound: a task with this many events changes no more
          MaxDrops,    \* bound: how often connections break or are refused,
                       \* and fetches fail
          MaxFetches,  \* bound: fetched tasks on their way at a time
          PageSize     \* events one poll reads, 100 in the code
VARIABLES stage,       \* status of the task's row
          undecided,   \* reviews of the task, not decided yet
          log,         \* the types of its events
          stream,      \* of the API: where the loop is, its cursor and batch
          page,        \* the status shown, the source, the last event received
          answers,     \* per status, fetched tasks on their way to the page
          asked,       \* fetches the API has not answered yet
          drops,
          missed       \* history: a fetch failed that would have shown the end,
                       \* and none has shown it since

svars == <<stage, undecided, log, stream, page, answers, asked, drops, missed>>

ASSUME StreamAssumption == /\ MaxEvents \in Nat \ {0} /\ MaxDrops \in Nat
                           /\ PageSize \in Nat \ {0} /\ MaxFetches \in Nat \ {0}

TaskStatuses == {"queued", "generating", "reviewing", "succeeded", "failed", "cancelled"}
Ended == {"succeeded", "failed", "cancelled"}
(* generationEventTypes; decideReview() writes others, here "manual".      *)
EventTypes == {"queued", "generating", "retrying", "moderated", "reviewing", "succeeded",
               "failed", "cancelled", "dead_lettered"}

Off == [at |-> "off", cursor |-> 0, upto |-> 0, sent |-> 0, empty |-> FALSE]

(* The page has just loaded the session that createTask() returned.        *)
StreamInit ==
  /\ stage = "queued" /\ undecided = 0 /\ log = <<"queued">>
  /\ stream = Off
  /\ page = [shown |-> "queued", watching |-> TRUE, seen |-> 0]
  /\ answers = [s \in TaskStatuses |-> 0] /\ asked = 0
  /\ drops = 0 /\ missed = FALSE

-----------------------------------------------------------------------------
(* The task.                                                               *)
Writes(new, types) ==
  /\ Len(log) + Len(types) <= MaxEvents
  /\ stage' = new /\ log' = log \o types
  /\ UNCHANGED <<stream, page, drops, missed>>

TaskStarts ==
  /\ stage \in {"queued", "generating"}
  /\ Writes("generating", IF stage = "queued" THEN <<"generating">> ELSE <<"retrying">>)
  /\ UNCHANGED <<undecided, answers, asked>>
(* A suspicious input is put up for review here, a suspicious output, one  *)
(* review per image, when the task is held.                                *)
RecordModeration(opened) ==
  /\ stage = "generating" /\ Writes("generating", <<"moderated">>)
  /\ undecided' = undecided + opened
  /\ UNCHANGED <<answers, asked>>
TaskHeld(opened) ==
  /\ stage = "generating" /\ Writes("reviewing", <<"reviewing">>)
  /\ undecided' = undecided + opened
  /\ UNCHANGED <<answers, asked>>
TaskSucceeds ==
  /\ stage = "generating" /\ Writes("succeeded", <<"succeeded">>)
  /\ UNCHANGED <<undecided, answers, asked>>
TaskFails(deadLetter) ==
  /\ stage \in {"queued", "generating"}
  /\ Writes("failed", IF deadLetter THEN <<"dead_lettered", "failed">> ELSE <<"failed">>)
  /\ UNCHANGED <<undecided, answers, asked>>
(* Of the input (back to the queue) or of the output, whatever has become  *)
(* of the task.                                                            *)
DecideReview ==
  /\ undecided > 0 /\ undecided' = undecided - 1
  /\ \E new \in {"queued", "succeeded", "failed"} : Writes(new, <<"manual">>)
  /\ UNCHANGED <<answers, asked>>

(* The user's request answers with the task as it is then, if the answer   *)
(* arrives; the page shows it like a fetched one.                          *)
TaskCancelled(answered) ==
  /\ stage \in {"queued", "generating"} /\ page.shown \notin Ended
  /\ Writes("cancelled", <<"cancelled">>)
  /\ answers' = IF answered THEN [answers EXCEPT !["cancelled"] = @ + 1] ELSE answers
  /\ UNCHANGED <<undecided, asked>>

-----------------------------------------------------------------------------
(* The API's stream.                                                       *)
ListEvents ==
  /\ stream.at = "polling"
  /\ LET upto == Min({Len(log), stream.cursor + PageSize})
     IN stream' = [stream EXCEPT !.at = "sending", !.upto = upto, !.empty = upto = stream.cursor]
  /\ UNCHANGED <<stage, undecided, log, page, answers, asked, drops, missed>>

(* The cursor moves first; a type the contract does not list is an error,  *)
(* which ends the stream.                                                  *)
SendEvent ==
  /\ stream.at = "sending" /\ stream.cursor < stream.upto
  /\ stream' = IF log[stream.cursor + 1] \in EventTypes
               THEN [stream EXCEPT !.cursor = @ + 1, !.sent = stream.cursor + 1]
               ELSE [stream EXCEPT !.cursor = @ + 1, !.at = "failed"]
  /\ UNCHANGED <<stage, undecided, log, page, answers, asked, drops, missed>>

(* Complete when the task has ended and there was nothing to send.  The    *)
(* task may have ended since the list was read: its last events are then   *)
(* left to the next connection.                                            *)
CheckTask ==
  /\ stream.at = "sending" /\ stream.cursor = stream.upto
  /\ stream' = [stream EXCEPT !.at = IF stage \in Ended /\ stream.empty THEN "complete"
                                     ELSE "polling"]
  /\ UNCHANGED <<stage, undecided, log, page, answers, asked, drops, missed>>

-----------------------------------------------------------------------------
(* The page.                                                               *)
OpenedAt(cursor) == [Off EXCEPT !.at = "polling", !.cursor = cursor, !.sent = cursor]

(* Plausible slips, for mutants of Replays: without Last-Event-ID the      *)
(* stream would start at the end, or one event too late.                   *)
FromTheEnd == {Len(log)}
OneTooFar == {page.seen + 1}
(* What the browser sends as Last-Event-ID: the last event it was given;   *)
(* after an error perhaps an id of the framework's.                        *)
Replays == IF stream.at = "failed" THEN {0, page.seen} ELSE {page.seen}

Fails == drops < MaxDrops /\ drops' = drops + 1

(* A source that is not closed connects again by itself.                   *)
Connects == /\ page.watching
            /\ \/ stream.at = "off"
               \/ stream.at \in {"complete", "failed"} /\ page.seen = stream.sent

Connect ==
  /\ Connects
  /\ \E cursor \in Replays : stream' = OpenedAt(cursor) /\ page' = [page EXCEPT !.seen = cursor]
  /\ UNCHANGED <<stage, undecided, log, answers, asked, drops, missed>>

(* Any answer but 200 closes the source, and the page does not notice: it  *)
(* opens another one only if the task it shows ends and is active again.   *)
ConnectionRefused ==
  /\ Connects /\ Fails
  /\ stream' = [Off EXCEPT !.at = "refused"]
  /\ UNCHANGED <<stage, undecided, log, page, answers, asked, missed>>

ConnectionBreaks ==
  /\ stream.at \notin {"off", "refused"} /\ Fails
  /\ stream' = Off
  /\ UNCHANGED <<stage, undecided, log, page, answers, asked, missed>>

(* refresh(): whatever the event says, the page fetches the task.          *)
ReceiveEvent ==
  /\ page.watching /\ stream.at \notin {"off", "refused"} /\ page.seen < stream.sent
  /\ asked + FoldFunction(+, 0, answers) < MaxFetches
  /\ page' = [page EXCEPT !.seen = @ + 1]
  /\ asked' = asked + 1
  /\ UNCHANGED <<stage, undecided, log, stream, answers, drops, missed>>

GetTask ==
  /\ asked > 0
  /\ asked' = asked - 1 /\ answers' = [answers EXCEPT ![stage] = @ + 1]
  /\ UNCHANGED <<stage, undecided, log, stream, page, drops, missed>>

(* A fetch fails, before the API reads the task or after: nothing catches  *)
(* it, and the page does not ask again.                                    *)
FetchFails(s) ==
  /\ answers[s] > 0 /\ Fails
  /\ answers' = [answers EXCEPT ![s] = @ - 1]
  /\ missed' = (missed \/ s \in Ended)
  /\ UNCHANGED <<stage, undecided, log, stream, page, asked>>

(* A plausible slip, for a mutant of Watches: only ever closes sources.    *)
NeverReopens(shown) == page.watching /\ shown \notin Ended
(* A page has a source for a task exactly as long as what it shows of the  *)
(* task has not ended, and opens a new one when it shows it active again.  *)
Watches(shown) == shown \notin Ended

(* An answer replaces what is shown, be it older or newer.                 *)
ShowTask(s) ==
  /\ answers[s] > 0
  /\ answers' = [answers EXCEPT ![s] = @ - 1]
  /\ page' = [shown |-> s, watching |-> Watches(s),
              seen |-> IF page.watching THEN page.seen ELSE 0]
  /\ stream' = IF Watches(s) THEN stream ELSE Off
  /\ missed' = (missed /\ s \notin Ended)
  /\ UNCHANGED <<stage, undecided, log, asked, drops>>

-----------------------------------------------------------------------------
TaskStep == \/ TaskStarts \/ TaskSucceeds \/ DecideReview
            \/ \E answered \in BOOLEAN : TaskCancelled(answered)
            \/ \E opened \in {0, 1} : RecordModeration(opened)
            \/ \E opened \in {0, 2} : TaskHeld(opened)
            \/ \E deadLetter \in BOOLEAN : TaskFails(deadLetter)
Moves == ListEvents \/ SendEvent \/ CheckTask \/ Connect \/ ReceiveEvent \/ GetTask
StreamNext == \/ TaskStep \/ Moves \/ ConnectionBreaks \/ ConnectionRefused
              \/ \E s \in TaskStatuses : ShowTask(s) \/ FetchFails(s)

(* The API and the browser go on: a request is answered or fails, a source *)
(* connects again or is refused.  The task, the administration and the     *)
(* user owe nothing.                                                       *)
StreamFairness ==
  /\ WF_svars(ListEvents) /\ WF_svars(SendEvent) /\ WF_svars(CheckTask)
  /\ WF_svars(Connect) /\ WF_svars(ReceiveEvent) /\ WF_svars(GetTask)
  /\ \A s \in TaskStatuses : WF_svars(ShowTask(s))

StreamSpec == StreamInit /\ [][StreamNext]_svars /\ StreamFairness

-----------------------------------------------------------------------------
(* The stream never gets ahead of the events, nor the page of the stream.  *)
StreamTypeOK ==
  /\ stage \in TaskStatuses /\ undecided \in Nat /\ log \in Seq(EventTypes \cup {"manual"})
  /\ stream.at \in {"off", "refused", "polling", "sending", "complete", "failed"}
  /\ stream.sent <= stream.cursor /\ stream.cursor <= Len(log) /\ stream.upto <= Len(log)
  /\ page.shown \in TaskStatuses /\ page.watching \in BOOLEAN
  /\ stream.at \notin {"off", "refused"} => page.seen <= stream.sent
  /\ answers \in [TaskStatuses -> Nat] /\ asked \in Nat /\ drops \in 0 .. MaxDrops
  /\ missed \in BOOLEAN

Manual == \E k \in 1 .. Len(log) : log[k] = "manual"

(* When a task has ended by itself or by its user, the page comes to show  *)
(* how, for good, and stops asking: though a stream may complete without   *)
(* its last events, connections break, earlier fetches and the answer to a *)
(* cancellation are lost, and an answer overtakes a later one.  But not if *)
(* the last fetch of the ended task failed, which nobody repeats, or its   *)
(* source was refused (refresh(), streamTaskEvents()).                     *)
CatchesUp ==
  (stage \in Ended /\ ~Manual)
    ~> [](\/ Manual \/ missed \/ stream.at = "refused"
          \/ page.shown = stage /\ ~page.watching)

(* packages/contracts is the only source of the definitions of the events  *)
(* (docs/project-structure.md): no stream fails on an event it cannot map. *)
(* No run checks it: it does not hold, see README.md.                      *)
StreamsSurvive == stream.at # "failed"
=============================================================================
