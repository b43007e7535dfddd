------------------------------- MODULE MCLive --------------------------------
(***************************************************************************)
(* What a customer waits for: one run tells either the story of a task or  *)
(* that of a page that follows one.  The story is chosen at the start, and *)
(* the variables of the other one keep their initial values.               *)
(***************************************************************************)
EXTENDS MCGenerationTask, TaskStream

VARIABLE story

allvars == <<vars, svars, story>>

LiveInit == Init /\ StreamInit /\ story \in {"task", "stream"}

TaskStory   == story = "task" /\ Next /\ UNCHANGED <<svars, story>>
StreamStory == story = "stream" /\ StreamNext /\ UNCHANGED <<vars, story>>

(* Of the task Fairness, of the stream StreamFairness.                     *)
LiveFairness ==
  /\ \A r \in Requests : WF_vars(story = "task" /\ Finish(r))
  /\ \A w \in Workers :
       WF_vars(story = "task" /\ (Process(w) \/ FinishJob(w) \/ RejectJob(w)))
  /\ \A t \in Tasks : WF_vars(story = "task" /\ StallJob(t) /\ job[t].owner = None)
  /\ WF_vars(story = "task" /\ \E w \in Workers, t \in Tasks : TakeJob(w, t))
  /\ WF_svars(story = "stream" /\ ListEvents)
  /\ WF_svars(story = "stream" /\ SendEvent)
  /\ WF_svars(story = "stream" /\ CheckTask)
  /\ WF_svars(story = "stream" /\ Connect)
  /\ WF_svars(story = "stream" /\ ReceiveEvent)
  /\ WF_svars(story = "stream" /\ GetTask)
  /\ \A s \in TaskStatuses : WF_svars(story = "stream" /\ ShowTask(s))

(* Both have the values their columns allow.                               *)
LiveTypeOK == TypeOK /\ StreamTypeOK

LiveSpec == LiveInit /\ [][TaskStory \/ StreamStory]_allvars /\ LiveFairness

==============================================================================
