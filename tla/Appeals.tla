-------------------------------- MODULE Appeals --------------------------------
(***************************************************************************)
(* Appeals of a user about his task or one of its images, and who may      *)
(* decide them.  The reviews are those of ManualReview, of which only the  *)
(* moderator they are assigned to matters here.  Requests overlap, those   *)
(* of one moderator like those of several; two of one moderator about one  *)
(* appeal count as one, since the second changes nothing after the first.  *)
(***************************************************************************)
EXTENDS Naturals, FiniteSets

CONSTANTS
  Moderators,
  Pictures,       (* The images of the task.                              *)
  AppealIds,
  Nobody          (* No moderator, no row, no request.                    *)

ASSUME AppealAssumption ==
  Nobody \notin Moderators \cup AppealIds /\ {"task", "prompt"} \cap Pictures = {}

(* What an appeal is about; one that names a task and an image of it is    *)
(* treated like one about the task.                                        *)
Subjects == {"task"} \cup Pictures
Reviewed == {"prompt"} \cup Pictures     (* What a review is about.        *)

VARIABLES
  assigned,       (* assigned[v]: absent, OPEN, CLAIMED or DECIDED, by whom. *)
  appeal,         (* appeal[a]: its row, or Nobody.                       *)
  hearing,        (* hearing[m]: the appeals that m's requests have read. *)
  joined          (* joined[m]: of these, the ones about which m claimed a
                     review since; history, for the property below.       *)

appealVars == <<assigned, appeal, hearing, joined>>

AppealInit ==
  /\ assigned = [v \in Reviewed |-> [status |-> "absent", by |-> Nobody]]
  /\ appeal = [a \in AppealIds |-> Nobody]
  /\ hearing = [m \in Moderators |-> {}] /\ joined = [m \in Moderators |-> {}]

(* Mutant: the reviews of the images of an appealed task are left out.     *)
OfThePrompt(subject) == IF subject = "task" THEN {"prompt"} ELSE {subject}

(* The reviews of a task are those of its prompt and of its images.        *)
ReviewsAbout(subject) == IF subject = "task" THEN Reviewed ELSE {subject}

(* A worker puts the prompt, or the images, up for review.                 *)
PutUp(V) ==
  /\ \A v \in V : assigned[v].status = "absent"
  /\ assigned' = [v \in Reviewed |->
       IF v \in V THEN [status |-> "OPEN", by |-> Nobody] ELSE assigned[v]]
  /\ UNCHANGED <<appeal, hearing, joined>>

(* An appeal he is about to decide does not keep a moderator from it.      *)
AssignReview(m, v) ==
  /\ assigned[v] = [status |-> "OPEN", by |-> Nobody]
  /\ assigned' = [assigned EXCEPT ![v] = [status |-> "CLAIMED", by |-> m]]
  /\ joined' = [joined EXCEPT ![m] = @ \cup
       {a \in hearing[m] : appeal[a] # Nobody /\ v \in ReviewsAbout(appeal[a].about)}]
  /\ UNCHANGED <<appeal, hearing>>

CloseReview(m, v) ==
  /\ assigned[v] = [status |-> "CLAIMED", by |-> m]
  /\ assigned' = [assigned EXCEPT ![v].status = "DECIDED"]
  /\ UNCHANGED <<appeal, hearing, joined>>

(* Nothing keeps a user from appealing again, or before anybody decided;   *)
(* an id is new.                                                           *)
CreateAppeal(a, subject) ==
  /\ appeal[a] = Nobody
  /\ \A m \in Moderators : a \notin hearing[m]
  /\ appeal' = [appeal EXCEPT ![a] = [about |-> subject, status |-> "OPEN", by |-> Nobody]]
  /\ UNCHANGED <<assigned, hearing, joined>>

StillOpen(a) == appeal[a] # Nobody /\ appeal[a].status = "OPEN"

ReadAppeal(m, a) ==
  /\ StillOpen(a)
  /\ \A v \in ReviewsAbout(appeal[a].about) : assigned[v].by # m
  /\ hearing' = [hearing EXCEPT ![m] = @ \cup {a}]
  /\ UNCHANGED <<assigned, appeal, joined>>

(* The update asks again whether the appeal is open, and only that.        *)
DecideAppeal(m, a) ==
  /\ a \in hearing[m]
  /\ \/ /\ StillOpen(a)
        /\ \E d \in {"ACCEPTED", "REJECTED"} :
             appeal' = [appeal EXCEPT ![a].status = d, ![a].by = m]
     \/ UNCHANGED appeal
  /\ hearing' = [hearing EXCEPT ![m] = @ \ {a}]
  /\ joined' = [joined EXCEPT ![m] = @ \ {a}]
  /\ UNCHANGED assigned

(* With its session the task loses its reviews and its appeals, open ones  *)
(* included.                                                               *)
TaskGoes ==
  /\ assigned' = [v \in Reviewed |-> [status |-> "absent", by |-> Nobody]]
  /\ appeal' = [a \in AppealIds |-> Nobody]
  /\ UNCHANGED <<hearing, joined>>

AppealNext ==
  \/ PutUp({"prompt"}) \/ PutUp(Pictures)
  \/ \E m \in Moderators, v \in Reviewed : AssignReview(m, v) \/ CloseReview(m, v)
  \/ \E a \in AppealIds, subject \in Subjects : CreateAppeal(a, subject)
  \/ \E m \in Moderators, a \in AppealIds : ReadAppeal(m, a) \/ DecideAppeal(m, a)
  \/ TaskGoes

AppealSpec == AppealInit /\ [][AppealNext]_appealVars

-----------------------------------------------------------------------------
(* Properties.                                                             *)

(* Every row has the values its columns allow (schema.prisma).             *)
AppealTypeOK ==
  /\ assigned \in [Reviewed -> [status : {"absent", "OPEN", "CLAIMED", "DECIDED"},
                                by : Moderators \cup {Nobody}]]
  /\ appeal \in [AppealIds -> {Nobody} \cup
       [about : Subjects, status : {"OPEN", "ACCEPTED", "REJECTED"},
        by : Moderators \cup {Nobody}]]
  /\ hearing \in [Moderators -> SUBSET AppealIds]
  /\ joined \in [Moderators -> SUBSET AppealIds]
  /\ \A m \in Moderators : joined[m] \subseteq hearing[m]

(* An appeal is decided once, by a moderator to whom no review of what it  *)
(* is about is assigned, although reviews are put up, claimed and decided  *)
(* between his reading and his decision (decideAppeal()).  He himself can  *)
(* still claim one in between: only then is he judge in his own cause.     *)
HeardByAnother ==
  [][\A a \in AppealIds :
       appeal[a] # Nobody /\ appeal'[a] # Nobody /\ appeal'[a] # appeal[a] =>
         /\ appeal[a].status = "OPEN"
         /\ \/ a \in joined[appeal'[a].by]
            \/ IF appeal[a].about = "task"
               THEN \A v \in Reviewed : assigned[v].by # appeal'[a].by
               ELSE assigned[appeal[a].about].by # appeal'[a].by]_appealVars

=============================================================================
