----------------------------- MODULE OutputObjects -----------------------------
(***************************************************************************)
(* The images of a task: files a worker stores before the transaction that *)
(* makes them known, and deletes when that transaction fails or is         *)
(* ignored; the rows that name them; and the inspirations made of them.    *)
(* Several executions of one task may overlap (see GenerationTask); each   *)
(* stores files under fresh names.                                         *)
(***************************************************************************)
EXTENDS Naturals, FiniteSets

CONSTANTS
  Works,            (* Tasks.                                              *)
  Executions,       (* Calls of process() past the provider's answer.      *)
  WorkOf,           (* The task execution x works on.                      *)
  ImageCount,       (* BOUND: images of every task.                        *)
  Inspirations,     (* Ids of inspirations.                                *)
  NoInspiration

ASSUME OutputAssumption ==
  WorkOf \in [Executions -> Works] /\ ImageCount \in Nat \ {0}

Variants == {"content", "thumbnail"}
Results == Executions \X (1..ImageCount)

VARIABLES
  work,             (* work[t]: the status of task t, or DELETED.          *)
  rows,             (* GenerationResult: rows[r] is absent, or its         *)
                    (* moderation status.                                  *)
  files,            (* The objects in storage.                             *)
  execution,        (* execution[x]: where x is, its image and what it has *)
                    (* stored.                                             *)
  lost,             (* History: executions that lost the answer to their   *)
                    (* commit.                                             *)
  untidy,           (* History: executions that died, or failed to delete. *)
  inspiration       (* inspiration[f]: its row, or NoInspiration.          *)

outputVars == <<work, rows, files, execution, lost, untidy, inspiration>>

OutputInit ==
  /\ work = [t \in Works |-> "GENERATING"]
  /\ rows = [r \in Results |-> "absent"]
  /\ files = {}
  /\ execution = [x \in Executions |-> [pc |-> "idle", index |-> 1, stored |-> {}]]
  /\ lost = {} /\ untidy = {}
  /\ inspiration = [f \in Inspirations |-> NoInspiration]

At(x, pc) == execution[x].pc = pc

GoesTo(x, pc) == execution' = [execution EXCEPT ![x].pc = pc]

(* The files of a set of results. *)
FilesOf(R) == R \X Variants

Persist(x) ==
  /\ At(x, "idle")
  /\ work[WorkOf[x]] = "GENERATING"
  /\ GoesTo(x, "content")
  /\ UNCHANGED <<work, rows, files, lost, untidy, inspiration>>

(* A put is atomic; one whose answer is lost has stored the file or not.   *)
PutContent(x) ==
  LET r == <<x, execution[x].index>> IN
  /\ At(x, "content")
  /\ \/ /\ files' = files \cup {<<r, "content">>}
        /\ GoesTo(x, "thumbnail")
        /\ UNCHANGED untidy
     \/ /\ GoesTo(x, "undo")
        /\ UNCHANGED <<files, untidy>>
     \/ /\ files' = files \cup {<<r, "content">>}
        /\ GoesTo(x, "undo")
        /\ untidy' = untidy \cup {x}
  /\ UNCHANGED <<work, rows, lost, inspiration>>

Stored(x) ==
  LET e == execution[x] IN
  execution' = [execution EXCEPT ![x] =
    [pc |-> IF e.index = ImageCount THEN "commit" ELSE "content",
     index |-> IF e.index = ImageCount THEN e.index ELSE e.index + 1,
     stored |-> e.stored \cup {<<x, e.index>>}]]

(* Mutant: the content stays when its thumbnail cannot be stored.          *)
LeavesContent(x) ==
  LET r == <<x, execution[x].index>> IN
  /\ At(x, "thumbnail")
  /\ \/ files' = files \cup {<<r, "thumbnail">>} /\ Stored(x)
     \/ UNCHANGED files /\ GoesTo(x, "undo")
  /\ UNCHANGED <<work, rows, lost, untidy, inspiration>>

(* persistOne deletes the content of an image whose thumbnail is not       *)
(* stored; whether that succeeds is not looked at.                         *)
PutThumbnail(x) ==
  LET r == <<x, execution[x].index>> IN
  /\ At(x, "thumbnail")
  /\ \/ /\ files' = files \cup {<<r, "thumbnail">>}
        /\ Stored(x)
        /\ UNCHANGED untidy
     \/ /\ files' = files \ {<<r, "content">>}
        /\ GoesTo(x, "undo")
        /\ UNCHANGED untidy
     \/ /\ \E late \in SUBSET {"thumbnail"} : files' = files \cup ({r} \X late)
        /\ GoesTo(x, "undo")
        /\ untidy' = untidy \cup {x}
  /\ UNCHANGED <<work, rows, lost, inspiration>>

(* Indexes a task has a row for are skipped. *)
NewRows(x) ==
  {r \in execution[x].stored :
     \A q \in Results : WorkOf[q[1]] = WorkOf[x] /\ q[2] = r[2] => rows[q] = "absent"}

Records(x, status, moderation) ==
  /\ work[WorkOf[x]] = "GENERATING"
  /\ work' = [work EXCEPT ![WorkOf[x]] = status]
  /\ rows' = [r \in Results |-> IF r \in NewRows(x) THEN moderation ELSE rows[r]]

(* succeed() and holdForReview(): committed, with or without an answer;    *)
(* ignored, because the task has been ended meanwhile; or not reached.     *)
Commit(x) ==
  /\ At(x, "commit")
  /\ \/ /\ Records(x, "SUCCEEDED", "APPROVED") \/ Records(x, "REVIEWING", "PENDING")
        /\ \/ GoesTo(x, "done") /\ UNCHANGED lost
           \/ GoesTo(x, "undo") /\ lost' = lost \cup {x}
     \/ /\ work[WorkOf[x]] # "GENERATING"
        /\ GoesTo(x, "ignored")
        /\ UNCHANGED <<work, rows, lost>>
     \/ /\ GoesTo(x, "undo")
        /\ UNCHANGED <<work, rows, lost>>
  /\ UNCHANGED <<files, untidy, inspiration>>

(* cleanup() tries to delete all of what persist() has returned, or has    *)
(* completed before it failed.                                             *)
Cleanup(x) ==
  /\ At(x, "undo") \/ At(x, "ignored")
  /\ \E kept \in {{}, FilesOf(execution[x].stored) \cap files} :
       /\ files' = files \ (FilesOf(execution[x].stored) \ kept)
       /\ untidy' = IF kept = {} THEN untidy ELSE untidy \cup {x}
  /\ GoesTo(x, IF At(x, "undo") THEN "fail" ELSE "done")
  /\ UNCHANGED <<work, rows, lost, inspiration>>

FailWork(x) ==
  /\ At(x, "fail")
  /\ work' = [work EXCEPT ![WorkOf[x]] = IF @ = "GENERATING" THEN "FAILED" ELSE @]
  /\ GoesTo(x, "done")
  /\ UNCHANGED <<rows, files, lost, untidy, inspiration>>

ExecutionDies(x) ==
  /\ execution[x].pc \notin {"idle", "done"}
  /\ GoesTo(x, "done")
  /\ untidy' = untidy \cup {x}
  /\ UNCHANGED <<work, rows, files, lost, inspiration>>

-----------------------------------------------------------------------------
(* What users and moderators do to a task with images.                     *)

CancelWork(t) ==
  /\ work[t] = "GENERATING"
  /\ work' = [work EXCEPT ![t] = "CANCELLED"]
  /\ UNCHANGED <<rows, files, execution, lost, untidy, inspiration>>

RowsOf(t) == {r \in Results : WorkOf[r[1]] = t /\ rows[r] # "absent"}

(* decideReview on images: all pending ones are approved.  (Rejections are *)
(* refused by the database, see ManualReview.)                             *)
ApproveOutput(t) ==
  /\ work[t] = "REVIEWING"
  /\ work' = [work EXCEPT ![t] = "SUCCEEDED"]
  /\ rows' = [r \in Results |-> IF r \in RowsOf(t) THEN "APPROVED" ELSE rows[r]]
  /\ UNCHANGED <<files, execution, lost, untidy, inspiration>>

Featured(r) == \E f \in Inspirations : inspiration[f] # NoInspiration /\ inspiration[f].result = r

(* The row of an inspiration forbids to delete the result it is made of.   *)
Deletable(t) == \A r \in RowsOf(t) : ~Featured(r)

(* The session of t is deleted with its tasks and their rows; the files    *)
(* stay.                                                                   *)
DeleteWork(t) ==
  /\ work[t] \notin {"GENERATING", "DELETED"}
  /\ Deletable(t)
  /\ work' = [work EXCEPT ![t] = "DELETED"]
  /\ rows' = [r \in Results |-> IF r \in RowsOf(t) THEN "absent" ELSE rows[r]]
  /\ UNCHANGED <<files, execution, lost, untidy, inspiration>>

-----------------------------------------------------------------------------
(* Inspirations.                                                           *)

Candidate(r) ==
  /\ rows[r] = "APPROVED"
  /\ work[WorkOf[r[1]]] = "SUCCEEDED"
  /\ ~Featured(r)

(* The transaction looks again for what the service has found; of two that *)
(* overlap, one meets the unique source result of the other.               *)
PublishCandidate(f, r) ==
  /\ inspiration[f] = NoInspiration
  /\ Candidate(r)
  /\ inspiration' = [inspiration EXCEPT ![f] = [result |-> r, status |-> "PUBLISHED"]]
  /\ UNCHANGED <<work, rows, files, execution, lost, untidy>>

PublishInspiration(f) ==
  /\ inspiration[f] # NoInspiration
  /\ inspiration' = [inspiration EXCEPT ![f].status = "PUBLISHED"]
  /\ UNCHANGED <<work, rows, files, execution, lost, untidy>>

Unpublish(f) ==
  /\ inspiration[f] # NoInspiration
  /\ inspiration' = [inspiration EXCEPT ![f].status = "ARCHIVED"]
  /\ UNCHANGED <<work, rows, files, execution, lost, untidy>>

(* What the routes for images answer to: only moderators see pending ones. *)
Readable(r, moderator) ==
  /\ rows[r] # "absent"
  /\ rows[r] = "APPROVED" \/ moderator
  /\ FilesOf({r}) \subseteq files

(* Whose image a visitor gets under the slug of f. *)
AssetOf(f) == inspiration[f].result

ExecutionStep ==
  \E x \in Executions :
    \/ Persist(x) \/ PutContent(x) \/ PutThumbnail(x)
    \/ Commit(x) \/ Cleanup(x) \/ FailWork(x) \/ ExecutionDies(x)

OutputNext ==
  \/ ExecutionStep
  \/ \E t \in Works : CancelWork(t) \/ ApproveOutput(t) \/ DeleteWork(t)
  \/ \E f \in Inspirations, r \in Results : PublishCandidate(f, r)
  \/ \E f \in Inspirations : PublishInspiration(f) \/ Unpublish(f)

OutputSpec == OutputInit /\ [][OutputNext]_outputVars

-----------------------------------------------------------------------------
(* Properties.                                                             *)

(* Every row has the values its columns allow; objects are of results.     *)
OutputTypeOK ==
  /\ work \in [Works -> {"GENERATING", "REVIEWING", "SUCCEEDED", "FAILED", "CANCELLED", "DELETED"}]
  /\ rows \in [Results -> {"absent", "PENDING", "APPROVED"}]
  /\ files \subseteq FilesOf(Results)

(* A result can be opened by whoever may, in both sizes, whatever failed,  *)
(* died or overlapped; except where a worker committed it and never        *)
(* learned that it had.                                                    *)
KnownIsStored ==
  \A r \in Results : rows[r] # "absent" => Readable(r, TRUE) \/ r[1] \in lost

(* An execution leaves nothing in storage that no row names, unless it     *)
(* died, or storage failed it.                                             *)
NothingLeftBehind ==
  \A x \in Executions : At(x, "done") /\ x \notin untidy =>
    \A r \in Results : r[1] = x /\ FilesOf({r}) \cap files # {} =>
      rows[r] # "absent" \/ work[WorkOf[x]] = "DELETED"

(* An inspiration shows one approved image of a task that has succeeded,   *)
(* no image is shown by two, and none disappears with its author's         *)
(* session.                                                                *)
FeaturedIsApproved ==
  \A f \in Inspirations : inspiration[f] # NoInspiration =>
    /\ rows[AssetOf(f)] = "APPROVED"
    /\ work[WorkOf[AssetOf(f)[1]]] = "SUCCEEDED"
    /\ Readable(AssetOf(f), FALSE) \/ AssetOf(f)[1] \in lost
    /\ \A g \in Inspirations \ {f} :
         inspiration[g] # NoInspiration => AssetOf(g) # AssetOf(f)

(* Rows, files and inspirations agree: what is known is stored, what is    *)
(* stored is known, and what is shown may be (persist, cleanup, succeed,   *)
(* publishCandidate).                                                      *)
OutputsInOrder == KnownIsStored /\ NothingLeftBehind /\ FeaturedIsApproved

=============================================================================
