--------------------------- MODULE PrivacyUploads ----------------------------
(***************************************************************************)
(* The reference images of the customers of UserAccounts, their objects in *)
(* storage, the requests to export or delete an account, and the clean-up  *)
(* of deleted images, which the administration and the worker's timer may  *)
(* run at the same time.                                                   *)
(*                                                                         *)
(* A privacy request is modelled from PrivacyService on: the user's route  *)
(* in front of it refuses everybody, see README.md.                        *)
(***************************************************************************)
EXTENDS UserAccounts, Tally
CONSTANTS Nothing, Uploads, PrivacyIds, Cleaners, MaxFailures
VARIABLES upload, objects, privacy, cleaner, failures,
          audit,    \* rows the audits say were removed, and, history, those
                    \* that were and that no audit will tell of
          stray     \* history: uploads that failed for the user only

ASSUME PrivacyAssumption ==
  /\ IsFiniteSet(Uploads) /\ Nothing \notin Uploads
  /\ IsFiniteSet(Cleaners) /\ MaxFailures \in Nat

kept == <<audit, stray>>
pvars == <<upload, objects, privacy, cleaner, failures, audit, stray>>
allvars == <<uvars, pvars>>

NoUpload == [state |-> "none", user |-> Gone]
NoRequest == [status |-> "none", type |-> "DELETE", user |-> Gone]
Resting == [running |-> FALSE, todo |-> {}, at |-> Nothing, deleted |-> 0]

PrivacyInit ==
  /\ UserInit
  /\ upload = [i \in Uploads |-> NoUpload]
  /\ objects = {}
  /\ privacy = [r \in PrivacyIds |-> NoRequest]
  /\ cleaner = [w \in Cleaners |-> Resting]
  /\ failures = 0
  /\ audit = [told |-> 0, untold |-> 0] /\ stray = {}

(* The database or the storage fails; bounded.                             *)
Fails == failures < MaxFailures /\ failures' = failures + 1

-----------------------------------------------------------------------------
(* Uploading: the object first, then the row.                              *)
PutObject(q, u, i) ==
  /\ SignedIn(u) /\ upload[i].state = "none" /\ i \notin objects
  /\ \A p \in Requests : pending[p].kind = "upload" => pending[p].object # i
  /\ Begins(q, [kind |-> "upload", user |-> u, object |-> i, fresh |-> TRUE])
  /\ objects' = objects \cup {i}
  /\ UNCHANGED <<user, code, seats, rule, hit, overtaken, upload, privacy, cleaner, failures, kept>>

CreateUpload(q) ==
  LET i == pending[q].object
  IN /\ pending[q].kind = "upload"
     /\ upload' = [upload EXCEPT ![i] = [state |-> "live", user |-> pending[q].user]]
     /\ EndsAndOvertakes(q, {})
     /\ UNCHANGED <<user, code, seats, rule, hit, objects, privacy, cleaner, failures, kept>>

(* The row cannot be created: the object is deleted again, if it can be    *)
(* (not when the process dies).                                            *)
CreateUploadFails(q, deleted) ==
  /\ pending[q].kind = "upload" /\ Fails
  /\ objects' = IF deleted THEN objects \ {pending[q].object} ELSE objects
  /\ Ends(q)
  /\ UNCHANGED <<user, code, seats, rule, hit, overtaken, upload, privacy, cleaner, kept>>

(* The row is created, but the answer does not come: the catch deletes the *)
(* object of an upload that the user can see.                              *)
LoseCreatedUpload(q, deleted) ==
  LET i == pending[q].object
  IN /\ pending[q].kind = "upload" /\ Fails
     /\ upload' = [upload EXCEPT ![i] = [state |-> "live", user |-> pending[q].user]]
     /\ objects' = IF deleted THEN objects \ {i} ELSE objects
     /\ stray' = IF deleted THEN stray \cup {i} ELSE stray
     /\ EndsAndOvertakes(q, {})
     /\ UNCHANGED <<user, code, seats, rule, hit, privacy, cleaner, audit>>

-----------------------------------------------------------------------------
(* Privacy requests.                                                       *)
Undecided(u, type) == {r \in PrivacyIds : /\ privacy[r].status \in {"REQUESTED", "PROCESSING"}
                                          /\ privacy[r].user = u /\ privacy[r].type = type}

FindPending(q, u, type) ==
  /\ user[u].status # "NONE" /\ Undecided(u, type) = {}
  /\ Begins(q, [kind |-> "private", user |-> u, type |-> type, fresh |-> TRUE])
  /\ UNCHANGED <<user, code, seats, rule, hit, overtaken, pvars>>

SameWish(q) == {p \in Requests : /\ pending[p].kind = "private"
                                 /\ pending[p].user = pending[q].user /\ pending[p].type = pending[q].type}

CreatePrivacyRequest(q, r) ==
  /\ pending[q].kind = "private" /\ privacy[r].status = "none"
  /\ privacy' = [privacy EXCEPT ![r] = [status |-> "REQUESTED", type |-> pending[q].type,
                                        user |-> pending[q].user]]
  /\ EndsAndOvertakes(q, SameWish(q))
  /\ UNCHANGED <<user, code, seats, rule, hit, upload, objects, cleaner, failures, kept>>

Decidable(r, type) == privacy[r].status \in {"REQUESTED", "PROCESSING"} /\ privacy[r].type = type

CompleteExport(r) ==
  /\ Decidable(r, "EXPORT")
  /\ privacy' = [privacy EXCEPT ![r].status = "COMPLETED"]
  /\ UNCHANGED <<uvars, upload, objects, cleaner, failures, kept>>

(* completeDelete reads the request and the phone number, then writes.     *)
ReadDelete(q, r) ==
  /\ Decidable(r, "DELETE")
  /\ Begins(q, [kind |-> "deletion", request |-> r, user |-> privacy[r].user,
                phone |-> user[privacy[r].user].phone, fresh |-> TRUE])
  /\ UNCHANGED <<user, code, seats, rule, hit, overtaken, pvars>>

SignsOut(u) == SeatsWithout(u)
MarkDeleted(u) == [i \in Uploads |-> IF upload[i].state = "live" /\ upload[i].user = u
                                     THEN [upload[i] EXCEPT !.state = "marked"] ELSE upload[i]]

CompleteDelete(q) ==
  LET d == pending[q]
      u == d.user
  IN /\ d.kind = "deletion"
     /\ user' = [user EXCEPT ![u] = [status |-> "DELETED", phone |-> Gone]]
     /\ seats' = SignsOut(u)
     /\ code' = [c \in Codes |-> IF d.phone # Gone /\ code[c].phone = d.phone
                              THEN [code[c] EXCEPT !.state = "deleted"] ELSE code[c]]
     /\ upload' = MarkDeleted(u)
     /\ privacy' = [privacy EXCEPT ![d.request].status = "COMPLETED"]
     /\ EndsAndOvertakes(q, RelyOn(u))
     /\ UNCHANGED <<rule, hit, objects, cleaner, failures, kept>>

-----------------------------------------------------------------------------
(* Clean-up.  "due": marked longer ago than the retention.                 *)
RetentionPasses(i) ==
  /\ upload[i].state = "marked" /\ upload' = [upload EXCEPT ![i].state = "due"]
  /\ UNCHANGED <<uvars, objects, privacy, cleaner, failures, kept>>

(* A plausible slip, for a mutant of Due: every old row is a candidate.    *)
AnyOld(i) == upload[i].state \in {"live", "due"}
Due(i) == upload[i].state = "due"

ListDeletedUploads(w) ==
  /\ ~cleaner[w].running
  /\ cleaner' = [cleaner EXCEPT ![w].running = TRUE, ![w].todo = {i \in Uploads : Due(i)}]
  /\ UNCHANGED <<uvars, upload, objects, privacy, failures, kept>>

WithoutObject(i) == objects \ {i}

DeleteObject(w, i) ==
  /\ cleaner[w].at = Nothing /\ i \in cleaner[w].todo
  /\ objects' = WithoutObject(i)
  /\ cleaner' = [cleaner EXCEPT ![w].todo = @ \ {i}, ![w].at = i]
  /\ UNCHANGED <<uvars, upload, privacy, failures, kept>>

Counted(i) == IF Due(i) THEN 1 ELSE 0

(* The row goes if it is still due; its count is what the statement says.  *)
DeleteUploadMetadata(w, i) ==
  /\ cleaner[w].at = i
  /\ upload' = IF Due(i) THEN [upload EXCEPT ![i].state = "removed"] ELSE upload
  /\ cleaner' = [cleaner EXCEPT ![w].at = Nothing, ![w].deleted = @ + Counted(i)]
  /\ UNCHANGED <<uvars, objects, privacy, failures, kept>>

(* Deleting the object or the row fails, or seems to: the candidate is     *)
(* skipped, and a row that is gone is not counted.                         *)
DeleteObjectFails(w, i, gone) ==
  /\ cleaner[w].at = Nothing /\ i \in cleaner[w].todo /\ Fails
  /\ objects' = IF gone THEN WithoutObject(i) ELSE objects
  /\ cleaner' = [cleaner EXCEPT ![w].todo = @ \ {i}]
  /\ UNCHANGED <<uvars, upload, privacy, kept>>

DeleteMetadataFails(w, i, gone) ==
  /\ cleaner[w].at = i /\ Fails
  /\ upload' = IF gone /\ Due(i) THEN [upload EXCEPT ![i].state = "removed"] ELSE upload
  /\ audit' = [audit EXCEPT !.untold = IF gone THEN @ + Counted(i) ELSE @]
  /\ cleaner' = [cleaner EXCEPT ![w].at = Nothing]
  /\ UNCHANGED <<uvars, objects, privacy, stray>>

(* The audit entry, after which the next run may start.                    *)
FinishCleanup(w) ==
  /\ cleaner[w].running /\ cleaner[w].todo = {} /\ cleaner[w].at = Nothing
  /\ audit' = [audit EXCEPT !.told = @ + cleaner[w].deleted]
  /\ cleaner' = [cleaner EXCEPT ![w] = Resting]
  /\ UNCHANGED <<uvars, upload, objects, privacy, failures, stray>>

(* It cannot be written, or the process dies before: what the run removed  *)
(* stays removed.                                                          *)
CleanupStops(w) ==
  /\ cleaner[w].running /\ Fails
  /\ audit' = [audit EXCEPT !.untold = @ + cleaner[w].deleted]
  /\ cleaner' = [cleaner EXCEPT ![w] = Resting]
  /\ UNCHANGED <<uvars, upload, objects, privacy, stray>>

-----------------------------------------------------------------------------
PrivacyStep ==
  \/ \E q \in Requests :
       \/ \E u \in Users : \/ \E i \in Uploads : PutObject(q, u, i)
                           \/ \E t \in {"DELETE", "EXPORT"} : FindPending(q, u, t)
       \/ CreateUpload(q)
       \/ \E deleted \in BOOLEAN : CreateUploadFails(q, deleted) \/ LoseCreatedUpload(q, deleted)
       \/ \E r \in PrivacyIds : CreatePrivacyRequest(q, r) \/ ReadDelete(q, r)
       \/ CompleteDelete(q)
  \/ \E r \in PrivacyIds : CompleteExport(r)
  \/ \E i \in Uploads : RetentionPasses(i)
  \/ \E w \in Cleaners :
       \/ ListDeletedUploads(w) \/ FinishCleanup(w) \/ CleanupStops(w)
       \/ \E i \in Uploads :
            \/ DeleteObject(w, i) \/ DeleteUploadMetadata(w, i)
            \/ \E gone \in BOOLEAN : DeleteObjectFails(w, i, gone) \/ DeleteMetadataFails(w, i, gone)

PrivacyNext == PrivacyStep \/ (UserStep /\ UNCHANGED pvars)
PrivacySpec == PrivacyInit /\ [][PrivacyNext]_allvars

-----------------------------------------------------------------------------
(* Every row has the values its columns allow, and a row that was removed  *)
(* leaves no object behind that nobody would find again.                   *)
PrivacyTypeOK ==
  /\ upload \in [Uploads -> [state : {"none", "live", "marked", "due", "removed"}, user : Users \cup {Gone}]]
  /\ objects \subseteq {i \in Uploads : upload[i].state # "removed"}
  /\ privacy \in [PrivacyIds -> [status : {"none", "REQUESTED", "PROCESSING", "COMPLETED", "REJECTED"},
                                 type : {"DELETE", "EXPORT"}, user : Users \cup {Gone}]]
  /\ cleaner \in [Cleaners -> [running : BOOLEAN, todo : SUBSET Uploads,
                               at : Uploads \cup {Nothing}, deleted : Nat]]
  /\ audit \in [told : Nat, untold : Nat] /\ stray \subseteq Uploads

(* Whoever can show an image has it: a row that is not deleted has its     *)
(* object, whatever fails and whatever the clean-ups do; but for a row     *)
(* whose creation committed and did not answer (createReference()).        *)
LiveHasObject == \A i \in Uploads : upload[i].state \in {"live", "marked"} => i \in objects \cup stray

(* The audits' counts are true: between them the clean-ups report every    *)
(* row that is gone exactly once, though both delete the same object; but  *)
(* for the rows of a run that stopped before its audit, and for those      *)
(* whose deletion did not answer, of which none tells.                     *)
RemovedCountedOnce ==
  audit.told + audit.untold + Tally([w \in Cleaners |-> cleaner[w].deleted])
    = Cardinality({i \in Uploads : upload[i].state = "removed"})

(* After an account was deleted nothing of it can be used: no session, no  *)
(* image that is not on its way out, even if its status is changed again;  *)
(* unless a login or an upload had been let in before.                     *)
DeletedLeavesNothing ==
  overtaken \/ \A u \in Users : user[u].phone = Gone =>
                 /\ \A s \in seats : s.user # u
                 /\ \A i \in Uploads : upload[i].state = "live" => upload[i].user # u

(* Rows and objects of uploads agree through clean-ups and deletions       *)
(* (uploads.service create, cleanup; the worker's retention run; complete).*)
UploadsInOrder == LiveHasObject /\ RemovedCountedOnce /\ DeletedLeavesNothing
=============================================================================
