------------------------------- MODULE MCStaff -------------------------------
(***************************************************************************)
(* The staff, one story to a run: its accounts and roles, the reviews that *)
(* a moderator decides, and the appeals against them.  The modules share   *)
(* no variable, and a story keeps the variables of the others initial.     *)
(***************************************************************************)
EXTENDS MCManualReview, AdminAccounts, Appeals

(* Grants: a role other than the owner's may be given one permission.      *)
MCGrants == {{"admin-accounts:write"}}

VARIABLE story

staffVars == <<avars, reviewVars, appealVars, story>>

StaffInit ==
  /\ AdminInit /\ ReviewInit /\ AppealInit
  /\ story \in {"accounts", "reviews", "appeals"}

AccountsStory ==
  story = "accounts" /\ AdminNext /\ UNCHANGED <<reviewVars, appealVars, story>>
ReviewsStory ==
  story = "reviews" /\ ReviewNext /\ UNCHANGED <<avars, appealVars, story>>
AppealsStory ==
  story = "appeals" /\ AppealNext /\ UNCHANGED <<avars, reviewVars, story>>

StaffSpec == StaffInit /\ [][AccountsStory \/ ReviewsStory \/ AppealsStory]_staffVars

(* Nothing is promised of the accounts beyond the first overtaken change.  *)
MCUnraced == ~raced

(* The sets of two share their elements, so that few permutations suffice. *)
MCSymmetry ==
  Permutations(Handlers) \cup Permutations(StaffCodes) \cup Permutations(Workers)

(* Every row has the values its columns allow.                             *)
StaffTypeOK == AdminTypeOK /\ ReviewTypeOK /\ AppealTypeOK

==============================================================================
