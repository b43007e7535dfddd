----------------------------- MODULE MCCustomers -----------------------------
(***************************************************************************)
(* One story to a run.  What happens to a customer's account: signing in,  *)
(* being caught by risk rules and punished; and uploading and leaving for  *)
(* good, with what the account stores removed.  And the pages from which   *)
(* administrators keep accounts and all else, which share no variable with *)
(* the accounts and keep their initial values in the other stories.        *)
(***************************************************************************)
EXTENDS PrivacyUploads, AdminScreens

(* What the pages find: two rows, some of them with ties, and most pages   *)
(* also with one row and a place for another.                              *)
Row(s) == [status |-> s, ties |-> {}]
Tied(s, t) == [status |-> s, ties |-> t]

MCStart ==
  [users |-> {<<Row("active"), Row("restricted")>>},
   accounts |-> {<<Tied("active", {"own"}), Row("invited")>>,
                 <<Tied("active", {"last owner"}), Row("absent")>>},
   roles |-> {<<Tied("active", {"owner", "built in", "used"}), Row("active")>>,
              <<Tied("active", {"own", "used"}), Tied("active", {"built in"})>>,
              <<Row("active"), Row("absent")>>},
   risk |-> {<<Row("published"), Row("draft")>>, <<Row("draft"), Row("absent")>>},
   reviews |-> {<<Row("open"), Row("others")>>},
   appeals |-> {<<Row("open"), Tied("open", {"judged"})>>},
   inspirations |-> {<<Row("candidate"), Row("absent")>>},
   rules |-> {<<Row("published"), Row("draft")>>, <<Row("draft"), Row("absent")>>},
   codes |-> {<<Row("active"), Row("absent")>>},
   orders |-> {<<Row("refundable"), Row("used")>>},
   privacy |-> {<<Row("requested"), Row("absent")>>},
   tasks |-> {<<Row("queued"), Row("absent")>>}]

VARIABLE story

customerVars == <<allvars, scvars, story>>

CustomersInit ==
  /\ PrivacyInit /\ ScreenInit
  /\ story \in {"account", "privacy", "pages"}
  /\ story # "pages" => screen = "tasks" /\ ui.granted = Needed("tasks")

(* Without uploads and requests, everything an account can go through.     *)
AccountStory == story = "account" /\ UserStep /\ UNCHANGED <<pvars, scvars, story>>

(* With them, and no wrong codes and no changes of the risk rules.         *)
PrivacyStory ==
  /\ story = "privacy"
  /\ PrivacyStep \/ (UserStep /\ UNCHANGED pvars)
  /\ rule' = rule /\ \A q \in Requests : pending'[q].kind # "wrong"
  /\ UNCHANGED <<scvars, story>>

PagesStory == story = "pages" /\ ScreenNext /\ UNCHANGED <<allvars, story>>

CustomersSpec ==
  CustomersInit /\ [][AccountStory \/ PrivacyStory \/ PagesStory]_customerVars

(* Nothing is promised of what happens after this.                         *)
MCOrderly == ~overtaken

MCSymmetry ==
  Permutations(Requests) \cup Permutations(Codes) \cup Permutations(Users)
    \cup Permutations(Cleaners)

(* Every row has the values its columns allow.                             *)
CustomersTypeOK == UserTypeOK /\ PrivacyTypeOK /\ ScreenTypeOK

==============================================================================
