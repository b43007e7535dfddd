------------------------------ MODULE AdminPages ------------------------------
(***************************************************************************)
(* The pages of the administration as tables.  Of each page: the buttons   *)
(* it shows on a row, the permission its calls need, why the API refuses   *)
(* one, what an accepted one makes of the row, and what else happens to    *)
(* such rows meanwhile.                                                    *)
(*                                                                         *)
(* A row is [status, ties]: ties are the facts about it that the API looks *)
(* at and the page may not show.  A row that does not exist, or is not     *)
(* among those a page shows, is "absent".                                  *)
(***************************************************************************)
EXTENDS Naturals

(* A button: the statuses it is shown on, the ties that hide it, and the   *)
(* permission the page looks for in the session it holds.  Those that a    *)
(* page names as dialogs ask first, the others act at once.                *)
Button(on, asks) == [on |-> on, unless |-> {}, asks |-> asks]
ButtonUnless(on, ties, asks) == [on |-> on, unless |-> ties, asks |-> asks]

When(condition, cause) == IF condition THEN {cause} ELSE {}
Vanished(r) == When(r.status = "absent", "gone")
Exists(r) == When(r.status # "absent", "taken")
MovedOn(r, from) == When(r.status \notin from, "moved on")

-----------------------------------------------------------------------------
(* Customers.  Nobody signed in is banned or deleted.                      *)

UsersButtons ==
  [restrict |-> Button({"active"}, "users:write"),
   ban      |-> Button({"active", "restricted", "deleted"}, "users:write"),
   activate |-> Button({"restricted", "banned", "deleted"}, "users:write"),
   sessions |-> Button({"active", "restricted"}, "user-sessions:revoke")]

UsersDialogs == DOMAIN UsersButtons

UsersRoutes ==
  [op \in DOMAIN UsersButtons |->
     IF op = "sessions" THEN "user-sessions:revoke" ELSE "users:write"]

(* changeStatus asks nothing of the status it replaces.                    *)
UsersRefusals(op, r) == Vanished(r)
UsersEffects == [restrict |-> "restricted", ban |-> "banned", activate |-> "active", sessions |-> "same"]
UsersElsewhere == {<<"absent", "active">>, <<"active", "banned">>, <<"restricted", "active">>,
                   <<"active", "deleted">>}

-----------------------------------------------------------------------------
(* Administrators.  Ties: the row is the administrator's own, or that of   *)
(* the last active owner.                                                  *)

AccountsButtons ==
  [create   |-> Button({"absent"}, "admin-accounts:write"),
   edit     |-> Button({"invited", "active", "suspended", "revoked"}, "admin-accounts:write"),
   reassign |-> Button({"invited", "active", "suspended", "revoked"}, "admin-accounts:write"),
   activate |-> Button({"invited", "suspended"}, "admin-accounts:write"),
   suspend  |-> Button({"active"}, "admin-accounts:write"),
   sessions |-> Button({"active"}, "admin-sessions:revoke"),
   revoke   |-> Button({"invited", "active", "suspended"}, "admin-accounts:write")]

AccountsDialogs == DOMAIN AccountsButtons

AccountsRoutes ==
  [op \in DOMAIN AccountsButtons |->
     IF op = "sessions" THEN "admin-sessions:revoke" ELSE "admin-accounts:write"]

(* reassign is an update that changes the roles.                           *)
AccountsRefusals(op, r) ==
  IF op = "create" THEN Exists(r)
  ELSE Vanished(r)
       \cup When("own" \in r.ties /\ op \in {"reassign", "suspend", "revoke", "sessions"}, "own")
       \cup When("last owner" \in r.ties /\ r.status = "active"
                   /\ op \in {"reassign", "suspend", "revoke"}, "last owner")
       \cup When(r.status = "revoked" /\ op \in {"activate", "suspend"}, "moved on")

AccountsEffects ==
  [create |-> "invited", edit |-> "same", reassign |-> "same", activate |-> "active",
   suspend |-> "suspended", sessions |-> "same", revoke |-> "revoked"]
AccountsElsewhere == {<<"absent", "invited">>, <<"invited", "active">>, <<"active", "suspended">>,
                      <<"active", "revoked">>, <<"suspended", "active">>}

-----------------------------------------------------------------------------
(* Roles.  Ties: the owner's role, one that is built in, one that accounts *)
(* have, and one that the administrator has.                               *)

RolesButtons ==
  [create |-> Button({"absent"}, "roles:write"),
   edit   |-> ButtonUnless({"active", "inactive"}, {"owner"}, "roles:write"),
   retire |-> ButtonUnless({"active", "inactive"}, {"owner"}, "roles:write"),
   delete |-> ButtonUnless({"active", "inactive"}, {"owner", "built in"}, "roles:write")]

RolesDialogs == DOMAIN RolesButtons

RolesRoutes == [op \in DOMAIN RolesButtons |-> "roles:write"]

(* edit saves the role as an active one, retire as an inactive one.        *)
RolesRefusals(op, r) ==
  IF op = "create" THEN Exists(r)
  ELSE Vanished(r)
       \cup When("owner" \in r.ties, "owner")
       \cup When("built in" \in r.ties /\ op = "delete", "built in")
       \cup When("own" \in r.ties, "own")
       \cup When("used" \in r.ties /\ op \in {"retire", "delete"}, "used")

RolesEffects == [create |-> "active", edit |-> "active", retire |-> "inactive", delete |-> "absent"]
RolesElsewhere == {<<"absent", "active">>, <<"active", "inactive">>, <<"inactive", "absent">>,
                   <<"active", "absent">>}

-----------------------------------------------------------------------------
(* Rules against prompts: all rows are versions of one rule.               *)

RiskButtons ==
  [create  |-> Button({"absent"}, "risk-rules:write"),
   publish |-> Button({"draft"}, "risk-rules:publish"),
   archive |-> Button({"published"}, "risk-rules:publish")]

RiskDialogs == {"create"}

RiskRoutes ==
  [op \in DOMAIN RiskButtons |->
     IF op = "create" THEN "risk-rules:write" ELSE "risk-rules:publish"]

(* Neither call asks for the status of the version; a new one is numbered  *)
(* after the newest.                                                       *)
RiskRefusals(op, r) == IF op = "create" THEN {} ELSE Vanished(r)
VersionEffects == [create |-> "draft", publish |-> "published", archive |-> "archived"]
VersionElsewhere == {<<"absent", "draft">>, <<"draft", "published">>, <<"published", "archived">>}

-----------------------------------------------------------------------------
(* Reviews and appeals.  A claimed review is the administrator's ("mine")  *)
(* or somebody else's; the page offers to decide both.  Tie: the           *)
(* administrator has decided a review of what the appeal is about.         *)

ReviewsButtons ==
  [claim  |-> Button({"open"}, "moderation:write"),
   decide |-> Button({"mine", "others"}, "moderation:write")]
AppealsButtons == [judge |-> Button({"open"}, "moderation:write")]

ModerationRoutes == [op \in {"claim", "decide", "judge"} |-> "moderation:write"]

ReviewsRefusals(op, r) ==
  Vanished(r) \cup
  CASE op = "claim" -> MovedOn(r, {"open"})
    [] op = "decide" -> When(r.status = "others", "others") \cup MovedOn(r, {"mine", "others"})

AppealsRefusals(op, r) == MovedOn(r, {"open"}) \cup When("judged" \in r.ties, "judged")

ReviewsEffects == [claim |-> "mine", decide |-> "decided"]
ReviewsElsewhere == {<<"absent", "open">>, <<"open", "others">>, <<"others", "decided">>}
AppealsEffects == [judge |-> "decided"]
AppealsElsewhere == {<<"absent", "open">>, <<"open", "decided">>}

-----------------------------------------------------------------------------
(* The gallery.  A row is an image: a candidate, or an entry made of it.   *)
(* Nothing offers an archived entry again.                                 *)

InspirationsButtons ==
  [feature   |-> Button({"candidate"}, "inspirations:publish"),
   unpublish |-> Button({"published"}, "inspirations:publish")]

InspirationsRoutes == [op \in DOMAIN InspirationsButtons |-> "inspirations:publish"]

InspirationsRefusals(op, r) ==
  Vanished(r) \cup When(op = "feature" /\ r.status # "candidate", "moved on")
InspirationsEffects == [feature |-> "published", unpublish |-> "archived"]
InspirationsElsewhere == {<<"absent", "candidate">>, <<"candidate", "published">>,
                          <<"published", "archived">>, <<"candidate", "absent">>}

-----------------------------------------------------------------------------
(* Prices, codes and orders.                                               *)

RulesButtons == [create  |-> Button({"absent"}, "billing:write"),
                 publish |-> Button({"draft"}, "billing:publish")]
CodesButtons == [batch   |-> Button({"absent"}, "billing:write"),
                 disable |-> Button({"active"}, "billing:write")]
OrdersButtons == [refund |-> Button({"refundable"}, "refunds:create")]
OrdersDialogs == {"refund"}

(* The page offers the codes with billing:write; the calls need another.   *)
BillingRoutes ==
  [create |-> "billing:write", publish |-> "billing:publish", batch |-> "plans:write",
   disable |-> "plans:write", refund |-> "refunds:create"]

RulesRefusals(op, r) == IF op = "create" THEN {} ELSE Vanished(r)
CodesRefusals(op, r) == IF op = "batch" THEN {} ELSE MovedOn(r, {"active"})
OrdersRefusals(op, r) == MovedOn(r, {"refundable"})

CodesEffects == [batch |-> "active", disable |-> "disabled"]
CodesElsewhere == {<<"absent", "active">>, <<"active", "redeemed">>, <<"active", "disabled">>}
OrdersEffects == [refund |-> "refunded"]
OrdersElsewhere == {<<"absent", "refundable">>, <<"refundable", "used">>, <<"used", "refundable">>,
                    <<"refundable", "refunded">>}

-----------------------------------------------------------------------------
(* Requests of customers about their data.                                 *)

PrivacyButtons == [complete |-> Button({"requested"}, "privacy:write")]
PrivacyRoutes == [op \in {"complete", "sweep"} |-> "privacy:write"]
(* A request that is completed answers as if it were completed now.        *)
PrivacyRefusals(op, r) == Vanished(r)
PrivacyEffects == [complete |-> "completed"]
PrivacyElsewhere == {<<"absent", "requested">>, <<"requested", "completed">>}

-----------------------------------------------------------------------------
(* All pages; of tasks a page only shows.                                  *)

Buttons ==
  [users |-> UsersButtons, accounts |-> AccountsButtons, roles |-> RolesButtons,
   risk |-> RiskButtons, reviews |-> ReviewsButtons, appeals |-> AppealsButtons,
   inspirations |-> InspirationsButtons, rules |-> RulesButtons, codes |-> CodesButtons,
   orders |-> OrdersButtons, privacy |-> PrivacyButtons, tasks |-> [op \in {} |-> {}]]
Pages == DOMAIN Buttons

(* A status some lists are narrowed to.                                    *)
Narrowing ==
  [users |-> "active", accounts |-> "active", reviews |-> "open", inspirations |-> "published",
   orders |-> "refundable", tasks |-> "running"]

Routes ==
  [users |-> UsersRoutes, accounts |-> AccountsRoutes, roles |-> RolesRoutes,
   risk |-> RiskRoutes, reviews |-> ModerationRoutes, appeals |-> ModerationRoutes,
   inspirations |-> InspirationsRoutes, rules |-> BillingRoutes, codes |-> BillingRoutes,
   orders |-> BillingRoutes, privacy |-> PrivacyRoutes]

Refusals(p, op, r) ==
  CASE p = "users" -> UsersRefusals(op, r)
    [] p = "accounts" -> AccountsRefusals(op, r)
    [] p = "roles" -> RolesRefusals(op, r)
    [] p = "risk" -> RiskRefusals(op, r)
    [] p = "reviews" -> ReviewsRefusals(op, r)
    [] p = "appeals" -> AppealsRefusals(op, r)
    [] p = "inspirations" -> InspirationsRefusals(op, r)
    [] p = "rules" -> RulesRefusals(op, r)
    [] p = "codes" -> CodesRefusals(op, r)
    [] p = "orders" -> OrdersRefusals(op, r)
    [] p = "privacy" -> PrivacyRefusals(op, r)

Effects ==
  [users |-> UsersEffects, accounts |-> AccountsEffects, roles |-> RolesEffects,
   risk |-> VersionEffects, reviews |-> ReviewsEffects, appeals |-> AppealsEffects,
   inspirations |-> InspirationsEffects, rules |-> VersionEffects, codes |-> CodesEffects,
   orders |-> OrdersEffects, privacy |-> PrivacyEffects]

Elsewhere ==
  [users |-> UsersElsewhere, accounts |-> AccountsElsewhere, roles |-> RolesElsewhere,
   risk |-> VersionElsewhere, reviews |-> ReviewsElsewhere, appeals |-> AppealsElsewhere,
   inspirations |-> InspirationsElsewhere, rules |-> VersionElsewhere, codes |-> CodesElsewhere,
   orders |-> OrdersElsewhere, privacy |-> PrivacyElsewhere,
   tasks |-> {<<"queued", "running">>, <<"running", "succeeded">>}]

==============================================================================
