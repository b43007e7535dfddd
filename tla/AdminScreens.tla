----------------------------- MODULE AdminScreens -----------------------------
(***************************************************************************)
(* An administrator at one page of the administration: answers that arrive *)
(* in another order than they were asked for, dialogs that keep the row    *)
(* they were opened on, a reload after every accepted change, and other    *)
(* administrators and the system at work on the same rows meanwhile.       *)
(*                                                                         *)
(* "server" is what the API has, "ui" what the page holds, "asked" the     *)
(* lists that are on their way to it, and "sent" the changes it waits for. *)
(* A list is read when it is asked for and may be late; a change waits to  *)
(* be made.  The tabs of a page are screens of their own.                  *)
(***************************************************************************)
EXTENDS AdminPages, Sequences, SequencesExt, FiniteSets, TLC

CONSTANTS Rows,      (* Numbered in the order of the lists.                *)
          Start,     (* Of each page, the rows the API may have at first.  *)
          MaxAsked,  (* BOUND: lists on their way at once.                 *)
          MaxActs    (* BOUND: changes, the page's and the others'.        *)

(* "another" is no status: a page says so of a row it did not look at.     *)
ASSUME ScreensAssumption ==
  /\ Rows \subseteq Nat \ {0} /\ MaxAsked \in Nat \ {0} /\ MaxActs \in Nat
  /\ \A p \in Pages : \A rows \in Start[p] :
       /\ rows \in [Rows -> [status : STRING, ties : SUBSET STRING]]
       /\ \A r \in Rows : rows[r].status # "another"

VARIABLES screen, server, ui, asked, sent, acts, outcome, sweep

scvars == <<screen, server, ui, asked, sent, acts, outcome, sweep>>

NoDialog == [op |-> "none"]
NoOutcome == [op |-> "none"]
NoSweep == [op |-> "none"]

(* The permissions a page and its calls look for.                          *)
Needed(p) == UNION {{Buttons[p][op].asks, Routes[p][op]} : op \in DOMAIN Buttons[p]}

(* Some lists can be narrowed, here to the rows of one status.             *)
Narrowed(rows, f) ==
  IF f = "all" THEN rows
  ELSE [r \in Rows |-> IF rows[r].status = Narrowing[screen] THEN rows[r]
                       ELSE [rows[r] EXCEPT !.status = "absent"]]

Empty(rows) == [r \in Rows |-> [rows[r] EXCEPT !.status = "absent"]]

(* "ends" says that the wait for a change is over with this list.          *)
Answer(srv, f, ends) ==
  [rows |-> Narrowed(srv.rows, f), granted |-> srv.signedIn, ends |-> ends]

(* A session with all of a page's permissions, or with all but one.        *)
ScreenInit ==
  /\ screen \in Pages
  /\ \E held \in {Needed(screen)} \cup {Needed(screen) \ {q} : q \in Needed(screen)} :
       \E rows \in Start[screen] :
         /\ server = [signedIn |-> TRUE, held |-> held, rows |-> rows]
         /\ ui = [open |-> TRUE, granted |-> held, filter |-> "all", rows |-> Empty(rows),
                  loading |-> TRUE, saving |-> FALSE, selected |-> 0, dialog |-> NoDialog]
         /\ asked = <<Answer(server, "all", FALSE)>>
  /\ sent = {} /\ acts = 0 /\ outcome = NoOutcome
  /\ sweep = [days |-> 30, preview |-> 0, request |-> NoSweep, looked |-> {}]

-----------------------------------------------------------------------------
(* Lists.                                                                  *)

Load(f) ==
  /\ Len(asked) < MaxAsked
  /\ asked' = Append(asked, Answer(server, f, FALSE))
  /\ ui' = [ui EXCEPT !.filter = f, !.loading = TRUE]
  /\ outcome' = NoOutcome
  /\ UNCHANGED <<screen, server, sent, acts, sweep>>

Refresh == Load(ui.filter)
RefreshWhenIdle == ~ui.loading /\ Refresh
Narrow == \E f \in {"all", "some"} \ {ui.filter} : Load(f)

(* The role that stays selected while it is in the list, else the first.   *)
Selection(rows) ==
  LET there == {r \in Rows : rows[r].status # "absent"}
  IN IF screen # "roles" \/ ui.selected \in there THEN ui.selected
     ELSE IF there = {} THEN 0 ELSE CHOOSE r \in there : \A s \in there : r <= s

(* The newest answer to arrive is the one that is shown; nothing cancels   *)
(* an earlier request, and the first answer ends the wait of all.          *)
ListArrives(i) ==
  /\ asked[i].granted
  /\ ui' = [ui EXCEPT !.rows = asked[i].rows, !.loading = FALSE, !.saving = @ /\ ~asked[i].ends,
                      !.selected = Selection(asked[i].rows)]
  /\ asked' = RemoveAt(asked, i)
  /\ outcome' = NoOutcome
  /\ UNCHANGED <<screen, server, sent, acts, sweep>>

(* Pages that look at the status of a refused request ask for the session  *)
(* again and leave for the login; the others stay and show a message.      *)
LeavesOnLogout == {"users", "accounts", "roles", "tasks", "inspirations"}

Leave ==
  /\ ui' = [ui EXCEPT !.open = FALSE, !.granted = {}, !.rows = Empty(@), !.dialog = NoDialog,
                      !.saving = FALSE, !.loading = FALSE, !.selected = 0]
  /\ asked' = <<>> /\ sent' = {}

ListFails(i) ==
  /\ IF ~asked[i].granted /\ screen \in LeavesOnLogout
     THEN Leave
     ELSE /\ ui' = [ui EXCEPT !.loading = FALSE, !.saving = @ /\ ~asked[i].ends]
          /\ asked' = RemoveAt(asked, i)
          /\ UNCHANGED sent
  /\ outcome' = NoOutcome
  /\ UNCHANGED <<screen, server, acts, sweep>>

-----------------------------------------------------------------------------
(* Buttons and dialogs.                                                    *)

Offered(op, r) ==
  LET b == Buttons[screen][op]
  IN b.asks \in ui.granted /\ ui.rows[r].status \in b.on /\ ui.rows[r].ties \cap b.unless = {}

(* "waits" says that the page disables its buttons until the change is     *)
(* done and its list is there again.                                       *)
Send(op, r, seen, waits) ==
  /\ acts < MaxActs /\ acts' = acts + 1
  /\ sent' = sent \cup {[op |-> op, row |-> r, seen |-> seen, filter |-> ui.filter,
                         waits |-> waits, of |-> acts]}
  /\ ui' = [ui EXCEPT !.saving = @ \/ waits]
  /\ outcome' = NoOutcome
  /\ UNCHANGED <<screen, server, asked, sweep>>

SetDialog(d) ==
  /\ ui' = [ui EXCEPT !.dialog = d]
  /\ outcome' = NoOutcome
  /\ UNCHANGED <<screen, server, asked, sent, acts, sweep>>

Open(op, r) ==
  /\ ui.dialog = NoDialog /\ Offered(op, r)
  /\ SetDialog([op |-> op, row |-> r, seen |-> ui.rows[r].status])
Cancel == ui.dialog # NoDialog /\ SetDialog(NoDialog)

(* The confirmation is disabled while a change is on its way.              *)
Confirm(r) ==
  /\ ui.dialog # NoDialog /\ ~ui.saving
  /\ Send(ui.dialog.op, r, IF r = ui.dialog.row THEN ui.dialog.seen ELSE "another", TRUE)

(* A button without a dialog, disabled while a change is on its way, and   *)
(* one that can be pressed again before the answer.                        *)
Click(op, r) ==
  ui.dialog = NoDialog /\ ~ui.saving /\ Offered(op, r) /\ Send(op, r, ui.rows[r].status, TRUE)
ClickFreely(op, r) ==
  ui.dialog = NoDialog /\ Offered(op, r) /\ Send(op, r, ui.rows[r].status, FALSE)

(* The confirmation sends the row the dialog was opened on.                *)
Dialogs(ops) ==
  \/ \E op \in ops, r \in Rows : Open(op, r)
  \/ ui.dialog # NoDialog /\ Confirm(ui.dialog.row)
  \/ Cancel

Clicks(ops) == \E op \in ops, r \in Rows : Click(op, r)

-----------------------------------------------------------------------------
(* The pages.                                                              *)

UsersPage ==
  screen = "users" /\ (RefreshWhenIdle \/ Narrow \/ Dialogs(UsersDialogs))

AccountsPage ==
  screen = "accounts" /\ (RefreshWhenIdle \/ Narrow \/ Dialogs(AccountsDialogs))

(* A role is selected first.  The dialog keeps what it was opened with,    *)
(* and the confirmation changes whatever role is selected by then.         *)
SelectRole(r) ==
  /\ ui.dialog = NoDialog
  /\ ui.rows[r].status # "absent" /\ r # ui.selected
  /\ ui' = [ui EXCEPT !.selected = r]
  /\ outcome' = NoOutcome
  /\ UNCHANGED <<screen, server, asked, sent, acts, sweep>>

(* Without a selected role nothing is sent; the page only reads again.     *)
SaveNothing ==
  /\ ui.dialog # NoDialog /\ ui.dialog.op # "create" /\ ui.selected = 0 /\ ~ui.saving
  /\ asked' = Append(asked, Answer(server, ui.filter, TRUE))
  /\ ui' = [ui EXCEPT !.dialog = NoDialog, !.loading = TRUE, !.saving = TRUE]
  /\ outcome' = NoOutcome
  /\ UNCHANGED <<screen, server, sent, acts, sweep>>

(* While it has no role to show, a list on its way hides the page.         *)
RolesPage ==
  /\ screen = "roles"
  /\ ~ui.loading \/ \E r \in Rows : ui.rows[r].status # "absent"
  /\ \/ RefreshWhenIdle
     \/ \E r \in Rows : SelectRole(r) \/ Open("create", r)
     \/ \E op \in RolesDialogs \ {"create"}, r \in {ui.selected} \cap Rows : Open(op, r)
     \/ ui.dialog # NoDialog /\ ui.dialog.op = "create" /\ Confirm(ui.dialog.row)
     \/ ui.dialog # NoDialog /\ ui.dialog.op # "create" /\ ui.selected \in Rows /\ Confirm(ui.selected)
     \/ SaveNothing
     \/ Cancel

RiskPage ==
  screen = "risk" /\ (Refresh \/ Dialogs(RiskDialogs) \/ Clicks({"publish", "archive"}))

(* A note that is too short is never sent.                                 *)
ModerationPage ==
  \/ screen = "reviews" /\ (Refresh \/ Narrow \/ Clicks({"claim", "decide"}))
  \/ screen = "appeals" /\ (Refresh \/ Clicks({"judge"}))

InspirationsPage ==
  screen = "inspirations" /\ (RefreshWhenIdle \/ Narrow \/ Clicks({"feature", "unpublish"}))

BillingPage ==
  \/ screen = "rules" /\ (Refresh \/ Clicks({"create", "publish"}))
  \/ screen = "codes" /\ (Refresh \/ Clicks({"batch"}) \/ \E r \in Rows : ClickFreely("disable", r))
  \/ screen = "orders" /\ (Refresh \/ Narrow \/ Dialogs(OrdersDialogs))

TasksPage == screen = "tasks" /\ (RefreshWhenIdle \/ Narrow)

(* The clean-up of uploads: a look at what it would delete, or the real.   *)
SetSweep(s) ==
  /\ sweep' = s
  /\ outcome' = NoOutcome
  /\ UNCHANGED <<screen, server, ui, asked, sent, acts>>

(* Mutant: any look allows deleting.                                       *)
AnyLook(dry) == sweep.request = NoSweep /\ (dry \/ sweep.preview # 0)
CleanUp(dry) == sweep.request = NoSweep /\ (dry \/ sweep.preview = sweep.days)

RunCleanUp(dry) ==
  /\ "privacy:write" \in ui.granted /\ CleanUp(dry)
  /\ SetSweep([sweep EXCEPT !.request = [op |-> IF dry THEN "look" ELSE "delete", days |-> sweep.days]])

ChooseDays == \E d \in {30, 90} \ {sweep.days} : SetSweep([sweep EXCEPT !.days = d])

CleanUpAnswers ==
  /\ sweep.request # NoSweep
  /\ \/ SetSweep([sweep EXCEPT !.request = NoSweep, !.preview = sweep.request.days,
                               !.looked = @ \cup {sweep.request.days}])
     \/ SetSweep([sweep EXCEPT !.request = NoSweep])

PrivacyPage ==
  /\ screen = "privacy"
  /\ \/ RefreshWhenIdle
     \/ \E r \in Rows : ClickFreely("complete", r)
     \/ RunCleanUp(TRUE) \/ RunCleanUp(FALSE) \/ ChooseDays \/ CleanUpAnswers

-----------------------------------------------------------------------------
(* The API.                                                                *)

Causes(w) ==
  IF ~server.signedIn THEN {"signed out"}
  ELSE IF Routes[screen][w.op] \notin server.held THEN {"permission"}
  ELSE Refusals(screen, w.op, server.rows[w.row])

(* Texts the page does not measure may be refused.                         *)
Typed == {"restrict", "ban", "sessions", "reassign", "edit", "suspend", "revoke", "activate",
          "create", "retire", "delete", "batch", "complete", "decide", "judge", "refund"}

(* Publishing archives what was published before; a new row is a further   *)
(* one if its place was taken meanwhile.                                   *)
Applied(w) ==
  LET effect == Effects[screen][w.op]
      rows == server.rows
  IN [r \in Rows |->
        IF r # w.row
        THEN IF w.op = "publish" /\ rows[r].status = "published"
             THEN [rows[r] EXCEPT !.status = "archived"] ELSE rows[r]
        ELSE IF effect = "same" \/ (w.op \in {"create", "batch"} /\ rows[r].status # "absent")
             THEN rows[r] ELSE [rows[r] EXCEPT !.status = effect]]

Result(w, causes) ==
  [op |-> w.op, seen |-> w.seen, before |-> server.rows[w.row].status, causes |-> causes,
   fresh |-> w.seen = server.rows[w.row].status /\ ui.granted = server.held /\ server.signedIn]

(* The page closes the dialog and asks for the list again, narrowed as it  *)
(* was when the change was sent; saving lasts until that list is there.    *)
Accept(w) ==
  /\ Causes(w) = {}
  /\ server' = [server EXCEPT !.rows = Applied(w)]
  /\ sent' = sent \ {w}
  /\ outcome' = Result(w, {})
  /\ asked' = Append(asked, Answer(server', w.filter, w.waits))
  /\ ui' = [ui EXCEPT !.dialog = NoDialog, !.loading = TRUE,
                      !.selected = IF screen = "roles" /\ w.op = "create" THEN w.row ELSE @]
  /\ UNCHANGED <<screen, acts, sweep>>

(* The change is made and the answer is lost: the dialog stays open.       *)
LoseAnswer(w) ==
  /\ Causes(w) = {}
  /\ server' = [server EXCEPT !.rows = Applied(w)]
  /\ sent' = sent \ {w}
  /\ outcome' = Result(w, {})
  /\ ui' = [ui EXCEPT !.saving = @ /\ ~w.waits]
  /\ UNCHANGED <<screen, asked, acts, sweep>>

Refuse(w) ==
  LET causes == IF Causes(w) = {} /\ w.op \in Typed THEN {"text"} ELSE Causes(w) IN
  /\ causes # {}
  /\ outcome' = Result(w, causes)
  /\ IF "signed out" \in causes /\ screen \in {"users", "accounts", "inspirations"}
     THEN Leave
     ELSE /\ sent' = sent \ {w}
          /\ ui' = [ui EXCEPT !.saving = @ /\ ~w.waits]
          /\ UNCHANGED asked
  /\ UNCHANGED <<screen, server, acts, sweep>>

-----------------------------------------------------------------------------
(* Others.                                                                 *)

Meanwhile(new) ==
  /\ acts < MaxActs /\ acts' = acts + 1
  /\ server' = new
  /\ outcome' = NoOutcome
  /\ UNCHANGED <<screen, ui, asked, sent, sweep>>

OthersChange(r, move) ==
  /\ server.rows[r].status = move[1]
  /\ Meanwhile([server EXCEPT !.rows[r].status = move[2]])
LosesPermission(p) == p \in server.held /\ Meanwhile([server EXCEPT !.held = @ \ {p}])
SessionEnded == server.signedIn /\ Meanwhile([server EXCEPT !.signedIn = FALSE])

PageActs ==
  \/ UsersPage \/ AccountsPage \/ RolesPage \/ RiskPage \/ ModerationPage
  \/ InspirationsPage \/ BillingPage \/ TasksPage \/ PrivacyPage

ScreenNext ==
  \/ ui.open /\ PageActs
  \/ \E i \in DOMAIN asked : ListArrives(i) \/ ListFails(i)
  \/ \E w \in sent : Accept(w) \/ LoseAnswer(w) \/ Refuse(w)
  \/ \E r \in Rows, move \in Elsewhere[screen] : OthersChange(r, move)
  \/ \E p \in server.held : LosesPermission(p)
  \/ SessionEnded

ScreenSpec == ScreenInit /\ [][ScreenNext]_scvars

-----------------------------------------------------------------------------
(* Properties.                                                             *)

(* Why a change may be refused although the page shows the row as it is    *)
(* and holds the permissions the administrator has: what the page does not *)
(* know of the row, a text, and the codes, which ask for a permission the  *)
(* page does not look for.                                                 *)
Excused ==
  {"text", "own", "last owner", "used", "others", "judged"}
    \cup When(screen = "codes", "permission")

(* A button of a page that is up to date works: the pages offer what the   *)
(* API accepts, and ask for the permissions its routes need.               *)
HonestButtons ==
  outcome # NoOutcome /\ outcome.fresh => outcome.causes \subseteq Excused

(* A review, an appeal, an image, a code and an order are decided by an    *)
(* administrator who saw them as they were: a second decision is refused,  *)
(* however late its page learns of the first.                              *)
DecidesWhatItSaw ==
  /\ outcome # NoOutcome
  /\ outcome.op \in {"claim", "decide", "judge", "feature", "disable", "refund"}
  /\ outcome.causes = {}
  => outcome.seen = outcome.before

(* Nothing is deleted for a number of days nobody has looked at.           *)
LookedBeforeDeleting == sweep.request.op = "delete" => sweep.request.days \in sweep.looked

(* At most one change of a page is under way, where its buttons say so.    *)
OneChangeAtATime == screen \notin {"privacy", "codes"} => Cardinality(sent) <= 1

ScreensInOrder ==
  HonestButtons /\ DecidesWhatItSaw /\ LookedBeforeDeleting /\ OneChangeAtATime

(* Every row has a status of its page.                                     *)
StatusesOf(p) ==
  {rows[r].status : rows \in Start[p], r \in Rows}
  \cup (UNION {{move[1], move[2]} : move \in Elsewhere[p]})
  \cup ({Effects[p][op] : op \in DOMAIN Buttons[p]} \ {"same"})

ScreenTypeOK ==
  /\ \A r \in Rows : server.rows[r].status \in StatusesOf(screen)
  /\ \A r \in Rows : ui.rows[r].status \in StatusesOf(screen) \cup {"absent"}
  /\ ui.filter \in {"all", "some"} /\ ui.selected \in Rows \cup {0}
  /\ ui.granted \subseteq Needed(screen) /\ acts <= MaxActs

==============================================================================
