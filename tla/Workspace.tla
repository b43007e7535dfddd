------------------------------ MODULE Workspace ------------------------------
(***************************************************************************)
(* What a customer has typed: the composer of the generation workspace,    *)
(* the draft kept with a session on the server, and the intent a browser   *)
(* tab keeps across the login page.                                        *)
(*                                                                         *)
(* A text stands for a whole draft and remembers the page it was typed on. *)
(* Every route has an instance of the workspace of its own, so what a      *)
(* component that is gone still does to its own state is left out; the     *)
(* requests it sent are not.  One tab is modelled.                         *)
(***************************************************************************)
EXTENDS Naturals

CONSTANTS
  Chats,        \* generation sessions of the customer
  NoChat,       \* null; as a page, /generate
  Blank,        \* the default draft, whose prompt is empty
  Absent,       \* no such session yet
  Removed,      \* and none any more
  MaxEdits      \* bound: texts typed altogether

LoginPage == "login"
GalleryPage == "inspiration"
Pages == Chats \cup {NoChat}

Drafts == [at : Pages \cup {GalleryPage}, edit : 1 .. MaxEdits] \cup {Blank}

ASSUME WorkspaceAssumption ==
  /\ NoChat \notin Chats /\ MaxEdits \in Nat
  /\ Absent \notin Drafts /\ Removed \notin Drafts /\ Absent # Removed

NoIntent == [to |-> "nowhere", text |-> Blank]
Intents == [to : Pages, text : Drafts] \cup {NoIntent}

VARIABLES
  saved,      \* session -> its draft, or what became of it: GenerationSession.draft
  meant,      \* session -> what its user meant it to be (history)
  discarded,  \* sessions whose composer "generate again" emptied since (history)
  signedIn,   \* the browser holds the cookie of a live session
  pendingIntent,    \* sessionStorage: the intent kept before the login page
  restoredIntent,   \* sessionStorage: the intent to take up after it
  page,       \* the path shown
  view,       \* the workspace mounted on it
  patches,    \* PATCH /draft requests under way
  posting,    \* the submission under way: its session, or "none"
  edits,
  careless,   \* the user left a page, or requests overlapped, too fast (history)
  wiped       \* a login put a blank draft in a saved one's place (history)

wvars == <<saved, meant, discarded, signedIn, pendingIntent, restoredIntent, page, view, patches,
           posting, edits, careless, wiped>>

(* A workspace that has just been mounted: nothing is known of the login,  *)
(* nothing is loaded, and no timer runs.                                   *)
Mounted == [known |-> "loading", ready |-> FALSE, shown |-> NoChat,
            source |-> NoChat, draft |-> Blank, timer |-> FALSE]

Views == [known : {"loading", "in", "out"}, ready : BOOLEAN,
          shown : Pages, source : Pages, draft : Drafts, timer : BOOLEAN]

Patches == [chat : Chats, text : Drafts, then : Pages \cup {"stay"}]

WorkspaceInit ==
  /\ saved \in [Chats -> {Blank, Absent}]
  /\ meant = [c \in Chats |-> Blank]
  /\ discarded = {}
  /\ signedIn \in BOOLEAN
  /\ pendingIntent = NoIntent
  /\ restoredIntent = NoIntent
  /\ page \in Pages \cup {GalleryPage}
  /\ view = Mounted
  /\ patches = {}
  /\ posting = "none"
  /\ edits = 0
  /\ careless = FALSE
  /\ wiped = FALSE

Exists(c) == saved[c] \in Drafts
InFlight(c) == \E p \in patches : p.chat = c

(* Leaving a page unmounts its workspace, and the timer with it.           *)
Moves(to) == page' = to /\ view' = Mounted
Goes(to) == Moves(to) /\ careless' = (careless \/ view.timer)

(***************************************************************************)
(* Signing in and out.                                                     *)
(***************************************************************************)

(* useAuth asks for the session; a request that fails looks like no login. *)
LearnSession ==
  /\ page \in Pages
  /\ view.known = "loading"
  /\ \E answer \in {"in", "out"} :
       /\ answer = "in" => signedIn
       /\ view' = [view EXCEPT !.known = answer]
  /\ UNCHANGED <<saved, meant, discarded, signedIn, pendingIntent, restoredIntent, page, patches,
                 posting, edits, careless, wiped>>

(* Without a login the composer's draft becomes the pending intent.       *)
SendToLogin ==
  /\ page \in Pages
  /\ view.known = "out"
  /\ pendingIntent' = [to |-> page, text |-> view.draft]
  /\ Goes(LoginPage)
  /\ UNCHANGED <<saved, meant, discarded, signedIn, restoredIntent, patches, posting, edits, wiped>>

SignIn ==
  /\ page = LoginPage
  /\ signedIn' = TRUE
  /\ IF pendingIntent = NoIntent
     THEN /\ Goes(GalleryPage)
          /\ UNCHANGED <<pendingIntent, restoredIntent>>
     ELSE /\ restoredIntent' = pendingIntent
          /\ pendingIntent' = NoIntent
          /\ Goes(pendingIntent.to)
  /\ UNCHANGED <<saved, meant, discarded, patches, posting, edits, wiped>>

CloseLogin ==
  /\ page = LoginPage
  /\ Goes(IF pendingIntent = NoIntent THEN GalleryPage ELSE pendingIntent.to)
  /\ UNCHANGED <<saved, meant, discarded, signedIn, pendingIntent, restoredIntent, patches, posting, edits, wiped>>

(* Signing out in the account menu, which every page shows.                *)
SignOut ==
  /\ signedIn
  /\ page # LoginPage
  /\ signedIn' = FALSE
  /\ view' = [view EXCEPT !.known = IF page \in Pages THEN "out" ELSE @]
  /\ UNCHANGED <<saved, meant, discarded, pendingIntent, restoredIntent, page, patches, posting, edits, careless, wiped>>

(* The session lapses on the server; no open page notices.                 *)
SessionLapses ==
  /\ signedIn
  /\ signedIn' = FALSE
  /\ UNCHANGED <<saved, meant, discarded, pendingIntent, restoredIntent, page, view, patches, posting,
                 edits, careless, wiped>>

(* "Submit" below a work of the gallery.                                   *)
Recreate ==
  /\ page = GalleryPage
  /\ edits < MaxEdits
  /\ edits' = edits + 1
  /\ LET intent == [to |-> NoChat, text |-> [at |-> GalleryPage, edit |-> edits + 1]]
     IN \/ /\ signedIn
           /\ restoredIntent' = intent
           /\ pendingIntent' = NoIntent
           /\ Goes(NoChat)
        \/ /\ pendingIntent' = intent
           /\ Goes(LoginPage)
           /\ UNCHANGED restoredIntent
  /\ UNCHANGED <<saved, meant, discarded, signedIn, patches, posting, wiped>>

(***************************************************************************)
(* The workspace.                                                          *)
(***************************************************************************)

(* The intent is taken up by the page it was kept for, and by no other.    *)
TakenUp == restoredIntent # NoIntent /\ restoredIntent.to = page

(* A session that is not there fails the load, and leaves the page blank.  *)
LoadPage ==
  /\ page \in Pages
  /\ view.known = "in" /\ ~view.ready
  /\ IF page # NoChat /\ (~Exists(page) \/ ~signedIn)
     THEN /\ view' = [view EXCEPT !.ready = TRUE]
          /\ UNCHANGED <<restoredIntent, meant, discarded, careless, wiped>>
     ELSE /\ view' = [view EXCEPT
               !.ready = TRUE, !.shown = page, !.source = page, !.timer = page # NoChat,
               !.draft = IF TakenUp THEN restoredIntent.text
                         ELSE IF page = NoChat THEN Blank ELSE saved[page]]
          /\ restoredIntent' = IF TakenUp THEN NoIntent ELSE restoredIntent
          /\ IF page # NoChat /\ TakenUp /\ restoredIntent.text # Blank
             THEN /\ meant' = [meant EXCEPT ![page] = restoredIntent.text]
                  /\ discarded' = discarded \ {page}
             ELSE UNCHANGED <<meant, discarded>>
          /\ careless' = (careless \/ (page # NoChat /\ InFlight(page)))
          /\ wiped' = (wiped \/ (page # NoChat /\ TakenUp /\ restoredIntent.text = Blank))
  /\ UNCHANGED <<saved, signedIn, pendingIntent, page, patches, posting, edits>>

(* Where the draft in the composer is kept.                                *)
Keeps(text) == IF view.shown # NoChat THEN [meant EXCEPT ![view.shown] = text] ELSE meant

(* A plausible slip, for a mutant of TimerFor: the effect does not depend   *)
(* on the draft.                                                           *)
NotOnEdits(v) == FALSE

(* Every change of the draft starts the timer again, if the page shows the *)
(* session its draft belongs to.                                           *)
TimerFor(v) == v.source # NoChat /\ v.shown = v.source /\ v.ready

(* Typing, or taking over the text of an earlier task ("edit").            *)
Type ==
  /\ page \in Pages
  /\ view.ready /\ view.known = "in"
  /\ edits < MaxEdits
  /\ edits' = edits + 1
  /\ LET text == [at |-> IF view.shown # NoChat THEN view.shown ELSE page,
                  edit |-> edits + 1]
     IN /\ view' = [view EXCEPT !.draft = text, !.timer = TimerFor(view)]
        /\ meant' = Keeps(text) /\ discarded' = discarded \ {view.shown}
  /\ UNCHANGED <<saved, signedIn, pendingIntent, restoredIntent, page, patches, posting, careless, wiped>>

(* 350 ms later the draft is on its way.                                   *)
Autosave ==
  /\ page \in Pages
  /\ view.timer
  /\ view' = [view EXCEPT !.timer = FALSE]
  /\ patches' = patches \cup {[chat |-> view.source, text |-> view.draft, then |-> "stay"]}
  /\ careless' = (careless \/ InFlight(view.source))
  /\ UNCHANGED <<saved, meant, discarded, signedIn, pendingIntent, restoredIntent, page, posting, edits, wiped>>

(* persistCurrentDraft before another conversation, or a new one, opens.   *)
Departs(to) ==
  IF view.source = NoChat
  THEN Goes(to) /\ UNCHANGED patches
  ELSE /\ patches' = patches \cup {[chat |-> view.source, text |-> view.draft, then |-> to]}
       /\ careless' = (careless \/ InFlight(view.source))
       /\ UNCHANGED <<page, view>>

OpenChat ==
  \E to \in Chats :
    /\ page \in Pages /\ view.ready
    /\ Exists(to) /\ view.shown # to
    /\ Departs(to)
    /\ UNCHANGED <<saved, meant, discarded, signedIn, pendingIntent, restoredIntent, posting, edits, wiped>>

OpenNewSession ==
  /\ page \in Pages /\ view.ready
  /\ Departs(NoChat)
  /\ UNCHANGED <<saved, meant, discarded, signedIn, pendingIntent, restoredIntent, posting, edits, wiped>>

(* A link, or the browser's back button.                                   *)
Wander ==
  \E to \in {c \in Chats : Exists(c)} \cup {NoChat, GalleryPage} :
    /\ page # LoginPage
    /\ to # page
    /\ Goes(to)
    /\ UNCHANGED <<saved, meant, discarded, signedIn, pendingIntent, restoredIntent, patches, posting, edits, wiped>>

(* The server stores the draft, or has no such session (any more); after   *)
(* the answer the page that waited for it moves on.                        *)
ServePatch ==
  \E p \in patches :
    /\ patches' = patches \ {p}
    /\ IF signedIn /\ Exists(p.chat)
       THEN /\ saved' = [saved EXCEPT ![p.chat] = p.text]
            /\ IF p.then = "stay"
               THEN UNCHANGED <<page, view, careless>>
               ELSE /\ Moves(p.then)
                    /\ careless' = (careless \/ (view.timer /\ <<view.source, view.draft>> # <<p.chat, p.text>>))
       ELSE /\ careless' = TRUE
            /\ UNCHANGED <<saved, page, view, wiped>>
    /\ UNCHANGED <<meant, discarded, signedIn, pendingIntent, restoredIntent, posting, edits, wiped>>

(* The request is lost: an error is shown, and no page moves on.           *)
LosePatch ==
  \E p \in patches :
    /\ patches' = patches \ {p}
    /\ careless' = TRUE
    /\ UNCHANGED <<saved, meant, discarded, signedIn, pendingIntent, restoredIntent, page, view, posting, edits, wiped>>

(* A submission empties the composer before it is answered.                *)
Submit ==
  /\ page \in Pages
  /\ view.ready /\ posting = "none"
  /\ view.draft # Blank
  /\ posting' = view.shown
  /\ view' = [view EXCEPT !.draft = Blank, !.timer = TimerFor(view)]
  /\ meant' = Keeps(Blank)
  /\ UNCHANGED <<saved, discarded, signedIn, pendingIntent, restoredIntent, page, patches, edits,
                 careless, wiped>>

(* "Generate again" below a task of the conversation that has ended: its   *)
(* text is submitted, and the composer emptied of another.                 *)
Rerun ==
  /\ page \in Pages
  /\ view.ready /\ posting = "none"
  /\ view.shown # NoChat
  /\ posting' = view.shown
  /\ view' = [view EXCEPT !.draft = Blank, !.timer = TimerFor(view)]
  /\ discarded' = discarded \cup {view.shown}
  /\ UNCHANGED <<saved, meant, signedIn, pendingIntent, restoredIntent, page, patches, edits,
                 careless, wiped>>

(* A task without a session gets a new one, and the tab goes to its page   *)
(* wherever it has been taken meanwhile.                                   *)
SubmitAnswered ==
  /\ posting # "none"
  /\ \E c \in Chats :
       \/ /\ posting = c /\ signedIn /\ Exists(c)
          /\ IF page # c THEN Goes(c) ELSE UNCHANGED <<page, view, careless>>
          /\ UNCHANGED saved
       \/ /\ posting = NoChat /\ signedIn /\ saved[c] = Absent
          /\ saved' = [saved EXCEPT ![c] = Blank]
          /\ Goes(c)
  /\ posting' = "none"
  /\ UNCHANGED <<meant, discarded, signedIn, pendingIntent, restoredIntent, patches, edits, wiped>>

(* A submission fails: the composer stays empty.                           *)
SubmitFails ==
  /\ posting # "none"
  /\ posting' = "none"
  /\ UNCHANGED <<saved, meant, discarded, signedIn, pendingIntent, restoredIntent, page, view, patches, edits, careless, wiped>>

RemoveSession ==
  \E c \in Chats :
    /\ page \in Pages /\ view.ready /\ signedIn
    /\ Exists(c)
    /\ saved' = [saved EXCEPT ![c] = Removed]
    /\ meant' = [meant EXCEPT ![c] = Blank]
    /\ IF view.shown = c
       THEN \E to \in {x \in Chats \ {c} : Exists(x)} \cup {NoChat} : Goes(to)
       ELSE UNCHANGED <<page, view, careless>>
    /\ UNCHANGED <<discarded, signedIn, pendingIntent, restoredIntent, patches, posting, edits, wiped>>

WorkspaceNext ==
  \/ LearnSession \/ SendToLogin \/ SignIn \/ CloseLogin \/ SignOut \/ SessionLapses
  \/ Recreate \/ LoadPage \/ Type \/ Autosave \/ OpenChat \/ OpenNewSession \/ Wander
  \/ ServePatch \/ LosePatch \/ Submit \/ Rerun \/ SubmitAnswered \/ SubmitFails \/ RemoveSession

WorkspaceSpec == WorkspaceInit /\ [][WorkspaceNext]_wvars

(***************************************************************************)
(* Properties.                                                             *)
(***************************************************************************)

(* A page, a draft or an intent is one that the client can hold.           *)
WorkspaceTypeOK ==
  /\ saved \in [Chats -> Drafts \cup {Absent, Removed}]
  /\ meant \in [Chats -> Drafts] /\ discarded \subseteq Chats
  /\ signedIn \in BOOLEAN
  /\ pendingIntent \in Intents /\ restoredIntent \in Intents
  /\ page \in Pages \cup {LoginPage, GalleryPage}
  /\ view \in Views
  /\ patches \subseteq Patches
  /\ posting \in Pages \cup {"none"}
  /\ edits \in 0 .. MaxEdits
  /\ careless \in BOOLEAN
  /\ wiped \in BOOLEAN

(* The draft of a conversation was typed in that conversation: saving on a *)
(* timer, leaving for another one and coming back from the login page never *)
(* put one conversation's text, or a gallery prompt, into another           *)
(* (persistCurrentDraft, consumeRestoredIntent).                           *)
DraftsStayApart ==
  \A c \in Chats : saved[c] \in [at : {c}, edit : 1 .. MaxEdits] \cup {Blank, Absent, Removed}

(* Nothing about a conversation's draft is on its way or still to be read. *)
Quiet(c) ==
  /\ ~InFlight(c)
  /\ page # c \/ (view.ready /\ ~view.timer)

(* What was last typed in a conversation, and not sent; nothing if another *)
(* task of it was generated again since, which empties the composer.       *)
Expected == [c \in Chats |-> IF c \in discarded THEN Blank ELSE meant[c]]

(* When the requests have been answered the server has what was last typed *)
(* in a conversation, unless the user left a page within the autosave's    *)
(* delay, requests overtook each other or failed, a login wiped it, or     *)
(* "generate again" emptied the composer, and then the server has that     *)
(* (persistCurrentDraft, the autosave's effect, submitDraft).              *)
Kept(c) == Quiet(c) /\ Exists(c) /\ ~careless => saved[c] = Expected[c]
DraftKept == wiped \/ \A c \in Chats : Kept(c)

(* A conversation's draft is its own, and is kept (the generation          *)
(* workspace's drafts, intents and autosave).                              *)
DraftsInOrder == DraftsStayApart /\ DraftKept

(* The same with nothing said of logins: whoever signs in again finds the  *)
(* drafts of before.                                                       *)
DraftSurvivesLogin == \A c \in Chats : Kept(c)

==============================================================================
