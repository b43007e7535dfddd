------------------------------- MODULE MCStudio ------------------------------
(***************************************************************************)
(* What becomes of a task besides its credits, one story to a run: the     *)
(* reviews of its prompt and its images, its images in storage and in the  *)
(* gallery, the calls of the services outside, the catalogue that serves   *)
(* its model, and the workspace its prompt is written in.  The modules     *)
(* share no variable, and a story keeps the variables of the others        *)
(* initial.                                                                *)
(***************************************************************************)
EXTENDS MCManualReview, OutputObjects, ProviderCalls, ModelCatalog, Workspace

CONSTANTS x1, x2

(* Two routes of one priority, one with twice the weight of the other.     *)
MCRanks == {[weight |-> 1, priority |-> 0], [weight |-> 2, priority |-> 0]}

(* Two executions of one task that overlap.                                *)
MCWorkOf == x1 :> t1 @@ x2 :> t1

VARIABLE story

studioVars == <<reviewVars, outputVars, callVars, mvars, wvars, story>>

(* The workspace starts with one conversation, the other is still to come.  *)
StudioInit ==
  /\ story \in {"reviews", "images", "calls", "catalogue", "workspace"}
  /\ ReviewInit /\ OutputInit /\ ProviderInit /\ CatalogInit /\ WorkspaceInit
  /\ IF story = "workspace"
     THEN \E c \in Chats : saved = [x \in Chats |-> IF x = c THEN Blank ELSE Absent]
     ELSE saved = [c \in Chats |-> Absent] /\ page = NoChat /\ signedIn

ReviewsStory ==
  /\ story = "reviews" /\ ReviewNext
  /\ UNCHANGED <<outputVars, callVars, mvars, wvars, story>>
ImagesStory ==
  /\ story = "images" /\ OutputNext
  /\ UNCHANGED <<reviewVars, callVars, mvars, wvars, story>>
CallsStory ==
  /\ story = "calls" /\ ProviderNext
  /\ UNCHANGED <<reviewVars, outputVars, mvars, wvars, story>>
CatalogueStory ==
  /\ story = "catalogue" /\ CatalogNext
  /\ UNCHANGED <<reviewVars, outputVars, callVars, wvars, story>>
WorkspaceStory ==
  /\ story = "workspace" /\ WorkspaceNext
  /\ UNCHANGED <<reviewVars, outputVars, callVars, mvars, story>>

StudioSpec ==
  /\ StudioInit
  /\ [][\/ ReviewsStory \/ ImagesStory \/ CallsStory
         \/ CatalogueStory \/ WorkspaceStory]_studioVars

(* BOUND: of two routes one has twice the weight of the other.             *)
MCWeighted ==
  \A n \in Models, p, r \in Providers :
    p # r /\ route[n][p].state # "none" /\ route[n][r].state # "none"
      => route[n][p].rank # route[n][r].rank

(* Nothing is promised of what happens after these.                        *)
MCOrderly == MCWeighted /\ ~outdated /\ ~careless /\ ~wiped

(* The sets of two share their elements, so that few permutations suffice. *)
MCSymmetry == Permutations(Operations) \cup Permutations(Providers)

(* Every row has the values its columns allow.                             *)
StudioTypeOK ==
  ReviewTypeOK /\ OutputTypeOK /\ ProviderTypeOK /\ CatalogTypeOK /\ WorkspaceTypeOK

==============================================================================
