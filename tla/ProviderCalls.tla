----------------------------- MODULE ProviderCalls -----------------------------
(***************************************************************************)
(* The attempts of one task at the services outside: the prompt is         *)
(* moderated, images are asked for, each of them is moderated.  What a     *)
(* service answers, or does not, becomes a verdict, an error that another  *)
(* attempt may mend, or one that ends the task.  GenerationTask takes that *)
(* outcome for an arbitrary choice; here it is computed.                   *)
(***************************************************************************)
EXTENDS Naturals, FiniteSets

CONSTANTS
  Frames,           (* The images asked for.                              *)
  HttpStatuses,     (* BOUND: the statuses the services answer with.      *)
  MaxTries          (* Attempts the queue allows.                         *)

ASSUME ProviderAssumption ==
  /\ Frames # {} /\ IsFiniteSet(Frames)
  /\ HttpStatuses \subseteq 300..599
  /\ MaxTries \in Nat \ {0}

VARIABLES
  try,              (* The attempt under way.                             *)
  stage,            (* Where it is, or how the task ended.                *)
  verdict,          (* verdict[i]: what the moderator said of image i.    *)
  requests          (* History: image requests that reached the provider. *)

callVars == <<try, stage, verdict, requests>>

Ok == [ok |-> TRUE]
Error(retryable) == [ok |-> FALSE, retryable |-> retryable]

(* httpError: a service is asked again if it was busy or broken.           *)
HttpError(s) ==
  Error(s \notin {401, 403} /\ (s \in {408, 409, 429} \/ s >= 500))

(* Before a service is called: its address is public, its secret is set,   *)
(* the task's snapshot of the model is complete and asks for no edit.      *)
Unconfigured == Error(FALSE)

(* A call: unconfigured, no answer in time, no connection, an HTTP error,  *)
(* a body of another form, or a body that "read" makes something of.       *)
Answers(read) ==
  {Unconfigured, Error(TRUE)} \cup {HttpError(s) : s \in HttpStatuses} \cup read

(* readImages: a body that lacks images, or whose images are not base64,   *)
(* may be better next time, one with an image of impossible size not.      *)
ReadImages == {Ok, Error(TRUE), Error(FALSE)}

(* readDecision: what is flagged is rejected; nothing is "for review".     *)
ReadDecision ==
  {[ok |-> TRUE, verdict |-> v] : v \in {"approved", "rejected"}} \cup {Error(TRUE)}

ProviderInit ==
  /\ try = 1
  /\ stage = "prompt"
  /\ verdict = [i \in Frames |-> "none"]
  /\ requests = 0

MayRetry(e) == e.retryable /\ try < MaxTries

(* The error ends the attempt, and the task unless there is another one.   *)
Breaks(e) ==
  /\ stage' = IF MayRetry(e) THEN "prompt" ELSE "failed"
  /\ try' = IF MayRetry(e) THEN try + 1 ELSE try

ModeratePrompt ==
  /\ stage = "prompt"
  /\ \E a \in Answers(ReadDecision) :
       IF a.ok THEN /\ stage' = IF a.verdict = "approved" THEN "images" ELSE "failed"
                    /\ UNCHANGED try
               ELSE Breaks(a)
  /\ verdict' = [i \in Frames |-> "none"]
  /\ UNCHANGED requests

AskForImages ==
  /\ stage = "images"
  /\ \/ /\ \E a \in Answers(ReadImages) :
             IF a.ok THEN stage' = "moderating" /\ UNCHANGED try ELSE Breaks(a)
        /\ requests' = requests + 1
     \/ Breaks(Unconfigured) /\ UNCHANGED requests
  /\ UNCHANGED verdict

(* All images are moderated at once, and answered in any order.  The first *)
(* error is the outcome of all, whatever the others were found to be.      *)
ModerateImage(i) ==
  /\ stage = "moderating"
  /\ verdict[i] = "none"
  /\ \E a \in Answers(ReadDecision) :
       IF a.ok THEN /\ verdict' = [verdict EXCEPT ![i] = a.verdict]
                    /\ UNCHANGED <<try, stage>>
               ELSE Breaks(a) /\ UNCHANGED verdict
  /\ UNCHANGED requests

(* Mutant: one good image is enough.                                       *)
SomeGood == \E i \in Frames : verdict[i] = "approved"

(* One rejected image rejects them all. *)
AllGood == \A i \in Frames : verdict[i] # "rejected"

Judge ==
  /\ stage = "moderating"
  /\ \A i \in Frames : verdict[i] # "none"
  /\ stage' = IF AllGood THEN "delivered" ELSE "failed"
  /\ UNCHANGED <<try, verdict, requests>>

ProviderNext ==
  \/ ModeratePrompt \/ AskForImages \/ Judge
  \/ \E i \in Frames : ModerateImage(i)

ProviderSpec == ProviderInit /\ [][ProviderNext]_callVars

-----------------------------------------------------------------------------
(* Properties.                                                             *)

(* A call is at one of its stages and counts its attempts.                 *)
ProviderTypeOK ==
  /\ try \in 1..MaxTries
  /\ stage \in {"prompt", "images", "moderating", "delivered", "failed"}
  /\ verdict \in [Frames -> {"none", "approved", "rejected"}]

(* Whatever order images are judged in and however attempts end, only      *)
(* images that the moderator passed are delivered, all of one attempt; and *)
(* no more images are asked for (and paid) than there are attempts.        *)
OnlyPassedDelivered ==
  /\ stage = "delivered" => \A i \in Frames : verdict[i] = "approved"
  /\ requests <= try

=============================================================================
