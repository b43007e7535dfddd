---------------------------- MODULE StudioProofs -----------------------------
(***************************************************************************)
(* What becomes of a task besides its credits, for any number of images,   *)
(* attempts, providers, models and conversations: only images that passed  *)
(* are delivered; rows, files and inspirations agree; and the catalogue    *)
(* keeps one version of a model and routes that were checked.              *)
(***************************************************************************)
EXTENDS MCStudio, TaskProofs, TallyProofs

-----------------------------------------------------------------------------
(* The calls of the services outside (ProviderCalls).                      *)

(* The provider has been asked in the attempts before this one at most, as *)
(* long as this one has not come to the images.                            *)
NotYetAsked == stage \in {"prompt", "images"} => requests < try

PIInv ==
  /\ ProviderTypeOK
  /\ requests \in Nat
  /\ NotYetAsked
  /\ OnlyPassedDelivered

(* An attempt that breaks leaves another one, or the task failed.          *)
LEMMA BreaksOnce ==
  ASSUME ProviderTypeOK, NEW e, Breaks(e)
  PROVE  /\ try' \in 1..MaxTries
         /\ \/ stage' = "prompt" /\ try' = try + 1
            \/ stage' = "failed" /\ try' = try
  BY ProviderAssumption DEF ProviderTypeOK, Breaks, MayRetry

LEMMA ProviderInitially == ProviderInit => PIInv
  BY ProviderAssumption
  DEF ProviderInit, PIInv, ProviderTypeOK, NotYetAsked, OnlyPassedDelivered

LEMMA ProviderInductive == PIInv /\ [ProviderNext]_callVars => PIInv'
<1> SUFFICES ASSUME PIInv, [ProviderNext]_callVars
             PROVE  PIInv'
  OBVIOUS
<1> USE DEF PIInv
<1>1. CASE ModeratePrompt
  <2>1. verdict' = [i \in Frames |-> "none"] /\ requests' = requests /\ requests < try
    BY <1>1 DEF ModeratePrompt, NotYetAsked
  <2>2. \/ try' = try /\ stage' \in {"images", "failed"}
        \/ \E a : Breaks(a)
    BY <1>1 DEF ModeratePrompt
  <2>3. CASE try' = try /\ stage' \in {"images", "failed"}
    BY <2>1, <2>3 DEF ProviderTypeOK, NotYetAsked, OnlyPassedDelivered
  <2>4. CASE \E a : Breaks(a)
    BY <2>1, <2>4, BreaksOnce DEF ProviderTypeOK, NotYetAsked, OnlyPassedDelivered
  <2> QED BY <2>2, <2>3, <2>4
<1>2. CASE AskForImages
  <2>1. verdict' = verdict /\ requests < try
    BY <1>2 DEF AskForImages, NotYetAsked
  <2>2. requests' \in {requests, requests + 1}
    BY <1>2 DEF AskForImages
  <2>3. \/ try' = try /\ stage' = "moderating"
        \/ \E a : Breaks(a)
    BY <1>2 DEF AskForImages
  <2>4. CASE try' = try /\ stage' = "moderating"
    BY <2>1, <2>2, <2>4 DEF ProviderTypeOK, NotYetAsked, OnlyPassedDelivered
  <2>5. CASE \E a : Breaks(a)
    BY <2>1, <2>2, <2>5, BreaksOnce DEF ProviderTypeOK, NotYetAsked, OnlyPassedDelivered
  <2> QED BY <2>3, <2>4, <2>5
<1>3. ASSUME NEW i \in Frames, ModerateImage(i)
      PROVE  PIInv'
  <2>1. requests' = requests /\ stage = "moderating"
    BY <1>3 DEF ModerateImage
  <2>2. PICK a \in Answers(ReadDecision) :
          IF a.ok THEN verdict' = [verdict EXCEPT ![i] = a.verdict] /\ UNCHANGED <<try, stage>>
                  ELSE Breaks(a) /\ UNCHANGED verdict
    BY <1>3 DEF ModerateImage
  <2>3. CASE a.ok
    <3>1. a.verdict \in {"approved", "rejected"}
      BY <2>3 DEF Answers, ReadDecision, Unconfigured, HttpError, Error
    <3> QED BY <2>1, <2>2, <2>3, <3>1 DEF ProviderTypeOK, NotYetAsked, OnlyPassedDelivered
  <2>4. CASE ~a.ok
    BY <2>1, <2>2, <2>4, BreaksOnce DEF ProviderTypeOK, NotYetAsked, OnlyPassedDelivered
  <2> QED BY <2>3, <2>4
<1>4. CASE Judge
  BY <1>4 DEF Judge, AllGood, ProviderTypeOK, NotYetAsked, OnlyPassedDelivered
<1>5. CASE UNCHANGED callVars
  BY <1>5 DEF callVars, ProviderTypeOK, NotYetAsked, OnlyPassedDelivered
<1> QED BY <1>1, <1>2, <1>3, <1>4, <1>5 DEF ProviderNext

(* Only images that the moderator passed are delivered, and the provider   *)
(* is asked at most once an attempt, however the services answer.          *)
THEOREM DeliversOnlyPassed == ProviderSpec => []OnlyPassedDelivered
<1>1. PIInv => OnlyPassedDelivered
  BY DEF PIInv
<1> QED BY ProviderInitially, ProviderInductive, <1>1, PTL DEF ProviderSpec

(* The stages, attempts and verdicts of the calls have their types.        *)
THEOREM CallsTypeCorrect == ProviderSpec => []ProviderTypeOK
<1>1. PIInv => ProviderTypeOK
  BY DEF PIInv
<1> QED BY ProviderInitially, ProviderInductive, <1>1, PTL DEF ProviderSpec

-----------------------------------------------------------------------------
(* The catalogue (ModelCatalog).                                           *)

(* A finite set that is ordered strictly has an element with none above.   *)
LEMMA Topmost ==
  ASSUME NEW S, IsFiniteSet(S), S # {}, NEW R,
         \A x \in S : <<x, x>> \notin R,
         \A x, y, z \in S : <<x, y>> \in R /\ <<y, z>> \in R => <<x, z>> \in R
  PROVE  \E x \in S : \A y \in S : <<x, y>> \notin R
<1> SUFFICES ASSUME \A x \in S : \E y \in S : <<x, y>> \in R PROVE FALSE
  OBVIOUS
<1> DEFINE L == Cardinality(S)
           P == {n \in 0..L : \E T \in SUBSET S, x \in S :
                                Cardinality(T) = n /\ \A y \in T : <<y, x>> \in R}
<1>1. L \in Nat
  BY FS_CardinalityType
<1>2. 0 \in P
  <2>1. Cardinality({}) = 0 /\ {} \in SUBSET S
    BY FS_EmptySet
  <2>2. PICK x \in S : TRUE
    OBVIOUS
  <2> QED
    BY <1>1, <2>1, <2>2
<1>3. ASSUME NEW n \in P, n < L PROVE n + 1 \in P
  <2>1. PICK T \in SUBSET S, x \in S : Cardinality(T) = n /\ \A y \in T : <<y, x>> \in R
    OBVIOUS
  <2>2. PICK z \in S : <<x, z>> \in R
    OBVIOUS
  <2>3. x \notin T
    BY <2>1
  <2>4. IsFiniteSet(T)
    BY FS_Subset
  <2>5. Cardinality(T \cup {x}) = n + 1
    BY <2>1, <2>3, <2>4, FS_AddElement
  <2>6. \A y \in T \cup {x} : <<y, z>> \in R
    BY <2>1, <2>2
  <2>7. n + 1 \in 0..L
    BY <1>1, <1>3
  <2>8. T \cup {x} \in SUBSET S
    BY <2>1
  <2> HIDE DEF L
  <2> QED
    BY <2>2, <2>5, <2>6, <2>7, <2>8
<1>4. L \in P
  <2>1. P \in SUBSET (0..L)
    OBVIOUS
  <2> HIDE DEF P, L
  <2> QED
    BY <1>1, <1>2, <1>3, <2>1, Climb
<1>5. PICK T \in SUBSET S, x \in S : Cardinality(T) = L /\ \A y \in T : <<y, x>> \in R
  BY <1>4
<1>6. T = S
  BY <1>5, FS_Subset
<1> QED
  BY <1>5, <1>6

LEMMA Extremes ==
  ASSUME NEW S, IsFiniteSet(S), S # {}, S \in SUBSET Nat
  PROVE  /\ Min(S) \in S /\ \A y \in S : Min(S) <= y
         /\ Max(S) \in S /\ \A y \in S : Max(S) >= y
<1> DEFINE Up == {r \in S \X S : r[1] < r[2]}
           Down == {r \in S \X S : r[2] < r[1]}
<1>1. /\ \A x \in S : <<x, x>> \notin Up
      /\ \A x, y, z \in S : <<x, y>> \in Up /\ <<y, z>> \in Up => <<x, z>> \in Up
  OBVIOUS
<1>2. /\ \A x \in S : <<x, x>> \notin Down
      /\ \A x, y, z \in S : <<x, y>> \in Down /\ <<y, z>> \in Down => <<x, z>> \in Down
  OBVIOUS
<1>3. \A x, y \in S : (<<x, y>> \in Up <=> x < y) /\ (<<x, y>> \in Down <=> y < x)
  OBVIOUS
<1> HIDE DEF Up, Down
<1>4. \E x \in S : \A y \in S : x >= y
  <2>1. PICK x \in S : \A y \in S : <<x, y>> \notin Up
    BY <1>1, Topmost
  <2>2. \A y \in S : x >= y
    <3> TAKE y \in S
    <3>1. ~(x < y)
      BY <1>3, <2>1
    <3> QED
      BY <3>1
  <2> QED
    BY <2>2
<1>5. \E x \in S : \A y \in S : x =< y
  <2>1. PICK x \in S : \A y \in S : <<x, y>> \notin Down
    BY <1>2, Topmost
  <2>2. \A y \in S : x =< y
    <3> TAKE y \in S
    <3>1. ~(y < x)
      BY <1>3, <2>1
    <3> QED
      BY <3>1
  <2> QED
    BY <2>2
<1> QED
  BY <1>4, <1>5 DEF Min, Max

(* What an operation has read.                                             *)
Ranking == [weight : Nat, priority : Nat]
Probes == [kind : {"probe"}, provider : Providers, valid : BOOLEAN]
NewModels == [kind : {"model"}, model : Models, provider : Providers, rank : Ranking,
              health : Health, valid : BOOLEAN]
NewRoutes == [kind : {"route"}, model : Models, provider : Providers, enabled : BOOLEAN,
              rank : Ranking, health : Health, valid : BOOLEAN]
NewVersions == [kind : {"publish", "rollback"}, model : Models, version : Revisions,
                old : SUBSET Revisions, valid : BOOLEAN]
OpRows == {Free} \cup Probes \cup NewModels \cup NewRoutes \cup NewVersions

ProviderRows == [status : {"NONE", "ACTIVE", "DISABLED"}, health : Health, checked : BOOLEAN]
RouteRows == [state : {"none", "enabled", "disabled"}, health : Health, rank : Ranking]
Stages == {"none", "DRAFT", "PUBLISHED", "ROLLED_BACK"}

CatalogTables ==
  /\ provider \in [Providers -> ProviderRows]
  /\ model \in [Models -> {"NONE", "DRAFT", "PUBLISHED"}]
  /\ route \in [Models -> [Providers -> RouteRows]]
  /\ revision \in [Models -> [Revisions -> Stages]]
  /\ outdated \in BOOLEAN

(* What of it is still so while nobody has changed it.                     *)
OpOK(o) ==
  /\ o \in OpRows
  /\ o.kind \in {"publish", "rollback"} =>
       model[o.model] # "NONE" /\ (o.valid => o.old = InForce(o.model))
  /\ o.kind \in {"model", "route"} /\ o.valid =>
       provider[o.provider].status = "ACTIVE" /\ o.health = provider[o.provider].health

OpsOK == op \in [Operations -> OpRows] /\ \A q \in Operations : OpOK(op[q])

(* Models and their versions.                                              *)
VersionsOK ==
  \A m \in Models :
    /\ model[m] = "NONE" => Existing(m) = {}
    /\ model[m] = "PUBLISHED" => InForce(m) # {}
    /\ outdated \/ \A v, w \in InForce(m) : v = w

(* Health is only known of a connection that was checked.                  *)
HealthChecked == outdated \/ \A p \in Providers : provider[p].health = "healthy" => provider[p].checked

CatInv ==
  CatalogTables /\ OpsOK /\ VersionsOK /\ RoutesKnowHealth /\ OnlyCheckedServe /\ HealthChecked

LEMMA OpKinds ==
  ASSUME NEW o \in OpRows
  PROVE  /\ o.kind = "free" => o = Free
         /\ o.kind = "probe" => o \in Probes
         /\ o.kind = "model" => o \in NewModels
         /\ o.kind = "route" => o \in NewRoutes
         /\ o.kind \in {"publish", "rollback"} => o \in NewVersions
BY DEF OpRows, Free, Probes, NewModels, NewRoutes, NewVersions

LEMMA OpColumns ==
  ASSUME NEW o \in OpRows
  PROVE  /\ o.kind \in {"free", "probe", "model", "route", "publish", "rollback"}
         /\ o.kind # "free" => o.valid \in BOOLEAN
         /\ o.kind \in {"probe", "model", "route"} => o.provider \in Providers
         /\ o.kind \in {"model", "route", "publish", "rollback"} => o.model \in Models
         /\ o.kind \in {"model", "route"} => o.rank \in Ranking /\ o.health \in Health
         /\ o.kind = "route" => o.enabled \in BOOLEAN
         /\ o.kind \in {"publish", "rollback"} => o.version \in Revisions /\ o.old \in SUBSET Revisions
<1>1. o.kind \in {"free", "probe", "model", "route", "publish", "rollback"}
  BY DEF OpRows, Free, Probes, NewModels, NewRoutes, NewVersions
<1> QED
  BY <1>1, OpKinds DEF Probes, NewModels, NewRoutes, NewVersions

(* An operation's row as another leaves it.                                *)
Ages(o, n) == n = o \/ n = Free \/ (o.kind # "free" /\ n = [o EXCEPT !.valid = FALSE])

LEMMA AgedOp ==
  ASSUME NEW o \in OpRows, o.kind # "free"
  PROVE  LET n == [o EXCEPT !.valid = FALSE]
         IN  /\ n \in OpRows /\ n.kind = o.kind /\ n.valid = FALSE
             /\ n.kind \in {"publish", "rollback"} => n.model = o.model
<1>1. CASE o.kind = "probe"
  <2>1. o \in Probes
    BY <1>1, OpKinds
  <2>2. [o EXCEPT !.valid = FALSE] \in Probes
    BY <2>1 DEF Probes
  <2> QED
    BY <1>1, <2>1, <2>2 DEF Probes, OpRows
<1>2. CASE o.kind = "model"
  <2>1. o \in NewModels
    BY <1>2, OpKinds
  <2>2. [o EXCEPT !.valid = FALSE] \in NewModels
    BY <2>1 DEF NewModels
  <2> QED
    BY <1>2, <2>1, <2>2 DEF NewModels, OpRows
<1>3. CASE o.kind = "route"
  <2>1. o \in NewRoutes
    BY <1>3, OpKinds
  <2>2. [o EXCEPT !.valid = FALSE] \in NewRoutes
    BY <2>1 DEF NewRoutes
  <2> QED
    BY <1>3, <2>1, <2>2 DEF NewRoutes, OpRows
<1>4. CASE o.kind \in {"publish", "rollback"}
  <2>1. o \in NewVersions
    BY <1>4, OpKinds
  <2>2. [o EXCEPT !.valid = FALSE] \in NewVersions
    BY <2>1 DEF NewVersions
  <2> QED
    BY <1>4, <2>1, <2>2 DEF NewVersions, OpRows
<1> QED
  BY <1>1, <1>2, <1>3, <1>4, OpColumns

(* The same of the next state, for a row of it.                            *)
InForceNext(m) == {v \in Revisions : revision'[m][v] = "PUBLISHED"}

OpNext(o) ==
  /\ o \in OpRows
  /\ o.kind \in {"publish", "rollback"} =>
       model'[o.model] # "NONE" /\ (o.valid => o.old = InForceNext(o.model))
  /\ o.kind \in {"model", "route"} /\ o.valid =>
       provider'[o.provider].status = "ACTIVE" /\ o.health = provider'[o.provider].health

LEMMA OpPrime == \A q \in Operations : OpOK(op[q])' <=> OpNext(op'[q])
BY DEF OpOK, OpNext, InForce, InForceNext

(* What must hold of a step for an operation's row that it leaves valid.   *)
LeavesOp(o) ==
  /\ o.kind \in {"publish", "rollback"} /\ model[o.model] # "NONE" =>
       /\ model'[o.model] # "NONE"
       /\ o.valid => InForceNext(o.model) = InForce(o.model)
  /\ o.kind \in {"model", "route"} /\ o.valid /\ provider[o.provider].status = "ACTIVE" =>
       /\ provider'[o.provider].status = "ACTIVE"
       /\ provider'[o.provider].health = provider[o.provider].health

LEMMA OpStays ==
  ASSUME NEW o, OpOK(o), NEW n, Ages(o, n), LeavesOp(n)
  PROVE  OpNext(n)
<1>0. o \in OpRows
  BY DEF OpOK
<1>1. CASE n = o
  BY <1>1 DEF OpOK, OpNext, LeavesOp
<1>2. CASE n = Free
  BY <1>2 DEF Free, OpNext, OpRows
<1>3. CASE o.kind # "free" /\ n = [o EXCEPT !.valid = FALSE]
  <2>1. /\ n \in OpRows /\ n.kind = o.kind /\ n.valid = FALSE
        /\ n.kind \in {"publish", "rollback"} => n.model = o.model
    BY <1>0, <1>3, AgedOp
  <2>2. n.kind \in {"publish", "rollback"} => model[n.model] # "NONE"
    BY <2>1 DEF OpOK
  <2> HIDE <1>3
  <2> QED
    BY <2>1, <2>2 DEF OpNext, LeavesOp
<1> QED
  BY <1>1, <1>2, <1>3 DEF Ages

LEMMA OpsStep ==
  ASSUME OpsOK, op' = [q \in Operations |-> op'[q]],
         \A q \in Operations : (Ages(op[q], op'[q]) /\ LeavesOp(op'[q])) \/ OpNext(op'[q])
  PROVE  OpsOK'
<1>1. \A q \in Operations : OpNext(op'[q])
  BY OpStays DEF OpsOK
<1>2. op' \in [Operations -> OpRows]
  BY <1>1 DEF OpNext
<1> QED
  BY <1>1, <1>2, OpPrime DEF OpsOK

LEMMA ReadsShape ==
  ASSUME OpsOK, NEW q \in Operations, NEW r, Reads(q, r)
  PROVE  /\ op' = [o \in Operations |-> op'[o]]
         /\ op'[q] = r
         /\ \A o \in Operations : o # q => op'[o] = op[o]
BY DEF OpsOK, Reads

LEMMA DoneShape ==
  ASSUME OpsOK, NEW q \in Operations, NEW S, DoneAndOutdates(q, S)
  PROVE  /\ op' = [o \in Operations |-> op'[o]]
         /\ op'[q] = Free /\ outdated' = (outdated \/ ~op[q].valid)
         /\ \A o \in Operations : o # q =>
              op'[o] = IF o \in S THEN [op[o] EXCEPT !.valid = FALSE] ELSE op[o]
BY DEF OpsOK, DoneAndOutdates

(* The row of an operation that nothing outdates.                          *)
LEMMA Outdated ==
  ASSUME OpsOK, NEW S, \A o \in S : op[o].kind # "free",
         NEW o \in Operations,
         op'[o] = IF o \in S THEN [op[o] EXCEPT !.valid = FALSE] ELSE op[o]
  PROVE  /\ Ages(op[o], op'[o]) /\ op'[o] \in OpRows /\ op'[o].kind = op[o].kind
         /\ o \in S => op'[o].valid = FALSE
         /\ o \notin S => op'[o] = op[o]
         /\ op'[o].kind \in {"publish", "rollback"} => op'[o].model = op[o].model
<1>0. op[o] \in OpRows
  BY DEF OpsOK
<1>1. CASE o \in S
  BY <1>0, <1>1, AgedOp DEF Ages
<1>2. CASE o \notin S
  BY <1>0, <1>2 DEF Ages
<1> QED
  BY <1>1, <1>2

(* An operation that only reads.                                           *)
LEMMA ReadStep ==
  ASSUME CatInv, NEW q \in Operations, NEW r, r \in OpRows, OpOK(r), Reads(q, r),
         UNCHANGED <<provider, model, route, revision, outdated>>
  PROVE  CatInv'
<1>1. OpsOK
  BY DEF CatInv
<1>2. OpNext(op'[q])
  BY <1>1, ReadsShape DEF OpOK, OpNext, InForce, InForceNext
<1>3. \A o \in Operations : o # q => Ages(op[o], op'[o]) /\ LeavesOp(op'[o])
  BY <1>1, ReadsShape DEF Ages, LeavesOp, InForce, InForceNext
<1>4. OpsOK'
  BY <1>1, <1>2, <1>3, ReadsShape, OpsStep
<1> QED
  BY <1>4 DEF CatInv, CatalogTables, VersionsOK, Existing, InForce, RoutesKnowHealth,
     OnlyCheckedServe, Serves, HealthChecked

LEMMA ReadSteps ==
  ASSUME CatInv, NEW q \in Operations,
         \/ \E p \in Providers :
              \/ ProbeProvider(q, p)
              \/ \E m \in Models, r \in Ranks :
                   \/ ReadForModel(q, m, p, r)
                   \/ \E enabled \in BOOLEAN : ReadForRoute(q, m, p, enabled, r)
         \/ \E m \in Models : ReadForRollback(q, m) \/ \E v \in Revisions : ReadForPublish(q, m, v)
  PROVE  CatInv'
<1>0. CatalogTables /\ VersionsOK
  BY DEF CatInv
<1>1. ASSUME NEW p \in Providers, ProbeProvider(q, p) PROVE CatInv'
  <2> DEFINE r == [kind |-> "probe", provider |-> p, valid |-> TRUE]
  <2>1. r \in OpRows /\ OpOK(r)
    BY DEF OpRows, Probes, OpOK
  <2>2. Reads(q, r) /\ UNCHANGED <<provider, model, route, revision, outdated>>
    BY <1>1 DEF ProbeProvider
  <2> HIDE DEF r
  <2> QED
    BY <2>1, <2>2, ReadStep
<1>2. ASSUME NEW p \in Providers, NEW m \in Models, NEW rank \in Ranks, ReadForModel(q, m, p, rank)
      PROVE  CatInv'
  <2> DEFINE r == [kind |-> "model", model |-> m, provider |-> p, rank |-> rank,
                   health |-> provider[p].health, valid |-> TRUE]
  <2>1. provider[p].status = "ACTIVE" /\ provider[p].health \in Health /\ rank \in Ranking
    BY <1>0, <1>2, CatalogAssumption DEF ReadForModel, CatalogTables, ProviderRows, Ranking
  <2>2. r \in OpRows /\ OpOK(r)
    BY <2>1 DEF OpRows, NewModels, OpOK
  <2>3. Reads(q, r) /\ UNCHANGED <<provider, model, route, revision, outdated>>
    BY <1>2 DEF ReadForModel
  <2> HIDE DEF r
  <2> QED
    BY <2>2, <2>3, ReadStep
<1>3. ASSUME NEW p \in Providers, NEW m \in Models, NEW rank \in Ranks, NEW enabled \in BOOLEAN,
             ReadForRoute(q, m, p, enabled, rank)
      PROVE  CatInv'
  <2> DEFINE r == [kind |-> "route", model |-> m, provider |-> p, enabled |-> enabled,
                   rank |-> rank, health |-> provider[p].health, valid |-> TRUE]
  <2>1. provider[p].status = "ACTIVE" /\ provider[p].health \in Health /\ rank \in Ranking
    BY <1>0, <1>3, CatalogAssumption DEF ReadForRoute, CatalogTables, ProviderRows, Ranking
  <2>2. r \in OpRows /\ OpOK(r)
    BY <2>1 DEF OpRows, NewRoutes, OpOK
  <2>3. Reads(q, r) /\ UNCHANGED <<provider, model, route, revision, outdated>>
    BY <1>3 DEF ReadForRoute
  <2> HIDE DEF r
  <2> QED
    BY <2>2, <2>3, ReadStep
<1>4. ASSUME NEW m \in Models, NEW v \in Revisions, ReadForPublish(q, m, v) PROVE CatInv'
  <2> DEFINE r == [kind |-> "publish", model |-> m, version |-> v, old |-> InForce(m),
                   valid |-> TRUE]
  <2>1. model[m] # "NONE" /\ InForce(m) \in SUBSET Revisions
    BY <1>4 DEF ReadForPublish, InForce
  <2>2. r \in OpRows /\ OpOK(r)
    BY <2>1 DEF OpRows, NewVersions, OpOK
  <2>3. Reads(q, r) /\ UNCHANGED <<provider, model, route, revision, outdated>>
    BY <1>4 DEF ReadForPublish
  <2> HIDE DEF r
  <2> QED
    BY <2>2, <2>3, ReadStep
<1>5. ASSUME NEW m \in Models, ReadForRollback(q, m) PROVE CatInv'
  <2> DEFINE v == Max(Previous(m))
             r == [kind |-> "rollback", model |-> m, version |-> v, old |-> InForce(m),
                   valid |-> TRUE]
  <2>1. Previous(m) # {} /\ Previous(m) \in SUBSET Existing(m) /\ Existing(m) \in SUBSET Revisions
    BY <1>5 DEF ReadForRollback, Previous, InWindow, Existing
  <2>2. IsFiniteSet(Previous(m)) /\ Previous(m) \in SUBSET Nat
    BY <2>1, CatalogAssumption, FS_Subset
  <2>3. v \in Revisions
    BY <2>1, <2>2, Extremes
  <2>4. model[m] # "NONE" /\ InForce(m) \in SUBSET Revisions
    BY <1>0, <2>1 DEF VersionsOK, InForce
  <2>5. Reads(q, r) /\ UNCHANGED <<provider, model, route, revision, outdated>>
    BY <1>5 DEF ReadForRollback
  <2> HIDE DEF v
  <2>6. r \in OpRows /\ OpOK(r)
    BY <2>3, <2>4 DEF OpRows, NewVersions, OpOK
  <2> HIDE DEF r
  <2> QED
    BY <2>5, <2>6, ReadStep
<1> QED
  BY <1>1, <1>2, <1>3, <1>4, <1>5

LEMMA CreateProviderStep ==
  ASSUME CatInv, NEW p \in Providers, CreateProvider(p)
  PROVE  CatInv'
<1>0. CatalogTables /\ OpsOK
  BY DEF CatInv
<1>1. /\ provider[p].status = "NONE" /\ provider' = [provider EXCEPT ![p].status = "ACTIVE"]
      /\ UNCHANGED <<model, route, revision, op, outdated>>
  BY DEF CreateProvider
<1>2. /\ provider' \in [Providers -> ProviderRows]
      /\ \A r \in Providers : /\ provider'[r].health = provider[r].health
                              /\ provider'[r].checked = provider[r].checked
                              /\ r # p => provider'[r] = provider[r]
      /\ provider'[p].status = "ACTIVE"
  BY <1>0, <1>1 DEF CatalogTables, ProviderRows
<1>3. \A q \in Operations : Ages(op[q], op'[q]) /\ LeavesOp(op'[q])
  <2> TAKE q \in Operations
  <2>1. op'[q] = op[q] /\ op[q] \in OpRows
    BY <1>0, <1>1 DEF OpsOK
  <2>2. op[q].kind \in {"model", "route"} => op[q].provider \in Providers
    BY <2>1, OpColumns
  <2> QED
    BY <1>1, <1>2, <2>1, <2>2 DEF Ages, LeavesOp, InForce, InForceNext
<1>4. OpsOK'
  BY <1>0, <1>1, <1>3, OpsStep DEF OpsOK
<1>5. CatalogTables'
  BY <1>0, <1>1, <1>2 DEF CatalogTables
<1>6. VersionsOK'
  BY <1>1 DEF CatInv, VersionsOK, Existing, InForce
<1>7. RoutesKnowHealth' /\ HealthChecked'
  BY <1>1, <1>2 DEF CatInv, RoutesKnowHealth, HealthChecked
<1>8. OnlyCheckedServe'
  <2>1. \A r \in Providers : provider'[r].status = "DISABLED" => provider[r].status = "DISABLED"
    BY <1>2
  <2> QED
    BY <1>1, <1>2, <2>1 DEF CatInv, OnlyCheckedServe, RoutesKnowHealth, HealthChecked, Serves
<1> QED
  BY <1>4, <1>5, <1>6, <1>7, <1>8 DEF CatInv

(* The operations that a change of a provider outdates.                    *)
LEMMA ProviderOps ==
  ASSUME OpsOK, NEW p \in Providers
  PROVE  LET S == AboutProvider(p) \cup UNION {AboutModel(m) : m \in Models}
         IN  /\ S \in SUBSET Operations /\ \A o \in S : op[o].kind # "free"
             /\ \A o \in Operations :
                  op[o].kind \in {"model", "route"} /\ op[o].provider = p => o \in S
             /\ \A o \in Operations : op[o].kind \in {"publish", "rollback"} => o \in S
<1> DEFINE S == AboutProvider(p) \cup UNION {AboutModel(m) : m \in Models}
<1>1. \A o \in Operations : op[o].kind \in {"publish", "rollback"} => op[o].model \in Models
  BY OpColumns DEF OpsOK
<1>2. \A o \in Operations : op[o].kind \in {"publish", "rollback"} => o \in AboutModel(op[o].model)
  BY DEF AboutModel
<1>3. \A o \in Operations : op[o].kind \in {"publish", "rollback"} => o \in S
  BY <1>1, <1>2
<1>4. S \in SUBSET Operations /\ \A o \in S : op[o].kind # "free"
  BY DEF AboutProvider, AboutModel
<1> QED
  BY <1>3, <1>4 DEF AboutProvider

LEMMA UpdateProviderStep ==
  ASSUME CatInv, NEW p \in Providers, NEW s \in {"ACTIVE", "DISABLED"}, UpdateProvider(p, s)
  PROVE  CatInv'
<1> DEFINE S == AboutProvider(p) \cup UNION {AboutModel(m) : m \in Models}
<1>0. CatalogTables /\ OpsOK
  BY DEF CatInv
<1>1. /\ provider' = [provider EXCEPT ![p] = Unchecked(p, s)]
      /\ route' = [m \in Models |->
                     IF route[m][p].state = "none" THEN route[m]
                     ELSE [route[m] EXCEPT ![p].state = "disabled", ![p].health = "unknown"]]
      /\ Outdates(S) /\ UNCHANGED <<model, revision, outdated>>
  BY DEF UpdateProvider
<1>2. /\ provider' \in [Providers -> ProviderRows] /\ provider'[p].health = "unknown"
      /\ \A r \in Providers : r # p => provider'[r] = provider[r]
  BY <1>0, <1>1 DEF CatalogTables, ProviderRows, Unchecked, Health
<1>3. ASSUME NEW m \in Models
      PROVE  /\ route'[m] \in [Providers -> RouteRows]
             /\ \A r \in Providers : r # p => route'[m][r] = route[m][r]
             /\ route'[m][p].state # "enabled"
             /\ route'[m][p].state # "none" => route'[m][p].health = "unknown"
  <2>1. route[m] \in [Providers -> RouteRows]
    BY <1>0 DEF CatalogTables
  <2>2. CASE route[m][p].state = "none"
    <3>1. route'[m] = route[m]
      BY <1>1, <2>2
    <3> QED
      BY <2>1, <2>2, <3>1
  <2>3. CASE route[m][p].state # "none"
    <3>1. route'[m] = [route[m] EXCEPT ![p].state = "disabled", ![p].health = "unknown"]
      BY <1>1, <2>3
    <3> QED
      BY <2>1, <3>1 DEF RouteRows, Health
  <2> QED
    BY <2>2, <2>3
<1>4. CatalogTables'
  <2>1. route' = [m \in Models |-> route'[m]]
    BY <1>1
  <2>2. route' \in [Models -> [Providers -> RouteRows]]
    BY <1>3, <2>1
  <2> QED
    BY <1>0, <1>1, <1>2, <2>2 DEF CatalogTables
<1>5. OpsOK'
  <2>1. op' = [o \in Operations |-> op'[o]]
        /\ \A o \in Operations : op'[o] = IF o \in S THEN [op[o] EXCEPT !.valid = FALSE] ELSE op[o]
    BY <1>1 DEF Outdates
  <2>2. /\ S \in SUBSET Operations /\ \A o \in S : op[o].kind # "free"
        /\ \A o \in Operations :
             op[o].kind \in {"model", "route"} /\ op[o].provider = p => o \in S
        /\ \A o \in Operations : op[o].kind \in {"publish", "rollback"} => o \in S
    BY <1>0, ProviderOps
  <2> HIDE DEF S
  <2>3. ASSUME NEW o \in Operations PROVE Ages(op[o], op'[o]) /\ LeavesOp(op'[o])
    <3>1. /\ Ages(op[o], op'[o]) /\ op'[o] \in OpRows /\ op'[o].kind = op[o].kind
          /\ o \in S => op'[o].valid = FALSE
          /\ o \notin S => op'[o] = op[o]
      BY <1>0, <2>1, <2>2, Outdated
    <3>2. op'[o].kind \in {"model", "route"} => op'[o].provider \in Providers
      BY <3>1, OpColumns
    <3> QED
      BY <1>1, <1>2, <2>2, <3>1, <3>2 DEF LeavesOp, InForce, InForceNext
  <2> QED
    BY <1>0, <2>1, <2>3, OpsStep
<1>6. VersionsOK'
  BY <1>1 DEF CatInv, VersionsOK, Existing, InForce
<1>7. RoutesKnowHealth'
  <2> SUFFICES ASSUME ~outdated, NEW m \in Models, NEW r \in Providers, route'[m][r].state # "none"
               PROVE  route'[m][r].health = provider'[r].health
    BY <1>1 DEF RoutesKnowHealth
  <2>1. CASE r = p
    BY <1>2, <1>3, <2>1
  <2>2. CASE r # p
    <3>1. route'[m][r] = route[m][r] /\ provider'[r] = provider[r]
      BY <1>2, <1>3, <2>2
    <3> QED
      BY <3>1 DEF CatInv, RoutesKnowHealth
  <2> QED
    BY <2>1, <2>2
<1>8. HealthChecked'
  BY <1>1, <1>2 DEF CatInv, HealthChecked
<1>9. OnlyCheckedServe'
  <2> SUFFICES ASSUME ~outdated, NEW m \in Models, NEW r \in Providers
               PROVE  /\ route'[m][r].state = "enabled" => provider'[r].status # "DISABLED"
                      /\ Serves(m, r)' => provider'[r].checked
    BY <1>1 DEF OnlyCheckedServe
  <2>1. CASE r = p
    BY <1>3, <2>1 DEF Serves
  <2>2. CASE r # p
    <3>1. route'[m][r] = route[m][r] /\ provider'[r] = provider[r]
      BY <1>2, <1>3, <2>2
    <3> QED
      BY <3>1 DEF CatInv, OnlyCheckedServe, Serves
  <2> QED
    BY <2>1, <2>2
<1> QED
  BY <1>4, <1>5, <1>6, <1>7, <1>8, <1>9 DEF CatInv

LEMMA SaveHealthStep ==
  ASSUME CatInv, NEW q \in Operations, NEW h \in {"healthy", "unhealthy"}, SaveProviderHealth(q, h)
  PROVE  CatInv'
<1> DEFINE p == op[q].provider
           S == AboutProvider(p) \cup UNION {AboutModel(m) : m \in Models}
<1>0. CatalogTables /\ OpsOK
  BY DEF CatInv
<1>1. /\ op[q].kind = "probe"
      /\ provider' = [provider EXCEPT ![p].health = h, ![p].checked = op[q].valid]
      /\ route' = [m \in Models |-> [route[m] EXCEPT ![p] = Judged(@, h)]]
      /\ DoneAndOutdates(q, S)
      /\ UNCHANGED <<model, revision>>
  BY DEF SaveProviderHealth
<1>2. p \in Providers /\ op[q].valid \in BOOLEAN
  BY <1>0, <1>1, OpColumns DEF OpsOK
<1>3. /\ op' = [o \in Operations |-> op'[o]]
      /\ op'[q] = Free /\ outdated' = (outdated \/ ~op[q].valid)
      /\ \A o \in Operations : o # q =>
           op'[o] = IF o \in S THEN [op[o] EXCEPT !.valid = FALSE] ELSE op[o]
  BY <1>0, <1>1, DoneShape
<1>4. /\ S \in SUBSET Operations /\ \A o \in S : op[o].kind # "free"
      /\ \A o \in Operations :
           op[o].kind \in {"model", "route"} /\ op[o].provider = p => o \in S
      /\ \A o \in Operations : op[o].kind \in {"publish", "rollback"} => o \in S
  BY <1>0, <1>2, ProviderOps
<1> HIDE DEF S, p
<1>5. /\ provider' \in [Providers -> ProviderRows] /\ provider'[p].health = h
      /\ provider'[p].checked = op[q].valid
      /\ \A r \in Providers : /\ r # p => provider'[r] = provider[r]
                              /\ provider'[r].status = provider[r].status
  BY <1>0, <1>1, <1>2 DEF CatalogTables, ProviderRows, Health
<1>6. ASSUME NEW m \in Models
      PROVE  /\ route'[m] \in [Providers -> RouteRows]
             /\ \A r \in Providers : r # p => route'[m][r] = route[m][r]
             /\ route'[m][p].state = "enabled" => route[m][p].state = "enabled"
             /\ route'[m][p].state # "none" => route'[m][p].health = h
  <2>1. route[m] \in [Providers -> RouteRows] /\ route[m][p] \in RouteRows
    BY <1>0, <1>2 DEF CatalogTables
  <2>2. route'[m] = [route[m] EXCEPT ![p] = Judged(route[m][p], h)]
    BY <1>1
  <2>3. /\ Judged(route[m][p], h) \in RouteRows
        /\ Judged(route[m][p], h).state = "enabled" => route[m][p].state = "enabled"
        /\ Judged(route[m][p], h).state # "none" => Judged(route[m][p], h).health = h
    BY <2>1 DEF Judged, RouteRows, Health
  <2> QED
    BY <1>2, <2>1, <2>2, <2>3
<1>7. CatalogTables'
  <2>1. route' = [m \in Models |-> route'[m]]
    BY <1>1
  <2>2. route' \in [Models -> [Providers -> RouteRows]]
    BY <1>6, <2>1
  <2>3. outdated' \in BOOLEAN
    BY <1>0, <1>2, <1>3 DEF CatalogTables
  <2> QED
    BY <1>0, <1>1, <1>5, <2>2, <2>3 DEF CatalogTables
<1>8. OpsOK'
  <2>1. ASSUME NEW o \in Operations PROVE Ages(op[o], op'[o]) /\ LeavesOp(op'[o])
    <3>1. CASE o = q
      BY <1>3, <3>1 DEF Ages, LeavesOp, Free
    <3>2. CASE o # q
      <4>1. /\ Ages(op[o], op'[o]) /\ op'[o] \in OpRows /\ op'[o].kind = op[o].kind
            /\ o \in S => op'[o].valid = FALSE
            /\ o \notin S => op'[o] = op[o]
        BY <1>0, <1>3, <1>4, <3>2, Outdated
      <4>2. op'[o].kind \in {"model", "route"} => op'[o].provider \in Providers
        BY <4>1, OpColumns
      <4> QED
        BY <1>1, <1>4, <1>5, <4>1, <4>2 DEF LeavesOp, InForce, InForceNext
    <3> QED
      BY <3>1, <3>2
  <2> QED
    BY <1>0, <1>3, <2>1, OpsStep
<1>9. outdated => outdated'
  BY <1>3
<1>10. VersionsOK'
  BY <1>1, <1>9 DEF CatInv, VersionsOK, Existing, InForce
<1>11. RoutesKnowHealth'
  BY <1>5, <1>6, <1>9 DEF CatInv, RoutesKnowHealth
<1>12. HealthChecked'
  BY <1>3, <1>5 DEF CatInv, HealthChecked
<1>13. OnlyCheckedServe'
  <2> SUFFICES ASSUME ~outdated', NEW m \in Models, NEW r \in Providers
               PROVE  /\ route'[m][r].state = "enabled" => provider'[r].status # "DISABLED"
                      /\ Serves(m, r)' => provider'[r].checked
    BY DEF OnlyCheckedServe
  <2>1. route[m][r].state = "enabled" => provider[r].status # "DISABLED"
    BY <1>9 DEF CatInv, OnlyCheckedServe
  <2>2. route'[m][r].state = "enabled" => route[m][r].state = "enabled"
    BY <1>6
  <2>3. r = p => provider'[r].checked
    BY <1>2, <1>3, <1>5
  <2>4. r # p => (Serves(m, r)' => provider'[r].checked)
    <3> SUFFICES ASSUME r # p PROVE Serves(m, r)' => provider'[r].checked
      OBVIOUS
    <3>1. route'[m][r] = route[m][r] /\ provider'[r] = provider[r]
      BY <1>5, <1>6
    <3> QED
      BY <1>9, <3>1 DEF CatInv, OnlyCheckedServe, Serves
  <2> QED
    BY <1>5, <2>1, <2>2, <2>3, <2>4
<1> QED
  BY <1>7, <1>8, <1>10, <1>11, <1>12, <1>13 DEF CatInv

LEMMA CreateModelStep ==
  ASSUME CatInv, NEW q \in Operations, CreateModel(q)
  PROVE  CatInv'
<1> DEFINE o == op[q]
           n == o.model
           p == o.provider
           row == [state |-> "disabled", health |-> o.health, rank |-> o.rank]
           first == [v \in Revisions |-> IF v = Min(Revisions) THEN "DRAFT" ELSE "none"]
<1>0. CatalogTables /\ OpsOK /\ op[q] \in OpRows
  BY DEF CatInv, OpsOK
<1>1. o.kind = "model" /\ n \in Models /\ p \in Providers /\ o.valid \in BOOLEAN
      /\ o.health \in Health /\ o.rank \in Ranking
  BY <1>0, OpColumns DEF CreateModel
<1>2. CASE model[n] # "NONE"
  <2>1. Free \in OpRows /\ OpOK(Free)
    BY DEF OpRows, OpOK, Free
  <2>2. op' = [op EXCEPT ![q] = Free] /\ UNCHANGED <<provider, model, route, revision, outdated>>
    BY <1>2 DEF CreateModel
  <2>3. op' = [x \in Operations |-> op'[x]]
        /\ \A x \in Operations : Ages(op[x], op'[x]) /\ LeavesOp(op'[x])
    BY <1>0, <2>2 DEF OpsOK, Ages, LeavesOp, InForce, InForceNext
  <2>4. OpsOK'
    BY <1>0, <2>3, OpsStep
  <2> QED
    BY <2>2, <2>4 DEF CatInv, CatalogTables, VersionsOK, Existing, InForce, RoutesKnowHealth,
       OnlyCheckedServe, Serves, HealthChecked
<1>3. CASE model[n] = "NONE"
  <2>1. /\ model' = [model EXCEPT ![n] = "DRAFT"]
        /\ route' = [route EXCEPT ![n][p] = row]
        /\ revision' = [revision EXCEPT ![n] = first]
        /\ DoneAndOutdates(q, {}) /\ UNCHANGED provider
    BY <1>3 DEF CreateModel
  <2>2. /\ op' = [x \in Operations |-> op'[x]]
        /\ op'[q] = Free /\ outdated' = (outdated \/ ~o.valid)
        /\ \A x \in Operations : x # q => op'[x] = op[x]
    <3> DEFINE S == {}
    <3>1. DoneAndOutdates(q, S) /\ S = {}
      BY <2>1
    <3> HIDE DEF S
    <3>2. /\ op' = [x \in Operations |-> op'[x]]
          /\ op'[q] = Free /\ outdated' = (outdated \/ ~op[q].valid)
          /\ \A x \in Operations : x # q =>
               op'[x] = IF x \in S THEN [op[x] EXCEPT !.valid = FALSE] ELSE op[x]
      BY <1>0, <3>1, DoneShape
    <3>3. \A x \in Operations : x \notin S
      BY <3>1
    <3> HIDE <3>1
    <3> QED
      BY <3>2, <3>3
  <2>3. ~outdated' => o.health = provider[p].health
    <3>1. ~outdated' => o.valid
      BY <1>1, <2>2
    <3> QED
      BY <1>0, <1>1, <3>1 DEF OpsOK, OpOK
  <2>4. row \in RouteRows /\ row.state = "disabled" /\ row.health = o.health
    BY <1>1 DEF RouteRows
  <2>5. first \in [Revisions -> Stages] /\ \A v \in Revisions : first[v] # "PUBLISHED"
    BY DEF Stages
  <2> HIDE DEF row, first, o, n, p
  <2>6. /\ route' \in [Models -> [Providers -> RouteRows]] /\ route'[n][p] = row
        /\ \A m \in Models, r \in Providers : <<m, r>> # <<n, p>> => route'[m][r] = route[m][r]
    <3>1. route \in [Models -> [Providers -> RouteRows]]
      BY <1>0 DEF CatalogTables
    <3> QED
      BY <1>1, <2>1, <2>4, <3>1
  <2>7. /\ revision' \in [Models -> [Revisions -> Stages]] /\ revision'[n] = first
        /\ \A m \in Models : m # n => revision'[m] = revision[m]
    BY <1>0, <1>1, <2>1, <2>5 DEF CatalogTables
  <2>8. /\ model' \in [Models -> {"NONE", "DRAFT", "PUBLISHED"}] /\ model'[n] = "DRAFT"
        /\ \A m \in Models : m # n => model'[m] = model[m]
    BY <1>0, <1>1, <2>1 DEF CatalogTables
  <2>9. outdated' \in BOOLEAN /\ (outdated => outdated')
    BY <1>0, <1>1, <2>2 DEF CatalogTables
  <2>10. CatalogTables'
    BY <1>0, <2>1, <2>6, <2>7, <2>8, <2>9 DEF CatalogTables
  <2>11. OpsOK'
    <3>1. ASSUME NEW x \in Operations PROVE Ages(op[x], op'[x]) /\ LeavesOp(op'[x])
      <4>1. CASE x = q
        BY <2>2, <4>1 DEF Ages, LeavesOp, Free
      <4>2. CASE x # q
        <5>1. op'[x] = op[x] /\ op[x] \in OpRows
          BY <1>0, <2>2, <4>2 DEF OpsOK
        <5>2. op[x].kind \in {"publish", "rollback"} => op[x].model \in Models
          BY <5>1, OpColumns
        <5> QED
          BY <1>3, <2>1, <2>7, <2>8, <5>1, <5>2 DEF Ages, LeavesOp, InForce, InForceNext
      <4> QED
        BY <4>1, <4>2
    <3> QED
      BY <1>0, <2>2, <3>1, OpsStep
  <2>12. VersionsOK'
    <3> SUFFICES ASSUME NEW m \in Models
                 PROVE  /\ model'[m] = "NONE" => Existing(m)' = {}
                        /\ model'[m] = "PUBLISHED" => InForce(m)' # {}
                        /\ outdated' \/ \A v, w \in InForce(m)' : v = w
      BY DEF VersionsOK
    <3>1. CASE m = n
      <4>1. InForce(m)' = {}
        BY <2>5, <2>7, <3>1 DEF InForce
      <4> QED
        BY <2>8, <3>1, <4>1
    <3>2. CASE m # n
      <4>1. InForce(m)' = InForce(m) /\ Existing(m)' = Existing(m)
        BY <2>7, <3>2 DEF InForce, Existing
      <4> QED
        BY <2>8, <2>9, <3>2, <4>1 DEF CatInv, VersionsOK
    <3> QED
      BY <3>1, <3>2
  <2>13. ASSUME ~outdated', NEW m \in Models, NEW r \in Providers
         PROVE  /\ route'[m][r].state # "none" => route'[m][r].health = provider'[r].health
                /\ route'[m][r].state = "enabled" => provider'[r].status # "DISABLED"
                /\ Serves(m, r)' => provider'[r].checked
    <3>1. CASE m = n /\ r = p
      BY <2>1, <2>3, <2>4, <2>6, <2>13, <3>1 DEF Serves
    <3>2. CASE ~(m = n /\ r = p)
      <4>1. route'[m][r] = route[m][r] /\ provider' = provider /\ ~outdated
        BY <2>1, <2>6, <2>9, <2>13, <3>2
      <4> QED
        BY <4>1 DEF CatInv, RoutesKnowHealth, OnlyCheckedServe, Serves
    <3> QED
      BY <3>1, <3>2
  <2>14. HealthChecked'
    BY <2>1, <2>9 DEF CatInv, HealthChecked
  <2> QED
    BY <2>10, <2>11, <2>12, <2>13, <2>14 DEF CatInv, RoutesKnowHealth, OnlyCheckedServe
<1> QED
  BY <1>2, <1>3

LEMMA ModelOps ==
  ASSUME OpsOK, NEW m \in Models
  PROVE  /\ AboutModel(m) \in SUBSET Operations
         /\ \A o \in AboutModel(m) : op[o].kind # "free"
         /\ \A o \in Operations :
              o \in AboutModel(m) <=> op[o].kind \in {"publish", "rollback"} /\ op[o].model = m
BY DEF AboutModel

LEMMA UpsertRouteStep ==
  ASSUME CatInv, NEW q \in Operations, UpsertRoute(q)
  PROVE  CatInv'
<1> DEFINE o == op[q]
           n == o.model
           p == o.provider
           S == AboutModel(n)
           row == [state |-> IF o.enabled THEN "enabled" ELSE "disabled",
                   health |-> IF route[n][p].state = "none" THEN o.health ELSE route[n][p].health,
                   rank |-> o.rank]
<1>0. CatalogTables /\ OpsOK /\ op[q] \in OpRows
  BY DEF CatInv, OpsOK
<1>1. /\ o.kind = "route" /\ route' = [route EXCEPT ![n][p] = row]
      /\ DoneAndOutdates(q, S) /\ UNCHANGED <<provider, model, revision>>
  BY DEF UpsertRoute
<1>2. /\ n \in Models /\ p \in Providers /\ o.valid \in BOOLEAN /\ o.enabled \in BOOLEAN
      /\ o.health \in Health /\ o.rank \in Ranking
  BY <1>0, <1>1, OpColumns
<1>3. /\ op' = [x \in Operations |-> op'[x]]
      /\ op'[q] = Free /\ outdated' = (outdated \/ ~o.valid)
      /\ \A x \in Operations : x # q =>
           op'[x] = IF x \in S THEN [op[x] EXCEPT !.valid = FALSE] ELSE op[x]
  BY <1>0, <1>1, DoneShape
<1>4. ~outdated' => o.health = provider[p].health /\ provider[p].status = "ACTIVE"
  <2>1. ~outdated' => o.valid
    BY <1>2, <1>3
  <2> QED
    BY <1>0, <1>1, <2>1 DEF OpsOK, OpOK
<1>5. outdated' \in BOOLEAN /\ (outdated => outdated')
  BY <1>0, <1>2, <1>3 DEF CatalogTables
<1>6. row \in RouteRows /\ (~outdated' => row.health = provider[p].health)
  <2>1. route[n][p] \in RouteRows
    BY <1>0, <1>2 DEF CatalogTables
  <2>2. row \in RouteRows
    BY <1>2, <2>1 DEF RouteRows
  <2>3. ~outdated' /\ route[n][p].state # "none" => route[n][p].health = provider[p].health
    BY <1>2, <1>5 DEF CatInv, RoutesKnowHealth
  <2> QED
    BY <1>4, <2>2, <2>3
<1>7. S \in SUBSET Operations /\ \A x \in S : op[x].kind # "free"
  BY <1>0, <1>2, ModelOps
<1> HIDE DEF row, S, o, n, p
<1>8. /\ route' \in [Models -> [Providers -> RouteRows]] /\ route'[n][p] = row
      /\ \A m \in Models, r \in Providers : <<m, r>> # <<n, p>> => route'[m][r] = route[m][r]
  <2>1. route \in [Models -> [Providers -> RouteRows]]
    BY <1>0 DEF CatalogTables
  <2> QED
    BY <1>1, <1>2, <1>6, <2>1
<1>9. CatalogTables'
  BY <1>0, <1>1, <1>5, <1>8 DEF CatalogTables
<1>10. OpsOK'
  <2>1. ASSUME NEW x \in Operations PROVE Ages(op[x], op'[x]) /\ LeavesOp(op'[x])
    <3>1. CASE x = q
      BY <1>3, <3>1 DEF Ages, LeavesOp, Free
    <3>2. CASE x # q
      <4>1. Ages(op[x], op'[x])
        BY <1>0, <1>3, <1>7, <3>2, Outdated
      <4> QED
        BY <1>1, <4>1 DEF LeavesOp, InForce, InForceNext
    <3> QED
      BY <3>1, <3>2
  <2> QED
    BY <1>0, <1>3, <2>1, OpsStep
<1>11. VersionsOK'
  BY <1>1, <1>5 DEF CatInv, VersionsOK, Existing, InForce
<1>12. HealthChecked'
  BY <1>1, <1>5 DEF CatInv, HealthChecked
<1>13. ASSUME ~outdated', NEW m \in Models, NEW r \in Providers
       PROVE  /\ route'[m][r].state # "none" => route'[m][r].health = provider'[r].health
              /\ route'[m][r].state = "enabled" => provider'[r].status # "DISABLED"
              /\ Serves(m, r)' => provider'[r].checked
  <2>1. CASE m = n /\ r = p
    <3>1. route'[m][r] = row /\ provider' = provider /\ ~outdated
      BY <1>1, <1>5, <1>8, <1>13, <2>1
    <3>2. row.health = provider[r].health /\ provider[r].status = "ACTIVE"
      BY <1>4, <1>6, <1>13, <2>1
    <3>3. provider[r].health = "healthy" => provider[r].checked
      BY <3>1 DEF CatInv, HealthChecked
    <3> QED
      BY <3>1, <3>2, <3>3 DEF Serves
  <2>2. CASE ~(m = n /\ r = p)
    <3>1. route'[m][r] = route[m][r] /\ provider' = provider /\ ~outdated
      BY <1>1, <1>5, <1>8, <1>13, <2>2
    <3> QED
      BY <3>1 DEF CatInv, RoutesKnowHealth, OnlyCheckedServe, Serves
  <2> QED
    BY <2>1, <2>2
<1> QED
  BY <1>9, <1>10, <1>11, <1>12, <1>13 DEF CatInv, RoutesKnowHealth, OnlyCheckedServe

LEMMA CreateVersionStep ==
  ASSUME CatInv, NEW n \in Models, CreateVersion(n)
  PROVE  CatInv'
<1> DEFINE v == Min(Revisions \ Existing(n))
<1>0. CatalogTables /\ OpsOK
  BY DEF CatInv
<1>1. /\ model[n] # "NONE" /\ revision' = [revision EXCEPT ![n][v] = "DRAFT"]
      /\ UNCHANGED <<provider, model, route, op, outdated>>
  BY DEF CreateVersion
<1>2. v \in Revisions /\ v \notin Existing(n)
  <2> DEFINE T == Revisions \ Existing(n)
  <2>1. T # {} /\ T \in SUBSET Revisions
    BY DEF CreateVersion, Existing
  <2>2. IsFiniteSet(T) /\ T \in SUBSET Nat
    BY <2>1, CatalogAssumption, FS_Subset
  <2>3. v \in T
    <3> HIDE DEF T
    <3>1. Min(T) \in T
      BY <2>1, <2>2, Extremes
    <3> QED
      BY <3>1 DEF T
  <2> QED
    BY <2>3
<1> HIDE DEF v
<1>3. revision[n][v] = "none"
  BY <1>2 DEF Existing
<1>4. /\ revision' \in [Models -> [Revisions -> Stages]]
      /\ \A m \in Models : m # n => revision'[m] = revision[m]
      /\ revision'[n][v] = "DRAFT" /\ \A w \in Revisions : w # v => revision'[n][w] = revision[n][w]
  BY <1>0, <1>1, <1>2 DEF CatalogTables, Stages
<1>5. \A m \in Models : InForceNext(m) = InForce(m)
  <2> SUFFICES ASSUME NEW m \in Models, NEW w \in Revisions
               PROVE  revision'[m][w] = "PUBLISHED" <=> revision[m][w] = "PUBLISHED"
    BY DEF InForce, InForceNext
  <2>1. CASE m = n /\ w = v
    BY <1>3, <1>4, <2>1
  <2>2. CASE ~(m = n /\ w = v)
    BY <1>4, <2>2
  <2> QED
    BY <2>1, <2>2
<1>6. CatalogTables'
  BY <1>0, <1>1, <1>4 DEF CatalogTables
<1>7. OpsOK'
  <2>1. ASSUME NEW x \in Operations PROVE Ages(op[x], op'[x]) /\ LeavesOp(op'[x])
    <3>1. op'[x] = op[x] /\ op[x] \in OpRows
      BY <1>0, <1>1 DEF OpsOK
    <3>2. op[x].kind \in {"publish", "rollback"} => op[x].model \in Models
      BY <3>1, OpColumns
    <3> QED
      BY <1>1, <1>5, <3>1, <3>2 DEF Ages, LeavesOp
  <2> QED
    BY <1>0, <1>1, <2>1, OpsStep DEF OpsOK
<1>8. VersionsOK'
  <2> SUFFICES ASSUME NEW m \in Models
               PROVE  /\ model[m] = "NONE" => Existing(m)' = {}
                      /\ model[m] = "PUBLISHED" => InForce(m)' # {}
                      /\ outdated \/ \A x, y \in InForce(m)' : x = y
    BY <1>1 DEF VersionsOK
  <2>1. InForce(m)' = InForce(m)
    BY <1>5 DEF InForce, InForceNext
  <2>2. model[m] = "NONE" => Existing(m)' = Existing(m)
    BY <1>1, <1>4 DEF Existing
  <2> QED
    BY <2>1, <2>2 DEF CatInv, VersionsOK
<1> QED
  BY <1>1, <1>6, <1>7, <1>8 DEF CatInv, RoutesKnowHealth, OnlyCheckedServe, Serves, HealthChecked

(* What publishing and rolling back do to the versions: the chosen one is  *)
(* in force, and it alone unless q was overtaken.                          *)
LEMMA Forces ==
  ASSUME CatInv, NEW q \in Operations, op[q].kind \in {"publish", "rollback"},
         NEW old \in Replaced(q), revision' = ToForce(op[q].model, op[q].version, old),
         DoneAndOutdates(q, AboutModel(op[q].model))
  PROVE  LET n == op[q].model
         IN
         /\ n \in Models /\ model[n] # "NONE"
         /\ revision' \in [Models -> [Revisions -> Stages]]
         /\ \A m \in Models : m # n => revision'[m] = revision[m]
         /\ op[q].version \in InForceNext(n)
         /\ outdated' \/ \A v, w \in InForceNext(n) : v = w
         /\ outdated' \in BOOLEAN /\ (outdated => outdated')
<1> DEFINE n == op[q].model
           x == op[q].version
           row == [w \in Revisions |-> IF w = x THEN "PUBLISHED"
                                       ELSE IF w \in old THEN "ROLLED_BACK" ELSE revision[n][w]]
<1>0. CatalogTables /\ OpsOK /\ op[q] \in OpRows /\ OpOK(op[q])
  BY DEF CatInv, OpsOK
<1>1. /\ n \in Models /\ x \in Revisions /\ op[q].valid \in BOOLEAN
      /\ model[n] # "NONE" /\ (op[q].valid => op[q].old = InForce(n))
  BY <1>0, OpColumns DEF OpOK
<1>2. outdated' = (outdated \/ ~op[q].valid)
  BY DEF DoneAndOutdates
<1>3. revision' = [revision EXCEPT ![n] = row]
  BY DEF ToForce
<1>4. row \in [Revisions -> Stages]
  <2>1. revision[n] \in [Revisions -> Stages]
    BY <1>0, <1>1 DEF CatalogTables
  <2> QED
    BY <2>1 DEF Stages
<1>5. row[x] = "PUBLISHED"
      /\ \A w \in Revisions : w # x /\ row[w] = "PUBLISHED" => w \notin old /\ w \in InForce(n)
  BY <1>1 DEF InForce
<1>6. ~outdated' => old = InForce(n)
  BY <1>1, <1>2 DEF Replaced
<1> HIDE DEF row, x, n
<1>7. /\ revision' \in [Models -> [Revisions -> Stages]] /\ revision'[n] = row
      /\ \A m \in Models : m # n => revision'[m] = revision[m]
  BY <1>0, <1>1, <1>3, <1>4 DEF CatalogTables
<1>8. x \in InForceNext(n)
  BY <1>1, <1>5, <1>7 DEF InForceNext
<1>9. outdated' \/ \A v \in InForceNext(n) : v = x
  BY <1>5, <1>6, <1>7 DEF InForceNext
<1>10. outdated' \in BOOLEAN /\ (outdated => outdated')
  BY <1>0, <1>1, <1>2 DEF CatalogTables
<1> QED
  BY <1>1, <1>7, <1>8, <1>9, <1>10 DEF x, n

(* The parts of the invariant about versions and operations, for both.     *)
LEMMA VersionStep ==
  ASSUME CatInv, NEW q \in Operations, op[q].kind \in {"publish", "rollback"},
         NEW old \in Replaced(q), revision' = ToForce(op[q].model, op[q].version, old),
         DoneAndOutdates(q, AboutModel(op[q].model)),
         UNCHANGED provider, model'[op[q].model] # "NONE",
         \A m \in Models : m # op[q].model => model'[m] = model[m]
  PROVE  OpsOK' /\ VersionsOK'
<1> DEFINE n == op[q].model
<1>0. OpsOK
  BY DEF CatInv
<1>1. /\ n \in Models /\ model[n] # "NONE"
      /\ revision' \in [Models -> [Revisions -> Stages]]
      /\ \A m \in Models : m # n => revision'[m] = revision[m]
      /\ op[q].version \in InForceNext(n)
      /\ outdated' \/ \A v, w \in InForceNext(n) : v = w
      /\ outdated' \in BOOLEAN /\ (outdated => outdated')
  BY Forces
<1>1a. /\ model'[n] # "NONE" /\ \A m \in Models : m # n => model'[m] = model[m]
       /\ DoneAndOutdates(q, AboutModel(n))
  OBVIOUS
<1> HIDE DEF n
<1>2. /\ op' = [x \in Operations |-> op'[x]] /\ op'[q] = Free
      /\ \A x \in Operations : x # q =>
           op'[x] = IF x \in AboutModel(n) THEN [op[x] EXCEPT !.valid = FALSE] ELSE op[x]
  BY <1>0, <1>1a, DoneShape
<1>3. /\ AboutModel(n) \in SUBSET Operations
      /\ \A o \in AboutModel(n) : op[o].kind # "free"
      /\ \A o \in Operations :
           o \in AboutModel(n) <=> op[o].kind \in {"publish", "rollback"} /\ op[o].model = n
  BY <1>0, <1>1, ModelOps
<1>4. ASSUME NEW x \in Operations PROVE Ages(op[x], op'[x]) /\ LeavesOp(op'[x])
  <2>1. CASE x = q
    BY <1>2, <2>1 DEF Ages, LeavesOp, Free
  <2>2. CASE x # q
    <3>1. /\ Ages(op[x], op'[x]) /\ op'[x] \in OpRows /\ op'[x].kind = op[x].kind
          /\ x \in AboutModel(n) => op'[x].valid = FALSE
          /\ x \notin AboutModel(n) => op'[x] = op[x]
          /\ op'[x].kind \in {"publish", "rollback"} => op'[x].model = op[x].model
      BY <1>0, <1>2, <1>3, <2>2, Outdated
    <3>2. op'[x].kind \in {"publish", "rollback"} => op'[x].model \in Models
      BY <3>1, OpColumns
    <3>3. op'[x].kind \in {"publish", "rollback"} /\ op'[x].model # n =>
            /\ model'[op'[x].model] = model[op'[x].model]
            /\ InForceNext(op'[x].model) = InForce(op'[x].model)
      BY <1>1, <1>1a, <3>2 DEF InForce, InForceNext
    <3>4. op'[x].kind \in {"publish", "rollback"} /\ op'[x].model = n =>
            model'[op'[x].model] # "NONE" /\ op'[x].valid = FALSE
      BY <1>1a, <3>1, <2>2, <1>3
    <3> QED
      BY <3>1, <3>3, <3>4 DEF LeavesOp
  <2> QED
    BY <2>1, <2>2
<1>5. OpsOK'
  BY <1>0, <1>2, <1>4, OpsStep
<1>6. VersionsOK'
  <2> SUFFICES ASSUME NEW m \in Models
               PROVE  /\ model'[m] = "NONE" => Existing(m)' = {}
                      /\ model'[m] = "PUBLISHED" => InForce(m)' # {}
                      /\ outdated' \/ \A v, w \in InForce(m)' : v = w
    BY DEF VersionsOK
  <2>0. InForce(m)' = InForceNext(m)
    BY DEF InForce, InForceNext
  <2>1. CASE m = n
    BY <1>1, <1>1a, <2>0, <2>1
  <2>2. CASE m # n
    <3>1. InForce(m)' = InForce(m) /\ Existing(m)' = Existing(m)
      BY <1>1, <2>2 DEF InForce, Existing
    <3> QED
      BY <1>1, <1>1a, <2>2, <3>1 DEF CatInv, VersionsOK
  <2> QED
    BY <2>1, <2>2
<1> QED
  BY <1>5, <1>6

LEMMA PublishVersionStep ==
  ASSUME CatInv, NEW q \in Operations, Publish(q)
  PROVE  CatInv'
<1> DEFINE n == op[q].model
<1>0. CatalogTables
  BY DEF CatInv
<1>1. PICK old \in Replaced(q) : revision' = ToForce(n, op[q].version, old)
  BY DEF Publish
<1>2. /\ op[q].kind = "publish" /\ model' = [model EXCEPT ![n] = "PUBLISHED"]
      /\ route' = [route EXCEPT ![n] = [p \in Providers |->
                     IF Opens(n, p) THEN [@[p] EXCEPT !.state = "enabled"] ELSE @[p]]]
      /\ DoneAndOutdates(q, AboutModel(n)) /\ UNCHANGED provider
  BY DEF Publish
<1> DEFINE row == [p \in Providers |-> IF Opens(n, p) THEN [route[n][p] EXCEPT !.state = "enabled"]
                                       ELSE route[n][p]]
<1>3. route' = [route EXCEPT ![n] = row]
  BY <1>0, <1>2 DEF CatalogTables
<1> HIDE DEF n
<1>4. /\ n \in Models /\ model[n] # "NONE"
      /\ revision' \in [Models -> [Revisions -> Stages]]
      /\ outdated' \in BOOLEAN /\ (outdated => outdated')
  BY <1>1, <1>2, Forces DEF n
<1>5. /\ model' \in [Models -> {"NONE", "DRAFT", "PUBLISHED"}] /\ model'[n] = "PUBLISHED"
      /\ \A m \in Models : m # n => model'[m] = model[m]
  BY <1>0, <1>2, <1>4 DEF CatalogTables
<1>6. OpsOK' /\ VersionsOK'
  BY <1>1, <1>2, <1>5, VersionStep DEF n
<1>7. ASSUME NEW p \in Providers
      PROVE  /\ row[p] \in RouteRows /\ row[p].health = route[n][p].health
             /\ row[p].state # "none" => route[n][p].state # "none"
             /\ row[p].state = "enabled" => provider[p].status = "ACTIVE" \/ route[n][p].state = "enabled"
  <2>1. route[n][p] \in RouteRows
    BY <1>0, <1>4 DEF CatalogTables
  <2>2. CASE Opens(n, p)
    <3>1. row[p] = [route[n][p] EXCEPT !.state = "enabled"]
      BY <2>2
    <3>2. provider[p].status = "ACTIVE" /\ route[n][p].state # "none"
      BY <2>2 DEF Opens
    <3> QED
      BY <2>1, <3>1, <3>2 DEF RouteRows
  <2>3. CASE ~Opens(n, p)
    BY <2>1, <2>3
  <2> QED
    BY <2>2, <2>3
<1>8. row \in [Providers -> RouteRows]
  BY <1>7
<1> HIDE DEF row
<1>9. /\ route' \in [Models -> [Providers -> RouteRows]] /\ route'[n] = row
      /\ \A m \in Models : m # n => route'[m] = route[m]
  BY <1>0, <1>3, <1>4, <1>8 DEF CatalogTables
<1>10. CatalogTables'
  BY <1>0, <1>2, <1>4, <1>5, <1>9 DEF CatalogTables
<1>11. HealthChecked'
  BY <1>2, <1>4 DEF CatInv, HealthChecked
<1>12. ASSUME ~outdated', NEW m \in Models, NEW r \in Providers
       PROVE  /\ route'[m][r].state # "none" => route'[m][r].health = provider'[r].health
              /\ route'[m][r].state = "enabled" => provider'[r].status # "DISABLED"
              /\ Serves(m, r)' => provider'[r].checked
  <2>0. provider' = provider /\ ~outdated
    BY <1>2, <1>4, <1>12
  <2>1. /\ route[m][r].state # "none" => route[m][r].health = provider[r].health
        /\ route[m][r].state = "enabled" => provider[r].status # "DISABLED"
        /\ Serves(m, r) => provider[r].checked
        /\ provider[r].health = "healthy" => provider[r].checked
    BY <2>0 DEF CatInv, RoutesKnowHealth, OnlyCheckedServe, HealthChecked
  <2>2. CASE m = n
    <3>1. route'[m][r] = row[r]
      BY <1>9, <2>2
    <3> QED
      BY <1>7, <2>0, <2>1, <2>2, <3>1 DEF Serves
  <2>3. CASE m # n
    <3>1. route'[m][r] = route[m][r]
      BY <1>9, <2>3
    <3> QED
      BY <2>0, <2>1, <3>1 DEF Serves
  <2> QED
    BY <2>2, <2>3
<1> QED
  BY <1>6, <1>10, <1>11, <1>12 DEF CatInv, RoutesKnowHealth, OnlyCheckedServe

LEMMA RollbackStep ==
  ASSUME CatInv, NEW q \in Operations, Rollback(q)
  PROVE  CatInv'
<1> DEFINE n == op[q].model
<1>0. CatalogTables
  BY DEF CatInv
<1>1. PICK old \in Replaced(q) : revision' = ToForce(n, op[q].version, old)
  BY DEF Rollback
<1>2. /\ op[q].kind = "rollback" /\ DoneAndOutdates(q, AboutModel(n))
      /\ UNCHANGED <<provider, model, route>>
  BY DEF Rollback
<1> HIDE DEF n
<1>3. /\ n \in Models /\ model[n] # "NONE"
      /\ revision' \in [Models -> [Revisions -> Stages]]
      /\ outdated' \in BOOLEAN /\ (outdated => outdated')
  BY <1>1, <1>2, Forces DEF n
<1>4. OpsOK' /\ VersionsOK'
  BY <1>1, <1>2, <1>3, VersionStep DEF n
<1>5. CatalogTables'
  BY <1>0, <1>2, <1>3 DEF CatalogTables
<1> QED
  BY <1>2, <1>3, <1>4, <1>5 DEF CatInv, RoutesKnowHealth, OnlyCheckedServe, Serves, HealthChecked

LEMMA CatalogStart == CatalogInit => CatInv
<1> SUFFICES ASSUME CatalogInit PROVE CatInv
  OBVIOUS
<1>1. CatalogTables
  BY DEF CatalogInit, CatalogTables, ProviderRows, RouteRows, Stages, Health, Ranking, NoRoute
<1>2. OpsOK
  BY DEF CatalogInit, OpsOK, OpOK, OpRows, Free
<1> QED
  BY <1>1, <1>2 DEF CatalogInit, CatInv, VersionsOK, Existing, InForce, RoutesKnowHealth,
     OnlyCheckedServe, Serves, HealthChecked, NoRoute

LEMMA CatInvariant == CatalogSpec => []CatInv
<1>1. CatInv /\ CatalogNext => CatInv'
  <2> SUFFICES ASSUME CatInv, CatalogNext PROVE CatInv'
    OBVIOUS
  <2>1. CASE \E p \in Providers : CreateProvider(p) \/ \E s \in {"ACTIVE", "DISABLED"} : UpdateProvider(p, s)
    BY <2>1, CreateProviderStep, UpdateProviderStep
  <2>2. CASE \E m \in Models : CreateVersion(m)
    BY <2>2, CreateVersionStep
  <2>3. ASSUME NEW q \in Operations,
               \/ \E p \in Providers :
                    \/ ProbeProvider(q, p)
                    \/ \E m \in Models, r \in Ranks :
                         \/ ReadForModel(q, m, p, r)
                         \/ \E enabled \in BOOLEAN : ReadForRoute(q, m, p, enabled, r)
               \/ \E m \in Models : ReadForRollback(q, m)
                                    \/ \E v \in Revisions : ReadForPublish(q, m, v)
        PROVE  CatInv'
    BY <2>3, ReadSteps
  <2>4. ASSUME NEW q \in Operations, \E h \in {"healthy", "unhealthy"} : SaveProviderHealth(q, h)
        PROVE  CatInv'
    BY <2>4, SaveHealthStep
  <2>5. ASSUME NEW q \in Operations, CreateModel(q) \/ UpsertRoute(q) \/ Publish(q) \/ Rollback(q)
        PROVE  CatInv'
    BY <2>5, CreateModelStep, UpsertRouteStep, PublishVersionStep, RollbackStep
  <2> QED
    BY <2>1, <2>2, <2>3, <2>4, <2>5 DEF CatalogNext
<1>2. CatInv /\ UNCHANGED mvars => CatInv'
  BY DEF mvars, CatInv, CatalogTables, OpsOK, OpOK, VersionsOK, Existing, InForce,
     RoutesKnowHealth, OnlyCheckedServe, Serves, HealthChecked
<1> QED
  BY <1>1, <1>2, CatalogStart, PTL DEF CatalogSpec

(***************************************************************************)
(* The weights (resolve).  A set B of routes, each with a weight and a     *)
(* position of its own.                                                    *)
(***************************************************************************)
Total(w, S) == Tally([p \in S |-> w[p]])
Ahead(B, at, p) == {r \in B : at[r] < at[p]}

LEMMA Totals ==
  ASSUME NEW B, IsFiniteSet(B), NEW w \in [B -> Nat], NEW S \in SUBSET B
  PROVE  /\ Total(w, S) \in Nat
         /\ \A T \in SUBSET S : Total(w, T) <= Total(w, S)
         /\ \A x \in B : x \notin S => Total(w, S \cup {x}) = Total(w, S) + w[x]
<1>1. IsFiniteSet(S)
  BY FS_Subset
<1>2. [p \in S |-> w[p]] \in [S -> Nat]
  OBVIOUS
<1>3. Total(w, S) \in Nat
  BY <1>1, <1>2, TallyType DEF Total
<1>4. ASSUME NEW T \in SUBSET S PROVE Total(w, T) <= Total(w, S)
  <2>1. [p \in T |-> w[p]] \in [T -> Nat] /\ \A y \in T : [p \in T |-> w[p]][y] <= [p \in S |-> w[p]][y]
    OBVIOUS
  <2> QED
    BY <1>1, <1>2, <2>1, TallyGrows DEF Total
<1>5. ASSUME NEW x \in B, x \notin S PROVE Total(w, S \cup {x}) = Total(w, S) + w[x]
  <2>1. S \subseteq B
    OBVIOUS
  <2>2. Tally([j \in S \cup {x} |-> w[j]]) = Tally([j \in S |-> w[j]]) + w[x]
    BY <1>1, <1>5, <2>1, TallyNext
  <2> QED
    BY <2>2 DEF Total
<1> QED
  BY <1>3, <1>4, <1>5

(* Of a set of routes one comes last.                                      *)
LEMMA ComesLast ==
  ASSUME NEW S, IsFiniteSet(S), S # {}, NEW at, \A x \in S : at[x] \in Nat
  PROVE  \E x \in S : \A y \in S : at[y] <= at[x]
<1> DEFINE R == {r \in S \X S : at[r[1]] < at[r[2]]}
<1>1. /\ \A x \in S : <<x, x>> \notin R
      /\ \A x, y, z \in S : <<x, y>> \in R /\ <<y, z>> \in R => <<x, z>> \in R
      /\ \A x, y \in S : <<x, y>> \in R <=> at[x] < at[y]
  OBVIOUS
<1> HIDE DEF R
<1>2. PICK x \in S : \A y \in S : <<x, y>> \notin R
  BY <1>1, Topmost
<1>3. ASSUME NEW y \in S PROVE at[y] <= at[x]
  <2>1. ~(at[x] < at[y])
    BY <1>1, <1>2
  <2>2. at[x] \in Nat /\ at[y] \in Nat
    OBVIOUS
  <2> QED
    BY <2>1, <2>2
<1> QED
  BY <1>3

(* And one first.                                                          *)
LEMMA ComesFirst ==
  ASSUME NEW S, IsFiniteSet(S), S # {}, NEW at, \A x \in S : at[x] \in Nat
  PROVE  \E x \in S : \A y \in S : at[x] <= at[y]
<1> DEFINE R == {r \in S \X S : at[r[2]] < at[r[1]]}
<1>1. /\ \A x \in S : <<x, x>> \notin R
      /\ \A x, y, z \in S : <<x, y>> \in R /\ <<y, z>> \in R => <<x, z>> \in R
      /\ \A x, y \in S : <<x, y>> \in R <=> at[y] < at[x]
  OBVIOUS
<1> HIDE DEF R
<1>2. PICK x \in S : \A y \in S : <<x, y>> \notin R
  BY <1>1, Topmost
<1>3. ASSUME NEW y \in S PROVE at[x] <= at[y]
  <2>1. ~(at[y] < at[x])
    BY <1>1, <1>2
  <2>2. at[x] \in Nat /\ at[y] \in Nat
    OBVIOUS
  <2> QED
    BY <2>1, <2>2
<1> QED
  BY <1>3

(* No route ahead of p takes a slot exactly when it lies above theirs.     *)
LEMMA PassedOver ==
  ASSUME NEW B, IsFiniteSet(B), NEW w \in [B -> Nat],
         NEW at, \A x \in B : at[x] \in Nat, \A x, y \in B : at[x] = at[y] => x = y,
         NEW p \in B, NEW s \in Nat
  PROVE  (\A r \in Ahead(B, at, p) : ~(Total(w, Ahead(B, at, r) \cup {r}) > s))
           <=> Total(w, Ahead(B, at, p)) <= s
<1> DEFINE F == Ahead(B, at, p)
<1>1. F \in SUBSET B /\ IsFiniteSet(F)
  BY FS_Subset DEF Ahead
<1>2. Total(w, F) \in Nat
  BY <1>1, Totals
<1>3. ASSUME NEW r \in F
      PROVE  Ahead(B, at, r) \cup {r} \in SUBSET F /\ Total(w, Ahead(B, at, r) \cup {r}) \in Nat
  <2>1. Ahead(B, at, r) \cup {r} \in SUBSET F
    BY <1>3 DEF Ahead
  <2> QED
    BY <1>1, <2>1, Totals
<1>4. ASSUME Total(w, F) <= s, NEW r \in F PROVE ~(Total(w, Ahead(B, at, r) \cup {r}) > s)
  <2>1. Total(w, Ahead(B, at, r) \cup {r}) <= Total(w, F)
    BY <1>1, <1>3, <1>4, Totals
  <2> QED
    BY <1>2, <1>3, <1>4, <2>1
<1>5. ASSUME \A r \in F : ~(Total(w, Ahead(B, at, r) \cup {r}) > s) PROVE Total(w, F) <= s
  <2>1. CASE F = {}
    <3>1. Total(w, F) = 0
      BY <2>1, TallyEmpty DEF Total
    <3> QED
      BY <3>1
  <2>2. CASE F # {}
    <3>1. PICK t \in F : \A y \in F : at[y] <= at[t]
      BY <1>1, <2>2, ComesLast
    <3>2. F = Ahead(B, at, t) \cup {t}
      BY <3>1 DEF Ahead
    <3> HIDE DEF F
    <3> QED
      BY <1>2, <1>5, <3>1, <3>2
  <2> QED
    BY <2>1, <2>2
<1> QED
  BY <1>4, <1>5

(* Every slot below the sum of the weights is taken by one route: by p     *)
(* exactly those from the sum of the weights ahead of it on.               *)
Chosen(B, w, at, s, p) ==
  /\ Total(w, Ahead(B, at, p) \cup {p}) > s
  /\ \A r \in Ahead(B, at, p) : ~(Total(w, Ahead(B, at, r) \cup {r}) > s)

LEMMA Shares ==
  ASSUME NEW B, IsFiniteSet(B), NEW w \in [B -> Nat],
         NEW at, \A x \in B : at[x] \in Nat, \A x, y \in B : at[x] = at[y] => x = y,
         NEW s \in Nat, s < Total(w, B)
  PROVE  /\ \E p \in B : Chosen(B, w, at, s, p)
         /\ \A p, r \in B : Chosen(B, w, at, s, p) /\ Chosen(B, w, at, s, r) => p = r
         /\ \A p \in B : Chosen(B, w, at, s, p) <=>
              /\ Total(w, Ahead(B, at, p)) <= s
              /\ s < Total(w, Ahead(B, at, p)) + w[p]
<1> DEFINE Q == {p \in B : Total(w, Ahead(B, at, p) \cup {p}) > s}
<1>1. \A p \in B : /\ Ahead(B, at, p) \in SUBSET B /\ p \notin Ahead(B, at, p)
                   /\ Ahead(B, at, p) \cup {p} \in SUBSET B
  BY DEF Ahead
<1>2. \E p \in B : Chosen(B, w, at, s, p)
  <2>1. B # {}
    <3> SUFFICES ASSUME B = {} PROVE FALSE
      OBVIOUS
    <3>1. Total(w, B) = 0
      BY TallyEmpty DEF Total
    <3> QED
      BY <3>1
  <2>2. PICK t \in B : \A y \in B : at[y] <= at[t]
    BY <2>1, ComesLast
  <2>3. Ahead(B, at, t) \cup {t} = B
    BY <2>2 DEF Ahead
  <2>4. t \in Q
    BY <2>3
  <2>5. Q # {} /\ IsFiniteSet(Q) /\ \A x \in Q : at[x] \in Nat
    BY <2>4, FS_Subset
  <2>6. PICK p \in Q : \A y \in Q : at[p] <= at[y]
    BY <2>5, ComesFirst
  <2>7. ASSUME NEW r \in Ahead(B, at, p) PROVE ~(Total(w, Ahead(B, at, r) \cup {r}) > s)
    <3>1. r \in B /\ at[r] < at[p]
      BY <2>7 DEF Ahead
    <3>2. r \notin Q
      BY <2>6, <3>1
    <3> QED
      BY <3>1, <3>2
  <2> QED
    BY <2>6, <2>7 DEF Chosen
<1>3. ASSUME NEW p \in B, NEW r \in B, Chosen(B, w, at, s, p), Chosen(B, w, at, s, r), at[r] < at[p]
      PROVE  FALSE
  <2>1. r \in Ahead(B, at, p)
    BY <1>3 DEF Ahead
  <2> QED
    BY <1>3, <2>1 DEF Chosen
<1>4. \A p, r \in B : Chosen(B, w, at, s, p) /\ Chosen(B, w, at, s, r) => p = r
  <2> SUFFICES ASSUME NEW p \in B, NEW r \in B, Chosen(B, w, at, s, p), Chosen(B, w, at, s, r)
               PROVE  p = r
    OBVIOUS
  <2>1. ~(at[r] < at[p]) /\ ~(at[p] < at[r])
    BY <1>3
  <2> QED
    BY <2>1
<1>5. ASSUME NEW p \in B
      PROVE  Chosen(B, w, at, s, p) <=> /\ Total(w, Ahead(B, at, p)) <= s
                                        /\ s < Total(w, Ahead(B, at, p)) + w[p]
  <2>1. /\ Total(w, Ahead(B, at, p)) \in Nat
        /\ Total(w, Ahead(B, at, p) \cup {p}) = Total(w, Ahead(B, at, p)) + w[p]
    BY <1>1, Totals
  <2>2. (\A r \in Ahead(B, at, p) : ~(Total(w, Ahead(B, at, r) \cup {r}) > s))
          <=> Total(w, Ahead(B, at, p)) <= s
    BY PassedOver
  <2>3. w[p] \in Nat
    OBVIOUS
  <2> QED
    BY <2>1, <2>2, <2>3 DEF Chosen
<1> QED
  BY <1>2, <1>4, <1>5

(* The order of the routes puts no two in one place.                       *)
LEMMA Positions ==
  /\ Position \in [Providers -> Nat]
  /\ \A p, r \in Providers : Position[p] = Position[r] => p = r
<1> DEFINE N == Cardinality(Providers)
<1>1. N \in Nat /\ ExistsBijection(1 .. N, Providers)
  BY FS_CardinalityType, CatalogAssumption
<1>2. PICK f \in [1 .. N -> Providers] : \A p \in Providers : \E i \in 1 .. N : f[i] = p
  BY <1>1 DEF ExistsBijection, Bijection, Surjection
<1> DEFINE g == [p \in Providers |-> CHOOSE i \in 1 .. N : f[i] = p]
<1>3. \A p \in Providers : g[p] \in 1 .. N /\ f[g[p]] = p
  BY <1>2
<1>4. g \in [Providers -> 1 .. N]
  BY <1>3
<1>5. \A p, r \in Providers : g[p] = g[r] => p = r
  BY <1>3
<1> HIDE DEF g
<1>6. \E h \in [Providers -> 1 .. N] : \A p, r \in Providers : h[p] = h[r] => p = r
  BY <1>4, <1>5
<1>7. Position \in [Providers -> 1 .. N] /\ \A p, r \in Providers : Position[p] = Position[r] => p = r
  BY <1>6 DEF Position
<1> QED
  BY <1>1, <1>7

LEMMA WeightsInvariant == CatalogTables => WeightsHonoured
<1> SUFFICES ASSUME CatalogTables, NEW m \in Models, NEW p \in Best(m)
             PROVE  Cardinality({s \in 0 .. TotalWeight(Best(m), m) - 1 : ResolvedRoute(m, s) = p})
                      = route[m][p].rank.weight
  BY DEF WeightsHonoured
<1> DEFINE B == Best(m)
           w == [r \in B |-> route[m][r].rank.weight]
           lo == Total(w, Ahead(B, Position, p))
           slots == 0 .. TotalWeight(B, m) - 1
<1>1. B \in SUBSET Providers /\ IsFiniteSet(B)
  BY CatalogAssumption, FS_Subset DEF Best
<1>2. w \in [B -> Nat]
  BY <1>1 DEF CatalogTables, RouteRows, Ranking
<1>3. \A S \in SUBSET B : TotalWeight(S, m) = Total(w, S)
  <2> SUFFICES ASSUME NEW S \in SUBSET B PROVE TotalWeight(S, m) = Total(w, S)
    OBVIOUS
  <2>1. [r \in S |-> route[m][r].rank.weight] = [r \in S |-> w[r]]
    OBVIOUS
  <2> QED
    BY <2>1 DEF TotalWeight, Total
<1>4. /\ \A r \in B : Position[r] \in Nat
      /\ \A r, q \in B : Position[r] = Position[q] => r = q
  BY <1>1, Positions
<1>5. \A r \in B : Before(r, m) = Ahead(B, Position, r) /\ Before(r, m) \cup {r} \in SUBSET B
  BY DEF Before, Ahead
<1>6. \A r \in B : \A s : Takes(r, m, s) <=> Total(w, Ahead(B, Position, r) \cup {r}) > s
  BY <1>3, <1>5 DEF Takes
<1>7. \A r \in B : \A s : (Takes(r, m, s) /\ \A q \in Before(r, m) : ~Takes(q, m, s))
                            <=> Chosen(B, w, Position, s, r)
  <2> SUFFICES ASSUME NEW r \in B, NEW s
               PROVE  (Takes(r, m, s) /\ \A q \in Before(r, m) : ~Takes(q, m, s))
                        <=> Chosen(B, w, Position, s, r)
    OBVIOUS
  <2>1. Before(r, m) = Ahead(B, Position, r) /\ Before(r, m) \subseteq B
    BY <1>5
  <2> QED
    BY <1>6, <2>1 DEF Chosen
<1> HIDE DEF w, B
<1>8. Total(w, B) \in Nat /\ TotalWeight(B, m) = Total(w, B)
  BY <1>1, <1>2, <1>3, Totals
<1>9. p \in B
  BY DEF B
<1>10. /\ Ahead(B, Position, p) \in SUBSET B /\ p \notin Ahead(B, Position, p)
       /\ Ahead(B, Position, p) \cup {p} \in SUBSET B
  BY <1>1, <1>2, <1>4, <1>9 DEF Ahead
<1>11. /\ lo \in Nat /\ w[p] \in Nat /\ lo + w[p] <= Total(w, B)
  <2>1. /\ lo \in Nat
        /\ Total(w, Ahead(B, Position, p) \cup {p}) = lo + w[p]
    BY <1>1, <1>2, <1>9, <1>10, Totals
  <2>2. Total(w, Ahead(B, Position, p) \cup {p}) <= Total(w, B)
    BY <1>1, <1>2, <1>10, Totals
  <2> QED
    BY <1>2, <1>9, <2>1, <2>2
<1> HIDE DEF lo
<1>12. ASSUME NEW s \in slots
       PROVE  ResolvedRoute(m, s) = p <=> lo <= s /\ s < lo + w[p]
  <2>1. s \in Nat /\ s < Total(w, B)
    BY <1>8, <1>12
  <2>2. /\ \E r \in B : Chosen(B, w, Position, s, r)
        /\ \A r, q \in B : Chosen(B, w, Position, s, r) /\ Chosen(B, w, Position, s, q) => r = q
        /\ Chosen(B, w, Position, s, p) <=> lo <= s /\ s < lo + w[p]
    BY <1>1, <1>2, <1>4, <1>9, <2>1, Shares DEF lo
  <2>3. ResolvedRoute(m, s) \in B /\ Chosen(B, w, Position, s, ResolvedRoute(m, s))
    <3> DEFINE Fits(r) == Takes(r, m, s) /\ \A q \in Before(r, m) : ~Takes(q, m, s)
    <3>1. \E r \in B : Fits(r)
      BY <1>7, <2>2
    <3>2. ResolvedRoute(m, s) = CHOOSE r \in B : Fits(r)
      BY DEF ResolvedRoute, B
    <3>3. ResolvedRoute(m, s) \in B /\ Fits(ResolvedRoute(m, s))
      BY <3>1, <3>2
    <3> QED
      BY <1>7, <3>3
  <2> QED
    BY <1>9, <2>2, <2>3
<1>13. {s \in slots : ResolvedRoute(m, s) = p} = lo .. (lo + w[p] - 1)
  <2>1. ASSUME NEW s \in slots, ResolvedRoute(m, s) = p PROVE s \in lo .. (lo + w[p] - 1)
    BY <1>8, <1>11, <1>12, <2>1
  <2>2. ASSUME NEW s \in lo .. (lo + w[p] - 1) PROVE s \in slots /\ ResolvedRoute(m, s) = p
    <3>0. s \in Int /\ lo <= s /\ s <= lo + w[p] - 1
      BY <1>11, <2>2
    <3>1. s \in Nat /\ lo <= s /\ s < lo + w[p] /\ s < Total(w, B)
      BY <1>8, <1>11, <3>0
    <3>2. s \in slots
      BY <1>8, <3>1
    <3> QED
      BY <1>12, <3>1, <3>2
  <2> QED
    BY <2>1, <2>2
<1>14. Cardinality(lo .. (lo + w[p] - 1)) = w[p]
  <2>1. lo \in Int /\ lo + w[p] - 1 \in Int
    BY <1>11
  <2>2. Cardinality(lo .. (lo + w[p] - 1)) = IF lo > lo + w[p] - 1 THEN 0 ELSE (lo + w[p] - 1) - lo + 1
    BY <2>1, FS_Interval
  <2> QED
    BY <1>11, <2>2
<1>15. w[p] = route[m][p].rank.weight
  BY <1>9 DEF w, B
<1> QED
  BY <1>13, <1>14, <1>15 DEF B

LEMMA AtMostOneInForce ==
  ASSUME NEW S, \A x, y \in S : x = y
  PROVE  Cardinality(S) <= 1
<1>1. CASE S = {}
  BY <1>1, FS_EmptySet
<1>2. CASE S # {}
  <2>1. PICK x : S = {x}
    BY <1>2
  <2> QED
    BY <2>1, FS_Singleton
<1> QED
  BY <1>1, <1>2

(* Every row of the catalogue has the values its columns allow, and a      *)
(* published model has a version in force, however the changes of several  *)
(* administrators overlap (admin-models.repository).                       *)
THEOREM CatalogTypesCorrect == CatalogSpec => []CatalogTypeOK
<1>1. CatInv => CatalogTypeOK
  BY DEF CatInv, CatalogTables, VersionsOK, CatalogTypeOK, ProviderRows, RouteRows, Ranking, Stages
<1> QED
  BY <1>1, CatInvariant, PTL

(* For any number of providers, models, versions and overlapping changes:  *)
(* a model has one version in force, the routes know their provider's      *)
(* health and serve only what was checked, unless a change was overtaken;  *)
(* and of all routing keys each route gets exactly its weight (publish,    *)
(* saveProviderHealth, resolve).                                           *)
THEOREM CatalogueIsInOrder == CatalogSpec => []CatalogueInOrder
<1>1. CatInv => OneInForce
  <2> SUFFICES ASSUME CatInv, ~outdated, NEW m \in Models PROVE Cardinality(InForce(m)) <= 1
    BY DEF OneInForce
  <2>1. \A v, w \in InForce(m) : v = w
    BY DEF CatInv, VersionsOK
  <2> QED
    BY <2>1, AtMostOneInForce
<1>2. CatInv => CatalogueInOrder
  BY <1>1, WeightsInvariant DEF CatInv, CatalogueInOrder
<1> QED
  BY <1>2, CatInvariant, PTL

-----------------------------------------------------------------------------
(***************************************************************************)
(* The images (OutputObjects).                                             *)
(***************************************************************************)
Places == {"idle", "content", "thumbnail", "commit", "undo", "ignored", "fail", "done"}
WorkStatuses == {"GENERATING", "REVIEWING", "SUCCEEDED", "FAILED", "CANCELLED", "DELETED"}
Files == Results \X Variants
ExecutionRows == [pc : Places, index : 1..ImageCount, stored : SUBSET Results]
InspirationRows == [result : Results, status : {"PUBLISHED", "ARCHIVED"}]

OutputTables ==
  /\ work \in [Works -> WorkStatuses]
  /\ rows \in [Results -> {"absent", "PENDING", "APPROVED"}]
  /\ files \in SUBSET Files
  /\ execution \in [Executions -> ExecutionRows]
  /\ inspiration \in [Inspirations -> InspirationRows \cup {NoInspiration}]

(* Only a task that has left GENERATING with images has rows, until it is  *)
(* deleted; so a commit finds none, and NewRows are all it has stored.     *)
RowsOfEnded == \A r \in Results : rows[r] # "absent" => work[WorkOf[r[1]]] \in {"REVIEWING", "SUCCEEDED"}

(* A row was written by an execution that is done, with its files, or that *)
(* has lost the answer.                                                    *)
RowsStored ==
  \A r \in Results : rows[r] # "absent" =>
    r[1] \in lost \/ (At(r[1], "done") /\ FilesOf({r}) \subseteq files)

(* What x has stored so far is there.                                      *)
Keeping(x) ==
  LET e == execution[x] IN
  /\ e.stored \subseteq {x} \X (1..ImageCount)
  /\ e.pc = "idle" => e.stored = {}
  /\ e.pc \in {"content", "thumbnail", "commit"} => FilesOf(e.stored) \subseteq files
  /\ e.pc = "thumbnail" => <<<<x, e.index>>, "content">> \in files

(* And nothing else is, unless it is untidy.                               *)
Tidy(x) ==
  LET e == execution[x]
      mine == {f \in files : f[1][1] = x}
  IN x \notin untidy =>
       /\ e.pc \in {"idle", "fail"} => mine = {}
       /\ e.pc \in {"content", "commit", "undo", "ignored"} => mine \subseteq FilesOf(e.stored)
       /\ e.pc = "thumbnail" => mine \subseteq FilesOf(e.stored) \cup {<<<<x, e.index>>, "content">>}
       /\ e.pc = "done" => \A f \in mine : rows[f[1]] # "absent" \/ work[WorkOf[x]] = "DELETED"

FeaturedOK ==
  \A f \in Inspirations : inspiration[f] # NoInspiration =>
    /\ rows[AssetOf(f)] = "APPROVED"
    /\ work[WorkOf[AssetOf(f)[1]]] = "SUCCEEDED"
    /\ \A g \in Inspirations \ {f} : inspiration[g] # NoInspiration => AssetOf(g) # AssetOf(f)

OutInv ==
  /\ OutputTables /\ RowsOfEnded /\ RowsStored /\ FeaturedOK
  /\ \A x \in Executions : Keeping(x) /\ Tidy(x)

LEMMA ResultParts ==
  /\ \A r \in Results : r[1] \in Executions /\ r[2] \in 1..ImageCount /\ WorkOf[r[1]] \in Works
                        /\ r = <<r[1], r[2]>>
  /\ \A f \in Files : f[1] \in Results /\ f[2] \in Variants /\ f = <<f[1], f[2]>>
BY OutputAssumption DEF Results, Files, Variants

(* A step of execution x, which touches its own files and rows, and ends   *)
(* its task at most.                                                       *)
OwnStep(x) ==
  /\ \A f \in Files : f[1][1] # x => (f \in files' <=> f \in files)
  /\ untidy' \in {untidy, untidy \cup {x}} /\ lost' \in {lost, lost \cup {x}}
  /\ inspiration' = inspiration
  /\ \A t \in Works : \/ work'[t] = work[t]
                      \/ work[t] = "GENERATING" /\ t = WorkOf[x]
  /\ \A r \in Results : \/ rows'[r] = rows[r]
                        \/ /\ r[1] = x /\ rows[r] = "absent" /\ work[WorkOf[x]] = "GENERATING"
                           /\ work'[WorkOf[x]] \in {"REVIEWING", "SUCCEEDED"}
  /\ \A r \in Results : r[1] = x /\ rows'[r] # "absent" =>
       x \in lost' \/ (execution'[x].pc = "done" /\ FilesOf({r}) \subseteq files')

LEMMA OwnStepKeeps ==
  ASSUME OutInv, NEW x \in Executions, NEW e \in ExecutionRows,
         execution' = [execution EXCEPT ![x] = e], OwnStep(x),
         work' \in [Works -> WorkStatuses], rows' \in [Results -> {"absent", "PENDING", "APPROVED"}],
         files' \in SUBSET Files, Keeping(x)', Tidy(x)'
  PROVE  OutInv'
<1>0. OutputTables
  BY DEF OutInv
<1>1. execution' \in [Executions -> ExecutionRows] /\ \A y \in Executions : y # x => execution'[y] = execution[y]
  BY <1>0 DEF OutputTables
<1>2. OutputTables'
  BY <1>0, <1>1 DEF OutputTables, OwnStep
<1>3. RowsOfEnded'
  BY <1>0, ResultParts DEF OutInv, RowsOfEnded, OwnStep, OutputTables
<1>4. RowsStored'
  <2> SUFFICES ASSUME NEW r \in Results, rows'[r] # "absent"
               PROVE  r[1] \in lost' \/ (execution'[r[1]].pc = "done" /\ FilesOf({r}) \subseteq files')
    BY DEF RowsStored, At
  <2>1. CASE r[1] = x
    BY <2>1 DEF OwnStep
  <2>2. CASE r[1] # x
    <3>1. rows[r] # "absent"
      BY <2>2 DEF OwnStep
    <3>2. r[1] \in lost \/ (At(r[1], "done") /\ FilesOf({r}) \subseteq files)
      BY <3>1 DEF OutInv, RowsStored
    <3>3. FilesOf({r}) \subseteq files => FilesOf({r}) \subseteq files'
      BY <2>2 DEF OwnStep, FilesOf, Files
    <3> QED
      BY <1>1, <2>2, <3>2, <3>3, ResultParts DEF OwnStep, At
  <2> QED
    BY <2>1, <2>2
<1>5. FeaturedOK'
  <2>1. ASSUME NEW f \in Inspirations, inspiration[f] # NoInspiration
        PROVE  /\ rows'[AssetOf(f)] = "APPROVED"
               /\ work'[WorkOf[AssetOf(f)[1]]] = "SUCCEEDED"
    <3>1. AssetOf(f) \in Results
      BY <1>0, <2>1 DEF OutputTables, InspirationRows, AssetOf
    <3>2. rows[AssetOf(f)] = "APPROVED" /\ work[WorkOf[AssetOf(f)[1]]] = "SUCCEEDED"
      BY <2>1 DEF OutInv, FeaturedOK
    <3> QED
      BY <3>1, <3>2, ResultParts DEF OwnStep
  <2> QED
    BY <2>1 DEF OutInv, FeaturedOK, OwnStep, AssetOf
<1>6. ASSUME NEW y \in Executions, y # x PROVE Keeping(y)' /\ Tidy(y)'
  <2>1. Keeping(y) /\ Tidy(y) /\ execution'[y] = execution[y] /\ execution[y] \in ExecutionRows
    BY <1>0, <1>1, <1>6 DEF OutInv, OutputTables
  <2>2. \A f \in Files : f[1][1] = y => (f \in files' <=> f \in files)
    BY <1>6 DEF OwnStep
  <2>3. Keeping(y)'
    <3>1. \A S \in SUBSET ({y} \X (1..ImageCount)) : FilesOf(S) \subseteq files => FilesOf(S) \subseteq files'
      BY <2>2, <1>6 DEF FilesOf, Files, Results, Variants
    <3>2. \A i \in 1..ImageCount : <<<<y, i>>, "content">> \in files => <<<<y, i>>, "content">> \in files'
      BY <2>2, <1>6 DEF Files, Results, Variants
    <3> QED
      BY <2>1, <3>1, <3>2 DEF Keeping, ExecutionRows
  <2>4. {f \in files' : f[1][1] = y} = {f \in files : f[1][1] = y}
    BY <1>0, <2>2 DEF OutputTables
  <2>5. y \notin untidy' => y \notin untidy
    BY DEF OwnStep
  <2>6. \A f \in files : f[1][1] = y => rows'[f[1]] = rows[f[1]]
    BY <1>0, <1>6, ResultParts DEF OwnStep, OutputTables
  <2>7. work[WorkOf[y]] = "DELETED" => work'[WorkOf[y]] = "DELETED"
    BY <1>6, OutputAssumption DEF OwnStep
  <2>8. Tidy(y)'
    BY <2>1, <2>4, <2>5, <2>6, <2>7 DEF Tidy
  <2> QED
    BY <2>3, <2>8
<1>7. \A y \in Executions : Keeping(y)' /\ Tidy(y)'
  BY <1>6
<1> QED
  BY <1>2, <1>3, <1>4, <1>5, <1>7 DEF OutInv

LEMMA Gone ==
  ASSUME OutInv, NEW x \in Executions, NEW pc \in Places, GoesTo(x, pc)
  PROVE  \E e \in ExecutionRows :
           /\ execution' = [execution EXCEPT ![x] = e] /\ execution'[x] = e
           /\ e.pc = pc /\ e.index = execution[x].index /\ e.stored = execution[x].stored
<1> DEFINE e == [execution[x] EXCEPT !.pc = pc]
<1>1. execution \in [Executions -> ExecutionRows] /\ execution[x] \in ExecutionRows
  BY DEF OutInv, OutputTables
<1>2. e \in ExecutionRows /\ e.pc = pc /\ e.index = execution[x].index /\ e.stored = execution[x].stored
  BY <1>1 DEF ExecutionRows
<1>3. execution' = [execution EXCEPT ![x] = e] /\ execution'[x] = e
  BY <1>1 DEF GoesTo
<1> QED
  BY <1>2, <1>3

(* Its row and its files, while nothing of its task has changed.           *)
LEMMA OwnRow ==
  ASSUME OutInv, NEW x \in Executions
  PROVE  /\ execution[x] \in ExecutionRows /\ Keeping(x) /\ Tidy(x)
         /\ <<x, execution[x].index>> \in Results /\ FilesOf(execution[x].stored) \subseteq Files
         /\ \A f \in FilesOf(execution[x].stored) : f[1][1] = x
         /\ files \subseteq Files
         /\ work \in [Works -> WorkStatuses] /\ WorkOf[x] \in Works
         /\ rows \in [Results -> {"absent", "PENDING", "APPROVED"}]
<1>1. execution[x] \in ExecutionRows
  BY DEF OutInv, OutputTables
<1> QED
  BY <1>1, OutputAssumption DEF OutInv, OutputTables, ExecutionRows, Results, FilesOf, Files, Keeping

LEMMA PersistStep ==
  ASSUME OutInv, NEW x \in Executions, Persist(x)
  PROVE  OutInv'
<1>1. PICK e \in ExecutionRows :
        /\ execution' = [execution EXCEPT ![x] = e] /\ execution'[x] = e
        /\ e.pc = "content" /\ e.index = execution[x].index /\ e.stored = execution[x].stored
  BY Gone DEF Persist, Places
<1>2. At(x, "idle") /\ UNCHANGED <<work, rows, files, lost, untidy, inspiration>>
  BY DEF Persist
<1>3. Keeping(x)' /\ Tidy(x)'
  BY <1>1, <1>2, OwnRow DEF Keeping, Tidy, At, FilesOf
<1>4. OwnStep(x)
  BY <1>1, <1>2 DEF OutInv, RowsStored, OwnStep, At
<1> QED
  BY <1>1, <1>2, <1>3, <1>4, OwnRow, OwnStepKeeps

LEMMA NotDone ==
  ASSUME OutInv, NEW x \in Executions, ~At(x, "done")
  PROVE  \A r \in Results : r[1] = x /\ rows[r] # "absent" => x \in lost
BY DEF OutInv, RowsStored

LEMMA PutContentStep ==
  ASSUME OutInv, NEW x \in Executions, PutContent(x)
  PROVE  OutInv'
<1> DEFINE r == <<x, execution[x].index>>
<1>1. At(x, "content") /\ UNCHANGED <<work, rows, lost, inspiration>>
  BY DEF PutContent
<1>2. PICK pc \in Places : /\ GoesTo(x, pc)
                           /\ \/ /\ files' = files \cup {<<r, "content">>}
                                 /\ pc = "thumbnail" /\ untidy' = untidy
                              \/ pc = "undo" /\ files' = files /\ untidy' = untidy
                              \/ /\ files' = files \cup {<<r, "content">>}
                                 /\ pc = "undo" /\ untidy' = untidy \cup {x}
  BY DEF PutContent, Places
<1>3. PICK e \in ExecutionRows :
        /\ execution' = [execution EXCEPT ![x] = e] /\ execution'[x] = e
        /\ e.pc = pc /\ e.index = execution[x].index /\ e.stored = execution[x].stored
  BY <1>2, Gone
<1>4. r \in Results /\ r[1] = x /\ <<r, "content">> \in Files /\ files' \in SUBSET Files
  BY <1>2, OwnRow DEF Files, Variants
<1>5. Keeping(x)'
  BY <1>1, <1>2, <1>3, OwnRow DEF Keeping, At
<1>6. Tidy(x)'
  BY <1>1, <1>2, <1>3, OwnRow DEF Tidy, At
<1>7. OwnStep(x)
  <2>1. \A f \in Files : f[1][1] # x => (f \in files' <=> f \in files)
    BY <1>2, <1>4
  <2> QED
    BY <1>1, <1>2, <2>1, NotDone DEF OwnStep, At
<1> QED
  BY <1>1, <1>3, <1>4, <1>5, <1>6, <1>7, OwnRow, OwnStepKeeps

LEMMA PutThumbnailStep ==
  ASSUME OutInv, NEW x \in Executions, PutThumbnail(x)
  PROVE  OutInv'
<1> DEFINE i == execution[x].index
           r == <<x, i>>
<1>1. At(x, "thumbnail") /\ UNCHANGED <<work, rows, lost, inspiration>>
  BY DEF PutThumbnail
<1>2. r \in Results /\ r[1] = x /\ \A v \in Variants : <<r, v>> \in Files
  BY OwnRow DEF Files
<1>3. execution \in [Executions -> ExecutionRows] /\ i \in 1..ImageCount
  BY DEF OutInv, OutputTables, ExecutionRows
<1>4. CASE files' = files \cup {<<r, "thumbnail">>} /\ Stored(x) /\ UNCHANGED untidy
  <2> DEFINE e == [pc |-> IF i = ImageCount THEN "commit" ELSE "content",
                   index |-> IF i = ImageCount THEN i ELSE i + 1,
                   stored |-> execution[x].stored \cup {r}]
  <2>1. e \in ExecutionRows
    BY <1>2, <1>3, OwnRow, OutputAssumption DEF ExecutionRows, Places
  <2>2. execution' = [execution EXCEPT ![x] = e] /\ execution'[x] = e
    BY <1>3, <1>4 DEF Stored
  <2>3. FilesOf(e.stored) = FilesOf(execution[x].stored) \cup {<<r, "content">>, <<r, "thumbnail">>}
    BY DEF FilesOf, Variants
  <2>4. files' \in SUBSET Files
    BY <1>2, <1>4, OwnRow DEF Variants
  <2>5. e.stored \subseteq {x} \X (1..ImageCount) /\ e.pc \in {"commit", "content"}
    <3>1. execution[x].stored \subseteq {x} \X (1..ImageCount)
      BY OwnRow DEF Keeping
    <3>2. r \in {x} \X (1..ImageCount)
      BY <1>3
    <3> HIDE DEF r, i
    <3> QED
      BY <3>1, <3>2
  <2> HIDE DEF e
  <2>6. Keeping(x)'
    BY <1>1, <1>4, <2>2, <2>3, <2>5, OwnRow DEF Keeping, At
  <2>7. Tidy(x)'
    BY <1>1, <1>4, <2>2, <2>3, <2>5, OwnRow DEF Tidy, At
  <2>8. OwnStep(x)
    <3>1. \A f \in Files : f[1][1] # x => (f \in files' <=> f \in files)
      BY <1>2, <1>4
    <3> QED
      BY <1>1, <1>4, <3>1, NotDone DEF OwnStep, At
  <2> QED
    BY <1>1, <2>1, <2>2, <2>4, <2>6, <2>7, <2>8, OwnRow, OwnStepKeeps
<1>5. CASE /\ GoesTo(x, "undo")
           /\ \/ files' = files \ {<<r, "content">>} /\ untidy' = untidy
              \/ /\ \E late \in SUBSET {"thumbnail"} : files' = files \cup ({r} \X late)
                 /\ untidy' = untidy \cup {x}
  <2>1. PICK e \in ExecutionRows :
          /\ execution' = [execution EXCEPT ![x] = e] /\ execution'[x] = e
          /\ e.pc = "undo" /\ e.index = execution[x].index /\ e.stored = execution[x].stored
    BY <1>5, Gone DEF Places
  <2>2. files' \in SUBSET Files /\ \A f \in Files : f[1][1] # x => (f \in files' <=> f \in files)
    <3>1. <<r, "thumbnail">> \in Files /\ files \subseteq Files
      BY <1>2, OwnRow DEF Variants
    <3>2. CASE files' = files \ {<<r, "content">>}
      BY <1>2, <3>1, <3>2
    <3>3. ASSUME NEW late \in SUBSET {"thumbnail"}, files' = files \cup ({r} \X late)
          PROVE  files' = files \/ files' = files \cup {<<r, "thumbnail">>}
      <4>1. late = {} \/ late = {"thumbnail"}
        OBVIOUS
      <4>2. {r} \X {} = {} /\ {r} \X {"thumbnail"} = {<<r, "thumbnail">>}
        OBVIOUS
      <4> QED
        BY <3>3, <4>1, <4>2
    <3>4. CASE files' = files \/ files' = files \cup {<<r, "thumbnail">>}
      BY <1>2, <3>1, <3>4
    <3> QED
      BY <1>5, <3>2, <3>3, <3>4
  <2>3. Keeping(x)'
    BY <2>1, OwnRow DEF Keeping
  <2>4. Tidy(x)'
    BY <1>1, <1>5, <2>1, OwnRow DEF Tidy, At
  <2>5. OwnStep(x)
    BY <1>1, <1>5, <2>2, NotDone DEF OwnStep, At
  <2> QED
    BY <1>1, <2>1, <2>2, <2>3, <2>4, <2>5, OwnRow, OwnStepKeeps
<1> QED
  BY <1>4, <1>5 DEF PutThumbnail

LEMMA CommitStep ==
  ASSUME OutInv, NEW x \in Executions, Commit(x)
  PROVE  OutInv'
<1>1. At(x, "commit") /\ UNCHANGED <<files, untidy, inspiration>>
  BY DEF Commit
<1>2. CASE /\ Records(x, "SUCCEEDED", "APPROVED") \/ Records(x, "REVIEWING", "PENDING")
           /\ \/ GoesTo(x, "done") /\ UNCHANGED lost
              \/ GoesTo(x, "undo") /\ lost' = lost \cup {x}
  <2>1. PICK pc \in {"done", "undo"} :
          GoesTo(x, pc) /\ (pc = "done" => lost' = lost) /\ (pc = "undo" => lost' = lost \cup {x})
    BY <1>2
  <2>2. PICK e \in ExecutionRows :
          /\ execution' = [execution EXCEPT ![x] = e] /\ execution'[x] = e
          /\ e.pc = pc /\ e.index = execution[x].index /\ e.stored = execution[x].stored
    BY <2>1, Gone DEF Places
  <2>3. PICK st \in {"SUCCEEDED", "REVIEWING"}, moderation \in {"APPROVED", "PENDING"} :
          /\ work[WorkOf[x]] = "GENERATING"
          /\ work' = [work EXCEPT ![WorkOf[x]] = st]
          /\ rows' = [q \in Results |-> IF q \in NewRows(x) THEN moderation ELSE rows[q]]
    BY <1>2 DEF Records
  <2>4. NewRows(x) = execution[x].stored
    BY <2>3 DEF NewRows, OutInv, RowsOfEnded
  <2>5. /\ execution[x].stored \subseteq Results /\ \A q \in execution[x].stored : q[1] = x
        /\ FilesOf(execution[x].stored) \subseteq files
    BY <1>1, OwnRow DEF Keeping, At, ExecutionRows
  <2>6. \A q \in execution[x].stored : rows[q] = "absent" /\ rows'[q] # "absent"
    BY <2>3, <2>4, <2>5 DEF OutInv, RowsOfEnded
  <2>7. /\ work' \in [Works -> WorkStatuses] /\ rows' \in [Results -> {"absent", "PENDING", "APPROVED"}]
        /\ files' \in SUBSET Files /\ work'[WorkOf[x]] = st
        /\ \A t \in Works : t # WorkOf[x] => work'[t] = work[t]
    BY <1>1, <2>3, OwnRow DEF WorkStatuses
  <2>8. Keeping(x)'
    BY <1>1, <2>1, <2>2, OwnRow DEF Keeping, At
  <2>9. Tidy(x)'
    <3>1. \A f \in files : f[1][1] = x /\ x \notin untidy => f[1] \in execution[x].stored
      <4>1. x \notin untidy => {f \in files : f[1][1] = x} \subseteq FilesOf(execution[x].stored)
        BY <1>1, OwnRow DEF Tidy, At
      <4>2. \A f \in FilesOf(execution[x].stored) : f[1] \in execution[x].stored
        BY DEF FilesOf
      <4> QED
        BY <4>1, <4>2
    <3> QED
      BY <1>1, <2>1, <2>2, <2>6, <3>1, OwnRow DEF Tidy, At
  <2>10. OwnStep(x)
    <3>1. \A q \in Results : \/ rows'[q] = rows[q]
                             \/ /\ q[1] = x /\ rows[q] = "absent" /\ work[WorkOf[x]] = "GENERATING"
                                /\ work'[WorkOf[x]] \in {"REVIEWING", "SUCCEEDED"}
      BY <2>3, <2>4, <2>5, <2>6, <2>7
    <3>2. \A q \in Results : q[1] = x /\ rows'[q] # "absent" =>
            x \in lost' \/ (execution'[x].pc = "done" /\ FilesOf({q}) \subseteq files')
      <4> SUFFICES ASSUME NEW q \in Results, q[1] = x, rows'[q] # "absent", x \notin lost'
                   PROVE  execution'[x].pc = "done" /\ FilesOf({q}) \subseteq files'
        OBVIOUS
      <4>1. x \notin lost /\ pc = "done"
        BY <2>1
      <4>2. rows[q] = "absent"
        BY <1>1, <4>1, NotDone DEF At
      <4>3. q \in execution[x].stored
        BY <2>3, <2>4, <4>2
      <4> QED
        BY <1>1, <2>2, <2>5, <4>1, <4>3 DEF FilesOf
    <3> QED
      BY <1>1, <2>1, <2>3, <2>7, <3>1, <3>2 DEF OwnStep
  <2> QED
    BY <2>2, <2>7, <2>8, <2>9, <2>10, OwnStepKeeps
<1>3. CASE \E pc \in {"ignored", "undo"} : GoesTo(x, pc) /\ UNCHANGED <<work, rows, lost>>
  <2>1. PICK pc \in {"ignored", "undo"} : GoesTo(x, pc)
    BY <1>3
  <2>2. PICK e \in ExecutionRows :
          /\ execution' = [execution EXCEPT ![x] = e] /\ execution'[x] = e
          /\ e.pc = pc /\ e.index = execution[x].index /\ e.stored = execution[x].stored
    BY <2>1, Gone DEF Places
  <2>3. Keeping(x)' /\ Tidy(x)'
    BY <1>1, <1>3, <2>1, <2>2, OwnRow DEF Keeping, Tidy, At
  <2>4. OwnStep(x)
    BY <1>1, <1>3, NotDone DEF OwnStep, At
  <2> QED
    BY <1>1, <1>3, <2>2, <2>3, <2>4, OwnRow, OwnStepKeeps
<1> QED
  BY <1>2, <1>3 DEF Commit

LEMMA CleanupStep ==
  ASSUME OutInv, NEW x \in Executions, Cleanup(x)
  PROVE  OutInv'
<1> DEFINE own == FilesOf(execution[x].stored)
<1>1. At(x, "undo") \/ At(x, "ignored")
  BY DEF Cleanup
<1>2. UNCHANGED <<work, rows, lost, inspiration>>
  BY DEF Cleanup
<1>3. PICK kept \in {{}, own \cap files} :
        /\ files' = files \ (own \ kept)
        /\ untidy' = IF kept = {} THEN untidy ELSE untidy \cup {x}
  BY DEF Cleanup
<1>4. PICK pc \in {"fail", "done"} : GoesTo(x, pc)
  BY DEF Cleanup
<1>5. PICK e \in ExecutionRows :
        /\ execution' = [execution EXCEPT ![x] = e] /\ execution'[x] = e
        /\ e.pc = pc /\ e.index = execution[x].index /\ e.stored = execution[x].stored
  BY <1>4, Gone DEF Places
<1>6. /\ files' \in SUBSET Files
      /\ \A f \in Files : f[1][1] # x => (f \in files' <=> f \in files)
  BY <1>3, OwnRow
<1>7. x \notin untidy' => x \notin untidy /\ files' = files \ own
  BY <1>3
<1>8. Keeping(x)'
  BY <1>4, <1>5, OwnRow DEF Keeping
<1>9. Tidy(x)'
  <2>1. x \notin untidy => {f \in files : f[1][1] = x} \subseteq own
    BY <1>1, OwnRow DEF Tidy, At
  <2>2. x \notin untidy' => {f \in files' : f[1][1] = x} = {}
    BY <1>7, <2>1
  <2> QED
    BY <1>4, <1>5, <2>2 DEF Tidy
<1>10. OwnStep(x)
  <2>1. untidy' \in {untidy, untidy \cup {x}}
    BY <1>3
  <2> QED
    BY <1>1, <1>2, <1>6, <2>1, NotDone DEF OwnStep, At
<1> QED
  BY <1>2, <1>5, <1>6, <1>8, <1>9, <1>10, OwnRow, OwnStepKeeps

LEMMA FailWorkStep ==
  ASSUME OutInv, NEW x \in Executions, FailWork(x)
  PROVE  OutInv'
<1>1. At(x, "fail") /\ UNCHANGED <<rows, files, lost, untidy, inspiration>>
  BY DEF FailWork
<1>2. PICK e \in ExecutionRows :
        /\ execution' = [execution EXCEPT ![x] = e] /\ execution'[x] = e
        /\ e.pc = "done" /\ e.index = execution[x].index /\ e.stored = execution[x].stored
  BY Gone DEF FailWork, Places
<1>3. /\ work' \in [Works -> WorkStatuses]
      /\ \A t \in Works : work'[t] = work[t] \/ (work[t] = "GENERATING" /\ t = WorkOf[x])
  BY OwnRow DEF FailWork, WorkStatuses
<1>4. Keeping(x)' /\ Tidy(x)'
  BY <1>1, <1>2, OwnRow DEF Keeping, Tidy, At
<1>5. OwnStep(x)
  BY <1>1, <1>3, NotDone DEF OwnStep, At
<1> QED
  BY <1>1, <1>2, <1>3, <1>4, <1>5, OwnRow, OwnStepKeeps

LEMMA ExecutionDiesStep ==
  ASSUME OutInv, NEW x \in Executions, ExecutionDies(x)
  PROVE  OutInv'
<1>1. /\ ~At(x, "done") /\ untidy' = untidy \cup {x}
      /\ UNCHANGED <<work, rows, files, lost, inspiration>>
  BY DEF ExecutionDies, At
<1>2. PICK e \in ExecutionRows :
        /\ execution' = [execution EXCEPT ![x] = e] /\ execution'[x] = e
        /\ e.pc = "done" /\ e.index = execution[x].index /\ e.stored = execution[x].stored
  BY Gone DEF ExecutionDies, Places
<1>3. Keeping(x)' /\ Tidy(x)'
  BY <1>1, <1>2, OwnRow DEF Keeping, Tidy
<1>4. OwnStep(x)
  BY <1>1, NotDone DEF OwnStep
<1> QED
  BY <1>1, <1>2, <1>3, <1>4, OwnRow, OwnStepKeeps

(* What users and moderators do to task t.                                 *)
LEMMA WorkStep ==
  ASSUME OutInv, NEW t \in Works,
         UNCHANGED <<files, execution, lost, untidy, inspiration>>,
         work' \in [Works -> WorkStatuses], rows' \in [Results -> {"absent", "PENDING", "APPROVED"}],
         \A s \in Works : work[s] = "DELETED" => work'[s] = "DELETED",
         \A r \in Results : rows'[r] # "absent" => rows[r] # "absent",
         \A r \in Results : rows[r] # "absent" /\ rows'[r] = "absent" => work'[WorkOf[r[1]]] = "DELETED",
         RowsOfEnded', FeaturedOK'
  PROVE  OutInv'
<1>1. OutputTables'
  BY DEF OutInv, OutputTables
<1>2. RowsStored'
  BY DEF OutInv, RowsStored, At
<1>3. ASSUME NEW x \in Executions PROVE Keeping(x)' /\ Tidy(x)'
  <2>0. Keeping(x) /\ Tidy(x) /\ files \subseteq Files /\ WorkOf[x] \in Works
    BY OutputAssumption DEF OutInv, OutputTables
  <2>1. Keeping(x)'
    BY <2>0 DEF Keeping
  <2>2. ASSUME NEW f \in files, f[1][1] = x, rows[f[1]] # "absent" \/ work[WorkOf[x]] = "DELETED"
        PROVE  rows'[f[1]] # "absent" \/ work'[WorkOf[x]] = "DELETED"
    BY <2>0, <2>2, ResultParts
  <2>3. Tidy(x)'
    BY <2>0, <2>2 DEF Tidy
  <2> QED
    BY <2>1, <2>3
<1> QED
  BY <1>1, <1>2, <1>3 DEF OutInv

LEMMA WorkSteps ==
  ASSUME OutInv, NEW t \in Works, CancelWork(t) \/ ApproveOutput(t) \/ DeleteWork(t)
  PROVE  OutInv'
<1>0. /\ OutputTables /\ RowsOfEnded /\ FeaturedOK
      /\ \A f \in Inspirations : inspiration[f] # NoInspiration =>
           AssetOf(f) \in Results /\ WorkOf[AssetOf(f)[1]] \in Works
  BY ResultParts DEF OutInv, OutputTables, InspirationRows, AssetOf
<1>1. CASE CancelWork(t)
  <2>1. /\ work[t] = "GENERATING" /\ work' = [work EXCEPT ![t] = "CANCELLED"]
        /\ UNCHANGED <<rows, files, execution, lost, untidy, inspiration>>
    BY <1>1 DEF CancelWork
  <2>2. work' \in [Works -> WorkStatuses] /\ \A s \in Works : work[s] # "GENERATING" => work'[s] = work[s]
    BY <1>0, <2>1 DEF OutputTables, WorkStatuses
  <2>3. RowsOfEnded'
    BY <1>0, <2>1, <2>2, ResultParts DEF RowsOfEnded
  <2>4. FeaturedOK'
    BY <1>0, <2>1, <2>2 DEF FeaturedOK, AssetOf
  <2> QED
    BY <1>0, <2>1, <2>2, <2>3, <2>4, WorkStep DEF OutputTables
<1>2. CASE ApproveOutput(t)
  <2>1. /\ work[t] = "REVIEWING" /\ work' = [work EXCEPT ![t] = "SUCCEEDED"]
        /\ rows' = [r \in Results |-> IF r \in RowsOf(t) THEN "APPROVED" ELSE rows[r]]
        /\ UNCHANGED <<files, execution, lost, untidy, inspiration>>
    BY <1>2 DEF ApproveOutput
  <2>2. /\ work' \in [Works -> WorkStatuses]
        /\ \A s \in Works : s # t => work'[s] = work[s]
        /\ work'[t] = "SUCCEEDED"
    BY <1>0, <2>1 DEF OutputTables, WorkStatuses
  <2>3. /\ rows' \in [Results -> {"absent", "PENDING", "APPROVED"}]
        /\ \A r \in Results : rows'[r] # "absent" <=> rows[r] # "absent"
        /\ \A r \in Results : rows[r] = "APPROVED" => rows'[r] = "APPROVED"
    BY <1>0, <2>1 DEF OutputTables, RowsOf
  <2>4. RowsOfEnded'
    BY <1>0, <2>2, <2>3, ResultParts DEF RowsOfEnded
  <2>5. FeaturedOK'
    BY <1>0, <2>1, <2>2, <2>3 DEF FeaturedOK, AssetOf
  <2> QED
    BY <2>1, <2>2, <2>3, <2>4, <2>5, WorkStep
<1>3. CASE DeleteWork(t)
  <2>1. /\ Deletable(t) /\ work' = [work EXCEPT ![t] = "DELETED"]
        /\ rows' = [r \in Results |-> IF r \in RowsOf(t) THEN "absent" ELSE rows[r]]
        /\ UNCHANGED <<files, execution, lost, untidy, inspiration>>
    BY <1>3 DEF DeleteWork
  <2>2. /\ work' \in [Works -> WorkStatuses]
        /\ \A s \in Works : s # t => work'[s] = work[s]
        /\ work'[t] = "DELETED"
    BY <1>0, <2>1 DEF OutputTables, WorkStatuses
  <2>3. /\ rows' \in [Results -> {"absent", "PENDING", "APPROVED"}]
        /\ \A r \in Results : WorkOf[r[1]] = t => rows'[r] = "absent"
        /\ \A r \in Results : WorkOf[r[1]] # t => rows'[r] = rows[r]
        /\ \A r \in Results : rows'[r] # "absent" => rows[r] # "absent"
    BY <1>0, <2>1 DEF OutputTables, RowsOf
  <2>4. RowsOfEnded'
    BY <1>0, <2>2, <2>3, ResultParts DEF RowsOfEnded
  <2>5. \A f \in Inspirations : inspiration[f] # NoInspiration => WorkOf[AssetOf(f)[1]] # t
    BY <1>0, <2>1 DEF Deletable, Featured, RowsOf, FeaturedOK, AssetOf
  <2>6. FeaturedOK'
    BY <1>0, <2>1, <2>2, <2>3, <2>5 DEF FeaturedOK, AssetOf
  <2> QED
    BY <2>1, <2>2, <2>3, <2>4, <2>6, WorkStep
<1> QED
  BY <1>1, <1>2, <1>3

LEMMA GallerySteps ==
  ASSUME OutInv, NEW f \in Inspirations,
         (\E r \in Results : PublishCandidate(f, r)) \/ PublishInspiration(f) \/ Unpublish(f)
  PROVE  OutInv'
<1>0. OutputTables /\ FeaturedOK /\ UNCHANGED <<work, rows, files, execution, lost, untidy>>
  BY DEF OutInv, PublishCandidate, PublishInspiration, Unpublish
<1>1. inspiration' \in [Inspirations -> InspirationRows \cup {NoInspiration}] /\ FeaturedOK'
  <2>1. ASSUME NEW r \in Results, PublishCandidate(f, r)
        PROVE  inspiration' \in [Inspirations -> InspirationRows \cup {NoInspiration}] /\ FeaturedOK'
    <3> DEFINE row == [result |-> r, status |-> "PUBLISHED"]
    <3>1. row \in InspirationRows /\ row.result = r
      BY DEF InspirationRows
    <3>2. inspiration' = [inspiration EXCEPT ![f] = row] /\ Candidate(r)
      BY <2>1 DEF PublishCandidate
    <3> HIDE DEF row
    <3>3. /\ inspiration' \in [Inspirations -> InspirationRows \cup {NoInspiration}]
          /\ inspiration'[f] = row /\ \A g \in Inspirations : g # f => inspiration'[g] = inspiration[g]
      BY <1>0, <3>1, <3>2 DEF OutputTables
    <3>4. /\ rows[r] = "APPROVED" /\ work[WorkOf[r[1]]] = "SUCCEEDED"
          /\ \A g \in Inspirations : inspiration[g] # NoInspiration => inspiration[g].result # r
      BY <3>2 DEF Candidate, Featured
    <3>5. FeaturedOK'
      BY <1>0, <3>1, <3>3, <3>4 DEF FeaturedOK, AssetOf
    <3> QED
      BY <3>3, <3>5
  <2>2. ASSUME NEW st \in {"PUBLISHED", "ARCHIVED"}, inspiration[f] # NoInspiration,
               inspiration' = [inspiration EXCEPT ![f].status = st]
        PROVE  inspiration' \in [Inspirations -> InspirationRows \cup {NoInspiration}] /\ FeaturedOK'
    <3> DEFINE row == [inspiration[f] EXCEPT !.status = st]
    <3>1. row \in InspirationRows /\ row.result = inspiration[f].result
      BY <1>0, <2>2 DEF OutputTables, InspirationRows
    <3>2. inspiration' = [inspiration EXCEPT ![f] = row]
      BY <1>0, <2>2 DEF OutputTables
    <3> HIDE DEF row
    <3>3. /\ inspiration' \in [Inspirations -> InspirationRows \cup {NoInspiration}]
          /\ inspiration'[f] = row /\ \A g \in Inspirations : g # f => inspiration'[g] = inspiration[g]
      BY <1>0, <3>1, <3>2 DEF OutputTables
    <3>4. FeaturedOK'
      BY <1>0, <2>2, <3>1, <3>3 DEF FeaturedOK, AssetOf
    <3> QED
      BY <3>3, <3>4
  <2> QED
    BY <2>1, <2>2 DEF PublishInspiration, Unpublish
<1> QED
  BY <1>0, <1>1 DEF OutInv, OutputTables, RowsOfEnded, RowsStored, Keeping, Tidy, At

LEMMA OutputStart == OutputInit => OutInv
<1> SUFFICES ASSUME OutputInit PROVE OutInv
  OBVIOUS
<1>1. \A x \in Executions : execution[x] \in ExecutionRows /\ execution[x].pc = "idle" /\ execution[x].stored = {}
  BY OutputAssumption DEF OutputInit, ExecutionRows, Places
<1>2. OutputTables
  BY <1>1 DEF OutputInit, OutputTables, WorkStatuses
<1>3. \A r \in Results : rows[r] = "absent"
  BY DEF OutputInit
<1>4. \A f \in Inspirations : inspiration[f] = NoInspiration
  BY DEF OutputInit
<1>5. \A x \in Executions : Keeping(x) /\ Tidy(x)
  BY <1>1 DEF OutputInit, Keeping, Tidy
<1> QED
  BY <1>2, <1>3, <1>4, <1>5 DEF OutInv, RowsOfEnded, RowsStored, FeaturedOK

LEMMA OutInvariant == OutputSpec => []OutInv
<1>1. OutInv /\ OutputNext => OutInv'
  BY PersistStep, PutContentStep, PutThumbnailStep, CommitStep, CleanupStep, FailWorkStep,
     ExecutionDiesStep, WorkSteps, GallerySteps DEF OutputNext, ExecutionStep
<1>2. OutInv /\ UNCHANGED outputVars => OutInv'
  <2> SUFFICES ASSUME OutInv, UNCHANGED outputVars PROVE OutInv'
    OBVIOUS
  <2>0. UNCHANGED <<work, rows, files, execution, lost, untidy, inspiration>>
    BY DEF outputVars
  <2>1. OutputTables' /\ RowsOfEnded'
    BY <2>0 DEF OutInv, OutputTables, RowsOfEnded
  <2>2. RowsStored'
    BY <2>0 DEF OutInv, RowsStored, At
  <2>3. FeaturedOK'
    BY <2>0 DEF OutInv, FeaturedOK, AssetOf
  <2>4. ASSUME NEW x \in Executions PROVE Keeping(x)' /\ Tidy(x)'
    <3>1. Keeping(x) /\ Tidy(x)
      BY DEF OutInv
    <3> QED
      BY <2>0, <3>1 DEF Keeping, Tidy
  <2> QED
    BY <2>1, <2>2, <2>3, <2>4 DEF OutInv
<1> QED
  BY <1>1, <1>2, OutputStart, PTL DEF OutputSpec

(* Every row has the values its columns allow, and every object in storage *)
(* is a variant of some result (persist).                                  *)
THEOREM OutputsTypeCorrect == OutputSpec => []OutputTypeOK
<1>1. OutInv => OutputTypeOK
  BY DEF OutInv, OutputTables, OutputTypeOK, WorkStatuses, FilesOf, Files
<1> QED
  BY <1>1, OutInvariant, PTL

(* For any number of tasks, images and overlapping executions: what is     *)
(* known is stored, unless a worker lost the answer to its commit; what is *)
(* stored is known, unless one died or could not delete; and what is shown *)
(* is approved, of a task that has succeeded, and shown once (persist,     *)
(* cleanup, succeed, publishCandidate).                                    *)
THEOREM OutputsAreInOrder == OutputSpec => []OutputsInOrder
<1>1. OutInv => KnownIsStored
  BY ResultParts DEF OutInv, RowsStored, KnownIsStored, Readable
<1>2. OutInv => NothingLeftBehind
  <2> SUFFICES ASSUME OutInv, NEW x \in Executions, At(x, "done"), x \notin untidy,
                      NEW r \in Results, r[1] = x, FilesOf({r}) \cap files # {}
               PROVE  rows[r] # "absent" \/ work[WorkOf[x]] = "DELETED"
    BY DEF NothingLeftBehind
  <2>1. PICK f \in files : f[1] = r
    BY DEF FilesOf
  <2>2. Tidy(x)
    BY DEF OutInv
  <2> QED
    BY <2>1, <2>2 DEF Tidy, At
<1>3. OutInv => FeaturedIsApproved
  <2> SUFFICES ASSUME OutInv, NEW f \in Inspirations, inspiration[f] # NoInspiration
               PROVE  Readable(AssetOf(f), FALSE) \/ AssetOf(f)[1] \in lost
    BY DEF OutInv, FeaturedOK, FeaturedIsApproved
  <2>1. AssetOf(f) \in Results /\ rows[AssetOf(f)] = "APPROVED"
    BY DEF OutInv, OutputTables, FeaturedOK, AssetOf, InspirationRows
  <2> QED
    BY <2>1 DEF OutInv, RowsStored, Readable
<1> QED
  BY <1>1, <1>2, <1>3, OutInvariant, PTL DEF OutputsInOrder

-----------------------------------------------------------------------------
(***************************************************************************)
(* The drafts (Workspace).                                                 *)
(***************************************************************************)
(* What may be typed in conversation c.                                    *)
Own(c) == [at : {c}, edit : 1 .. MaxEdits] \cup {Blank}

(* What is shown is the conversation of the page, or nothing yet.          *)
ShownIsPage ==
  /\ view.shown = view.source /\ view.source \in {NoChat, page}
  /\ view.timer => view.source # NoChat
  /\ ~view.ready => view.source = NoChat

(* A text on its way to a conversation was typed in it.                    *)
IntentApart(i) == i.to \in Chats => i.text \in Own(i.to)
TextsApart ==
  /\ DraftsStayApart
  /\ page \in Chats => view.draft \in Own(page)
  /\ \A p \in patches : p.text \in Own(p.chat)
  /\ IntentApart(pendingIntent) /\ IntentApart(restoredIntent)

AbsentUntouched ==
  \A c \in Chats : saved[c] = Absent => Expected[c] = Blank /\ ~InFlight(c) /\ view.source # c

(* While nothing was done too fast: the composer has what is meant, and as *)
(* long as no timer runs for it, what is meant is saved or on its way.     *)
SavedOrSent(c) ==
  IF InFlight(c) THEN \A p \in patches : p.chat = c => p.text = Expected[c]
  ELSE saved[c] = Expected[c]
Held ==
  careless \/ wiped \/
    /\ \A p, r \in patches : p.chat = r.chat => p = r
    /\ \A c \in Chats : Exists(c) =>
         /\ view.source = c => Expected[c] = view.draft
         /\ ~(view.source = c /\ view.timer) => SavedOrSent(c)

LEMMA SameExpected == UNCHANGED <<meant, discarded>> => Expected' = Expected
BY DEF Expected

WsInv == WorkspaceTypeOK /\ ShownIsPage /\ TextsApart /\ AbsentUntouched /\ Held

LEMMA MountedView ==
  /\ Mounted \in Views /\ Mounted.source = NoChat /\ Mounted.shown = NoChat
  /\ Mounted.draft = Blank /\ ~Mounted.timer /\ ~Mounted.ready
  /\ \A c \in Chats : Mounted.source # c
BY WorkspaceAssumption DEF Mounted, Views, Drafts, Pages

(* The steps that send nothing and change no text on the page: the page    *)
(* stays, or is left.                                                      *)
SameView ==
  /\ page' = page /\ careless' = careless /\ view' \in Views
  /\ view'.shown = view.shown /\ view'.source = view.source /\ (view.ready => view'.ready)
  /\ view'.draft = view.draft /\ view'.timer = view.timer

LEMMA QuietStep ==
  ASSUME WsInv, patches' = patches, wiped' = wiped,
         \A c \in Chats : saved'[c] = Absent => saved[c] = Absent /\ Expected'[c] = Expected[c],
         \A c \in Chats : saved'[c] \in Drafts =>
           \/ saved'[c] = saved[c] /\ Expected'[c] = Expected[c]
           \/ saved'[c] = Expected'[c] /\ ~InFlight(c) /\ view.source # c,
         SameView \/ (\E to \in Pages \cup {LoginPage, GalleryPage} : Goes(to))
  PROVE  /\ view' \in Views /\ page' \in Pages \cup {LoginPage, GalleryPage} /\ careless' \in BOOLEAN
         /\ page' \in Chats => view'.draft \in Own(page')
         /\ ShownIsPage' /\ AbsentUntouched' /\ Held'
<1>0. /\ WorkspaceTypeOK /\ ShownIsPage /\ AbsentUntouched /\ Held
      /\ page \in Chats => view.draft \in Own(page)
  BY DEF WsInv, TextsApart
<1>1. \A c \in Chats : InFlight(c)' <=> InFlight(c)
  BY DEF InFlight
<1>2. CASE SameView
  <2>1. Held'
    <3> SUFFICES ASSUME ~careless, ~wiped
                 PROVE  /\ \A p, r \in patches : p.chat = r.chat => p = r
                        /\ \A c \in Chats : saved'[c] \in Drafts =>
                             /\ view'.source = c => Expected'[c] = view'.draft
                             /\ ~(view'.source = c /\ view'.timer) => SavedOrSent(c)'
      BY <1>2 DEF Held, Exists, SameView
    <3>1. /\ \A p, r \in patches : p.chat = r.chat => p = r
          /\ \A c \in Chats : Exists(c) =>
               /\ view.source = c => Expected[c] = view.draft
               /\ ~(view.source = c /\ view.timer) => SavedOrSent(c)
      BY <1>0 DEF Held
    <3>2. ASSUME NEW c \in Chats, saved'[c] \in Drafts
          PROVE  /\ view'.source = c => Expected'[c] = view'.draft
                 /\ ~(view'.source = c /\ view'.timer) => SavedOrSent(c)'
      BY <1>1, <1>2, <3>1, <3>2 DEF SavedOrSent, Exists, SameView
    <3> QED
      BY <3>1, <3>2
  <2>2. AbsentUntouched'
    BY <1>0, <1>1, <1>2 DEF AbsentUntouched, SameView
  <2>3. ShownIsPage'
    BY <1>0, <1>2 DEF ShownIsPage, SameView
  <2> QED
    BY <1>0, <1>2, <2>1, <2>2, <2>3 DEF SameView, WorkspaceTypeOK
<1>3. ASSUME NEW to \in Pages \cup {LoginPage, GalleryPage}, Goes(to)
      PROVE  /\ view' \in Views /\ page' \in Pages \cup {LoginPage, GalleryPage} /\ careless' \in BOOLEAN
             /\ page' \in Chats => view'.draft \in Own(page')
             /\ ShownIsPage' /\ AbsentUntouched' /\ Held'
  <2>1. view' = Mounted /\ page' = to /\ careless' = (careless \/ view.timer)
    BY <1>3 DEF Goes, Moves
  <2>2. Held'
    <3> SUFFICES ASSUME ~careless, ~view.timer, ~wiped
                 PROVE  /\ \A p, r \in patches : p.chat = r.chat => p = r
                        /\ \A c \in Chats : saved'[c] \in Drafts => SavedOrSent(c)'
      BY <2>1, MountedView DEF Held, Exists
    <3>1. /\ \A p, r \in patches : p.chat = r.chat => p = r
          /\ \A c \in Chats : Exists(c) => SavedOrSent(c)
      BY <1>0 DEF Held
    <3>2. ASSUME NEW c \in Chats, saved'[c] \in Drafts PROVE SavedOrSent(c)'
      BY <1>1, <3>1, <3>2 DEF SavedOrSent, Exists
    <3> QED
      BY <3>1, <3>2
  <2>3. AbsentUntouched'
    BY <1>0, <1>1, <2>1, MountedView DEF AbsentUntouched
  <2>4. ShownIsPage'
    BY <2>1, MountedView DEF ShownIsPage
  <2>5. careless' \in BOOLEAN
    BY <1>0, <2>1 DEF WorkspaceTypeOK, Views
  <2> QED
    BY <2>1, <2>2, <2>3, <2>4, <2>5, MountedView DEF Own
<1> QED
  BY <1>2, <1>3

(* The other columns.                                                      *)
OtherColumns ==
  /\ saved' \in [Chats -> Drafts \cup {Absent, Removed}] /\ DraftsStayApart'
  /\ meant' \in [Chats -> Drafts] /\ discarded' \subseteq Chats
  /\ signedIn' \in BOOLEAN
  /\ pendingIntent' \in Intents /\ restoredIntent' \in Intents
  /\ IntentApart(pendingIntent') /\ IntentApart(restoredIntent')
  /\ posting' \in Pages \cup {"none"} /\ edits' \in 0 .. MaxEdits

LEMMA QuietSteps ==
  ASSUME WsInv, patches' = patches, wiped' = wiped, OtherColumns,
         \A c \in Chats : saved'[c] = Absent => saved[c] = Absent /\ Expected'[c] = Expected[c],
         \A c \in Chats : saved'[c] \in Drafts =>
           \/ saved'[c] = saved[c] /\ Expected'[c] = Expected[c]
           \/ saved'[c] = Expected'[c] /\ ~InFlight(c) /\ view.source # c,
         SameView \/ (\E to \in Pages \cup {LoginPage, GalleryPage} : Goes(to))
  PROVE  WsInv'
<1>1. /\ view' \in Views /\ page' \in Pages \cup {LoginPage, GalleryPage} /\ careless' \in BOOLEAN
      /\ page' \in Chats => view'.draft \in Own(page')
      /\ ShownIsPage' /\ AbsentUntouched' /\ Held'
  BY QuietStep
<1>2. WorkspaceTypeOK'
  BY <1>1 DEF WsInv, WorkspaceTypeOK, OtherColumns
<1>3. TextsApart'
  BY <1>1 DEF WsInv, TextsApart, OtherColumns, IntentApart
<1> QED
  BY <1>1, <1>2, <1>3 DEF WsInv

LEMMA WsParts ==
  ASSUME WsInv
  PROVE  /\ saved \in [Chats -> Drafts \cup {Absent, Removed}] /\ DraftsStayApart
         /\ meant \in [Chats -> Drafts] /\ discarded \subseteq Chats
         /\ Expected \in [Chats -> Drafts]
         /\ signedIn \in BOOLEAN
         /\ pendingIntent \in Intents /\ restoredIntent \in Intents
         /\ IntentApart(pendingIntent) /\ IntentApart(restoredIntent)
         /\ posting \in Pages \cup {"none"} /\ edits \in 0 .. MaxEdits
         /\ page \in Pages \cup {LoginPage, GalleryPage} /\ view \in Views
         /\ patches \subseteq Patches /\ careless \in BOOLEAN /\ wiped \in BOOLEAN
<1>1. Blank \in Drafts
  BY DEF Drafts
<1> QED
  BY <1>1 DEF WsInv, WorkspaceTypeOK, TextsApart, Expected

LEMMA LoginSteps ==
  ASSUME WsInv,
         \/ LearnSession \/ SendToLogin \/ SignIn \/ CloseLogin \/ SignOut \/ SessionLapses
         \/ Recreate \/ Wander \/ SubmitFails
  PROVE  WsInv'
<1>0. /\ UNCHANGED <<saved, meant, discarded, patches, wiped>> /\ Expected' = Expected
      /\ DraftsStayApart' /\ saved' \in [Chats -> Drafts \cup {Absent, Removed}] /\ meant' \in [Chats -> Drafts]
  BY WsParts, SameExpected DEF LearnSession, SendToLogin, SignIn, CloseLogin, SignOut, SessionLapses,
     Recreate, Wander, SubmitFails, DraftsStayApart
<1> USE DEF OtherColumns
<1>1. CASE LearnSession
  <2>1. SameView
    BY <1>1, WsParts DEF LearnSession, SameView, Views
  <2> QED
    BY <1>0, <1>1, <2>1, WsParts, QuietSteps DEF LearnSession
<1>2. CASE SendToLogin
  <2> DEFINE i == [to |-> page, text |-> view.draft]
  <2>1. i \in Intents /\ IntentApart(i)
    BY <1>2, WsParts DEF SendToLogin, Intents, Views, IntentApart, WsInv, TextsApart
  <2>2. pendingIntent' = i /\ Goes(LoginPage) /\ UNCHANGED <<signedIn, restoredIntent, posting, edits>>
    BY <1>2 DEF SendToLogin
  <2> HIDE DEF i
  <2> QED
    BY <1>0, <2>1, <2>2, WsParts, QuietSteps
<1>3. CASE SignIn
  <2>1. /\ pendingIntent' \in {pendingIntent, NoIntent} /\ restoredIntent' \in {restoredIntent, pendingIntent}
        /\ signedIn' = TRUE /\ UNCHANGED <<posting, edits>>
    BY <1>3 DEF SignIn
  <2>2. NoIntent \in Intents /\ IntentApart(NoIntent)
    BY DEF Intents, IntentApart, NoIntent, Own
  <2>3. \E to \in Pages \cup {LoginPage, GalleryPage} : Goes(to)
    BY <1>3, WsParts DEF SignIn, Intents
  <2> QED
    BY <1>0, <2>1, <2>2, <2>3, WsParts, QuietSteps
<1>4. CASE CloseLogin
  <2>1. \E to \in Pages \cup {LoginPage, GalleryPage} : Goes(to)
    BY <1>4, WsParts DEF CloseLogin, Intents
  <2> QED
    BY <1>0, <1>4, <2>1, WsParts, QuietSteps DEF CloseLogin
<1>5. CASE SignOut
  <2>1. SameView
    BY <1>5, WsParts DEF SignOut, SameView, Views
  <2> QED
    BY <1>0, <1>5, <2>1, WsParts, QuietSteps DEF SignOut
<1>6. CASE SessionLapses
  <2>1. SameView
    BY <1>6, WsParts DEF SessionLapses, SameView
  <2> QED
    BY <1>0, <1>6, <2>1, WsParts, QuietSteps DEF SessionLapses
<1>7. CASE Recreate
  <2> DEFINE i == [to |-> NoChat, text |-> [at |-> GalleryPage, edit |-> edits + 1]]
  <2>1. edits' = edits + 1 /\ edits' \in 1 .. MaxEdits
    BY <1>7, WsParts, WorkspaceAssumption DEF Recreate
  <2>2. i \in Intents /\ IntentApart(i)
    BY <2>1, WorkspaceAssumption DEF Intents, IntentApart, Drafts, Pages
  <2>3. NoIntent \in Intents /\ IntentApart(NoIntent)
    BY DEF Intents, IntentApart, NoIntent, Own
  <2>4. pendingIntent' \in {i, NoIntent} /\ restoredIntent' \in {i, restoredIntent}
        /\ UNCHANGED <<signedIn, posting>>
    BY <1>7 DEF Recreate
  <2>5. \E to \in Pages \cup {LoginPage, GalleryPage} : Goes(to)
    BY <1>7 DEF Recreate, Pages
  <2> HIDE DEF i
  <2> QED
    BY <1>0, <2>1, <2>2, <2>3, <2>4, <2>5, WsParts, QuietSteps
<1>8. CASE Wander
  <2>1. \E to \in Pages \cup {LoginPage, GalleryPage} : Goes(to)
    BY <1>8 DEF Wander, Pages
  <2> QED
    BY <1>0, <1>8, <2>1, WsParts, QuietSteps DEF Wander
<1>9. CASE SubmitFails
  <2>1. SameView
    BY <1>9, WsParts DEF SubmitFails, SameView
  <2> QED
    BY <1>0, <1>9, <2>1, WsParts, QuietSteps DEF SubmitFails
<1> QED
  BY <1>1, <1>2, <1>3, <1>4, <1>5, <1>6, <1>7, <1>8, <1>9

LEMMA AnswerStep ==
  ASSUME WsInv, SubmitAnswered
  PROVE  WsInv'
<1>1. /\ posting' = "none"
      /\ UNCHANGED <<meant, discarded, signedIn, pendingIntent, restoredIntent, patches, edits, wiped>>
      /\ Expected' = Expected
  BY SameExpected DEF SubmitAnswered
<1>2. PICK c \in Chats :
        \/ /\ posting = c /\ signedIn /\ Exists(c)
           /\ IF page # c THEN Goes(c) ELSE UNCHANGED <<page, view, careless>>
           /\ UNCHANGED saved
        \/ /\ posting = NoChat /\ signedIn /\ saved[c] = Absent
           /\ saved' = [saved EXCEPT ![c] = Blank]
           /\ Goes(c)
  BY DEF SubmitAnswered
<1>3. SameView \/ \E to \in Pages \cup {LoginPage, GalleryPage} : Goes(to)
  BY <1>2, WsParts DEF SameView, Pages
<1>4. CASE saved' = saved
  <2>1. DraftsStayApart'
    BY <1>4, WsParts DEF DraftsStayApart
  <2> QED
    BY <1>1, <1>3, <1>4, <2>1, WsParts, QuietSteps DEF OtherColumns
<1>5. CASE saved[c] = Absent /\ saved' = [saved EXCEPT ![c] = Blank]
  <2>1. saved'[c] = Blank /\ \A d \in Chats : d # c => saved'[d] = saved[d]
    BY <1>5, WsParts
  <2>2. saved' \in [Chats -> Drafts \cup {Absent, Removed}]
    BY <1>5, WsParts DEF Drafts
  <2>3. DraftsStayApart'
    BY <2>1, WsParts DEF DraftsStayApart
  <2>4. Expected[c] = Blank /\ ~InFlight(c) /\ view.source # c
    BY <1>5 DEF WsInv, AbsentUntouched
  <2>5. Blank # Absent
    BY WorkspaceAssumption DEF Drafts
  <2>6. OtherColumns
    BY <1>1, <2>2, <2>3, WsParts DEF OtherColumns
  <2>7. \A d \in Chats : saved'[d] = Absent => saved[d] = Absent /\ Expected'[d] = Expected[d]
    BY <1>1, <2>1, <2>5
  <2>8. \A d \in Chats : saved'[d] \in Drafts =>
          \/ saved'[d] = saved[d] /\ Expected'[d] = Expected[d]
          \/ saved'[d] = Expected'[d] /\ ~InFlight(d) /\ view.source # d
    BY <1>1, <2>1, <2>4
  <2> QED
    BY <1>1, <1>3, <2>6, <2>7, <2>8, QuietSteps
<1> QED
  BY <1>2, <1>4, <1>5

LEMMA RemoveStep ==
  ASSUME WsInv, RemoveSession
  PROVE  WsInv'
<1>1. PICK c \in Chats :
        /\ page \in Pages
        /\ saved' = [saved EXCEPT ![c] = Removed]
        /\ meant' = [meant EXCEPT ![c] = Blank]
        /\ IF view.shown = c
           THEN \E to \in {x \in Chats \ {c} : Exists(x)} \cup {NoChat} : Goes(to)
           ELSE UNCHANGED <<page, view, careless>>
        /\ UNCHANGED <<discarded, signedIn, pendingIntent, restoredIntent, patches, posting, edits, wiped>>
  BY DEF RemoveSession
<1>2. SameView \/ \E to \in Pages \cup {LoginPage, GalleryPage} : Goes(to)
  BY <1>1, WsParts DEF SameView, Pages
<1>3. /\ saved'[c] = Removed
      /\ \A d \in Chats : d # c => saved'[d] = saved[d] /\ Expected'[d] = Expected[d]
  BY <1>1, WsParts DEF Expected
<1>4. /\ saved' \in [Chats -> Drafts \cup {Absent, Removed}] /\ meant' \in [Chats -> Drafts]
  BY <1>1, WsParts DEF Drafts
<1>5. DraftsStayApart'
  BY <1>3, WsParts DEF DraftsStayApart
<1>6. OtherColumns
  BY <1>1, <1>4, <1>5, WsParts DEF OtherColumns
<1>7. \A d \in Chats : saved'[d] = Absent => saved[d] = Absent /\ Expected'[d] = Expected[d]
  BY <1>3, WorkspaceAssumption
<1>8. \A d \in Chats : saved'[d] \in Drafts => saved'[d] = saved[d] /\ Expected'[d] = Expected[d]
  BY <1>3, WorkspaceAssumption
<1> QED
  BY <1>1, <1>2, <1>6, <1>7, <1>8, QuietSteps

(* What the parts of the invariant say while nothing was too fast.         *)
LEMMA HeldNow ==
  ASSUME Held, ~careless, ~wiped
  PROVE  /\ \A p, r \in patches : p.chat = r.chat => p = r
         /\ \A c \in Chats : Exists(c) =>
              /\ view.source = c => Expected[c] = view.draft
              /\ ~(view.source = c /\ view.timer) => SavedOrSent(c)
BY DEF Held

LEMMA LoadStep ==
  ASSUME WsInv, LoadPage
  PROVE  WsInv'
<1>0. /\ page \in Pages /\ ~view.ready /\ view.source = NoChat /\ view \in Views
      /\ UNCHANGED <<saved, signedIn, pendingIntent, page, patches, posting, edits>>
  BY WsParts DEF LoadPage, WsInv, ShownIsPage
<1>1. CASE page # NoChat /\ (~Exists(page) \/ ~signedIn)
  <2>1. /\ view' = [view EXCEPT !.ready = TRUE]
        /\ UNCHANGED <<restoredIntent, meant, discarded, careless, wiped>> /\ Expected' = Expected
    BY <1>1, SameExpected DEF LoadPage
  <2>2. SameView
    BY <1>0, <2>1 DEF SameView, Views
  <2>3. DraftsStayApart'
    BY <1>0, WsParts DEF DraftsStayApart
  <2> QED
    BY <1>0, <2>1, <2>2, <2>3, WsParts, QuietSteps DEF OtherColumns
<1>2. CASE ~(page # NoChat /\ (~Exists(page) \/ ~signedIn))
  <2> DEFINE text == IF TakenUp THEN restoredIntent.text ELSE IF page = NoChat THEN Blank ELSE saved[page]
  <2>1. /\ view' = [view EXCEPT !.ready = TRUE, !.shown = page, !.source = page,
                                !.timer = page # NoChat, !.draft = text]
        /\ restoredIntent' = IF TakenUp THEN NoIntent ELSE restoredIntent
        /\ IF page # NoChat /\ TakenUp /\ restoredIntent.text # Blank
           THEN /\ meant' = [meant EXCEPT ![page] = restoredIntent.text]
                /\ discarded' = discarded \ {page}
           ELSE UNCHANGED <<meant, discarded>>
        /\ careless' = (careless \/ (page # NoChat /\ InFlight(page)))
        /\ wiped' = (wiped \/ (page # NoChat /\ TakenUp /\ restoredIntent.text = Blank))
    BY <1>2 DEF LoadPage
  <2>2. page # NoChat => page \in Chats /\ Exists(page) /\ saved[page] # Absent
    BY <1>0, <1>2, WorkspaceAssumption DEF Pages, Exists
  <2>3. restoredIntent.text \in Drafts
    BY WsParts DEF Intents, NoIntent, Drafts
  <2>4. text \in Drafts /\ (page \in Chats => text \in Own(page))
    <3>1. CASE TakenUp
      BY <2>3, <3>1, WsParts DEF TakenUp, IntentApart
    <3>2. CASE ~TakenUp /\ page = NoChat
      BY <3>2, WorkspaceAssumption DEF Drafts
    <3>3. CASE ~TakenUp /\ page # NoChat
      <4>1. text = saved[page] /\ saved[page] \in Drafts /\ page \in Chats
        BY <2>2, <3>3 DEF Exists
      <4>2. saved[page] # Absent /\ saved[page] # Removed
        BY <4>1, WorkspaceAssumption
      <4> QED
        BY <4>1, <4>2, WsParts DEF DraftsStayApart, Own
    <3> QED
      BY <3>1, <3>2, <3>3
  <2> HIDE DEF text
  <2>5. /\ view' \in Views /\ view'.ready /\ view'.shown = page /\ view'.source = page
        /\ view'.timer = (page # NoChat) /\ view'.draft = text
    BY <1>0, <2>1, <2>4 DEF Views
  <2>6. /\ meant' \in [Chats -> Drafts] /\ discarded' \subseteq Chats
        /\ \A c \in Chats : c # page => Expected'[c] = Expected[c]
        /\ \A c \in Chats : c = page =>
             Expected'[c] = IF TakenUp /\ restoredIntent.text # Blank THEN restoredIntent.text
                            ELSE Expected[c]
    <3>1. CASE page # NoChat /\ TakenUp /\ restoredIntent.text # Blank
      BY <1>0, <2>1, <2>3, <3>1, WsParts DEF Expected
    <3>2. CASE ~(page # NoChat /\ TakenUp /\ restoredIntent.text # Blank)
      BY <1>0, <2>1, <3>2, WsParts, SameExpected, WorkspaceAssumption
    <3> QED
      BY <3>1, <3>2
  <2>7. restoredIntent' \in Intents /\ IntentApart(restoredIntent')
    BY <2>1, WsParts DEF Intents, IntentApart, NoIntent, Own
  <2>8. careless' \in BOOLEAN /\ wiped' \in BOOLEAN
    BY <2>1, WsParts DEF InFlight
  <2>9. WorkspaceTypeOK'
    BY <1>0, <2>5, <2>6, <2>7, <2>8, WsParts DEF WorkspaceTypeOK
  <2>10. ShownIsPage'
    BY <1>0, <2>5 DEF ShownIsPage
  <2>11. TextsApart'
    BY <1>0, <2>4, <2>5, <2>7 DEF WsInv, TextsApart, DraftsStayApart, IntentApart
  <2>12. AbsentUntouched'
    BY <1>0, <2>2, <2>5, <2>6 DEF WsInv, AbsentUntouched, InFlight
  <2>13. Held'
    <3> SUFFICES ASSUME ~careless', ~wiped'
                 PROVE  /\ \A p, r \in patches : p.chat = r.chat => p = r
                        /\ \A c \in Chats : Exists(c) =>
                             /\ page = c => Expected'[c] = text
                             /\ page # c => SavedOrSent(c)'
      BY <1>0, <2>5, WorkspaceAssumption DEF Held, Exists
    <3>1. /\ ~careless /\ ~wiped /\ (page # NoChat => ~InFlight(page))
          /\ page # NoChat /\ TakenUp => restoredIntent.text # Blank
      BY <2>1
    <3>2. /\ \A p, r \in patches : p.chat = r.chat => p = r
          /\ \A c \in Chats : Exists(c) => SavedOrSent(c)
      BY <1>0, <3>1, HeldNow, WorkspaceAssumption DEF WsInv
    <3>3. ASSUME NEW c \in Chats, Exists(c), page # c PROVE SavedOrSent(c)'
      BY <1>0, <2>6, <3>2, <3>3 DEF SavedOrSent, InFlight
    <3>4. ASSUME NEW c \in Chats, Exists(c), page = c PROVE Expected'[c] = text
      <4>1. c # NoChat /\ saved[c] = Expected[c]
        BY <3>1, <3>2, <3>4, WorkspaceAssumption DEF SavedOrSent
      <4> QED
        BY <2>6, <3>1, <3>4, <4>1 DEF text
    <3> QED
      BY <3>2, <3>3, <3>4
  <2> QED
    BY <2>9, <2>10, <2>11, <2>12, <2>13 DEF WsInv
<1> QED
  BY <1>1, <1>2

(* Typing and submitting: another text in the composer.                    *)
LEMMA KeepsExpected ==
  ASSUME WsInv, NEW text \in Drafts, meant' = Keeps(text),
         \/ discarded' = discarded \ {view.shown}
         \/ /\ text = Blank
            /\ discarded' = discarded
  PROVE  /\ meant' \in [Chats -> Drafts] /\ discarded' \subseteq Chats
         /\ \A c \in Chats : Expected'[c] = IF c = view.shown THEN text ELSE Expected[c]
<1>1. view.shown \in Chats \/ view.shown = NoChat
  BY WsParts DEF Views, Pages
<1>2. CASE view.shown = NoChat
  BY <1>2, WsParts, WorkspaceAssumption DEF Keeps, Expected
<1>3. CASE view.shown \in Chats
  BY <1>3, WsParts, WorkspaceAssumption DEF Keeps, Expected
<1> QED
  BY <1>1, <1>2, <1>3

LEMMA EditStep ==
  ASSUME WsInv, page \in Pages, view.ready, NEW text \in Drafts, page \in Chats => text \in Own(page),
         view' = [view EXCEPT !.draft = text, !.timer = TimerFor(view)],
         meant' \in [Chats -> Drafts], discarded' \subseteq Chats,
         \A c \in Chats : Expected'[c] = IF c = view.shown THEN text ELSE Expected[c],
         posting' \in Pages \cup {"none"}, edits' \in 0 .. MaxEdits,
         UNCHANGED <<saved, signedIn, pendingIntent, restoredIntent, page, patches, careless, wiped>>
  PROVE  WsInv'
<1>0. view \in Views /\ view.shown = view.source /\ view.source \in {NoChat, page}
  BY WsParts DEF WsInv, ShownIsPage
<1>1. TimerFor(view) = (view.source # NoChat)
  BY <1>0 DEF TimerFor
<1>2. /\ view' \in Views /\ view'.shown = view.shown /\ view'.source = view.source
      /\ view'.ready /\ view'.draft = text /\ view'.timer = (view.source # NoChat)
  BY <1>0, <1>1 DEF Views
<1>3. view.source # NoChat => view.source \in Chats
  BY <1>0 DEF Pages
<1>4. /\ \A c \in Chats : c # view.source => Expected'[c] = Expected[c]
      /\ view.source # NoChat => Expected'[view.source] = text
  BY <1>0, <1>3
<1>5. WorkspaceTypeOK'
  BY <1>2, <1>4, WsParts DEF WorkspaceTypeOK
<1>6. ShownIsPage'
  BY <1>0, <1>2 DEF ShownIsPage
<1>7. TextsApart'
  BY <1>2 DEF WsInv, TextsApart, DraftsStayApart, IntentApart
<1>8. AbsentUntouched'
  BY <1>2, <1>4 DEF WsInv, AbsentUntouched, InFlight
<1>9. Held'
  <2> SUFFICES ASSUME ~careless, ~wiped
               PROVE  /\ \A p, r \in patches : p.chat = r.chat => p = r
                      /\ \A c \in Chats : Exists(c) =>
                           /\ view.source = c => Expected'[c] = text
                           /\ view.source # c => SavedOrSent(c)'
    BY <1>2, WorkspaceAssumption DEF Held, Exists
  <2>1. /\ \A p, r \in patches : p.chat = r.chat => p = r
        /\ \A c \in Chats : Exists(c) /\ view.source # c => SavedOrSent(c)
    BY HeldNow DEF WsInv
  <2>2. \A c \in Chats : c # view.source /\ SavedOrSent(c) => SavedOrSent(c)'
    BY <1>4 DEF SavedOrSent, InFlight
  <2> QED
    BY <1>4, <2>1, <2>2, WorkspaceAssumption
<1> QED
  BY <1>5, <1>6, <1>7, <1>8, <1>9 DEF WsInv

LEMMA TypeStep ==
  ASSUME WsInv, Type
  PROVE  WsInv'
<1> DEFINE at == IF view.shown # NoChat THEN view.shown ELSE page
           text == [at |-> at, edit |-> edits + 1]
<1>1. edits' = edits + 1 /\ edits' \in 1 .. MaxEdits
  BY WsParts, WorkspaceAssumption DEF Type
<1>2. page \in Pages /\ at = page
  BY DEF Type, WsInv, ShownIsPage
<1>3. text \in Drafts /\ (page \in Chats => text \in Own(page))
  BY <1>1, <1>2 DEF Drafts, Own
<1>4. /\ view.ready /\ view' = [view EXCEPT !.draft = text, !.timer = TimerFor(view)]
      /\ meant' = Keeps(text) /\ discarded' = discarded \ {view.shown}
      /\ UNCHANGED <<saved, signedIn, pendingIntent, restoredIntent, page, patches, posting, careless, wiped>>
  BY DEF Type
<1> HIDE DEF text, at
<1>5. edits' \in 0 .. MaxEdits /\ posting' \in Pages \cup {"none"}
  BY <1>1, <1>4, WsParts
<1>6. /\ meant' \in [Chats -> Drafts] /\ discarded' \subseteq Chats
      /\ \A c \in Chats : Expected'[c] = IF c = view.shown THEN text ELSE Expected[c]
  <2>1. ASSUME NEW x \in Drafts, meant' = Keeps(x), discarded' = discarded \ {view.shown}
        PROVE  /\ meant' \in [Chats -> Drafts] /\ discarded' \subseteq Chats
               /\ \A c \in Chats : Expected'[c] = IF c = view.shown THEN x ELSE Expected[c]
    BY <2>1, KeepsExpected
  <2> QED
    BY <1>3, <1>4, <2>1
<1> QED
  BY <1>2, <1>3, <1>4, <1>5, <1>6, EditStep

LEMMA SubmitStep ==
  ASSUME WsInv, Submit
  PROVE  WsInv'
<1>1. Blank \in Drafts /\ (page \in Chats => Blank \in Own(page)) /\ view.shown \in Pages
  BY WsParts DEF Drafts, Own, Views
<1>2. /\ page \in Pages /\ view.ready /\ posting' = view.shown
      /\ view' = [view EXCEPT !.draft = Blank, !.timer = TimerFor(view)]
      /\ meant' = Keeps(Blank) /\ discarded' = discarded
      /\ UNCHANGED <<saved, signedIn, pendingIntent, restoredIntent, page, patches, edits, careless, wiped>>
  BY DEF Submit
<1>3. /\ meant' \in [Chats -> Drafts] /\ discarded' \subseteq Chats
      /\ \A c \in Chats : Expected'[c] = IF c = view.shown THEN Blank ELSE Expected[c]
  BY <1>1, <1>2, KeepsExpected
<1>4. edits' \in 0 .. MaxEdits /\ posting' \in Pages \cup {"none"}
  BY <1>1, <1>2, WsParts
<1> QED
  BY <1>1, <1>2, <1>3, <1>4, EditStep

LEMMA RerunStep ==
  ASSUME WsInv, Rerun
  PROVE  WsInv'
<1>1. /\ Blank \in Drafts /\ (page \in Chats => Blank \in Own(page))
      /\ view.shown \in Chats /\ view.shown \in Pages
  BY WsParts DEF Drafts, Own, Views, Pages, Rerun
<1>2. /\ page \in Pages /\ view.ready /\ posting' = view.shown
      /\ view' = [view EXCEPT !.draft = Blank, !.timer = TimerFor(view)]
      /\ meant' = meant /\ discarded' = discarded \cup {view.shown}
      /\ UNCHANGED <<saved, signedIn, pendingIntent, restoredIntent, page, patches, edits, careless, wiped>>
  BY DEF Rerun
<1>3. \A c \in Chats : Expected'[c] = IF c = view.shown THEN Blank ELSE Expected[c]
  BY <1>1, <1>2 DEF Expected
<1>4. /\ meant' \in [Chats -> Drafts] /\ discarded' \subseteq Chats
      /\ edits' \in 0 .. MaxEdits /\ posting' \in Pages \cup {"none"}
  BY <1>1, <1>2, WsParts
<1> QED
  BY <1>1, <1>2, <1>3, <1>4, EditStep

(* The draft of the composer is sent, before the page is left or because   *)
(* the timer has fired.                                                    *)
LEMMA SendStep ==
  ASSUME WsInv, view.source # NoChat, NEW then \in Pages \cup {"stay"},
         patches' = patches \cup {[chat |-> view.source, text |-> view.draft, then |-> then]},
         careless' = (careless \/ InFlight(view.source)),
         view' = view \/ view' = [view EXCEPT !.timer = FALSE],
         UNCHANGED <<saved, meant, discarded, signedIn, pendingIntent, restoredIntent, page, posting, edits, wiped>>
  PROVE  WsInv'
<1>e. Expected' = Expected
  BY SameExpected
<1> DEFINE s == view.source
           new == [chat |-> s, text |-> view.draft, then |-> then]
<1>0. view \in Views /\ view.shown = s /\ s = page /\ s \in Chats /\ view.draft \in Drafts
  BY WsParts DEF WsInv, ShownIsPage, Views, Pages
<1>1. new \in Patches /\ new.chat = s /\ new.text = view.draft /\ view.draft \in Own(s)
  BY <1>0 DEF Patches, WsInv, TextsApart
<1>2. /\ view' \in Views /\ view'.shown = view.shown /\ view'.source = s /\ view'.draft = view.draft
      /\ view'.ready = view.ready /\ (view'.timer => view.timer)
  BY <1>0 DEF Views
<1> HIDE DEF new
<1>3. patches' = patches \cup {new}
  BY DEF new
<1> HIDE DEF s
<1>4. \A c \in Chats : InFlight(c)' <=> InFlight(c) \/ c = s
  BY <1>1, <1>3 DEF InFlight
<1>5. WorkspaceTypeOK'
  <2>1. careless' \in BOOLEAN
    BY WsParts DEF InFlight
  <2> QED
    BY <1>1, <1>2, <1>3, <2>1, WsParts DEF WorkspaceTypeOK
<1>6. ShownIsPage'
  BY <1>2 DEF WsInv, ShownIsPage, s
<1>7. TextsApart'
  BY <1>1, <1>2, <1>3 DEF WsInv, TextsApart, DraftsStayApart, IntentApart
<1>8. AbsentUntouched'
  BY <1>e, <1>2, <1>4 DEF WsInv, AbsentUntouched, s
<1>9. Held'
  <2> SUFFICES ASSUME ~careless', ~wiped
               PROVE  /\ \A p, r \in patches' : p.chat = r.chat => p = r
                      /\ \A c \in Chats : Exists(c) =>
                           /\ s = c => Expected[c] = view.draft
                           /\ ~(s = c /\ view'.timer) => SavedOrSent(c)'
    BY <1>e, <1>2 DEF Held, Exists
  <2>1. ~careless /\ ~InFlight(s)
    BY DEF s
  <2>2. /\ \A p, r \in patches : p.chat = r.chat => p = r
        /\ \A c \in Chats : Exists(c) =>
             /\ s = c => Expected[c] = view.draft
             /\ s # c => SavedOrSent(c)
    BY <2>1, HeldNow DEF WsInv, s
  <2>3. \A p \in patches : p.chat # s
    BY <2>1 DEF InFlight
  <2>4. \A p, r \in patches' : p.chat = r.chat => p = r
    BY <1>1, <1>3, <2>2, <2>3
  <2>5. ASSUME NEW c \in Chats, Exists(c), c # s PROVE SavedOrSent(c)'
    BY <1>e, <1>1, <1>3, <1>4, <2>2, <2>5 DEF SavedOrSent
  <2>6. ASSUME NEW c \in Chats, c = s, Exists(c) PROVE SavedOrSent(c)'
    <3>1. \A p \in patches' : p.chat = c => p.text = Expected[c]
      BY <1>1, <1>3, <2>2, <2>3, <2>6
    <3> QED
      BY <1>e, <1>4, <2>6, <3>1 DEF SavedOrSent
  <2> QED
    BY <2>2, <2>4, <2>5, <2>6
<1> QED
  BY <1>5, <1>6, <1>7, <1>8, <1>9 DEF WsInv

LEMMA AutosaveStep ==
  ASSUME WsInv, Autosave
  PROVE  WsInv'
<1>1. view.source # NoChat
  BY DEF Autosave, WsInv, ShownIsPage
<1> QED
  BY <1>1, SendStep DEF Autosave

LEMMA DepartStep ==
  ASSUME WsInv, NEW to \in Pages, Departs(to),
         UNCHANGED <<saved, meant, discarded, signedIn, pendingIntent, restoredIntent, posting, edits, wiped>>
  PROVE  WsInv'
<1>1. CASE view.source = NoChat
  <2>1. \E page1 \in Pages \cup {LoginPage, GalleryPage} : Goes(page1)
    BY <1>1 DEF Departs
  <2>2. DraftsStayApart' /\ patches' = patches
    BY <1>1, WsParts DEF Departs, DraftsStayApart
  <2> QED
    BY <2>1, <2>2, WsParts, SameExpected, QuietSteps DEF OtherColumns
<1>2. CASE view.source # NoChat
  BY <1>2, SendStep DEF Departs
<1> QED
  BY <1>1, <1>2

(* A request is answered by the server, or lost.                           *)
LEMMA ServeStep ==
  ASSUME WsInv, ServePatch \/ LosePatch
  PROVE  WsInv'
<1>1. PICK p \in patches :
        /\ patches' = patches \ {p}
        /\ UNCHANGED <<meant, discarded, signedIn, pendingIntent, restoredIntent, posting, edits, wiped>>
        /\ Expected' = Expected
        /\ \/ careless' = TRUE /\ UNCHANGED <<saved, page, view>>
           \/ /\ Exists(p.chat) /\ saved' = [saved EXCEPT ![p.chat] = p.text]
              /\ \/ UNCHANGED <<page, view, careless>>
                 \/ /\ p.then # "stay" /\ Moves(p.then)
                    /\ careless' = (careless \/ (view.timer /\ <<view.source, view.draft>> # <<p.chat, p.text>>))
  BY SameExpected DEF ServePatch, LosePatch
<1>2. p.chat \in Chats /\ p.text \in Drafts /\ p.text \in Own(p.chat) /\ p.then \in Pages \cup {"stay"}
  BY WsParts DEF Patches, WsInv, TextsApart
<1>3. \A c \in Chats : InFlight(c)' => InFlight(c)
  BY <1>1 DEF InFlight
<1>4. /\ saved' \in [Chats -> Drafts \cup {Absent, Removed}]
      /\ \A c \in Chats : c # p.chat => saved'[c] = saved[c]
      /\ \A c \in Chats : saved'[c] = Absent => saved[c] = Absent
      /\ \A c \in Chats : saved'[c] \in Drafts <=> saved[c] \in Drafts
  BY <1>1, <1>2, WsParts, WorkspaceAssumption DEF Exists
<1>5. DraftsStayApart'
  BY <1>1, <1>2, <1>4, WsParts DEF DraftsStayApart, Own
<1>6. \/ page' = page /\ view' = view
      \/ page' = p.then /\ view' = Mounted /\ p.then \in Pages
  BY <1>1, <1>2 DEF Moves
<1>7. WorkspaceTypeOK'
  <2>1. careless' \in BOOLEAN
    BY <1>1, WsParts DEF Views
  <2> QED
    BY <1>1, <1>4, <1>6, <2>1, WsParts, MountedView DEF WorkspaceTypeOK
<1>8. ShownIsPage'
  BY <1>6, MountedView DEF WsInv, ShownIsPage
<1>9. TextsApart'
  <2>1. page' \in Chats => view'.draft \in Own(page')
    BY <1>6, MountedView DEF WsInv, TextsApart, Own
  <2> QED
    BY <1>1, <1>5, <2>1 DEF WsInv, TextsApart, IntentApart
<1>10. AbsentUntouched'
  BY <1>1, <1>3, <1>4, <1>6, MountedView DEF WsInv, AbsentUntouched
<1>11. Held'
  <2> SUFFICES ASSUME ~careless', ~wiped
               PROVE  /\ \A q, r \in patches' : q.chat = r.chat => q = r
                      /\ \A c \in Chats : saved'[c] \in Drafts =>
                           /\ view'.source = c => Expected[c] = view'.draft
                           /\ ~(view'.source = c /\ view'.timer) => SavedOrSent(c)'
    BY <1>1 DEF Held, Exists
  <2>1. /\ ~careless /\ saved' = [saved EXCEPT ![p.chat] = p.text] /\ Exists(p.chat)
        /\ \/ page' = page /\ view' = view
           \/ /\ view' = Mounted
              /\ ~(view.timer /\ <<view.source, view.draft>> # <<p.chat, p.text>>)
    <3>1. CASE careless' = TRUE /\ UNCHANGED <<saved, page, view>>
      BY <3>1
    <3>2. CASE UNCHANGED <<page, view, careless>>
      BY <1>1, <3>2
    <3>3. CASE /\ p.then # "stay" /\ Moves(p.then)
               /\ careless' = (careless \/ (view.timer /\ <<view.source, view.draft>> # <<p.chat, p.text>>))
      <4>1. ~careless /\ ~(view.timer /\ <<view.source, view.draft>> # <<p.chat, p.text>>)
        BY <3>3
      <4> QED
        BY <1>1, <3>3, <4>1 DEF Moves
    <3> QED
      BY <1>1, <3>1, <3>2, <3>3
  <2>2. /\ \A q, r \in patches : q.chat = r.chat => q = r
        /\ \A c \in Chats : Exists(c) =>
             /\ view.source = c => Expected[c] = view.draft
             /\ ~(view.source = c /\ view.timer) => SavedOrSent(c)
    BY <2>1, HeldNow DEF WsInv
  <2>3. \A q, r \in patches' : q.chat = r.chat => q = r
    BY <1>1, <2>2
  <2>4. \A q \in patches' : q.chat # p.chat
    BY <1>1, <2>2
  <2>5. saved'[p.chat] = p.text /\ ~InFlight(p.chat)'
    BY <1>2, <2>1, <2>4, WsParts DEF InFlight
  <2>6. ASSUME NEW c \in Chats, c # p.chat, SavedOrSent(c) PROVE SavedOrSent(c)'
    BY <1>1, <1>4, <2>6 DEF SavedOrSent, InFlight
  <2>7. ASSUME SavedOrSent(p.chat) PROVE SavedOrSent(p.chat)'
    <3>1. p.text = Expected[p.chat]
      BY <2>7 DEF SavedOrSent, InFlight
    <3> QED
      BY <1>1, <1>2, <2>5, <3>1 DEF SavedOrSent
  <2>8. \A c \in Chats : SavedOrSent(c) => SavedOrSent(c)'
    BY <2>6, <2>7
  <2>9. ASSUME NEW c \in Chats, saved'[c] \in Drafts
        PROVE  /\ view'.source = c => Expected[c] = view'.draft
               /\ ~(view'.source = c /\ view'.timer) => SavedOrSent(c)'
    <3>0. Exists(c)
      BY <1>4, <2>9 DEF Exists
    <3>1. CASE view' = view
      BY <2>2, <2>8, <3>0, <3>1
    <3>2. CASE view' = Mounted /\ ~(view.source = c /\ view.timer)
      BY <2>2, <2>8, <3>0, <3>2, MountedView
    <3>3. CASE view' = Mounted /\ view.source = c /\ view.timer
      <4>1. c = p.chat /\ p.text = Expected[c]
        BY <2>1, <2>2, <3>0, <3>3, MountedView
      <4>2. SavedOrSent(c)'
        BY <1>1, <2>5, <4>1 DEF SavedOrSent
      <4> QED
        BY <3>3, <4>2, MountedView
    <3> QED
      BY <2>1, <3>1, <3>2, <3>3
  <2> QED
    BY <2>3, <2>9
<1> QED
  BY <1>7, <1>8, <1>9, <1>10, <1>11 DEF WsInv

LEMMA WorkspaceStart == WorkspaceInit => WsInv
<1> SUFFICES ASSUME WorkspaceInit PROVE WsInv
  OBVIOUS
<1>1. /\ saved \in [Chats -> {Blank, Absent}] /\ meant = [c \in Chats |-> Blank] /\ view = Mounted
      /\ discarded = {}
      /\ page \in Pages \cup {GalleryPage} /\ signedIn \in BOOLEAN /\ patches = {}
      /\ pendingIntent = NoIntent /\ restoredIntent = NoIntent /\ posting = "none" /\ edits = 0
      /\ careless = FALSE /\ wiped = FALSE
  BY DEF WorkspaceInit
<1>e. \A c \in Chats : Expected[c] = Blank
  BY <1>1 DEF Expected
<1>2. Blank \in Drafts /\ NoIntent \in Intents /\ IntentApart(NoIntent)
  BY DEF Drafts, Intents, IntentApart, NoIntent, Own
<1>3. WorkspaceTypeOK
  <2>1. saved \in [Chats -> Drafts \cup {Absent, Removed}] /\ meant \in [Chats -> Drafts]
    BY <1>1, <1>2
  <2>2. edits \in 0 .. MaxEdits
    BY <1>1, WorkspaceAssumption
  <2> QED
    BY <1>1, <1>2, <2>1, <2>2, MountedView DEF WorkspaceTypeOK
<1>4. ShownIsPage
  BY <1>1, MountedView DEF ShownIsPage
<1>5. TextsApart
  BY <1>1, <1>2, MountedView DEF TextsApart, DraftsStayApart, Own
<1>6. \A c \in Chats : ~InFlight(c)
  BY <1>1 DEF InFlight
<1>7. AbsentUntouched
  BY <1>e, <1>1, <1>6, MountedView DEF AbsentUntouched
<1>8. Held
  <2>1. \A c \in Chats : Exists(c) => saved[c] = Expected[c]
    BY <1>e, <1>1, WorkspaceAssumption DEF Exists
  <2> QED
    BY <1>1, <1>6, <2>1, MountedView DEF Held, SavedOrSent
<1> QED
  BY <1>3, <1>4, <1>5, <1>7, <1>8 DEF WsInv

LEMMA WorkspaceInvariant == WorkspaceSpec => []WsInv
<1>1. WsInv /\ WorkspaceNext => WsInv'
  <2> SUFFICES ASSUME WsInv, WorkspaceNext PROVE WsInv'
    OBVIOUS
  <2>1. ASSUME OpenChat PROVE WsInv'
    BY <2>1, DepartStep DEF OpenChat, Pages
  <2>2. ASSUME OpenNewSession PROVE WsInv'
    BY <2>2, DepartStep DEF OpenNewSession, Pages
  <2> QED
    BY <2>1, <2>2, LoginSteps, AnswerStep, RemoveStep, LoadStep, TypeStep, SubmitStep, RerunStep, AutosaveStep,
       ServeStep DEF WorkspaceNext
<1>2. WsInv /\ UNCHANGED wvars => WsInv'
  <2> SUFFICES ASSUME WsInv, UNCHANGED wvars PROVE WsInv'
    OBVIOUS
  <2>1. UNCHANGED <<saved, meant, discarded, signedIn, pendingIntent, restoredIntent, page, view, patches,
                    posting, edits, careless, wiped>>
    BY DEF wvars
  <2>2. SameView /\ DraftsStayApart'
    BY <2>1, WsParts DEF SameView, DraftsStayApart
  <2> QED
    BY <2>1, <2>2, WsParts, SameExpected, QuietSteps DEF OtherColumns
<1> QED
  BY <1>1, <1>2, WorkspaceStart, PTL DEF WorkspaceSpec

(* A page, a draft, a request and an intent are ones the client can hold.  *)
THEOREM WorkspaceTypesCorrect == WorkspaceSpec => []WorkspaceTypeOK
<1>1. WsInv => WorkspaceTypeOK
  BY DEF WsInv
<1> QED
  BY <1>1, WorkspaceInvariant, PTL

(* For any number of conversations and texts: no text ever ends up in the  *)
(* draft of another conversation, and when nothing is on its way the       *)
(* server has what was typed last, unless the user was too fast, a login   *)
(* wiped it or "generate again" emptied the composer of it                 *)
(* (persistCurrentDraft, the autosave's effect, consumeRestoredIntent,     *)
(* submitDraft).                                                           *)
THEOREM DraftsAreInOrder == WorkspaceSpec => []DraftsInOrder
<1>1. WsInv => DraftsInOrder
  <2> SUFFICES ASSUME WsInv PROVE DraftsInOrder
    OBVIOUS
  <2>1. ASSUME ~wiped, NEW c \in Chats, Quiet(c), Exists(c), ~careless PROVE saved[c] = Expected[c]
    <3>1. ~InFlight(c) /\ ~(view.source = c /\ view.timer)
      BY <2>1, WorkspaceAssumption DEF Quiet, WsInv, ShownIsPage
    <3>2. SavedOrSent(c)
      BY <2>1, <3>1, HeldNow DEF WsInv
    <3> QED
      BY <3>1, <3>2 DEF SavedOrSent
  <2> QED
    BY <2>1 DEF WsInv, TextsApart, DraftsInOrder, DraftKept, Kept
<1> QED
  BY <1>1, WorkspaceInvariant, PTL

-----------------------------------------------------------------------------
(* The studio together (MCStudio): every story is one of each component.   *)

LEMMA StudioTell ==
  StudioSpec => ReviewSpec /\ OutputSpec /\ ProviderSpec /\ CatalogSpec /\ WorkspaceSpec
<1>1. StudioInit => ReviewInit /\ OutputInit /\ ProviderInit /\ CatalogInit /\ WorkspaceInit
  BY DEF StudioInit
<1> DEFINE Told == ReviewsStory \/ ImagesStory \/ CallsStory \/ CatalogueStory \/ WorkspaceStory
<1>2. [Told]_studioVars => [ReviewNext]_reviewVars
  BY DEF ReviewsStory, ImagesStory, CallsStory, CatalogueStory, WorkspaceStory, studioVars
<1>3. [Told]_studioVars => [OutputNext]_outputVars
  BY DEF ReviewsStory, ImagesStory, CallsStory, CatalogueStory, WorkspaceStory, studioVars
<1>4. [Told]_studioVars => [ProviderNext]_callVars
  BY DEF ReviewsStory, ImagesStory, CallsStory, CatalogueStory, WorkspaceStory, studioVars
<1>5. [Told]_studioVars => [CatalogNext]_mvars
  BY DEF ReviewsStory, ImagesStory, CallsStory, CatalogueStory, WorkspaceStory, studioVars
<1>6. [Told]_studioVars => [WorkspaceNext]_wvars
  BY DEF ReviewsStory, ImagesStory, CallsStory, CatalogueStory, WorkspaceStory, studioVars
<1> QED
  BY <1>1, <1>2, <1>3, <1>4, <1>5, <1>6, PTL
  DEF StudioSpec, ReviewSpec, OutputSpec, ProviderSpec, CatalogSpec, WorkspaceSpec

(* No row of a task's reviews, images, calls and models, and nothing the   *)
(* workspace shows, takes a value it may not have.                         *)
THEOREM StudioTypesCorrect == StudioSpec => []StudioTypeOK
BY StudioTell, ReviewsTypeCorrect, OutputsTypeCorrect, CallsTypeCorrect, CatalogTypesCorrect,
   WorkspaceTypesCorrect, PTL DEF StudioTypeOK

=============================================================================
