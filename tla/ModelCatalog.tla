---------------------------- MODULE ModelCatalog -----------------------------
(***************************************************************************)
(* Providers, models, the routes between them and the versions of a        *)
(* model's configuration: what the administration changes and what         *)
(* resolve() answers when a task is created.                               *)
(*                                                                         *)
(* An operation reads what its checks need and commits later.  outdated    *)
(* says that some operation has committed although what it had read was    *)
(* changed meanwhile; op[q].valid that this has not happened to q.         *)
(***************************************************************************)
EXTENDS Integers, FiniteSets, FiniteSetsExt, Tally
CONSTANTS Providers, Models, Revisions, Window, Ranks, Operations
VARIABLES provider, model, route, revision, op, outdated

mvars == <<provider, model, route, revision, op, outdated>>

ASSUME CatalogAssumption == /\ Revisions \subseteq Nat /\ IsFiniteSet(Revisions)
                            /\ IsFiniteSet(Providers)
                            /\ Window \in Nat \ {0}
                            /\ Ranks \subseteq [weight : Nat, priority : Nat]

Health == {"unknown", "healthy", "unhealthy"}
NoRoute == [state |-> "none", health |-> "unknown", rank |-> [weight |-> 0, priority |-> 0]]
Free == [kind |-> "free"]

(* checked: the health was found for the connection as it is now.          *)
CatalogInit ==
  /\ provider = [p \in Providers |-> [status |-> "NONE", health |-> "unknown", checked |-> FALSE]]
  /\ model = [m \in Models |-> "NONE"]
  /\ route = [m \in Models |-> [p \in Providers |-> NoRoute]]
  /\ revision = [m \in Models |-> [v \in Revisions |-> "none"]]
  /\ op = [q \in Operations |-> Free]
  /\ outdated = FALSE

Reads(q, r) == op[q] = Free /\ op' = [op EXCEPT ![q] = r]

(* q is done; the operations in S have read something that has changed.    *)
DoneAndOutdates(q, S) ==
  /\ outdated' = (outdated \/ ~op[q].valid)
  /\ op' = [o \in Operations |-> IF o = q THEN Free
                                 ELSE IF o \in S THEN [op[o] EXCEPT !.valid = FALSE]
                                 ELSE op[o]]
Outdates(S) == op' = [o \in Operations |-> IF o \in S THEN [op[o] EXCEPT !.valid = FALSE] ELSE op[o]]

AboutProvider(p) == {q \in Operations : op[q].kind \in {"probe", "model", "route"} /\ op[q].provider = p}
AboutModel(m) == {q \in Operations : op[q].kind \in {"publish", "rollback"} /\ op[q].model = m}

-----------------------------------------------------------------------------
(* Providers.                                                              *)
CreateProvider(p) ==
  /\ provider[p].status = "NONE"
  /\ provider' = [provider EXCEPT ![p].status = "ACTIVE"]
  /\ UNCHANGED <<model, route, revision, op, outdated>>

Unchecked(p, status) == [status |-> status, health |-> "unknown", checked |-> FALSE]

(* Any change of a connection makes its health unknown and closes every    *)
(* route that uses it.                                                     *)
UpdateProvider(p, status) ==
  /\ provider[p].status # "NONE"
  /\ provider' = [provider EXCEPT ![p] = Unchecked(p, status)]
  /\ route' = [m \in Models |->
                 IF route[m][p].state = "none" THEN route[m]
                 ELSE [route[m] EXCEPT ![p].state = "disabled", ![p].health = "unknown"]]
  /\ Outdates(AboutProvider(p) \cup UNION {AboutModel(m) : m \in Models})
  /\ UNCHANGED <<model, revision, outdated>>

(* The probe goes to the address that was read, and takes its time.        *)
ProbeProvider(q, p) ==
  /\ provider[p].status # "NONE"
  /\ Reads(q, [kind |-> "probe", provider |-> p, valid |-> TRUE])
  /\ UNCHANGED <<provider, model, route, revision, outdated>>

Judged(r, health) ==
  IF r.state = "none" THEN r
  ELSE [r EXCEPT !.health = health, !.state = IF health = "unhealthy" THEN "disabled" ELSE @]

SaveProviderHealth(q, health) ==
  LET p == op[q].provider
  IN /\ op[q].kind = "probe"
     /\ provider' = [provider EXCEPT ![p].health = health, ![p].checked = op[q].valid]
     /\ route' = [m \in Models |-> [route[m] EXCEPT ![p] = Judged(@, health)]]
     /\ DoneAndOutdates(q, AboutProvider(p) \cup UNION {AboutModel(m) : m \in Models})
     /\ UNCHANGED <<model, revision>>

-----------------------------------------------------------------------------
(* Models and routes.                                                      *)
ReadForModel(q, m, p, rank) ==
  /\ model[m] = "NONE" /\ provider[p].status = "ACTIVE"
  /\ Reads(q, [kind |-> "model", model |-> m, provider |-> p, rank |-> rank,
               health |-> provider[p].health, valid |-> TRUE])
  /\ UNCHANGED <<provider, model, route, revision, outdated>>

(* The model, a closed route to its provider, and version 1; or, when its  *)
(* code was taken meanwhile, nothing.                                      *)
CreateModel(q) ==
  LET o == op[q]
  IN /\ o.kind = "model"
     /\ IF model[o.model] = "NONE"
        THEN /\ model' = [model EXCEPT ![o.model] = "DRAFT"]
             /\ route' = [route EXCEPT ![o.model][o.provider] =
                            [state |-> "disabled", health |-> o.health, rank |-> o.rank]]
             /\ revision' = [revision EXCEPT ![o.model] =
                               [v \in Revisions |-> IF v = Min(Revisions) THEN "DRAFT" ELSE "none"]]
             /\ DoneAndOutdates(q, {})
        ELSE op' = [op EXCEPT ![q] = Free] /\ UNCHANGED <<model, route, revision, outdated>>
     /\ UNCHANGED provider

(* The service's check and the transaction's.                              *)
ReadForRoute(q, m, p, enabled, rank) ==
  /\ model[m] # "NONE" /\ provider[p].status = "ACTIVE"
  /\ enabled => provider[p].health = "healthy"
  /\ Reads(q, [kind |-> "route", model |-> m, provider |-> p, enabled |-> enabled,
               rank |-> rank, health |-> provider[p].health,
               valid |-> TRUE])
  /\ UNCHANGED <<provider, model, route, revision, outdated>>

UpsertRoute(q) ==
  LET o == op[q]
      old == route[o.model][o.provider]
  IN /\ o.kind = "route"
     /\ route' = [route EXCEPT ![o.model][o.provider] =
                    [state |-> IF o.enabled THEN "enabled" ELSE "disabled",
                     health |-> IF old.state = "none" THEN o.health ELSE old.health,
                     rank |-> o.rank]]
     /\ DoneAndOutdates(q, AboutModel(o.model))
     /\ UNCHANGED <<provider, model, revision>>

-----------------------------------------------------------------------------
(* Versions.  Every query includes the newest Window of them only.         *)
Existing(m) == {v \in Revisions : revision[m][v] # "none"}
InWindow(m) == {v \in Existing(m) : Cardinality({w \in Existing(m) : w > v}) < Window}
InForce(m) == {v \in Revisions : revision[m][v] = "PUBLISHED"}

CreateVersion(m) ==
  /\ model[m] # "NONE" /\ Existing(m) # Revisions
  /\ revision' = [revision EXCEPT ![m][Min(Revisions \ Existing(m))] = "DRAFT"]
  /\ UNCHANGED <<provider, model, route, op, outdated>>

Serves(m, p) == route[m][p].state = "enabled" /\ route[m][p].health = "healthy"
                /\ provider[p].status = "ACTIVE"

ReadForPublish(q, m, v) ==
  /\ model[m] # "NONE" /\ revision[m][v] # "none"
  /\ \E p \in Providers : Serves(m, p)
  /\ Reads(q, [kind |-> "publish", model |-> m, version |-> v, old |-> InForce(m), valid |-> TRUE])
  /\ UNCHANGED <<provider, model, route, revision, outdated>>

(* A plausible slip, for a mutant of ToForce: the old one is left in force.*)
OneMore(m, v, old) == [revision EXCEPT ![m][v] = "PUBLISHED"]
(* Another: what was in force is taken out after the new one was put in.   *)
ArchivesLast(m, v, old) ==
  [revision EXCEPT ![m] = [w \in Revisions |-> IF w = v \/ w \in old THEN "ROLLED_BACK" ELSE @[w]]]
ToForce(m, v, old) ==
  [revision EXCEPT ![m] = [w \in Revisions |-> IF w = v THEN "PUBLISHED"
                                               ELSE IF w \in old THEN "ROLLED_BACK" ELSE @[w]]]

(* The first update may find what was in force when q began, or what is    *)
(* now: it does not see what others commit after it.                       *)
Replaced(q) == {op[q].old, InForce(op[q].model)}

Opens(m, p) == route[m][p].state # "none" /\ provider[p].status = "ACTIVE"

(* Publishing opens every route of the model to an ACTIVE provider, the    *)
(* ones closed by hand and the unhealthy ones included.                    *)
Publish(q) ==
  LET m == op[q].model
  IN /\ op[q].kind = "publish"
     /\ \E old \in Replaced(q) : revision' = ToForce(m, op[q].version, old)
     /\ model' = [model EXCEPT ![m] = "PUBLISHED"]
     /\ route' = [route EXCEPT ![m] = [p \in Providers |->
                    IF Opens(m, p) THEN [@[p] EXCEPT !.state = "enabled"] ELSE @[p]]]
     /\ DoneAndOutdates(q, AboutModel(m))
     /\ UNCHANGED provider

(* The newest version below the one in force, whatever its status; when    *)
(* none in the window is in force, the newest of all.                      *)
Previous(m) == {v \in InWindow(m) : \A w \in InForce(m) \cap InWindow(m) : v < w}

ReadForRollback(q, m) ==
  /\ Previous(m) # {}
  /\ Reads(q, [kind |-> "rollback", model |-> m, version |-> Max(Previous(m)), old |-> InForce(m),
               valid |-> TRUE])
  /\ UNCHANGED <<provider, model, route, revision, outdated>>

Rollback(q) ==
  LET m == op[q].model
  IN /\ op[q].kind = "rollback"
     /\ \E old \in Replaced(q) : revision' = ToForce(m, op[q].version, old)
     /\ DoneAndOutdates(q, AboutModel(m))
     /\ UNCHANGED <<provider, model, route>>

-----------------------------------------------------------------------------
(* resolve(): a pure choice among the routes; slot is the hash of the      *)
(* routing key modulo the sum of their weights.                            *)
Best(m) ==
  LET open == {p \in Providers : Serves(m, p) /\ route[m][p].rank.weight > 0}
  IN {p \in open : \A r \in open : route[m][p].rank.priority <= route[m][r].rank.priority}

TotalWeight(S, m) == Tally([p \in S |-> route[m][p].rank.weight])

(* Routes of equal priority come in some order.                            *)
Position == CHOOSE f \in [Providers -> 1 .. Cardinality(Providers)] :
              \A p, r \in Providers : f[p] = f[r] => p = r
Before(p, m) == {r \in Best(m) : Position[r] < Position[p]}

Takes(p, m, slot) == TotalWeight(Before(p, m) \cup {p}, m) > slot
ResolvedRoute(m, slot) ==
  CHOOSE p \in Best(m) : Takes(p, m, slot) /\ \A r \in Before(p, m) : ~Takes(r, m, slot)

-----------------------------------------------------------------------------
CatalogNext ==
  \/ \E p \in Providers : \/ CreateProvider(p)
                          \/ \E s \in {"ACTIVE", "DISABLED"} : UpdateProvider(p, s)
  \/ \E m \in Models : CreateVersion(m)
  \/ \E q \in Operations :
       \/ \E p \in Providers :
            \/ ProbeProvider(q, p)
            \/ \E m \in Models, r \in Ranks :
                 \/ ReadForModel(q, m, p, r)
                 \/ \E enabled \in BOOLEAN : ReadForRoute(q, m, p, enabled, r)
       \/ \E h \in {"healthy", "unhealthy"} : SaveProviderHealth(q, h)
       \/ \E m \in Models : ReadForRollback(q, m) \/ \E v \in Revisions : ReadForPublish(q, m, v)
       \/ CreateModel(q) \/ UpsertRoute(q) \/ Publish(q) \/ Rollback(q)

CatalogSpec == CatalogInit /\ [][CatalogNext]_mvars

-----------------------------------------------------------------------------
(* Every row has the values its columns allow, and a published model has a *)
(* version in force.                                                       *)
CatalogTypeOK ==
  /\ provider \in [Providers -> [status : {"NONE", "ACTIVE", "DISABLED"}, health : Health,
                                 checked : BOOLEAN]]
  /\ model \in [Models -> {"NONE", "DRAFT", "PUBLISHED"}]
  /\ route \in [Models -> [Providers -> [state : {"none", "enabled", "disabled"}, health : Health,
                                         rank : [weight : Nat, priority : Nat]]]]
  /\ revision \in [Models -> [Revisions -> {"none", "DRAFT", "PUBLISHED", "ROLLED_BACK"}]]
  /\ \A m \in Models : model[m] = "PUBLISHED" => InForce(m) # {}

(* A model has one version in force, unless two changes of it overlapped.  *)
OneInForce == outdated \/ \A m \in Models : Cardinality(InForce(m)) <= 1

(* The copy of the health that the routes keep is their provider's, unless *)
(* a route or a model was written on a health read before a change.        *)
RoutesKnowHealth ==
  outdated \/ \A m \in Models, p \in Providers :
                route[m][p].state # "none" => route[m][p].health = provider[p].health

(* No task is sent to a provider that is disabled or whose connection was  *)
(* changed without being checked again, unless a probe or a route was      *)
(* overtaken by the change.                                                *)
OnlyCheckedServe ==
  outdated \/ \A m \in Models, p \in Providers :
                /\ route[m][p].state = "enabled" => provider[p].status # "DISABLED"
                /\ Serves(m, p) => provider[p].checked

(* Of all routing keys each route of the best priority gets its weight.    *)
WeightsHonoured ==
  \A m \in Models : Best(m) # {} =>
    LET slots == 0 .. TotalWeight(Best(m), m) - 1
    IN \A p \in Best(m) :
         Cardinality({s \in slots : ResolvedRoute(m, s) = p}) = route[m][p].rank.weight

(* A task that is created finds one version of its model, and a route that *)
(* was checked, by its weight (publish, saveProviderHealth, resolve).      *)
CatalogueInOrder ==
  OneInForce /\ RoutesKnowHealth /\ OnlyCheckedServe /\ WeightsHonoured
=============================================================================
