------------------------------ MODULE PriceRules ------------------------------
(***************************************************************************)
(* What an image costs: versions of the billing rule, their promotions,    *)
(* and the quote a task is created with.  PaidBilling takes the price of   *)
(* an image for given; here it is made, published and asked for.           *)
(***************************************************************************)
EXTENDS Integers, FiniteSets, FiniteSetsExt

CONSTANTS
  MaxRuleVersion,  (* BOUND: versions of the rule.                        *)
  UnitPrices,      (* What a version may charge for an image.             *)
  Promotions,      (* Promotion codes.                                    *)
  Discounts,       (* In hundredths of a percent.                         *)
  Administrators,  (* Each publishes one version at a time.               *)
  Buyers,          (* Each asks for one quote at a time.                  *)
  ImageCounts,
  NoPrice

ASSUME PriceAssumption ==
  /\ MaxRuleVersion \in Nat \ {0}
  /\ UnitPrices \subseteq Nat \ {0} /\ UnitPrices # {}
  /\ Discounts \subseteq 0..10000
  /\ ImageCounts \subseteq 1..8
  /\ NoPrice \notin [unit : UnitPrices, status : {"DRAFT", "PUBLISHED", "ARCHIVED"}]

RuleVersions == 1..MaxRuleVersion

VARIABLES
  rules,          (* rules[v]: version v of the rule, or NoPrice.         *)
  promotion,      (* promotion[d]: its row, or NoPrice.                   *)
  publication,    (* publication[a]: what a's transaction has read.       *)
  quote           (* quote[b]: the last answer to b, or NoPrice.          *)

priceVars == <<rules, promotion, publication, quote>>

(* The migration inserts version 1, published. *)
PriceInit ==
  /\ \E p \in UnitPrices :
       rules = [v \in RuleVersions |->
                  IF v = 1 THEN [unit |-> p, status |-> "PUBLISHED"] ELSE NoPrice]
  /\ promotion = [d \in Promotions |-> NoPrice]
  /\ publication = [a \in Administrators |-> NoPrice]
  /\ quote = [b \in Buyers |-> NoPrice]

Existing == {v \in RuleVersions : rules[v] # NoPrice}

PublishedRules == {v \in Existing : rules[v].status = "PUBLISHED"}

(* The unique version makes one of two overlapping creations fail. *)
CreateBillingRule(p) ==
  LET v == Max(Existing) + 1 IN
  /\ v \in RuleVersions
  /\ rules' = [rules EXCEPT ![v] = [unit |-> p, status |-> "DRAFT"]]
  /\ UNCHANGED <<promotion, publication, quote>>

(* Mutant: an unknown version is noticed when all others are archived.     *)
ReadsUnchecked(a, v) ==
  /\ publication[a] = NoPrice
  /\ publication' = [publication EXCEPT ![a] = [version |-> v, archives |-> PublishedRules]]
  /\ rules' = [w \in RuleVersions |->
       IF w \in PublishedRules THEN [rules[w] EXCEPT !.status = "ARCHIVED"] ELSE rules[w]]
  /\ UNCHANGED <<promotion, quote>>

(* A publication archives the versions its statement finds published.      *)
ReadPublished(a, v) ==
  /\ publication[a] = NoPrice
  /\ publication' = [publication EXCEPT ![a] = [version |-> v, archives |-> PublishedRules]]
  /\ UNCHANGED <<rules, promotion, quote>>

(* Any existing version may be published, archived ones included; one that *)
(* another transaction has published in between is not seen.               *)
CommitPublication(a) ==
  LET x == publication[a] IN
  /\ x # NoPrice
  /\ x.version \in Existing
  /\ rules' = [v \in RuleVersions |->
       CASE v = x.version -> [rules[v] EXCEPT !.status = "PUBLISHED"]
         [] v \in x.archives \ {x.version} -> [rules[v] EXCEPT !.status = "ARCHIVED"]
         [] OTHER -> rules[v]]
  /\ publication' = [publication EXCEPT ![a] = NoPrice]
  /\ UNCHANGED <<promotion, quote>>

(* An unknown version, or a lost connection, rolls the transaction back.   *)
AbortPublication(a) ==
  /\ publication[a] # NoPrice
  /\ publication' = [publication EXCEPT ![a] = NoPrice]
  /\ UNCHANGED <<rules, promotion, quote>>

(* A promotion is always created as a draft, for one version of the rule;  *)
(* there is no operation that publishes it.                                *)
CreatePromotion(d, v, bps) ==
  /\ promotion[d] = NoPrice
  /\ v \in Existing
  /\ promotion' = [promotion EXCEPT ![d] = [version |-> v, discount |-> bps, status |-> "DRAFT"]]
  /\ UNCHANGED <<rules, publication, quote>>

-----------------------------------------------------------------------------
(* calculateBillingQuote: the discount on the total is rounded down, and   *)
(* so is the price of an image.                                            *)
CalculateQuote(n, unit, bps) ==
  LET standard == unit * n
      total == standard - (standard * bps) \div 10000
  IN  [total |-> total, unit |-> total \div n]

(* Of several published versions the latest counts. *)
InForceRule == Max(PublishedRules)

Applies(d) ==
  /\ promotion[d] # NoPrice
  /\ promotion[d].version = InForceRule
  /\ promotion[d].status = "PUBLISHED"

(* A quote without a code, or with one that applies. *)
Quote(b, n) ==
  /\ PublishedRules # {}
  /\ \E bps \in {0} \cup {promotion[d].discount : d \in {e \in Promotions : Applies(e)}} :
       quote' = [quote EXCEPT ![b] = CalculateQuote(n, rules[InForceRule].unit, bps)]
  /\ UNCHANGED <<rules, promotion, publication>>

(* The task is created with the quote, and asks for another one next time. *)
UseQuote(b) ==
  /\ quote[b] # NoPrice
  /\ quote' = [quote EXCEPT ![b] = NoPrice]
  /\ UNCHANGED <<rules, promotion, publication>>

PriceNext ==
  \/ \E p \in UnitPrices : CreateBillingRule(p)
  \/ \E a \in Administrators, v \in RuleVersions : ReadPublished(a, v)
  \/ \E a \in Administrators : CommitPublication(a) \/ AbortPublication(a)
  \/ \E d \in Promotions, v \in RuleVersions, bps \in Discounts : CreatePromotion(d, v, bps)
  \/ \E b \in Buyers, n \in ImageCounts : Quote(b, n)
  \/ \E b \in Buyers : UseQuote(b)

PriceSpec == PriceInit /\ [][PriceNext]_priceVars

-----------------------------------------------------------------------------
(* Properties.                                                             *)

(* Every row has the values its columns allow (schema.prisma).             *)
PriceTypeOK ==
  /\ rules \in [RuleVersions ->
       [unit : UnitPrices, status : {"DRAFT", "PUBLISHED", "ARCHIVED"}] \cup {NoPrice}]
  /\ promotion \in [Promotions ->
       [version : RuleVersions, discount : Discounts, status : {"DRAFT"}] \cup {NoPrice}]
  /\ publication \in [Administrators ->
       [version : RuleVersions, archives : SUBSET RuleVersions] \cup {NoPrice}]

(* However publications overlap and fail, some version is in force and an  *)
(* image has a price: no request for a quote meets a shop without one.     *)
AlwaysPriced == PublishedRules # {}

=============================================================================
