--------------------------- MODULE CustomersProofs ---------------------------
(***************************************************************************)
(* What holds of the customers' accounts, sessions, rules, images and      *)
(* privacy requests for any number of them, of requests that overlap and   *)
(* of clean-ups at work, whatever storage or database fails; and what the  *)
(* pages of the administration promise, for any rows and late answers.     *)
(*                                                                         *)
(* CustomersInv is inductive: beside what is promised it says what a       *)
(* request has read and what of it is still so while nobody overtook it.   *)
(***************************************************************************)
EXTENDS MCCustomers, SequenceTheorems, WellFoundedInduction, TallyProofs

-----------------------------------------------------------------------------
(* The inductive invariant.                                                *)

CodeRows == [kind : {"code"}, phone : Phones]
LoginRows == [kind : {"login", "wrong"}, code : Codes]
SessionRows == [kind : {"session"}, user : Users, code : Codes, fresh : BOOLEAN]
HitRows == [kind : {"hit"}, user : Users, key : Keys, action : RiskAction, fresh : BOOLEAN]
PublishRows == [kind : {"publish"}, version : Versions, old : SUBSET Versions, fresh : BOOLEAN]
UploadRows == [kind : {"upload"}, user : Users, object : Uploads, fresh : BOOLEAN]
PrivateRows == [kind : {"private"}, user : Users, type : {"DELETE", "EXPORT"}, fresh : BOOLEAN]
DeletionRows == [kind : {"deletion"}, request : PrivacyIds, user : Users,
                 phone : Phones \cup {Gone}, fresh : BOOLEAN]

(* What a request has read.                                                *)
PendingRows ==
  {Rest} \cup CodeRows \cup LoginRows \cup SessionRows \cup HitRows \cup PublishRows
    \cup UploadRows \cup PrivateRows \cup DeletionRows

(* A code that was presented cannot be presented again.                    *)
Past(c) == code[c].state \notin {"none", "open"}

Reachable(u) == user[u].phone # Gone

(* What a request has read, and what of it is still so while it is fresh.  *)
RowOK(r) ==
  /\ r \in PendingRows
  /\ r.kind = "session" =>
       /\ Past(r.code) /\ \A s \in seats : s.code # r.code
       /\ r.fresh => Reachable(r.user) /\ ~Barred(r.user)
  /\ r.kind = "publish" /\ r.fresh => Published \subseteq r.old
  /\ r.kind = "upload" =>
       /\ upload[r.object].state = "none" /\ r.object \in objects
       /\ r.fresh => overtaken \/ Reachable(r.user)

(* No two requests open a session with one code or have stored one object. *)
Apart ==
  \A p, q \in Requests : pending[p].kind = pending[q].kind =>
    /\ pending[p].kind = "session" /\ pending[p].code = pending[q].code => p = q
    /\ pending[p].kind = "upload" /\ pending[p].object = pending[q].object => p = q

PendingOK ==
  /\ pending \in [Requests -> PendingRows]
  /\ \A q \in Requests : RowOK(pending[q])
  /\ Apart

(* Those about to count a wrong guess; nobody begins to once it is one too *)
(* many.                                                                   *)
Guesses(c) == {q \in Requests : pending[q].kind = "wrong" /\ pending[q].code = c}

AttemptsOK ==
  \A c \in Codes :
    code[c].attempts + Cardinality(Guesses(c)) <= MaxAttempts + Cardinality(Requests) - 1

UserRowsOK ==
  /\ user \in [Users -> [status : UserStatus, phone : Phones \cup {Gone}]]
  /\ code \in [Codes -> [state : {"none", "open", "used", "lapsed", "deleted"},
                         phone : Phones \cup {Gone}, attempts : Nat]]
  /\ seats \subseteq [user : Users, code : Codes, by : Requests]
  /\ rule \in [Versions -> [state : {"absent", "DRAFT", "PUBLISHED", "ARCHIVED"},
                            action : RiskAction]]
  /\ hit \in [Users -> [Keys -> RiskAction \cup {NoHit}]]
  /\ overtaken \in BOOLEAN
  /\ \A u, v \in Users : user[u].phone = user[v].phone /\ user[u].phone # Gone => u = v
  /\ \A c \in Codes : code[c].state = "open" => code[c].phone # Gone

SeatsOK ==
  /\ OneSessionPerCode /\ BarredSignedOut
  /\ \A s \in seats : Past(s.code)

OneInForce == overtaken \/ \A v, w \in Published : v = w

(* What a clean-up is about to remove is on its way out, or gone.          *)
CleanersOK ==
  \A w \in Cleaners :
    /\ \A i \in cleaner[w].todo : upload[i].state \in {"due", "removed"}
    /\ cleaner[w].at # Nothing =>
         upload[cleaner[w].at].state \in {"due", "removed"} /\ cleaner[w].at \notin objects

PrivacyOK ==
  /\ PrivacyTypeOK
  /\ failures \in Nat
  /\ \A r \in PrivacyIds : privacy[r].status \in {"REQUESTED", "PROCESSING"} => privacy[r].user \in Users
  /\ LiveHasObject /\ CleanersOK /\ RemovedCountedOnce

CustomersInv ==
  /\ UserRowsOK /\ PendingOK /\ AttemptsOK /\ SeatsOK /\ OneInForce
  /\ PrivacyOK /\ DeletedLeavesNothing

-----------------------------------------------------------------------------
(* What requests have read, and what others do to it.                      *)

FreshKinds == {"session", "hit", "publish", "upload", "private", "deletion"}

(* A row as it is after a step of another: the same, or no longer fresh.   *)
Older(r, s) == s = r \/ s = Rest \/ (r.kind \in FreshKinds /\ s = [r EXCEPT !.fresh = FALSE])

LEMMA RowKinds ==
  ASSUME NEW r \in PendingRows
  PROVE  /\ r.kind = "rest" => r = Rest
         /\ r.kind = "code" => r \in CodeRows
         /\ r.kind \in {"login", "wrong"} => r \in LoginRows
         /\ r.kind = "session" => r \in SessionRows
         /\ r.kind = "hit" => r \in HitRows
         /\ r.kind = "publish" => r \in PublishRows
         /\ r.kind = "upload" => r \in UploadRows
         /\ r.kind = "private" => r \in PrivateRows
         /\ r.kind = "deletion" => r \in DeletionRows
BY DEF PendingRows, Rest, CodeRows, LoginRows, SessionRows, HitRows, PublishRows, UploadRows,
       PrivateRows, DeletionRows

LEMMA AgedRow ==
  ASSUME NEW r \in PendingRows, r.kind \in FreshKinds
  PROVE  LET s == [r EXCEPT !.fresh = FALSE]
         IN  /\ s \in PendingRows /\ s.kind = r.kind /\ s.fresh = FALSE
             /\ r.kind = "session" => s.code = r.code /\ s.user = r.user
             /\ r.kind = "publish" => s.old = r.old
             /\ r.kind = "upload" => s.object = r.object /\ s.user = r.user
<1>1. CASE r.kind = "session"
  <2>1. r \in SessionRows
    BY <1>1, RowKinds
  <2>2. [r EXCEPT !.fresh = FALSE] \in SessionRows
    BY <2>1 DEF SessionRows
  <2> QED
    BY <1>1, <2>1, <2>2 DEF SessionRows, PendingRows
<1>2. CASE r.kind = "hit"
  <2>1. r \in HitRows
    BY <1>2, RowKinds
  <2>2. [r EXCEPT !.fresh = FALSE] \in HitRows
    BY <2>1 DEF HitRows
  <2> QED
    BY <1>2, <2>1, <2>2 DEF HitRows, PendingRows
<1>3. CASE r.kind = "publish"
  <2>1. r \in PublishRows
    BY <1>3, RowKinds
  <2>2. [r EXCEPT !.fresh = FALSE] \in PublishRows
    BY <2>1 DEF PublishRows
  <2> QED
    BY <1>3, <2>1, <2>2 DEF PublishRows, PendingRows
<1>4. CASE r.kind = "upload"
  <2>1. r \in UploadRows
    BY <1>4, RowKinds
  <2>2. [r EXCEPT !.fresh = FALSE] \in UploadRows
    BY <2>1 DEF UploadRows
  <2> QED
    BY <1>4, <2>1, <2>2 DEF UploadRows, PendingRows
<1>5. CASE r.kind = "private"
  <2>1. r \in PrivateRows
    BY <1>5, RowKinds
  <2>2. [r EXCEPT !.fresh = FALSE] \in PrivateRows
    BY <2>1 DEF PrivateRows
  <2> QED
    BY <1>5, <2>1, <2>2 DEF PrivateRows, PendingRows
<1>6. CASE r.kind = "deletion"
  <2>1. r \in DeletionRows
    BY <1>6, RowKinds
  <2>2. [r EXCEPT !.fresh = FALSE] \in DeletionRows
    BY <2>1 DEF DeletionRows
  <2> QED
    BY <1>6, <2>1, <2>2 DEF DeletionRows, PendingRows
<1> QED
  BY <1>1, <1>2, <1>3, <1>4, <1>5, <1>6 DEF FreshKinds

LEMMA OlderRow ==
  ASSUME NEW r \in PendingRows, NEW s, Older(r, s)
  PROVE  /\ s \in PendingRows
         /\ s.kind # "rest" => s.kind = r.kind
         /\ s.kind = "session" => s.code = r.code /\ s.user = r.user /\ (s.fresh => r.fresh)
         /\ s.kind = "publish" => s.old = r.old /\ (s.fresh => r.fresh)
         /\ s.kind = "upload" => s.object = r.object /\ s.user = r.user /\ (s.fresh => r.fresh)
         /\ s.kind \in {"login", "wrong"} => s.code = r.code
<1>1. CASE s = r
  BY <1>1
<1>2. CASE s = Rest
  BY <1>2 DEF Rest, PendingRows
<1>3. CASE r.kind \in FreshKinds /\ s = [r EXCEPT !.fresh = FALSE]
  <2>1. /\ s \in PendingRows /\ s.kind = r.kind /\ s.fresh = FALSE
        /\ r.kind = "session" => s.code = r.code /\ s.user = r.user
        /\ r.kind = "publish" => s.old = r.old
        /\ r.kind = "upload" => s.object = r.object /\ s.user = r.user
    BY <1>3, AgedRow
  <2> QED
    BY <1>3, <2>1 DEF FreshKinds
<1> QED
  BY <1>1, <1>2, <1>3 DEF Older

(* The same of the next state, for a row of it.                            *)
PastNext(c) == code'[c].state \notin {"none", "open"}
ReachableNext(u) == user'[u].phone # Gone
BarredNext(u) == user'[u].status \in {"BANNED", "DELETED"}
PublishedNext == {v \in Versions : rule'[v].state = "PUBLISHED"}

RowNext(r) ==
  /\ r \in PendingRows
  /\ r.kind = "session" =>
       /\ PastNext(r.code) /\ \A s \in seats' : s.code # r.code
       /\ r.fresh => ReachableNext(r.user) /\ ~BarredNext(r.user)
  /\ r.kind = "publish" /\ r.fresh => PublishedNext \subseteq r.old
  /\ r.kind = "upload" =>
       /\ upload'[r.object].state = "none" /\ r.object \in objects'
       /\ r.fresh => overtaken' \/ ReachableNext(r.user)

LEMMA RowPrime == \A p \in Requests : RowOK(pending[p])' <=> RowNext(pending'[p])
BY DEF RowOK, RowNext, PastNext, ReachableNext, BarredNext, PublishedNext, Past, Reachable,
       Barred, Published

(* What must hold of a step for the rows it does not touch.                *)
LeavesSession(r) ==
  r.kind = "session" =>
    /\ Past(r.code) => PastNext(r.code)
    /\ \A s \in seats' : s.code = r.code => s \in seats
    /\ r.fresh /\ Reachable(r.user) /\ ~Barred(r.user) =>
         ReachableNext(r.user) /\ ~BarredNext(r.user)

LeavesPublication(r) ==
  r.kind = "publish" /\ r.fresh /\ Published \subseteq r.old => PublishedNext \subseteq r.old

LeavesUpload(r) ==
  r.kind = "upload" /\ upload[r.object].state = "none" /\ r.object \in objects =>
    /\ upload'[r.object].state = "none" /\ r.object \in objects'
    /\ r.fresh /\ (overtaken \/ Reachable(r.user)) => overtaken' \/ ReachableNext(r.user)

(* q's row is new, and does what no other is about to do; or it is one of  *)
(* those that only grow older.                                             *)
Begun(q) ==
  /\ RowNext(pending'[q])
  /\ \A p \in Requests : p # q /\ pending'[p].kind = pending'[q].kind =>
       /\ pending'[q].kind = "session" => pending'[p].code # pending'[q].code
       /\ pending'[q].kind = "upload" => pending'[p].object # pending'[q].object

LEMMA RowStays ==
  ASSUME NEW r, RowOK(r), NEW s, Older(r, s),
         LeavesSession(s), LeavesPublication(s), LeavesUpload(s)
  PROVE  RowNext(s)
<1>1. r \in PendingRows
  BY DEF RowOK
<1>2. /\ s \in PendingRows
      /\ s.kind # "rest" => s.kind = r.kind
      /\ s.kind = "session" => s.code = r.code /\ s.user = r.user /\ (s.fresh => r.fresh)
      /\ s.kind = "publish" => s.old = r.old /\ (s.fresh => r.fresh)
      /\ s.kind = "upload" => s.object = r.object /\ s.user = r.user /\ (s.fresh => r.fresh)
  BY <1>1, OlderRow
<1>3. CASE s.kind = "session"
  <2>1. /\ Past(s.code) /\ \A x \in seats : x.code # s.code
        /\ s.fresh => Reachable(s.user) /\ ~Barred(s.user)
    BY <1>2, <1>3 DEF RowOK
  <2> QED
    BY <1>2, <1>3, <2>1 DEF LeavesSession, RowNext
<1>4. CASE s.kind = "publish"
  <2>1. s.fresh => Published \subseteq s.old
    BY <1>2, <1>4 DEF RowOK
  <2> QED
    BY <1>2, <1>4, <2>1 DEF LeavesPublication, RowNext
<1>5. CASE s.kind = "upload"
  <2>1. /\ upload[s.object].state = "none" /\ s.object \in objects
        /\ s.fresh => overtaken \/ Reachable(s.user)
    BY <1>2, <1>5 DEF RowOK
  <2> QED
    BY <1>2, <1>5, <2>1 DEF LeavesUpload, RowNext
<1> QED
  BY <1>2, <1>3, <1>4, <1>5 DEF RowNext

LEMMA PendingStep ==
  ASSUME PendingOK, NEW q \in Requests,
         pending' = [p \in Requests |-> pending'[p]],
         \A p \in Requests : p # q => Older(pending[p], pending'[p]),
         Older(pending[q], pending'[q]) \/ Begun(q),
         \A p \in Requests : Older(pending[p], pending'[p]) =>
           LeavesSession(pending'[p]) /\ LeavesPublication(pending'[p]) /\ LeavesUpload(pending'[p])
  PROVE  PendingOK'
<1>1. ASSUME NEW p \in Requests PROVE RowOK(pending[p])'
  <2>1. CASE Older(pending[p], pending'[p])
    <3>1. /\ RowOK(pending[p]) /\ LeavesSession(pending'[p])
          /\ LeavesPublication(pending'[p]) /\ LeavesUpload(pending'[p])
      BY <2>1 DEF PendingOK
    <3>2. RowNext(pending'[p])
      BY <2>1, <3>1, RowStays
    <3> QED
      BY <3>2, RowPrime
  <2>2. CASE p = q /\ Begun(q)
    BY <2>2, RowPrime DEF Begun
  <2> QED
    BY <2>1, <2>2
<1>2. pending' \in [Requests -> PendingRows]
  BY <1>1 DEF RowOK
<1>3. ASSUME NEW p \in Requests, Older(pending[p], pending'[p])
      PROVE  /\ pending'[p].kind # "rest" => pending'[p].kind = pending[p].kind
             /\ pending'[p].kind = "session" => pending'[p].code = pending[p].code
             /\ pending'[p].kind = "upload" => pending'[p].object = pending[p].object
  <2>1. pending[p] \in PendingRows
    BY DEF PendingOK
  <2> QED
    BY <1>3, <2>1, OlderRow
<1>4. ASSUME NEW p \in Requests, NEW x \in Requests, pending'[p].kind = pending'[x].kind
      PROVE  /\ pending'[p].kind = "session" /\ pending'[p].code = pending'[x].code => p = x
             /\ pending'[p].kind = "upload" /\ pending'[p].object = pending'[x].object => p = x
  <2>1. CASE Older(pending[p], pending'[p]) /\ Older(pending[x], pending'[x])
    BY <1>3, <1>4, <2>1 DEF PendingOK, Apart
  <2>2. CASE p = q /\ x # q /\ Begun(q)
    BY <1>4, <2>2 DEF Begun
  <2>3. CASE x = q /\ p # q /\ Begun(q)
    BY <1>4, <2>3 DEF Begun
  <2> QED
    BY <2>1, <2>2, <2>3
<1>5. Apart'
  BY <1>4 DEF Apart
<1> QED
  BY <1>1, <1>2, <1>5 DEF PendingOK

(* How the requests change when one of them begins or ends.                *)
LEMMA BeginShape ==
  ASSUME PendingOK, NEW q \in Requests, NEW r, Begins(q, r)
  PROVE  /\ pending' = [p \in Requests |-> pending'[p]] /\ pending'[q] = r
         /\ \A p \in Requests : p # q => pending'[p] = pending[p]
         /\ \A p \in Requests : p # q => Older(pending[p], pending'[p])
         /\ pending[q] = Rest
BY DEF PendingOK, Begins, Older

LEMMA EndShape ==
  ASSUME PendingOK, NEW q \in Requests, Ends(q)
  PROVE  /\ pending' = [p \in Requests |-> pending'[p]] /\ pending'[q] = Rest
         /\ \A p \in Requests : Older(pending[p], pending'[p])
         /\ \A p \in Requests : p # q => pending'[p] = pending[p]
BY DEF PendingOK, Ends, Older

Stale(S) ==
  /\ pending' = [p \in Requests |-> pending'[p]]
  /\ \A p \in Requests : Older(pending[p], pending'[p])
  /\ \A p \in S : pending'[p].kind \in FreshKinds => pending'[p].fresh = FALSE

LEMMA StaleShape ==
  ASSUME PendingOK, NEW S \in SUBSET Requests, \A p \in S : pending[p].kind \in FreshKinds
  PROVE  /\ Overtakes(S) => Stale(S)
         /\ \A q \in Requests : EndsAndOvertakes(q, S) => Stale(S) /\ pending'[q] = Rest
<1>1. \A p \in S : [pending[p] EXCEPT !.fresh = FALSE].fresh = FALSE
  BY AgedRow DEF PendingOK
<1>2. Rest.kind \notin FreshKinds
  BY DEF Rest, FreshKinds
<1>3. ASSUME Overtakes(S) PROVE Stale(S)
  BY <1>1, <1>3 DEF Overtakes, Stale, Older
<1>4. ASSUME NEW q \in Requests, EndsAndOvertakes(q, S) PROVE Stale(S) /\ pending'[q] = Rest
  <2>1. pending' = [p \in Requests |-> IF p = q THEN Rest
                                    ELSE IF p \in S THEN [pending[p] EXCEPT !.fresh = FALSE]
                                    ELSE pending[p]]
    BY <1>4 DEF EndsAndOvertakes
  <2> QED
    BY <1>1, <1>2, <2>1 DEF Stale, Older
<1> QED
  BY <1>3, <1>4

LEMMA RelyingShape ==
  ASSUME PendingOK, NEW u \in Users
  PROVE  /\ RelyOn(u) \in SUBSET Requests
         /\ \A p \in RelyOn(u) : pending[p].kind \in FreshKinds
         /\ Stale(RelyOn(u)) => \A p \in Requests :
              pending'[p].kind \in {"session", "upload"} /\ pending'[p].fresh =>
                pending'[p].user # u
<1>1. RelyOn(u) \in SUBSET Requests /\ \A p \in RelyOn(u) : pending[p].kind \in FreshKinds
  BY DEF RelyOn, FreshKinds
<1>2. ASSUME Stale(RelyOn(u)), NEW p \in Requests,
             pending'[p].kind \in {"session", "upload"}, pending'[p].fresh, pending'[p].user = u
      PROVE  FALSE
  <2>1. Older(pending[p], pending'[p]) /\ pending[p] \in PendingRows
    BY <1>2 DEF Stale, PendingOK
  <2>2. pending'[p].kind = pending[p].kind /\ pending'[p].user = pending[p].user
    BY <1>2, <2>1, OlderRow
  <2>3. p \in RelyOn(u)
    BY <1>2, <2>2 DEF RelyOn
  <2> QED
    BY <1>2, <2>3 DEF Stale, FreshKinds
<1> QED
  BY <1>1, <1>2

(* Rows of a kind have that kind's columns.                                *)
LEMMA Columns ==
  ASSUME NEW r \in PendingRows
  PROVE  /\ r.kind = "code" => r.phone \in Phones
         /\ r.kind \in {"login", "wrong"} => r.code \in Codes
         /\ r.kind = "session" => r.user \in Users /\ r.code \in Codes /\ r.fresh \in BOOLEAN
         /\ r.kind = "hit" => /\ r.user \in Users /\ r.key \in Keys /\ r.action \in RiskAction
                              /\ r.fresh \in BOOLEAN
         /\ r.kind = "publish" => /\ r.version \in Versions /\ r.old \in SUBSET Versions
                                  /\ r.fresh \in BOOLEAN
         /\ r.kind = "upload" => /\ r.user \in Users /\ r.object \in Uploads
                                 /\ r.fresh \in BOOLEAN
         /\ r.kind = "private" => /\ r.user \in Users /\ r.type \in {"DELETE", "EXPORT"}
                                  /\ r.fresh \in BOOLEAN
         /\ r.kind = "deletion" => /\ r.request \in PrivacyIds /\ r.user \in Users
                                   /\ r.phone \in Phones \cup {Gone} /\ r.fresh \in BOOLEAN
BY RowKinds DEF CodeRows, LoginRows, SessionRows, HitRows, PublishRows, UploadRows,
   PrivateRows, DeletionRows

-----------------------------------------------------------------------------
(* Parts of the invariant that a step leaves alone.                        *)

LEMMA GuessesFinite ==
  \A c : IsFiniteSet(Guesses(c)) /\ Cardinality(Guesses(c)) \in Nat
         /\ Cardinality(Guesses(c)) <= Cardinality(Requests)
<1> SUFFICES ASSUME NEW c
             PROVE  /\ IsFiniteSet(Guesses(c)) /\ Cardinality(Guesses(c)) \in Nat
                    /\ Cardinality(Guesses(c)) <= Cardinality(Requests)
  OBVIOUS
<1>1. Guesses(c) \in SUBSET Requests
  BY DEF Guesses
<1>2. IsFiniteSet(Requests)
  BY UserAssumption
<1> QED
  BY <1>1, <1>2, FS_Subset, FS_CardinalityType

LEMMA GuessesFiniteNext ==
  \A c : IsFiniteSet(Guesses(c)') /\ Cardinality(Guesses(c)') \in Nat
         /\ Cardinality(Guesses(c)') <= Cardinality(Requests)
<1> SUFFICES ASSUME NEW c
             PROVE  /\ IsFiniteSet(Guesses(c)') /\ Cardinality(Guesses(c)') \in Nat
                    /\ Cardinality(Guesses(c)') <= Cardinality(Requests)
  OBVIOUS
<1>1. Guesses(c)' \in SUBSET Requests
  BY DEF Guesses
<1>2. IsFiniteSet(Requests)
  BY UserAssumption
<1> QED
  BY <1>1, <1>2, FS_Subset, FS_CardinalityType

LEMMA AttemptsStep ==
  ASSUME AttemptsOK, PendingOK,
         \A c \in Codes : code[c].attempts \in Nat /\ code'[c].attempts \in Nat,
         \A c \in Codes :
           \/ code'[c].attempts < MaxAttempts
           \/ /\ code'[c].attempts = code[c].attempts
              /\ \A p \in Requests : pending'[p].kind = "wrong" /\ pending'[p].code = c =>
                                       Older(pending[p], pending'[p])
  PROVE  AttemptsOK'
<1> SUFFICES ASSUME NEW c \in Codes
             PROVE  code'[c].attempts + Cardinality(Guesses(c)') <= MaxAttempts + Cardinality(Requests) - 1
  BY DEF AttemptsOK
<1>1. /\ IsFiniteSet(Guesses(c)) /\ Cardinality(Guesses(c)) \in Nat
      /\ Cardinality(Guesses(c)') \in Nat
      /\ Cardinality(Guesses(c)') <= Cardinality(Requests)
      /\ MaxAttempts \in Nat /\ Cardinality(Requests) \in Nat
  BY GuessesFinite, GuessesFiniteNext, UserAssumption, FS_CardinalityType
<1>2. code[c].attempts + Cardinality(Guesses(c)) <= MaxAttempts + Cardinality(Requests) - 1
  BY DEF AttemptsOK
<1>3. code[c].attempts \in Nat /\ code'[c].attempts \in Nat
  OBVIOUS
<1>4. CASE code'[c].attempts < MaxAttempts
  BY <1>1, <1>3, <1>4, UserAssumption
<1>5. CASE /\ code'[c].attempts = code[c].attempts
           /\ \A p \in Requests : pending'[p].kind = "wrong" /\ pending'[p].code = c =>
                                    Older(pending[p], pending'[p])
  <2>1. ASSUME NEW p \in Guesses(c)' PROVE p \in Guesses(c)
    <3>1. p \in Requests /\ pending'[p].kind = "wrong" /\ pending'[p].code = c
      BY <2>1 DEF Guesses
    <3>2. Older(pending[p], pending'[p]) /\ pending[p] \in PendingRows
      BY <1>5, <3>1 DEF PendingOK
    <3>3. pending[p].kind = "wrong" /\ pending[p].code = c
      BY <3>1, <3>2, OlderRow
    <3> QED
      BY <3>1, <3>3 DEF Guesses
  <2>2. Guesses(c)' \in SUBSET Guesses(c)
    BY <2>1
  <2>3. Cardinality(Guesses(c)') <= Cardinality(Guesses(c))
    BY <1>1, <2>2, FS_Subset
  <2> QED
    BY <1>1, <1>2, <1>3, <1>5, <2>3
<1> QED
  BY <1>4, <1>5

(* A step that changes what requests have read, and no more than that some *)
(* are overtaken.                                                          *)
LEMMA UsersStay ==
  ASSUME CustomersInv, UNCHANGED <<user, code, seats, rule, hit>>,
         overtaken' \in BOOLEAN, overtaken => overtaken'
  PROVE  UserRowsOK' /\ SeatsOK' /\ OneInForce'
BY DEF CustomersInv, UserRowsOK, SeatsOK, OneSessionPerCode, BarredSignedOut, Barred, Past,
       OneInForce, Published

LEMMA PrivacyStays ==
  ASSUME CustomersInv, UNCHANGED pvars
  PROVE  PrivacyOK'
BY DEF CustomersInv, PrivacyOK, PrivacyTypeOK, LiveHasObject, CleanersOK, RemovedCountedOnce, pvars

LEMMA DeletedStays ==
  ASSUME CustomersInv, UNCHANGED <<user, upload>>, seats' \subseteq seats, overtaken => overtaken'
  PROVE  DeletedLeavesNothing'
BY DEF CustomersInv, DeletedLeavesNothing

(* Rows of requests lean on nothing else.                                  *)
LEMMA LeavesAll ==
  ASSUME UNCHANGED <<user, rule, upload>>, \A c \in Codes : Past(c) => PastNext(c),
         seats' \subseteq seats, objects \subseteq objects', overtaken => overtaken',
         NEW r \in PendingRows
  PROVE  LeavesSession(r) /\ LeavesPublication(r) /\ LeavesUpload(r)
<1>1. r.kind = "session" => r.code \in Codes
  BY Columns
<1> QED
  BY <1>1 DEF LeavesSession, LeavesPublication, LeavesUpload, Reachable, ReachableNext,
     Barred, BarredNext, Published, PublishedNext

-----------------------------------------------------------------------------
(* Signing in.                                                             *)

(* A request that only reads.                                              *)
LEMMA BeginStep ==
  ASSUME CustomersInv, NEW q \in Requests, NEW r \in PendingRows, Begins(q, r),
         r.kind \notin {"session", "upload"},
         r.kind = "publish" => Published \subseteq r.old,
         r.kind = "wrong" => Valid(r.code),
         UNCHANGED <<user, code, seats, rule, hit, overtaken, pvars>>
  PROVE  CustomersInv'
<1>0. PendingOK /\ AttemptsOK /\ UserRowsOK
  BY DEF CustomersInv
<1>1. /\ pending' = [p \in Requests |-> pending'[p]] /\ pending'[q] = r
      /\ \A p \in Requests : p # q => Older(pending[p], pending'[p])
      /\ pending[q] = Rest
  BY <1>0, BeginShape
<1>2. Begun(q)
  BY <1>1 DEF Begun, RowNext, Published, PublishedNext
<1>3. ASSUME NEW p \in Requests, Older(pending[p], pending'[p])
      PROVE  LeavesSession(pending'[p]) /\ LeavesPublication(pending'[p]) /\ LeavesUpload(pending'[p])
  <2>1. pending'[p] \in PendingRows
    BY <1>0, <1>3, OlderRow DEF PendingOK
  <2> QED
    BY <2>1, LeavesAll DEF pvars, Past, PastNext
<1>4. PendingOK'
  BY <1>0, <1>1, <1>2, <1>3, PendingStep
<1>5. AttemptsOK'
  <2>1. ASSUME NEW c \in Codes
        PROVE  \/ code'[c].attempts < MaxAttempts
               \/ /\ code'[c].attempts = code[c].attempts
                  /\ \A p \in Requests : pending'[p].kind = "wrong" /\ pending'[p].code = c =>
                                           Older(pending[p], pending'[p])
    <3>1. CASE r.kind = "wrong" /\ r.code = c
      BY <3>1 DEF Valid
    <3>2. CASE ~(r.kind = "wrong" /\ r.code = c)
      BY <1>1, <3>2
    <3> QED
      BY <3>1, <3>2
  <2>2. \A c \in Codes : code[c].attempts \in Nat /\ code'[c].attempts \in Nat
    BY <1>0 DEF UserRowsOK
  <2> QED
    BY <1>0, <2>1, <2>2, AttemptsStep
<1> QED
  BY <1>4, <1>5, UsersStay, PrivacyStays, DeletedStays DEF CustomersInv, pvars, UserRowsOK

LEMMA ReadingSteps ==
  ASSUME CustomersInv, NEW q \in Requests, UNCHANGED pvars,
         \/ \E p \in Phones : RequestCode(q, p)
         \/ \E c \in Codes, right \in BOOLEAN : ReadCode(q, c, right)
         \/ \E u \in Users, k \in Keys, v \in Versions : InspectPrompt(q, u, k, v)
         \/ \E v \in Versions : ArchivePublished(q, v)
  PROVE  CustomersInv'
<1>0. UserRowsOK
  BY DEF CustomersInv
<1>1. ASSUME NEW p \in Phones, RequestCode(q, p) PROVE CustomersInv'
  <2> DEFINE r == [kind |-> "code", phone |-> p]
  <2>1. r \in PendingRows /\ r.kind = "code"
    BY DEF PendingRows, CodeRows
  <2>2. Begins(q, r) /\ UNCHANGED <<user, code, seats, rule, hit, overtaken, pvars>>
    BY <1>1 DEF RequestCode
  <2> HIDE DEF r
  <2> QED
    BY <2>1, <2>2, BeginStep
<1>2. ASSUME NEW c \in Codes, NEW right \in BOOLEAN, ReadCode(q, c, right) PROVE CustomersInv'
  <2> DEFINE r == [kind |-> IF right THEN "login" ELSE "wrong", code |-> c]
  <2>1. r \in PendingRows /\ r.kind \in {"login", "wrong"} /\ r.code = c
    BY DEF PendingRows, LoginRows
  <2>2. /\ Begins(q, r) /\ UNCHANGED <<user, code, seats, rule, hit, overtaken, pvars>>
        /\ Valid(c)
    BY <1>2 DEF ReadCode
  <2> HIDE DEF r
  <2> QED
    BY <2>1, <2>2, BeginStep
<1>3. ASSUME NEW u \in Users, NEW k \in Keys, NEW v \in Versions, InspectPrompt(q, u, k, v)
      PROVE CustomersInv'
  <2> DEFINE a == rule[v].action
             r == [kind |-> "hit", user |-> u, key |-> k, action |-> a, fresh |-> TRUE]
  <2>1. a \in RiskAction
    BY <1>0 DEF UserRowsOK
  <2>2. Begins(q, r) /\ UNCHANGED <<user, code, seats, rule, hit, overtaken, pvars>>
    BY <1>3 DEF InspectPrompt
  <2> HIDE DEF a
  <2>3. r \in PendingRows /\ r.kind = "hit"
    BY <2>1 DEF PendingRows, HitRows
  <2> HIDE DEF r
  <2> QED
    BY <2>2, <2>3, BeginStep
<1>4. ASSUME NEW v \in Versions, ArchivePublished(q, v) PROVE CustomersInv'
  <2> DEFINE r == [kind |-> "publish", version |-> v, old |-> Published, fresh |-> TRUE]
  <2>1. Published \in SUBSET Versions
    BY DEF Published
  <2>2. r \in PendingRows /\ r.kind = "publish" /\ r.old = Published
    BY <2>1 DEF PendingRows, PublishRows
  <2>3. Begins(q, r) /\ UNCHANGED <<user, code, seats, rule, hit, overtaken, pvars>>
    BY <1>4 DEF ArchivePublished
  <2> HIDE DEF r
  <2> QED
    BY <2>2, <2>3, BeginStep
<1> QED
  BY <1>1, <1>2, <1>3, <1>4

(* A request ends, or some grow stale, and codes move on.                  *)
LEMMA CodeStep ==
  ASSUME CustomersInv,
         pending' = [p \in Requests |-> pending'[p]],
         \A p \in Requests : Older(pending[p], pending'[p]),
         code' \in [Codes -> [state : {"none", "open", "used", "lapsed", "deleted"},
                              phone : Phones \cup {Gone}, attempts : Nat]],
         \A c \in Codes : Past(c) => PastNext(c),
         \A c \in Codes : code'[c].state = "open" => code'[c].phone # Gone,
         AttemptsOK',
         UNCHANGED <<user, rule, hit, pvars>>, seats' \subseteq seats,
         overtaken' \in BOOLEAN, overtaken => overtaken'
  PROVE  CustomersInv'
<1>0. PendingOK /\ UserRowsOK /\ SeatsOK /\ OneInForce
  BY DEF CustomersInv
<1>1. ASSUME NEW p \in Requests
      PROVE  LeavesSession(pending'[p]) /\ LeavesPublication(pending'[p]) /\ LeavesUpload(pending'[p])
  <2>1. pending'[p] \in PendingRows
    BY <1>0, OlderRow DEF PendingOK
  <2> QED
    BY <2>1, LeavesAll DEF pvars
<1>2. PendingOK'
  <2>1. CASE Requests = {}
    BY <2>1 DEF PendingOK, Apart
  <2>2. CASE Requests # {}
    BY <1>0, <1>1, <2>2, PendingStep
  <2> QED
    BY <2>1, <2>2
<1>3. UserRowsOK'
  BY <1>0 DEF UserRowsOK
<1>4. SeatsOK'
  <2>1. \A s \in seats' : s.code \in Codes
    BY <1>0 DEF UserRowsOK
  <2> QED
    BY <1>0, <2>1 DEF SeatsOK, OneSessionPerCode, BarredSignedOut, Barred, Past, PastNext
<1>5. OneInForce'
  BY <1>0 DEF OneInForce, Published
<1> QED
  BY <1>2, <1>3, <1>4, <1>5, PrivacyStays, DeletedStays DEF CustomersInv, pvars

LEMMA StoreStep ==
  ASSUME CustomersInv, NEW q \in Requests, NEW c \in Codes, StoreCode(q, c), UNCHANGED pvars
  PROVE  CustomersInv'
<1> DEFINE new == [state |-> "open", phone |-> pending[q].phone, attempts |-> 0]
<1>0. PendingOK /\ UserRowsOK /\ AttemptsOK
  BY DEF CustomersInv
<1>1. /\ pending[q].kind = "code" /\ code[c].state = "none" /\ Ends(q)
      /\ code' = [code EXCEPT ![c] = new]
      /\ UNCHANGED <<user, seats, rule, hit, overtaken>>
  BY DEF StoreCode
<1>2. pending[q].phone \in Phones
  BY <1>0, <1>1, Columns DEF PendingOK
<1>3. /\ new \in [state : {"none", "open", "used", "lapsed", "deleted"},
                  phone : Phones \cup {Gone}, attempts : Nat]
      /\ new.state = "open" /\ new.phone # Gone /\ new.attempts = 0
  BY <1>2, UserAssumption
<1> HIDE DEF new
<1>4. /\ code' \in [Codes -> [state : {"none", "open", "used", "lapsed", "deleted"},
                              phone : Phones \cup {Gone}, attempts : Nat]]
      /\ code'[c] = new /\ \A d \in Codes : d # c => code'[d] = code[d]
  BY <1>0, <1>1, <1>3 DEF UserRowsOK
<1>5. /\ \A d \in Codes : Past(d) => PastNext(d)
      /\ \A d \in Codes : code'[d].state = "open" => code'[d].phone # Gone
  BY <1>0, <1>1, <1>3, <1>4 DEF UserRowsOK, Past, PastNext
<1>6. /\ pending' = [p \in Requests |-> pending'[p]]
      /\ \A p \in Requests : Older(pending[p], pending'[p])
  BY <1>0, <1>1, EndShape
<1>7. AttemptsOK'
  <2>1. \A d \in Codes : code'[d].attempts < MaxAttempts \/ code'[d].attempts = code[d].attempts
    BY <1>3, <1>4, UserAssumption
  <2>2. \A d \in Codes : code[d].attempts \in Nat /\ code'[d].attempts \in Nat
    BY <1>0, <1>4 DEF UserRowsOK
  <2> QED
    BY <1>0, <1>6, <2>1, <2>2, AttemptsStep
<1> QED
  BY <1>0, <1>1, <1>4, <1>5, <1>6, <1>7, CodeStep DEF UserRowsOK

LEMMA LapseStep ==
  ASSUME CustomersInv, NEW c \in Codes, CodeLapses(c), UNCHANGED pvars
  PROVE  CustomersInv'
<1>0. PendingOK /\ UserRowsOK /\ AttemptsOK
  BY DEF CustomersInv
<1>1. /\ code[c].state = "open" /\ code' = [code EXCEPT ![c].state = "lapsed"]
      /\ UNCHANGED <<user, seats, rule, hit, pending, overtaken>>
  BY DEF CodeLapses
<1>4. /\ code' \in [Codes -> [state : {"none", "open", "used", "lapsed", "deleted"},
                              phone : Phones \cup {Gone}, attempts : Nat]]
      /\ code'[c].state = "lapsed" /\ \A d \in Codes : d # c => code'[d] = code[d]
      /\ \A d \in Codes : code'[d].attempts = code[d].attempts
  BY <1>0, <1>1 DEF UserRowsOK
<1>5. /\ \A d \in Codes : Past(d) => PastNext(d)
      /\ \A d \in Codes : code'[d].state = "open" => code'[d].phone # Gone
  BY <1>0, <1>1, <1>4 DEF UserRowsOK, Past, PastNext
<1>6. /\ pending' = [p \in Requests |-> pending'[p]]
      /\ \A p \in Requests : Older(pending[p], pending'[p])
  BY <1>0, <1>1 DEF PendingOK, Older
<1>7. AttemptsOK'
  <2>2. \A d \in Codes : code[d].attempts \in Nat /\ code'[d].attempts \in Nat
    BY <1>0, <1>4 DEF UserRowsOK
  <2> QED
    BY <1>0, <1>4, <1>6, <2>2, AttemptsStep
<1> QED
  BY <1>0, <1>1, <1>4, <1>5, <1>6, <1>7, CodeStep DEF UserRowsOK

LEMMA LogoutSteps ==
  ASSUME CustomersInv, UNCHANGED pvars,
         (\E s \in seats : Logout(s)) \/ (\E u \in Users : RevokeUserSessions(u))
  PROVE  CustomersInv'
<1>0. PendingOK /\ UserRowsOK /\ AttemptsOK
  BY DEF CustomersInv
<1>1. UNCHANGED <<user, code, rule, hit, pending, overtaken>> /\ seats' \subseteq seats
  BY DEF Logout, RevokeUserSessions, SeatsWithout
<1>2. /\ \A d \in Codes : Past(d) => PastNext(d)
      /\ \A d \in Codes : code'[d].state = "open" => code'[d].phone # Gone
  BY <1>0, <1>1 DEF UserRowsOK, Past, PastNext
<1>3. /\ pending' = [p \in Requests |-> pending'[p]]
      /\ \A p \in Requests : Older(pending[p], pending'[p])
  BY <1>0, <1>1 DEF PendingOK, Older
<1>4. AttemptsOK'
  BY <1>0, <1>1 DEF AttemptsOK, Guesses
<1> QED
  BY <1>0, <1>1, <1>2, <1>3, <1>4, CodeStep DEF UserRowsOK

LEMMA WrongStep ==
  ASSUME CustomersInv, NEW q \in Requests, CountWrongCode(q), UNCHANGED pvars
  PROVE  CustomersInv'
<1> DEFINE c == pending[q].code
<1>0. PendingOK /\ UserRowsOK /\ AttemptsOK
  BY DEF CustomersInv
<1>1. /\ pending[q].kind = "wrong" /\ Ends(q)
      /\ code' = IF code[c].state = "deleted" THEN code ELSE [code EXCEPT ![c].attempts = @ + 1]
      /\ UNCHANGED <<user, seats, rule, hit, overtaken>>
  BY DEF CountWrongCode
<1>2. c \in Codes
  BY <1>0, <1>1, Columns DEF PendingOK
<1>3. /\ pending' = [p \in Requests |-> pending'[p]] /\ pending'[q] = Rest
      /\ \A p \in Requests : Older(pending[p], pending'[p])
      /\ \A p \in Requests : p # q => pending'[p] = pending[p]
  BY <1>0, <1>1, EndShape
<1>4. /\ code' \in [Codes -> [state : {"none", "open", "used", "lapsed", "deleted"},
                              phone : Phones \cup {Gone}, attempts : Nat]]
      /\ \A d \in Codes : d # c => code'[d] = code[d]
      /\ code'[c].state = code[c].state /\ code'[c].phone = code[c].phone
      /\ code'[c].attempts \in {code[c].attempts, code[c].attempts + 1}
  BY <1>0, <1>1, <1>2 DEF UserRowsOK
<1>5. /\ \A d \in Codes : Past(d) => PastNext(d)
      /\ \A d \in Codes : code'[d].state = "open" => code'[d].phone # Gone
  BY <1>0, <1>2, <1>4 DEF UserRowsOK, Past, PastNext
<1>6. AttemptsOK'
  <2>1. ASSUME NEW d \in Codes
        PROVE  code'[d].attempts + Cardinality(Guesses(d)') <= MaxAttempts + Cardinality(Requests) - 1
    <3>1. /\ code[d].attempts + Cardinality(Guesses(d)) <= MaxAttempts + Cardinality(Requests) - 1
          /\ IsFiniteSet(Guesses(d)) /\ Cardinality(Guesses(d)) \in Nat
          /\ MaxAttempts \in Nat /\ Cardinality(Requests) \in Nat
          /\ code[d].attempts \in Nat
      BY <1>0, GuessesFinite, UserAssumption, FS_CardinalityType DEF AttemptsOK, UserRowsOK
    <3>2. Guesses(d)' = Guesses(d) \ {q}
      BY <1>3 DEF Guesses, Rest
    <3>3. CASE d = c
      <4>1. q \in Guesses(d)
        BY <1>1, <3>3 DEF Guesses
      <4>2. Cardinality(Guesses(d) \ {q}) = Cardinality(Guesses(d)) - 1
        BY <3>1, <4>1, FS_RemoveElement
      <4>3. code'[d].attempts \in {code[d].attempts, code[d].attempts + 1}
        BY <1>4, <3>3
      <4>4. Cardinality(Guesses(d)') = Cardinality(Guesses(d)) - 1
        BY <3>2, <4>2
      <4> QED
        BY <3>1, <4>3, <4>4
    <3>4. CASE d # c
      <4>1. q \notin Guesses(d)
        BY <3>4 DEF Guesses
      <4>2. Guesses(d)' = Guesses(d) /\ code'[d] = code[d]
        BY <1>4, <3>2, <3>4, <4>1
      <4>3. Cardinality(Guesses(d)') = Cardinality(Guesses(d))
        BY <4>2
      <4> QED
        BY <3>1, <4>2, <4>3
    <3> QED
      BY <3>3, <3>4
  <2> QED
    BY <2>1 DEF AttemptsOK
<1> QED
  BY <1>0, <1>1, <1>3, <1>4, <1>5, <1>6, CodeStep DEF UserRowsOK

(* The login that uses the code, and the user it signs in or up.           *)
LEMMA UseStep ==
  ASSUME CustomersInv, NEW q \in Requests, NEW u \in Users, UseCode(q, u), UNCHANGED pvars
  PROVE  CustomersInv'
<1> DEFINE c == pending[q].code
           p == code[c].phone
<1>0. PendingOK /\ UserRowsOK /\ AttemptsOK /\ SeatsOK /\ OneInForce
  BY DEF CustomersInv
<1>1. pending[q].kind = "login" /\ UNCHANGED <<seats, rule, hit, overtaken>>
  BY DEF UseCode
<1>2. c \in Codes
  BY <1>0, <1>1, Columns DEF PendingOK
<1>3. CASE ~Valid(c)
  <2>1. Ends(q) /\ UNCHANGED <<user, code>>
    BY <1>3 DEF UseCode
  <2>2. /\ pending' = [x \in Requests |-> pending'[x]]
        /\ \A x \in Requests : Older(pending[x], pending'[x])
    BY <1>0, <2>1, EndShape
  <2>3. /\ \A d \in Codes : Past(d) => PastNext(d)
        /\ \A d \in Codes : code'[d].state = "open" => code'[d].phone # Gone
    BY <1>0, <2>1 DEF UserRowsOK, Past, PastNext
  <2>4. AttemptsOK'
    <3>1. \A d \in Codes : code[d].attempts \in Nat /\ code'[d].attempts \in Nat
      BY <1>0, <2>1 DEF UserRowsOK
    <3> QED
      BY <1>0, <2>1, <2>2, <3>1, AttemptsStep
  <2> QED
    BY <1>0, <1>1, <2>1, <2>2, <2>3, <2>4, CodeStep DEF UserRowsOK
<1>4. CASE Valid(c)
  <2> DEFINE known == Owner(p) # {}
             row == [kind |-> "session", user |-> u, code |-> c, fresh |-> TRUE]
  <2>1. /\ IF known THEN u \in Owner(p) ELSE user[u] = NoUser
        /\ code' = [code EXCEPT ![c].state = "used"]
        /\ user' = IF known THEN user ELSE [user EXCEPT ![u] = [status |-> "ACTIVE", phone |-> p]]
        /\ IF Barred(u) THEN Ends(q)
           ELSE pending' = [pending EXCEPT ![q] = row]
    BY <1>4 DEF UseCode
  <2>2. /\ code[c].state = "open" /\ p \in Phones \cup {Gone} /\ p # Gone
    BY <1>0, <1>2, <1>4 DEF Valid, UserRowsOK
  <2>3. /\ code' \in [Codes -> [state : {"none", "open", "used", "lapsed", "deleted"},
                                phone : Phones \cup {Gone}, attempts : Nat]]
        /\ code'[c].state = "used" /\ \A d \in Codes : d # c => code'[d] = code[d]
        /\ \A d \in Codes : code'[d].attempts = code[d].attempts
    BY <1>0, <1>2, <2>1 DEF UserRowsOK
  <2>4. /\ \A d \in Codes : Past(d) => PastNext(d)
        /\ \A d \in Codes : code'[d].state = "open" => code'[d].phone # Gone
        /\ PastNext(c) /\ ~Past(c)
    BY <1>0, <1>2, <2>2, <2>3 DEF UserRowsOK, Past, PastNext
  (* The user is reachable by the phone number of the code.                *)
  <2>5. /\ user' \in [Users -> [status : UserStatus, phone : Phones \cup {Gone}]]
        /\ user'[u].phone = p
        /\ \A v \in Users : v # u => user'[v] = user[v]
        /\ \A v \in Users : Reachable(v) => ReachableNext(v)
        /\ \A v \in Users : BarredNext(v) <=> Barred(v)
        /\ \A v, w \in Users : user'[v].phone = user'[w].phone /\ user'[v].phone # Gone => v = w
    <3>1. CASE known
      <4>1. user' = user /\ user[u].phone = p
        BY <2>1, <3>1 DEF Owner
      <4> QED
        BY <1>0, <4>1 DEF UserRowsOK, Reachable, ReachableNext, Barred, BarredNext
    <3>2. CASE ~known
      <4> DEFINE new == [status |-> "ACTIVE", phone |-> p]
      <4>1. user' = [user EXCEPT ![u] = new] /\ user[u] = NoUser
            /\ \A v \in Users : user[v].phone # p
        BY <2>1, <3>2 DEF Owner
      <4>2. new \in [status : UserStatus, phone : Phones \cup {Gone}]
            /\ new.phone = p /\ new.status = "ACTIVE"
        BY <2>2 DEF UserStatus
      <4>3. user[u].status = "NONE" /\ user[u].phone = Gone
        BY <4>1 DEF NoUser
      <4> HIDE DEF new, p
      <4>4. /\ user' \in [Users -> [status : UserStatus, phone : Phones \cup {Gone}]]
            /\ user'[u] = new /\ \A v \in Users : v # u => user'[v] = user[v]
        BY <1>0, <4>1, <4>2 DEF UserRowsOK
      <4>5. /\ \A v \in Users : Reachable(v) => ReachableNext(v)
            /\ \A v \in Users : BarredNext(v) <=> Barred(v)
        BY <2>2, <4>2, <4>3, <4>4 DEF Reachable, ReachableNext, Barred, BarredNext
      <4>6. \A v, w \in Users : user'[v].phone = user'[w].phone /\ user'[v].phone # Gone => v = w
        BY <1>0, <4>1, <4>2, <4>4 DEF UserRowsOK
      <4> QED
        BY <4>2, <4>4, <4>5, <4>6
    <3> QED
      BY <3>1, <3>2
  <2>6. UserRowsOK'
    BY <1>0, <1>1, <2>3, <2>4, <2>5 DEF UserRowsOK
  <2>7. SeatsOK'
    <3>1. \A s \in seats : s.user \in Users /\ s.code \in Codes
      BY <1>0 DEF UserRowsOK
    <3>2. \A s \in seats : BarredNext(s.user) <=> Barred(s.user)
      BY <2>5, <3>1
    <3>3. BarredSignedOut'
      BY <1>0, <1>1, <3>2 DEF SeatsOK, BarredSignedOut, Barred, BarredNext
    <3> QED
      BY <1>0, <1>1, <2>4, <3>1, <3>3 DEF SeatsOK, OneSessionPerCode, Past, PastNext
  <2>8. DeletedLeavesNothing'
    BY <1>1, <2>5 DEF CustomersInv, DeletedLeavesNothing, pvars, Reachable, ReachableNext
  <2>9. /\ pending' = [x \in Requests |-> pending'[x]]
        /\ \A x \in Requests : x # q => pending'[x] = pending[x]
        /\ \A x \in Requests : x # q => Older(pending[x], pending'[x])
        /\ pending'[q] = Rest \/ (pending'[q] = row /\ ~Barred(u))
    <3>1. CASE Barred(u)
      BY <1>0, <2>1, <3>1, EndShape
    <3>2. CASE ~Barred(u)
      BY <1>0, <2>1, <3>2 DEF PendingOK, Older
    <3> QED
      BY <3>1, <3>2
  <2>10. Older(pending[q], pending'[q]) \/ Begun(q)
    <3>1. CASE pending'[q] = Rest
      BY <3>1 DEF Older
    <3>2. CASE pending'[q] = row /\ ~Barred(u)
      <4>1. row \in PendingRows /\ row.kind = "session" /\ row.code = c /\ row.user = u
        BY <1>2 DEF PendingRows, SessionRows
      <4>2. \A s \in seats' : s.code # c
        BY <1>0, <1>1, <2>4 DEF SeatsOK
      <4>3. ReachableNext(u) /\ ~BarredNext(u)
        BY <2>2, <2>5, <3>2 DEF ReachableNext
      <4> HIDE DEF row, c
      <4>4. RowNext(pending'[q])
        BY <2>4, <3>2, <4>1, <4>2, <4>3 DEF RowNext
      <4>5. \A x \in Requests : x # q /\ pending[x].kind = "session" => pending[x].code # c
        BY <1>0, <2>4 DEF PendingOK, RowOK
      <4> QED
        BY <2>9, <3>2, <4>1, <4>4, <4>5 DEF Begun
    <3> QED
      BY <2>9, <3>1, <3>2
  <2>11. ASSUME NEW x \in Requests, Older(pending[x], pending'[x])
         PROVE  LeavesSession(pending'[x]) /\ LeavesPublication(pending'[x]) /\ LeavesUpload(pending'[x])
    <3>1. pending'[x] \in PendingRows
      BY <1>0, <2>11, OlderRow DEF PendingOK
    <3>2. /\ pending'[x].kind = "session" => pending'[x].code \in Codes /\ pending'[x].user \in Users
          /\ pending'[x].kind = "upload" => pending'[x].user \in Users
      BY <3>1, Columns
    <3> QED
      BY <1>1, <2>4, <2>5, <3>2 DEF LeavesSession, LeavesPublication, LeavesUpload, pvars,
         Published, PublishedNext
  <2>12. PendingOK'
    BY <1>0, <2>9, <2>10, <2>11, PendingStep
  <2>13. AttemptsOK'
    <3>1. \A d \in Codes : code[d].attempts \in Nat /\ code'[d].attempts \in Nat
      BY <1>0, <2>3 DEF UserRowsOK
    <3>2. \A x \in Requests : pending'[x].kind = "wrong" => Older(pending[x], pending'[x])
      BY <2>9 DEF Rest
    <3> QED
      BY <1>0, <2>3, <3>1, <3>2, AttemptsStep
  <2>14. OneInForce'
    BY <1>0, <1>1 DEF OneInForce, Published
  <2> QED
    BY <2>6, <2>7, <2>8, <2>12, <2>13, <2>14, PrivacyStays DEF CustomersInv
<1> QED
  BY <1>3, <1>4

LEMMA OpenStep ==
  ASSUME CustomersInv, NEW q \in Requests, OpenSession(q), UNCHANGED pvars
  PROVE  CustomersInv'
<1> DEFINE r == pending[q]
           new == [user |-> r.user, code |-> r.code, by |-> q]
<1>0. PendingOK /\ UserRowsOK /\ AttemptsOK /\ SeatsOK /\ OneInForce
  BY DEF CustomersInv
<1>1. /\ r.kind = "session" /\ seats' = seats \cup {new}
      /\ EndsAndOvertakes(q, {}) /\ overtaken' = (overtaken \/ ~r.fresh)
      /\ UNCHANGED <<user, code, rule, hit>>
  BY DEF OpenSession, EndsAndOvertakes
<1>2. /\ r.user \in Users /\ r.code \in Codes /\ r.fresh \in BOOLEAN
      /\ Past(r.code) /\ \A s \in seats : s.code # r.code
      /\ r.fresh => Reachable(r.user) /\ ~Barred(r.user)
  BY <1>0, <1>1, Columns DEF PendingOK, RowOK
<1>3. new \in [user : Users, code : Codes, by : Requests] /\ new.user = r.user /\ new.code = r.code
  BY <1>2
<1>4. Stale({}) /\ pending'[q] = Rest
  BY <1>0, <1>1, StaleShape
<1> HIDE DEF new
<1>5. UserRowsOK'
  BY <1>0, <1>1, <1>2, <1>3 DEF UserRowsOK
<1>6. SeatsOK'
  <2>1. OneSessionPerCode'
    BY <1>0, <1>1, <1>2, <1>3 DEF SeatsOK, OneSessionPerCode
  <2>2. BarredSignedOut'
    BY <1>0, <1>1, <1>2, <1>3 DEF SeatsOK, BarredSignedOut, Barred
  <2>3. \A s \in seats' : Past(s.code)
    BY <1>0, <1>1, <1>2, <1>3 DEF SeatsOK
  <2> QED
    BY <1>1, <2>1, <2>2, <2>3 DEF SeatsOK, Past
<1>7. DeletedLeavesNothing'
  BY <1>1, <1>2, <1>3 DEF CustomersInv, DeletedLeavesNothing, Reachable, pvars
<1>8. ASSUME NEW x \in Requests
      PROVE  LeavesSession(pending'[x]) /\ LeavesPublication(pending'[x]) /\ LeavesUpload(pending'[x])
  <2>1. Older(pending[x], pending'[x]) /\ pending[x] \in PendingRows
    BY <1>0, <1>4 DEF Stale, PendingOK
  <2>2. pending'[x] \in PendingRows
    BY <2>1, OlderRow
  <2>3. pending'[x].kind = "session" => pending'[x].code # r.code
    <3>1. SUFFICES ASSUME pending'[x].kind = "session", pending'[x].code = r.code PROVE FALSE
      OBVIOUS
    <3>2. x # q
      BY <1>4, <3>1 DEF Rest
    <3>3. pending[x].kind = "session" /\ pending[x].code = r.code
      BY <2>1, <3>1, OlderRow
    <3> QED
      BY <1>0, <1>1, <3>2, <3>3 DEF PendingOK, Apart
  <2> QED
    BY <1>1, <1>3, <2>3 DEF LeavesSession, LeavesPublication, LeavesUpload, pvars, Published,
       PublishedNext, Past, PastNext, Reachable, ReachableNext, Barred, BarredNext
<1>9. PendingOK'
  BY <1>0, <1>4, <1>8, PendingStep DEF Stale
<1>10. AttemptsOK'
  <2>1. \A d \in Codes : code[d].attempts \in Nat /\ code'[d].attempts \in Nat
    BY <1>0, <1>1 DEF UserRowsOK
  <2> QED
    BY <1>0, <1>1, <1>4, <2>1, AttemptsStep DEF Stale
<1>11. OneInForce'
  BY <1>0, <1>1 DEF OneInForce, Published
<1> QED
  BY <1>5, <1>6, <1>7, <1>9, <1>10, <1>11, PrivacyStays DEF CustomersInv

-----------------------------------------------------------------------------
(* Restrictions, bans and rules.                                           *)

LEMMA StatusStep ==
  ASSUME CustomersInv, NEW u \in Users, NEW st \in {"ACTIVE", "RESTRICTED", "BANNED"},
         user' = [user EXCEPT ![u].status = st], seats' = SeatsAfter(u, st),
         Stale(RelyOn(u)), UNCHANGED <<code, rule, pvars>>,
         hit' \in [Users -> [Keys -> RiskAction \cup {NoHit}]],
         overtaken' \in BOOLEAN, overtaken => overtaken'
  PROVE  CustomersInv'
<1>0. PendingOK /\ UserRowsOK /\ AttemptsOK /\ SeatsOK /\ OneInForce
  BY DEF CustomersInv
<1>1. seats' \subseteq seats /\ (st = "BANNED" => \A s \in seats' : s.user # u)
  BY DEF SeatsAfter, SeatsWithout
<1>2. /\ user' \in [Users -> [status : UserStatus, phone : Phones \cup {Gone}]]
      /\ user'[u].status = st
      /\ \A v \in Users : v # u => user'[v] = user[v]
      /\ \A v \in Users : user'[v].phone = user[v].phone
  BY <1>0 DEF UserRowsOK, UserStatus
<1>3. UserRowsOK'
  BY <1>0, <1>1, <1>2 DEF UserRowsOK
<1>4. SeatsOK'
  <2>1. \A s \in seats' : s.user \in Users
    BY <1>0, <1>1 DEF UserRowsOK
  <2>2. ASSUME ~overtaken', NEW s \in seats' PROVE ~BarredNext(s.user)
    <3>1. CASE s.user = u
      BY <1>1, <1>2, <2>2, <3>1 DEF BarredNext
    <3>2. CASE s.user # u
      BY <1>0, <1>1, <1>2, <2>1, <2>2, <3>2 DEF SeatsOK, BarredSignedOut, Barred, BarredNext
    <3> QED
      BY <3>1, <3>2
  <2>3. BarredSignedOut'
    BY <2>2 DEF BarredSignedOut, Barred, BarredNext
  <2> QED
    BY <1>0, <1>1, <2>3 DEF SeatsOK, OneSessionPerCode, Past
<1>5. DeletedLeavesNothing'
  BY <1>1, <1>2 DEF CustomersInv, DeletedLeavesNothing, pvars
<1>6. ASSUME NEW x \in Requests
      PROVE  LeavesSession(pending'[x]) /\ LeavesPublication(pending'[x]) /\ LeavesUpload(pending'[x])
  <2>1. Older(pending[x], pending'[x]) /\ pending[x] \in PendingRows
    BY <1>0 DEF Stale, PendingOK
  <2>2. pending'[x] \in PendingRows
    BY <2>1, OlderRow
  <2>3. pending'[x].kind \in {"session", "upload"} =>
          pending'[x].user \in Users /\ (pending'[x].fresh => pending'[x].user # u)
    BY <1>0, <2>2, Columns, RelyingShape
  <2> QED
    BY <1>1, <1>2, <2>3 DEF LeavesSession, LeavesPublication, LeavesUpload, pvars, Published,
       PublishedNext, Past, PastNext, Reachable, ReachableNext, Barred, BarredNext
<1>7. PendingOK'
  <2>1. CASE Requests = {}
    BY <2>1 DEF PendingOK, Apart, Stale
  <2>2. CASE Requests # {}
    BY <1>0, <1>6, <2>2, PendingStep DEF Stale
  <2> QED
    BY <2>1, <2>2
<1>8. AttemptsOK'
  <2>1. \A d \in Codes : code[d].attempts \in Nat /\ code'[d].attempts \in Nat
    BY <1>0 DEF UserRowsOK
  <2> QED
    BY <1>0, <2>1, AttemptsStep DEF Stale
<1>9. OneInForce'
  BY <1>0 DEF OneInForce, Published
<1> QED
  BY <1>3, <1>4, <1>5, <1>7, <1>8, <1>9, PrivacyStays DEF CustomersInv

LEMMA ChangeStep ==
  ASSUME CustomersInv, NEW u \in Users, NEW st \in {"ACTIVE", "RESTRICTED", "BANNED"},
         ChangeStatus(u, st), UNCHANGED pvars
  PROVE  CustomersInv'
<1>0. PendingOK /\ UserRowsOK
  BY DEF CustomersInv
<1>1. Stale(RelyOn(u))
  BY <1>0, RelyingShape, StaleShape DEF ChangeStatus
<1> QED
  BY <1>0, <1>1, StatusStep DEF ChangeStatus, UserRowsOK

LEMMA HitStep ==
  ASSUME CustomersInv, NEW q \in Requests, RecordHit(q), UNCHANGED pvars
  PROVE  CustomersInv'
<1> DEFINE r == pending[q]
           u == r.user
<1>0. PendingOK /\ UserRowsOK /\ AttemptsOK
  BY DEF CustomersInv
<1>1. r.kind = "hit" /\ UNCHANGED <<code, rule>>
  BY DEF RecordHit
<1>2. u \in Users /\ r.key \in Keys /\ r.action \in RiskAction /\ r.fresh \in BOOLEAN
  BY <1>0, <1>1, Columns DEF PendingOK
<1>3. hit' \in [Users -> [Keys -> RiskAction \cup {NoHit}]]
  <2>1. CASE Known(r)
    BY <1>0, <2>1 DEF RecordHit, UserRowsOK
  <2>2. CASE ~Known(r)
    <3>1. hit' = [hit EXCEPT ![u][r.key] = r.action]
      BY <2>2 DEF RecordHit
    <3> QED
      BY <1>0, <1>2, <3>1 DEF UserRowsOK
  <2> QED
    BY <2>1, <2>2
<1>4. CASE ~Known(r) /\ r.action \in {"RESTRICT", "BAN"}
  <2>1. /\ user' = [user EXCEPT ![u].status = Penalty(r.action)]
        /\ seats' = SeatsAfter(u, Penalty(r.action))
        /\ EndsAndOvertakes(q, RelyOn(u))
    BY <1>4 DEF RecordHit
  <2>2. Penalty(r.action) \in {"ACTIVE", "RESTRICTED", "BANNED"}
    BY DEF Penalty
  <2>3. Stale(RelyOn(u)) /\ overtaken' = (overtaken \/ ~r.fresh)
    BY <1>0, <1>2, <2>1, RelyingShape, StaleShape DEF EndsAndOvertakes
  <2>4. overtaken' \in BOOLEAN /\ (overtaken => overtaken')
    BY <2>3
  <2> HIDE DEF r, u
  <2> QED
    BY <1>1, <1>2, <1>3, <2>1, <2>2, <2>3, <2>4, StatusStep
<1>5. CASE Known(r) \/ r.action \notin {"RESTRICT", "BAN"}
  <2>1. Ends(q) /\ UNCHANGED <<user, seats, overtaken>>
    BY <1>5 DEF RecordHit
  <2>2. /\ pending' = [x \in Requests |-> pending'[x]]
        /\ \A x \in Requests : Older(pending[x], pending'[x])
    BY <1>0, <2>1, EndShape
  <2>3. ASSUME NEW x \in Requests
        PROVE  LeavesSession(pending'[x]) /\ LeavesPublication(pending'[x]) /\ LeavesUpload(pending'[x])
    <3>1. pending'[x] \in PendingRows
      BY <1>0, <2>2, OlderRow DEF PendingOK
    <3> QED
      BY <1>1, <2>1, <3>1, LeavesAll DEF pvars, Past, PastNext
  <2>4. PendingOK'
    BY <1>0, <2>2, <2>3, PendingStep
  <2>5. AttemptsOK'
    <3>1. \A d \in Codes : code[d].attempts \in Nat /\ code'[d].attempts \in Nat
      BY <1>0, <1>1 DEF UserRowsOK
    <3> QED
      BY <1>0, <1>1, <2>2, <3>1, AttemptsStep
  <2>6. UserRowsOK' /\ SeatsOK' /\ OneInForce'
    BY <1>1, <1>3, <2>1 DEF CustomersInv, UserRowsOK, SeatsOK, OneSessionPerCode,
       BarredSignedOut, Barred, Past, OneInForce, Published
  <2> QED
    BY <2>1, <2>4, <2>5, <2>6, PrivacyStays, DeletedStays DEF CustomersInv, pvars
<1> QED
  BY <1>4, <1>5

(* A change of the rule's versions.                                        *)
LEMMA RuleStep ==
  ASSUME CustomersInv,
         rule' \in [Versions -> [state : {"absent", "DRAFT", "PUBLISHED", "ARCHIVED"},
                                 action : RiskAction]],
         pending' = [x \in Requests |-> pending'[x]],
         \A x \in Requests : Older(pending[x], pending'[x]),
         \A x \in Requests : pending'[x].kind = "publish" /\ pending'[x].fresh =>
           PublishedNext \subseteq Published,
         overtaken' \/ \A v, w \in PublishedNext : v = w,
         overtaken' \in BOOLEAN, overtaken => overtaken',
         UNCHANGED <<user, code, seats, hit, pvars>>
  PROVE  CustomersInv'
<1>0. PendingOK /\ UserRowsOK /\ AttemptsOK
  BY DEF CustomersInv
<1>1. ASSUME NEW x \in Requests
      PROVE  LeavesSession(pending'[x]) /\ LeavesPublication(pending'[x]) /\ LeavesUpload(pending'[x])
  BY <1>1 DEF LeavesSession, LeavesPublication, LeavesUpload, pvars,
     Past, PastNext, Reachable, ReachableNext, Barred, BarredNext
<1>2. PendingOK'
  <2>1. CASE Requests = {}
    BY <2>1 DEF PendingOK, Apart
  <2>2. CASE Requests # {}
    BY <1>0, <1>1, <2>2, PendingStep
  <2> QED
    BY <2>1, <2>2
<1>3. AttemptsOK'
  <2>1. \A d \in Codes : code[d].attempts \in Nat /\ code'[d].attempts \in Nat
    BY <1>0 DEF UserRowsOK
  <2> QED
    BY <1>0, <2>1, AttemptsStep
<1>4. UserRowsOK' /\ SeatsOK'
  BY DEF CustomersInv, UserRowsOK, SeatsOK, OneSessionPerCode, BarredSignedOut, Barred, Past
<1>5. OneInForce'
  BY DEF OneInForce, Published, PublishedNext
<1> QED
  BY <1>2, <1>3, <1>4, <1>5, PrivacyStays, DeletedStays DEF CustomersInv, pvars

LEMMA VersionSteps ==
  ASSUME CustomersInv, NEW v \in Versions, UNCHANGED pvars,
         ArchiveRule(v) \/ \E a \in Actions : CreateRule(v, a)
  PROVE  CustomersInv'
<1>0. PendingOK /\ UserRowsOK /\ OneInForce
  BY DEF CustomersInv
<1>1. /\ rule' \in [Versions -> [state : {"absent", "DRAFT", "PUBLISHED", "ARCHIVED"},
                                 action : RiskAction]]
      /\ rule'[v].state \in {"ARCHIVED", "DRAFT"}
      /\ \A w \in Versions : w # v => rule'[w] = rule[w]
      /\ UNCHANGED <<user, code, seats, hit, pending, overtaken>>
  <2>1. CASE ArchiveRule(v)
    BY <1>0, <2>1 DEF ArchiveRule, UserRowsOK
  <2>2. ASSUME NEW a \in Actions, CreateRule(v, a)
        PROVE  /\ rule' \in [Versions -> [state : {"absent", "DRAFT", "PUBLISHED", "ARCHIVED"},
                                          action : RiskAction]]
               /\ rule'[v].state = "DRAFT"
               /\ \A w \in Versions : w # v => rule'[w] = rule[w]
               /\ UNCHANGED <<user, code, seats, hit, pending, overtaken>>
    BY <1>0, <2>2, UserAssumption DEF CreateRule, UserRowsOK
  <2> QED
    BY <2>1, <2>2
<1>2. PublishedNext \subseteq Published
  BY <1>1 DEF Published, PublishedNext
<1>3. /\ pending' = [x \in Requests |-> pending'[x]]
      /\ \A x \in Requests : Older(pending[x], pending'[x])
  BY <1>0, <1>1 DEF PendingOK, Older
<1> QED
  BY <1>0, <1>1, <1>2, <1>3, RuleStep DEF OneInForce, UserRowsOK

LEMMA PublishStep ==
  ASSUME CustomersInv, NEW q \in Requests, PublishRule(q), UNCHANGED pvars
  PROVE  CustomersInv'
<1> DEFINE r == pending[q]
           S == {p \in Requests : pending[p].kind = "publish"}
<1>0. PendingOK /\ UserRowsOK
  BY DEF CustomersInv
<1>1. /\ r.kind = "publish"
      /\ rule' = [w \in Versions |-> IF w = r.version THEN [rule[w] EXCEPT !.state = "PUBLISHED"]
                                    ELSE IF w \in r.old THEN [rule[w] EXCEPT !.state = "ARCHIVED"]
                                    ELSE rule[w]]
      /\ EndsAndOvertakes(q, S) /\ overtaken' = (overtaken \/ ~r.fresh)
      /\ UNCHANGED <<user, code, seats, hit>>
  BY DEF PublishRule, Archives, EndsAndOvertakes
<1>2. /\ r.version \in Versions /\ r.old \in SUBSET Versions /\ r.fresh \in BOOLEAN
      /\ r.fresh => Published \subseteq r.old
  BY <1>0, <1>1, Columns DEF PendingOK, RowOK
<1>3. Stale(S)
  <2>1. S \in SUBSET Requests /\ \A p \in S : pending[p].kind \in FreshKinds
    BY DEF FreshKinds
  <2> QED
    BY <1>0, <1>1, <2>1, StaleShape
<1>4. ASSUME NEW x \in Requests, pending'[x].kind = "publish", pending'[x].fresh PROVE FALSE
  <2>1. Older(pending[x], pending'[x]) /\ pending[x] \in PendingRows
    BY <1>0, <1>3 DEF Stale, PendingOK
  <2>2. x \in S
    BY <1>4, <2>1, OlderRow
  <2> QED
    BY <1>3, <1>4, <2>2 DEF Stale, FreshKinds
<1> HIDE DEF r, S
<1>5. rule' \in [Versions -> [state : {"absent", "DRAFT", "PUBLISHED", "ARCHIVED"},
                              action : RiskAction]]
  BY <1>0, <1>1 DEF UserRowsOK
<1>6. r.fresh => \A v \in PublishedNext : v = r.version
  BY <1>0, <1>1, <1>2 DEF PublishedNext, Published, UserRowsOK
<1>7. overtaken' \/ \A v, w \in PublishedNext : v = w
  BY <1>1, <1>6
<1>8. /\ pending' = [x \in Requests |-> pending'[x]]
      /\ \A x \in Requests : Older(pending[x], pending'[x])
  BY <1>3 DEF Stale
<1>9. overtaken' \in BOOLEAN /\ (overtaken => overtaken')
  BY <1>1
<1> QED
  BY <1>1, <1>4, <1>5, <1>7, <1>8, <1>9, RuleStep

LEMMA UserSteps == CustomersInv /\ UserStep /\ UNCHANGED pvars => CustomersInv'
BY ReadingSteps, StoreStep, LapseStep, LogoutSteps, WrongStep, UseStep, OpenStep, ChangeStep,
   HitStep, VersionSteps, PublishStep DEF UserStep

-----------------------------------------------------------------------------
(* Uploads, privacy requests and clean-ups.                                *)

UploadTable == [Uploads -> [state : {"none", "live", "marked", "due", "removed"},
                            user : Users \cup {Gone}]]
RequestTable == [PrivacyIds -> [status : {"none", "REQUESTED", "PROCESSING", "COMPLETED", "REJECTED"},
                                type : {"DELETE", "EXPORT"}, user : Users \cup {Gone}]]
CleanerTable == [Cleaners -> [running : BOOLEAN, todo : SUBSET Uploads,
                              at : Uploads \cup {Nothing}, deleted : Nat]]

AuditRow == [told : Nat, untold : Nat]

LEMMA PrivacyTables ==
  ASSUME CustomersInv
  PROVE  /\ upload \in UploadTable /\ privacy \in RequestTable /\ cleaner \in CleanerTable
         /\ objects \subseteq Uploads /\ \A i \in objects : upload[i].state # "removed"
         /\ failures \in Nat /\ audit \in AuditRow /\ stray \subseteq Uploads
BY DEF CustomersInv, PrivacyOK, PrivacyTypeOK, UploadTable, AuditRow, RequestTable, CleanerTable

Removed == {i \in Uploads : upload[i].state = "removed"}

Counts == [w \in Cleaners |-> cleaner[w].deleted]

(* Nothing is removed, and nothing counted.                                *)
LEMMA CountStays ==
  ASSUME CustomersInv, \A i \in Uploads : upload'[i].state = "removed" <=> upload[i].state = "removed",
         \A w \in Cleaners : cleaner'[w].deleted = cleaner[w].deleted, UNCHANGED audit
  PROVE  RemovedCountedOnce'
<1>1. Removed' = Removed
  BY DEF Removed
<1>2. [w \in Cleaners |-> cleaner'[w].deleted] = [w \in Cleaners |-> cleaner[w].deleted]
  OBVIOUS
<1>3. RemovedCountedOnce
  BY DEF CustomersInv, PrivacyOK
<1> QED
  BY <1>1, <1>2, <1>3 DEF RemovedCountedOnce, Removed

(* What a run has counted goes where the audits keep it, told or untold.   *)
LEMMA CountMoves ==
  ASSUME CustomersInv, UNCHANGED upload, NEW w \in Cleaners,
         cleaner' = [cleaner EXCEPT ![w] = Resting],
         \/ audit' = [audit EXCEPT !.told = @ + cleaner[w].deleted]
         \/ audit' = [audit EXCEPT !.untold = @ + cleaner[w].deleted]
  PROVE  RemovedCountedOnce' /\ audit' \in AuditRow
<1> DEFINE f == Counts
           g == [v \in Cleaners |-> cleaner'[v].deleted]
<1>1. /\ cleaner \in CleanerTable /\ audit \in AuditRow /\ cleaner[w].deleted \in Nat
  BY PrivacyTables DEF CleanerTable
<1>2. /\ f \in [Cleaners -> Nat] /\ g \in [Cleaners -> Nat]
      /\ f[w] = cleaner[w].deleted /\ g[w] = 0 /\ \A v \in Cleaners : v # w => g[v] = f[v]
  BY <1>1 DEF CleanerTable, Resting, Counts
<1>3. /\ audit'.told + audit'.untold = audit.told + audit.untold + cleaner[w].deleted
      /\ audit' \in AuditRow
  BY <1>1 DEF AuditRow
<1>4. audit.told + audit.untold + Tally(f) = Cardinality(Removed)
  BY DEF CustomersInv, PrivacyOK, RemovedCountedOnce, Removed, Counts
<1>5. RemovedCountedOnce' <=> audit'.told + audit'.untold + Tally(g) = Cardinality(Removed)
  BY DEF RemovedCountedOnce, Removed
<1> HIDE DEF f, g
<1>6. Tally(g) = Tally(f) - f[w] + g[w] /\ Tally(f) \in Nat
  BY <1>2, PrivacyAssumption, TallyChange, TallyType
<1>7. audit.told \in Nat /\ audit.untold \in Nat /\ audit'.told \in Nat /\ audit'.untold \in Nat
  BY <1>1, <1>3 DEF AuditRow
<1>8. audit'.told + audit'.untold + Tally(g) = audit.told + audit.untold + Tally(f)
  BY <1>1, <1>2, <1>3, <1>6, <1>7
<1> QED
  BY <1>3, <1>4, <1>5, <1>8

(* A request that has read, ended or grown stale, where no user changes    *)
(* and an image at most appears or is on its way out.                      *)
LEMMA ObjectStep ==
  ASSUME CustomersInv, NEW q \in Requests,
         pending' = [p \in Requests |-> pending'[p]],
         \A p \in Requests : p # q => Older(pending[p], pending'[p]),
         Older(pending[q], pending'[q]) \/ (Begun(q) /\ pending'[q].kind # "wrong"),
         \A p \in Requests : Older(pending[p], pending'[p]) => LeavesUpload(pending'[p]),
         UNCHANGED <<user, code, seats, rule, hit>>,
         overtaken' \in BOOLEAN, overtaken => overtaken',
         PrivacyOK', DeletedLeavesNothing'
  PROVE  CustomersInv'
<1>0. PendingOK /\ UserRowsOK /\ AttemptsOK
  BY DEF CustomersInv
<1>1. ASSUME NEW p \in Requests, Older(pending[p], pending'[p])
      PROVE  LeavesSession(pending'[p]) /\ LeavesPublication(pending'[p]) /\ LeavesUpload(pending'[p])
  BY <1>1 DEF LeavesSession, LeavesPublication, Past, PastNext, Reachable, ReachableNext,
     Barred, BarredNext, Published, PublishedNext
<1>2. PendingOK'
  BY <1>0, <1>1, PendingStep
<1>3. AttemptsOK'
  <2>1. \A c \in Codes : code[c].attempts \in Nat /\ code'[c].attempts \in Nat
    BY <1>0 DEF UserRowsOK
  <2>2. \A p \in Requests : pending'[p].kind = "wrong" => Older(pending[p], pending'[p])
    OBVIOUS
  <2> QED
    BY <1>0, <2>1, <2>2, AttemptsStep
<1> QED
  BY <1>2, <1>3, UsersStay DEF CustomersInv

LEMMA PutStep ==
  ASSUME CustomersInv, NEW q \in Requests, NEW u \in Users, NEW i \in Uploads, PutObject(q, u, i)
  PROVE  CustomersInv'
<1> DEFINE r == [kind |-> "upload", user |-> u, object |-> i, fresh |-> TRUE]
<1>0. PendingOK /\ UserRowsOK
  BY DEF CustomersInv
<1>1. /\ SignedIn(u) /\ upload[i].state = "none" /\ i \notin objects
      /\ \A p \in Requests : pending[p].kind = "upload" => pending[p].object # i
      /\ Begins(q, r) /\ objects' = objects \cup {i}
      /\ UNCHANGED <<user, code, seats, rule, hit, overtaken, upload, privacy, cleaner, failures, audit, stray>>
  BY DEF PutObject, kept
<1>2. /\ pending' = [p \in Requests |-> pending'[p]] /\ pending'[q] = r
      /\ \A p \in Requests : p # q => pending'[p] = pending[p]
      /\ \A p \in Requests : p # q => Older(pending[p], pending'[p])
  BY <1>0, <1>1, BeginShape
<1>3. r \in PendingRows /\ r.kind = "upload" /\ r.object = i /\ r.user = u
  BY DEF PendingRows, UploadRows
<1> HIDE DEF r
<1>4. Begun(q)
  <2>1. overtaken \/ Reachable(u)
    BY <1>1 DEF SignedIn, CustomersInv, DeletedLeavesNothing, Reachable
  <2>2. RowNext(r)
    BY <1>1, <1>3, <2>1 DEF RowNext, Reachable, ReachableNext
  <2> QED
    BY <1>1, <1>2, <1>3, <2>2 DEF Begun
<1>5. ASSUME NEW p \in Requests, Older(pending[p], pending'[p])
      PROVE  LeavesUpload(pending'[p])
  BY <1>1 DEF LeavesUpload, Reachable, ReachableNext
<1>6. PrivacyOK'
  <2>1. PrivacyTypeOK'
    BY <1>1, PrivacyTables DEF CustomersInv, PrivacyOK, PrivacyTypeOK
  <2>2. RemovedCountedOnce'
    BY <1>1, CountStays
  <2>3. CleanersOK'
    <3> SUFFICES ASSUME NEW w \in Cleaners
                 PROVE  /\ \A j \in cleaner[w].todo : upload[j].state \in {"due", "removed"}
                        /\ cleaner[w].at # Nothing =>
                             upload[cleaner[w].at].state \in {"due", "removed"}
                             /\ cleaner[w].at \notin objects'
      BY <1>1 DEF CleanersOK
    <3> QED
      BY <1>1 DEF CustomersInv, PrivacyOK, CleanersOK
  <2> QED
    BY <1>1, <2>1, <2>2, <2>3 DEF CustomersInv, PrivacyOK, LiveHasObject
<1>7. DeletedLeavesNothing'
  BY <1>1, DeletedStays
<1> QED
  BY <1>0, <1>1, <1>2, <1>3, <1>4, <1>5, <1>6, <1>7, ObjectStep DEF UserRowsOK

LEMMA CreateStep ==
  ASSUME CustomersInv, NEW q \in Requests, CreateUpload(q)
  PROVE  CustomersInv'
<1> DEFINE r == pending[q]
           i == r.object
           new == [state |-> "live", user |-> r.user]
<1>0. PendingOK /\ UserRowsOK
  BY DEF CustomersInv
<1>1. /\ r.kind = "upload" /\ upload' = [upload EXCEPT ![i] = new]
      /\ EndsAndOvertakes(q, {}) /\ overtaken' = (overtaken \/ ~r.fresh)
      /\ UNCHANGED <<user, code, seats, rule, hit, objects, privacy, cleaner, failures, audit, stray>>
  BY DEF CreateUpload, kept, EndsAndOvertakes
<1>2. /\ r.user \in Users /\ i \in Uploads /\ r.fresh \in BOOLEAN
      /\ upload[i].state = "none" /\ i \in objects
      /\ r.fresh => overtaken \/ Reachable(r.user)
  BY <1>0, <1>1, Columns DEF PendingOK, RowOK
<1>3. Stale({}) /\ pending'[q] = Rest
  BY <1>0, <1>1, StaleShape
<1>4. /\ upload' \in UploadTable /\ upload'[i] = new /\ new.state = "live" /\ new.user = r.user
      /\ \A j \in Uploads : j # i => upload'[j] = upload[j]
  BY <1>1, <1>2, PrivacyTables DEF UploadTable
<1>5. ASSUME NEW p \in Requests PROVE LeavesUpload(pending'[p])
  <2>1. SUFFICES ASSUME pending'[p].kind = "upload" PROVE pending'[p].object \in Uploads /\ pending'[p].object # i
    BY <1>1, <1>4, <2>1 DEF LeavesUpload, Reachable, ReachableNext
  <2>2. Older(pending[p], pending'[p]) /\ pending[p] \in PendingRows /\ p # q
    BY <1>0, <1>3, <2>1 DEF Stale, PendingOK, Rest
  <2>3. /\ pending'[p] \in PendingRows /\ pending[p].kind = "upload"
        /\ pending'[p].object = pending[p].object
    BY <2>1, <2>2, OlderRow
  <2> QED
    BY <1>0, <1>1, <2>1, <2>2, <2>3, Columns DEF PendingOK, Apart
<1> HIDE DEF new, i, r
<1>6. PrivacyOK'
  <2>1. PrivacyTypeOK'
    BY <1>1, <1>4, PrivacyTables DEF PrivacyTypeOK, UploadTable, RequestTable, CleanerTable, AuditRow
  <2>2. RemovedCountedOnce'
    BY <1>1, <1>2, <1>4, CountStays
  <2>3. LiveHasObject'
    BY <1>1, <1>2, <1>4 DEF CustomersInv, PrivacyOK, LiveHasObject
  <2>4. CleanersOK'
    <3> SUFFICES ASSUME NEW w \in Cleaners
                 PROVE  /\ \A j \in cleaner[w].todo : upload'[j].state \in {"due", "removed"}
                        /\ cleaner[w].at # Nothing =>
                             upload'[cleaner[w].at].state \in {"due", "removed"}
                             /\ cleaner[w].at \notin objects
      BY <1>1 DEF CleanersOK
    <3>1. /\ \A j \in cleaner[w].todo : j \in Uploads /\ upload[j].state \in {"due", "removed"}
          /\ cleaner[w].at # Nothing =>
               /\ cleaner[w].at \in Uploads /\ cleaner[w].at \notin objects
               /\ upload[cleaner[w].at].state \in {"due", "removed"}
      BY PrivacyTables DEF CustomersInv, PrivacyOK, CleanersOK, CleanerTable
    <3> QED
      BY <1>2, <1>4, <3>1
  <2> QED
    BY <1>1, <2>1, <2>2, <2>3, <2>4 DEF CustomersInv, PrivacyOK
<1>7. DeletedLeavesNothing'
  <2> SUFFICES ASSUME ~overtaken', NEW u \in Users, user'[u].phone = Gone
               PROVE  /\ \A s \in seats' : s.user # u
                      /\ \A j \in Uploads : upload'[j].state = "live" => upload'[j].user # u
    BY DEF DeletedLeavesNothing
  <2>1. ~overtaken /\ r.fresh /\ user[u].phone = Gone
    BY <1>1, <1>2
  <2>2. /\ \A s \in seats : s.user # u
        /\ \A j \in Uploads : upload[j].state = "live" => upload[j].user # u
    BY <2>1 DEF CustomersInv, DeletedLeavesNothing
  <2>3. r.user # u
    BY <1>2, <2>1 DEF Reachable
  <2>4. upload'[i].user # u
    BY <1>4, <2>3
  <2> QED
    BY <1>1, <1>4, <2>2, <2>4
<1>8. overtaken' \in BOOLEAN /\ (overtaken => overtaken')
  BY <1>0, <1>1, <1>2 DEF UserRowsOK
<1> QED
  BY <1>1, <1>3, <1>5, <1>6, <1>7, <1>8, ObjectStep DEF Stale

LEMMA CreateFailsStep ==
  ASSUME CustomersInv, NEW q \in Requests, NEW d \in BOOLEAN, CreateUploadFails(q, d)
  PROVE  CustomersInv'
<1> DEFINE i == pending[q].object
<1>0. PendingOK /\ UserRowsOK
  BY DEF CustomersInv
<1>1. /\ pending[q].kind = "upload" /\ failures' = failures + 1 /\ Ends(q)
      /\ objects' \subseteq objects /\ \A j \in objects : j # i => j \in objects'
      /\ UNCHANGED <<user, code, seats, rule, hit, overtaken, upload, privacy, cleaner, audit, stray>>
  BY DEF CreateUploadFails, Fails, kept
<1>2. /\ i \in Uploads /\ upload[i].state = "none"
  BY <1>0, <1>1, Columns DEF PendingOK, RowOK
<1>3. /\ pending' = [p \in Requests |-> pending'[p]] /\ pending'[q] = Rest
      /\ \A p \in Requests : Older(pending[p], pending'[p])
      /\ \A p \in Requests : p # q => pending'[p] = pending[p]
  BY <1>0, <1>1, EndShape
<1>4. ASSUME NEW p \in Requests PROVE LeavesUpload(pending'[p])
  <2>1. SUFFICES ASSUME pending'[p].kind = "upload" PROVE pending'[p].object # i
    BY <1>1, <2>1 DEF LeavesUpload, Reachable, ReachableNext
  <2>2. p # q /\ pending'[p] = pending[p]
    BY <1>3, <2>1 DEF Rest
  <2> QED
    BY <1>0, <1>1, <2>1, <2>2 DEF PendingOK, Apart
<1> HIDE DEF i
<1>5. PrivacyOK'
  <2>1. PrivacyTypeOK' /\ failures' \in Nat
    BY <1>1, PrivacyTables DEF PrivacyTypeOK, UploadTable, RequestTable, CleanerTable, AuditRow
  <2>2. RemovedCountedOnce'
    BY <1>1, CountStays
  <2>3. LiveHasObject'
    BY <1>1, <1>2 DEF CustomersInv, PrivacyOK, LiveHasObject
  <2>4. CleanersOK'
    BY <1>1 DEF CustomersInv, PrivacyOK, CleanersOK
  <2> QED
    BY <1>1, <2>1, <2>2, <2>3, <2>4 DEF CustomersInv, PrivacyOK
<1>6. DeletedLeavesNothing'
  BY <1>1, DeletedStays
<1> QED
  BY <1>0, <1>1, <1>3, <1>4, <1>5, <1>6, ObjectStep DEF UserRowsOK

LEMMA LoseCreatedStep ==
  ASSUME CustomersInv, NEW q \in Requests, NEW d \in BOOLEAN, LoseCreatedUpload(q, d)
  PROVE  CustomersInv'
<1> DEFINE r == pending[q]
           i == r.object
           new == [state |-> "live", user |-> r.user]
<1>0. PendingOK /\ UserRowsOK
  BY DEF CustomersInv
<1>1. /\ r.kind = "upload" /\ upload' = [upload EXCEPT ![i] = new] /\ failures' = failures + 1
      /\ EndsAndOvertakes(q, {}) /\ overtaken' = (overtaken \/ ~r.fresh)
      /\ objects' \subseteq objects /\ \A j \in objects : j # i => j \in objects'
      /\ stray \subseteq stray' /\ stray' \subseteq stray \cup {i}
      /\ i \in objects => i \in objects' \cup stray'
      /\ UNCHANGED <<user, code, seats, rule, hit, privacy, cleaner, audit>>
  BY DEF LoseCreatedUpload, EndsAndOvertakes, Fails
<1>2. /\ r.user \in Users /\ i \in Uploads /\ r.fresh \in BOOLEAN
      /\ upload[i].state = "none" /\ i \in objects
      /\ r.fresh => overtaken \/ Reachable(r.user)
  BY <1>0, <1>1, Columns DEF PendingOK, RowOK
<1>3. Stale({}) /\ pending'[q] = Rest
  BY <1>0, <1>1, StaleShape
<1>4. /\ upload' \in UploadTable /\ upload'[i] = new /\ new.state = "live" /\ new.user = r.user
      /\ \A j \in Uploads : j # i => upload'[j] = upload[j]
  BY <1>1, <1>2, PrivacyTables DEF UploadTable
<1>5. ASSUME NEW p \in Requests PROVE LeavesUpload(pending'[p])
  <2>1. SUFFICES ASSUME pending'[p].kind = "upload" PROVE pending'[p].object \in Uploads /\ pending'[p].object # i
    BY <1>1, <1>4, <2>1 DEF LeavesUpload, Reachable, ReachableNext
  <2>2. Older(pending[p], pending'[p]) /\ pending[p] \in PendingRows /\ p # q
    BY <1>0, <1>3, <2>1 DEF Stale, PendingOK, Rest
  <2>3. /\ pending'[p] \in PendingRows /\ pending[p].kind = "upload"
        /\ pending'[p].object = pending[p].object
    BY <2>1, <2>2, OlderRow
  <2> QED
    BY <1>0, <1>1, <2>1, <2>2, <2>3, Columns DEF PendingOK, Apart
<1> HIDE DEF new, i, r
<1>6. PrivacyOK'
  <2>1. PrivacyTypeOK' /\ failures' \in Nat
    BY <1>1, <1>2, <1>4, PrivacyTables DEF PrivacyTypeOK, UploadTable, RequestTable, CleanerTable, AuditRow
  <2>2. RemovedCountedOnce'
    BY <1>1, <1>2, <1>4, CountStays
  <2>3. LiveHasObject'
    BY <1>1, <1>2, <1>4 DEF CustomersInv, PrivacyOK, LiveHasObject
  <2>4. CleanersOK'
    <3> SUFFICES ASSUME NEW w \in Cleaners
                 PROVE  /\ \A j \in cleaner[w].todo : upload'[j].state \in {"due", "removed"}
                        /\ cleaner[w].at # Nothing =>
                             upload'[cleaner[w].at].state \in {"due", "removed"}
                             /\ cleaner[w].at \notin objects'
      BY <1>1 DEF CleanersOK
    <3>1. /\ \A j \in cleaner[w].todo : j \in Uploads /\ upload[j].state \in {"due", "removed"}
          /\ cleaner[w].at # Nothing =>
               /\ cleaner[w].at \in Uploads /\ cleaner[w].at \notin objects
               /\ upload[cleaner[w].at].state \in {"due", "removed"}
      BY PrivacyTables DEF CustomersInv, PrivacyOK, CleanersOK, CleanerTable
    <3> QED
      BY <1>1, <1>2, <1>4, <3>1
  <2> QED
    BY <1>1, <2>1, <2>2, <2>3, <2>4 DEF CustomersInv, PrivacyOK
<1>7. DeletedLeavesNothing'
  <2> SUFFICES ASSUME ~overtaken', NEW u \in Users, user'[u].phone = Gone
               PROVE  /\ \A s \in seats' : s.user # u
                      /\ \A j \in Uploads : upload'[j].state = "live" => upload'[j].user # u
    BY DEF DeletedLeavesNothing
  <2>1. ~overtaken /\ r.fresh /\ user[u].phone = Gone
    BY <1>1, <1>2
  <2>2. /\ \A s \in seats : s.user # u
        /\ \A j \in Uploads : upload[j].state = "live" => upload[j].user # u
    BY <2>1 DEF CustomersInv, DeletedLeavesNothing
  <2>3. r.user # u
    BY <1>2, <2>1 DEF Reachable
  <2>4. upload'[i].user # u
    BY <1>4, <2>3
  <2> QED
    BY <1>1, <1>4, <2>2, <2>4
<1>8. overtaken' \in BOOLEAN /\ (overtaken => overtaken')
  BY <1>0, <1>1, <1>2 DEF UserRowsOK
<1> QED
  BY <1>1, <1>3, <1>5, <1>6, <1>7, <1>8, ObjectStep DEF Stale

LEMMA FindSteps ==
  ASSUME CustomersInv, NEW q \in Requests,
         \/ \E u \in Users, t \in {"DELETE", "EXPORT"} : FindPending(q, u, t)
         \/ \E r \in PrivacyIds : ReadDelete(q, r)
  PROVE  CustomersInv'
<1>0. UserRowsOK
  BY DEF CustomersInv
<1>1. ASSUME NEW u \in Users, NEW t \in {"DELETE", "EXPORT"}, FindPending(q, u, t)
      PROVE  CustomersInv'
  <2> DEFINE r == [kind |-> "private", user |-> u, type |-> t, fresh |-> TRUE]
  <2>1. r \in PendingRows /\ r.kind = "private"
    BY DEF PendingRows, PrivateRows
  <2>2. Begins(q, r) /\ UNCHANGED <<user, code, seats, rule, hit, overtaken, pvars>>
    BY <1>1 DEF FindPending
  <2> HIDE DEF r
  <2> QED
    BY <2>1, <2>2, BeginStep
<1>2. ASSUME NEW x \in PrivacyIds, ReadDelete(q, x) PROVE CustomersInv'
  <2> DEFINE u == privacy[x].user
             p == user[u].phone
             r == [kind |-> "deletion", request |-> x, user |-> u, phone |-> p, fresh |-> TRUE]
  <2>1. u \in Users
    BY <1>2 DEF ReadDelete, Decidable, CustomersInv, PrivacyOK
  <2>2. p \in Phones \cup {Gone}
    BY <1>0, <2>1 DEF UserRowsOK
  <2>3. Begins(q, r) /\ UNCHANGED <<user, code, seats, rule, hit, overtaken, pvars>>
    BY <1>2 DEF ReadDelete
  <2> HIDE DEF u, p
  <2>4. r \in PendingRows /\ r.kind = "deletion"
    BY <2>1, <2>2 DEF PendingRows, DeletionRows
  <2> HIDE DEF r
  <2> QED
    BY <2>3, <2>4, BeginStep
<1> QED
  BY <1>1, <1>2

LEMMA CreateRequestStep ==
  ASSUME CustomersInv, NEW q \in Requests, NEW r \in PrivacyIds, CreatePrivacyRequest(q, r)
  PROVE  CustomersInv'
<1> DEFINE x == pending[q]
           new == [status |-> "REQUESTED", type |-> x.type, user |-> x.user]
<1>0. PendingOK /\ UserRowsOK
  BY DEF CustomersInv
<1>1. /\ x.kind = "private" /\ privacy' = [privacy EXCEPT ![r] = new]
      /\ EndsAndOvertakes(q, SameWish(q)) /\ overtaken' = (overtaken \/ ~x.fresh)
      /\ UNCHANGED <<user, code, seats, rule, hit, upload, objects, cleaner, failures, audit, stray>>
  BY DEF CreatePrivacyRequest, kept, EndsAndOvertakes
<1>2. x.user \in Users /\ x.type \in {"DELETE", "EXPORT"} /\ x.fresh \in BOOLEAN
  BY <1>0, <1>1, Columns DEF PendingOK
<1>3. Stale(SameWish(q))
  <2>1. SameWish(q) \in SUBSET Requests /\ \A p \in SameWish(q) : pending[p].kind \in FreshKinds
    BY DEF SameWish, FreshKinds
  <2> QED
    BY <1>0, <1>1, <2>1, StaleShape
<1>4. ASSUME NEW p \in Requests PROVE LeavesUpload(pending'[p])
  BY <1>1 DEF LeavesUpload, Reachable, ReachableNext
<1> HIDE DEF x
<1>5. /\ privacy' \in RequestTable /\ privacy'[r].user = x.user
      /\ \A y \in PrivacyIds : y # r => privacy'[y] = privacy[y]
  BY <1>1, <1>2, PrivacyTables DEF RequestTable
<1>6. PrivacyOK'
  <2>1. PrivacyTypeOK'
    BY <1>1, <1>5, PrivacyTables DEF PrivacyTypeOK, UploadTable, RequestTable, CleanerTable, AuditRow
  <2>2. RemovedCountedOnce'
    BY <1>1, CountStays
  <2>3. \A y \in PrivacyIds : privacy'[y].status \in {"REQUESTED", "PROCESSING"} => privacy'[y].user \in Users
    BY <1>2, <1>5 DEF CustomersInv, PrivacyOK
  <2> QED
    BY <1>1, <2>1, <2>2, <2>3 DEF CustomersInv, PrivacyOK, LiveHasObject, CleanersOK
<1>7. overtaken' \in BOOLEAN /\ (overtaken => overtaken')
  BY <1>0, <1>1, <1>2 DEF UserRowsOK
<1>8. DeletedLeavesNothing'
  BY <1>1, <1>7, DeletedStays
<1> QED
  BY <1>1, <1>3, <1>4, <1>6, <1>7, <1>8, ObjectStep DEF Stale

(* The clean-ups, and what else changes no row of a user.                  *)
LEMMA CleaningStep ==
  ASSUME CustomersInv, UNCHANGED uvars, PrivacyOK',
         \A i \in Uploads : upload[i].state = "none" => upload'[i].state = "none",
         \A i \in Uploads : upload'[i].state = "live" => upload'[i] = upload[i],
         \A i \in Uploads : upload[i].state = "none" /\ i \in objects => i \in objects'
  PROVE  CustomersInv'
<1>0. PendingOK /\ UserRowsOK /\ AttemptsOK
  BY DEF CustomersInv
<1>1. UNCHANGED <<user, code, seats, rule, hit, pending, overtaken>>
  BY DEF uvars
<1>2. PendingOK'
  <2>1. CASE Requests = {}
    BY <1>0, <1>1, <2>1 DEF PendingOK, Apart
  <2>2. ASSUME NEW q \in Requests PROVE PendingOK'
    <3>1. /\ pending' = [p \in Requests |-> pending'[p]]
          /\ \A p \in Requests : Older(pending[p], pending'[p])
      BY <1>0, <1>1 DEF PendingOK, Older
    <3>2. ASSUME NEW p \in Requests
          PROVE  LeavesSession(pending'[p]) /\ LeavesPublication(pending'[p]) /\ LeavesUpload(pending'[p])
      <4>1. pending'[p].kind = "upload" => pending'[p].object \in Uploads
        BY <1>0, <1>1, Columns DEF PendingOK
      <4> QED
        BY <1>1, <4>1 DEF LeavesSession, LeavesPublication, LeavesUpload, Past, PastNext,
           Reachable, ReachableNext, Barred, BarredNext, Published, PublishedNext
    <3> QED
      BY <1>0, <3>1, <3>2, PendingStep
  <2> QED
    BY <2>1, <2>2
<1>3. AttemptsOK'
  BY <1>0, <1>1 DEF AttemptsOK, Guesses
<1>4. DeletedLeavesNothing'
  BY <1>1 DEF CustomersInv, DeletedLeavesNothing
<1> QED
  BY <1>0, <1>1, <1>2, <1>3, <1>4, UsersStay DEF CustomersInv, UserRowsOK

LEMMA ExportStep ==
  ASSUME CustomersInv, NEW r \in PrivacyIds, CompleteExport(r)
  PROVE  CustomersInv'
<1>1. /\ privacy' = [privacy EXCEPT ![r].status = "COMPLETED"]
      /\ UNCHANGED <<uvars, upload, objects, cleaner, failures, audit, stray>>
  BY DEF CompleteExport, kept
<1>2. /\ privacy' \in RequestTable
      /\ privacy'[r].status = "COMPLETED" /\ \A y \in PrivacyIds : y # r => privacy'[y] = privacy[y]
  BY <1>1, PrivacyTables DEF RequestTable
<1>3. PrivacyTypeOK'
  BY <1>1, <1>2, PrivacyTables DEF PrivacyTypeOK, UploadTable, RequestTable, CleanerTable, AuditRow
<1>4. RemovedCountedOnce'
  BY <1>1, CountStays
<1>5. PrivacyOK'
  BY <1>1, <1>2, <1>3, <1>4 DEF CustomersInv, PrivacyOK, LiveHasObject, CleanersOK
<1> QED
  BY <1>1, <1>5, CleaningStep

LEMMA RetentionStep ==
  ASSUME CustomersInv, NEW i \in Uploads, RetentionPasses(i)
  PROVE  CustomersInv'
<1>1. /\ upload[i].state = "marked" /\ upload' = [upload EXCEPT ![i].state = "due"]
      /\ UNCHANGED <<uvars, objects, privacy, cleaner, failures, audit, stray>>
  BY DEF RetentionPasses, kept
<1>2. /\ upload' \in UploadTable /\ upload'[i].state = "due"
      /\ \A j \in Uploads : j # i => upload'[j] = upload[j]
  BY <1>1, PrivacyTables DEF UploadTable
<1>3. PrivacyTypeOK'
  BY <1>1, <1>2, PrivacyTables DEF PrivacyTypeOK, UploadTable, RequestTable, CleanerTable, AuditRow
<1>4. RemovedCountedOnce'
  BY <1>1, <1>2, CountStays
<1>5. LiveHasObject'
  BY <1>1, <1>2 DEF CustomersInv, PrivacyOK, LiveHasObject
<1>6. CleanersOK'
  <2> SUFFICES ASSUME NEW w \in Cleaners
               PROVE  /\ \A j \in cleaner[w].todo : upload'[j].state \in {"due", "removed"}
                      /\ cleaner[w].at # Nothing =>
                           upload'[cleaner[w].at].state \in {"due", "removed"}
                           /\ cleaner[w].at \notin objects
    BY <1>1 DEF CleanersOK
  <2>1. /\ \A j \in cleaner[w].todo : j \in Uploads /\ upload[j].state \in {"due", "removed"}
        /\ cleaner[w].at # Nothing =>
             /\ cleaner[w].at \in Uploads /\ cleaner[w].at \notin objects
             /\ upload[cleaner[w].at].state \in {"due", "removed"}
    BY PrivacyTables DEF CustomersInv, PrivacyOK, CleanersOK, CleanerTable
  <2> QED
    BY <1>2, <2>1
<1>7. PrivacyOK'
  BY <1>1, <1>3, <1>4, <1>5, <1>6 DEF CustomersInv, PrivacyOK
<1> QED
  BY <1>1, <1>2, <1>7, CleaningStep

(* A clean-up moves on and removes no row; what it is to remove stays on   *)
(* its way out.                                                            *)
LEMMA CleanerStep ==
  ASSUME CustomersInv, NEW w \in Cleaners, NEW row,
         cleaner' = [cleaner EXCEPT ![w] = row],
         row \in [running : BOOLEAN, todo : SUBSET Uploads, at : Uploads \cup {Nothing}, deleted : Nat],
         RemovedCountedOnce', audit' \in AuditRow, UNCHANGED stray,
         \A i \in row.todo : upload[i].state \in {"due", "removed"},
         row.at # Nothing => upload[row.at].state \in {"due", "removed"} /\ row.at \notin objects',
         objects' \subseteq objects,
         \A i \in objects : upload[i].state \notin {"due", "removed"} => i \in objects',
         failures' \in Nat, UNCHANGED <<uvars, upload, privacy>>
  PROVE  CustomersInv'
<1>1. /\ cleaner' \in CleanerTable /\ cleaner'[w] = row
      /\ \A v \in Cleaners : v # w => cleaner'[v] = cleaner[v]
  BY PrivacyTables DEF CleanerTable
<1>2. PrivacyTypeOK'
  BY <1>1, PrivacyTables DEF PrivacyTypeOK, UploadTable, RequestTable, CleanerTable, AuditRow
<1>4. LiveHasObject'
  BY DEF CustomersInv, PrivacyOK, LiveHasObject
<1>5. CleanersOK'
  <2> SUFFICES ASSUME NEW v \in Cleaners
               PROVE  /\ \A j \in cleaner'[v].todo : upload[j].state \in {"due", "removed"}
                      /\ cleaner'[v].at # Nothing =>
                           upload[cleaner'[v].at].state \in {"due", "removed"}
                           /\ cleaner'[v].at \notin objects'
    BY DEF CleanersOK
  <2>1. CASE v = w
    BY <1>1, <2>1
  <2>2. CASE v # w
    BY <1>1, <2>2 DEF CustomersInv, PrivacyOK, CleanersOK
  <2> QED
    BY <2>1, <2>2
<1>6. PrivacyOK'
  BY <1>2, <1>4, <1>5 DEF CustomersInv, PrivacyOK
<1> QED
  BY <1>6, CleaningStep

LEMMA CleanerRow ==
  ASSUME CustomersInv, NEW w \in Cleaners
  PROVE  /\ cleaner[w] \in [running : BOOLEAN, todo : SUBSET Uploads,
                            at : Uploads \cup {Nothing}, deleted : Nat]
         /\ \A i \in cleaner[w].todo : upload[i].state \in {"due", "removed"}
         /\ cleaner[w].at # Nothing =>
              upload[cleaner[w].at].state \in {"due", "removed"} /\ cleaner[w].at \notin objects
         /\ cleaner \in CleanerTable
BY PrivacyTables DEF CleanerTable, CustomersInv, PrivacyOK, CleanersOK

LEMMA CleanerSteps ==
  ASSUME CustomersInv, NEW w \in Cleaners,
         \/ ListDeletedUploads(w) \/ FinishCleanup(w) \/ CleanupStops(w)
         \/ \E i \in Uploads : DeleteObject(w, i) \/ \E gone \in BOOLEAN : DeleteObjectFails(w, i, gone)
  PROVE  CustomersInv'
<1>0. /\ cleaner \in CleanerTable /\ failures \in Nat /\ audit \in AuditRow
      /\ cleaner[w] \in [running : BOOLEAN, todo : SUBSET Uploads, at : Uploads \cup {Nothing}, deleted : Nat]
  BY CleanerRow, PrivacyTables
<1>1. CASE ListDeletedUploads(w)
  <2> DEFINE due == {i \in Uploads : Due(i)}
             new == [cleaner[w] EXCEPT !.running = TRUE, !.todo = due]
  <2>1. /\ cleaner' = [cleaner EXCEPT ![w].running = TRUE, ![w].todo = due]
        /\ UNCHANGED <<uvars, upload, objects, privacy, failures, audit, stray>> /\ failures' \in Nat
    BY <1>0, <1>1 DEF ListDeletedUploads, kept
  <2>2. due \in SUBSET Uploads /\ \A i \in due : upload[i].state = "due"
    BY DEF Due
  <2> HIDE DEF due
  <2>3. cleaner' = [cleaner EXCEPT ![w] = new]
    BY <1>0, <2>1 DEF CleanerTable
  <2>4. /\ new \in [running : BOOLEAN, todo : SUBSET Uploads, at : Uploads \cup {Nothing}, deleted : Nat]
        /\ new.todo = due /\ new.at = cleaner[w].at /\ new.deleted = cleaner[w].deleted
    BY <1>0, <2>2
  <2> HIDE DEF new
  <2>5. /\ \A i \in new.todo : upload[i].state \in {"due", "removed"}
        /\ new.at # Nothing =>
             upload[new.at].state \in {"due", "removed"} /\ new.at \notin objects'
    BY <2>2, <2>1, <2>4, CleanerRow
  <2>6. RemovedCountedOnce'
    BY <1>0, <2>1, <2>3, <2>4, CountStays DEF CleanerTable
  <2>7. /\ objects' \subseteq objects /\ \A i \in objects : i \in objects'
        /\ UNCHANGED <<uvars, upload, privacy>> /\ UNCHANGED stray /\ audit' \in AuditRow
    BY <1>0, <2>1
  <2> QED
    BY <2>1, <2>3, <2>4, <2>5, <2>6, <2>7, CleanerStep
<1>2. CASE FinishCleanup(w) \/ CleanupStops(w)
  <2>1. /\ cleaner' = [cleaner EXCEPT ![w] = Resting] /\ failures' \in Nat
        /\ \/ audit' = [audit EXCEPT !.told = @ + cleaner[w].deleted]
           \/ audit' = [audit EXCEPT !.untold = @ + cleaner[w].deleted]
        /\ UNCHANGED <<uvars, upload, objects, privacy, stray>>
    BY <1>0, <1>2 DEF FinishCleanup, CleanupStops, Fails
  <2>2. RemovedCountedOnce' /\ audit' \in AuditRow
    BY <2>1, CountMoves
  <2>3. /\ Resting \in [running : BOOLEAN, todo : SUBSET Uploads, at : Uploads \cup {Nothing}, deleted : Nat]
        /\ Resting.todo = {} /\ Resting.at = Nothing
    BY DEF Resting
  <2>4. /\ objects' \subseteq objects /\ \A i \in objects : i \in objects'
        /\ UNCHANGED <<uvars, upload, privacy>> /\ UNCHANGED stray
    BY <2>1
  <2> QED
    BY <2>1, <2>2, <2>3, <2>4, CleanerStep
<1>3. ASSUME NEW i \in Uploads, DeleteObject(w, i) PROVE CustomersInv'
  <2> DEFINE new == [cleaner[w] EXCEPT !.todo = @ \ {i}, !.at = i]
  <2>1. /\ cleaner' = [cleaner EXCEPT ![w].todo = @ \ {i}, ![w].at = i]
        /\ i \in cleaner[w].todo /\ objects' = objects \ {i}
        /\ UNCHANGED <<uvars, upload, privacy, failures, audit, stray>>
    BY <1>3 DEF DeleteObject, WithoutObject, kept
  <2>3. cleaner' = [cleaner EXCEPT ![w] = new]
    BY <1>0, <2>1 DEF CleanerTable
  <2>4. /\ new \in [running : BOOLEAN, todo : SUBSET Uploads, at : Uploads \cup {Nothing}, deleted : Nat]
        /\ new.todo = cleaner[w].todo \ {i} /\ new.at = i /\ new.deleted = cleaner[w].deleted
    BY <1>0
  <2>5. upload[i].state \in {"due", "removed"}
    BY <2>1, CleanerRow
  <2> HIDE DEF new
  <2>6. RemovedCountedOnce'
    BY <1>0, <2>1, <2>3, <2>4, CountStays DEF CleanerTable
  <2> QED
    BY <1>0, <2>1, <2>3, <2>4, <2>5, <2>6, CleanerRow, CleanerStep
<1>4. ASSUME NEW i \in Uploads, NEW gone \in BOOLEAN, DeleteObjectFails(w, i, gone) PROVE CustomersInv'
  <2> DEFINE new == [cleaner[w] EXCEPT !.todo = @ \ {i}]
  <2>1. /\ cleaner' = [cleaner EXCEPT ![w].todo = @ \ {i}] /\ failures' \in Nat
        /\ i \in cleaner[w].todo /\ objects' \subseteq objects
        /\ \A j \in objects : j # i => j \in objects'
        /\ UNCHANGED <<uvars, upload, privacy, audit, stray>>
    BY <1>0, <1>4 DEF DeleteObjectFails, WithoutObject, Fails, kept
  <2>3. cleaner' = [cleaner EXCEPT ![w] = new]
    BY <1>0, <2>1 DEF CleanerTable
  <2>4. /\ new \in [running : BOOLEAN, todo : SUBSET Uploads, at : Uploads \cup {Nothing}, deleted : Nat]
        /\ new.todo = cleaner[w].todo \ {i} /\ new.at = cleaner[w].at /\ new.deleted = cleaner[w].deleted
    BY <1>0
  <2>5. upload[i].state \in {"due", "removed"}
    BY <2>1, CleanerRow
  <2> HIDE DEF new
  <2>6. RemovedCountedOnce'
    BY <1>0, <2>1, <2>3, <2>4, CountStays DEF CleanerTable
  <2>7. /\ \A j \in new.todo : upload[j].state \in {"due", "removed"}
        /\ new.at # Nothing => upload[new.at].state \in {"due", "removed"} /\ new.at \notin objects'
    BY <2>1, <2>4, CleanerRow
  <2>8. /\ \A j \in objects : upload[j].state \notin {"due", "removed"} => j \in objects'
        /\ UNCHANGED <<uvars, upload, privacy>> /\ UNCHANGED stray /\ audit' \in AuditRow
    BY <1>0, <2>1, <2>5
  <2> QED
    BY <2>1, <2>3, <2>4, <2>6, <2>7, <2>8, CleanerStep
<1> QED
  BY <1>1, <1>2, <1>3, <1>4

(* The row goes, and its count is in the run's or in what none tells.      *)
LEMMA DeleteMetadataStep ==
  ASSUME CustomersInv, NEW w \in Cleaners, NEW i \in Uploads,
         DeleteUploadMetadata(w, i) \/ DeleteMetadataFails(w, i, TRUE)
  PROVE  CustomersInv'
<1> DEFINE gone == Counted(i)
           count == cleaner'[w].deleted - cleaner[w].deleted
           new == cleaner'[w]
           f == [v \in Cleaners |-> cleaner[v].deleted]
           g == [v \in Cleaners |-> cleaner'[v].deleted]
<1>0. /\ cleaner \in CleanerTable
      /\ cleaner[w] \in [running : BOOLEAN, todo : SUBSET Uploads, at : Uploads \cup {Nothing}, deleted : Nat]
      /\ upload \in UploadTable /\ audit \in AuditRow /\ failures \in Nat /\ gone \in Nat
  BY CleanerRow, PrivacyTables DEF Counted
<1>1. /\ cleaner[w].at = i
      /\ upload' = IF Due(i) THEN [upload EXCEPT ![i].state = "removed"] ELSE upload
      /\ \/ /\ cleaner' = [cleaner EXCEPT ![w].at = Nothing, ![w].deleted = @ + gone]
            /\ audit' = audit
         \/ /\ cleaner' = [cleaner EXCEPT ![w].at = Nothing]
            /\ audit' = [audit EXCEPT !.untold = @ + gone]
      /\ UNCHANGED <<uvars, objects, privacy, stray>>
  BY DEF DeleteUploadMetadata, DeleteMetadataFails, kept
<1>f. failures' \in Nat
  BY <1>0 DEF DeleteUploadMetadata, DeleteMetadataFails, Fails, kept
<1>2. i # Nothing /\ upload[i].state \in {"due", "removed"} /\ i \notin objects
  BY <1>1, CleanerRow, PrivacyAssumption
<1>3. /\ upload' \in UploadTable /\ upload'[i].state = "removed"
      /\ \A j \in Uploads : j # i => upload'[j] = upload[j]
  BY <1>0, <1>1, <1>2 DEF Due, UploadTable
<1> HIDE DEF gone
<1>5. /\ new \in [running : BOOLEAN, todo : SUBSET Uploads, at : Uploads \cup {Nothing}, deleted : Nat]
      /\ new.todo = cleaner[w].todo /\ new.at = Nothing
      /\ \A v \in Cleaners : v # w => cleaner'[v] = cleaner[v]
      /\ cleaner' = [v \in Cleaners |-> cleaner'[v]]
      /\ \/ new.deleted = cleaner[w].deleted + gone /\ audit' = audit
         \/ new.deleted = cleaner[w].deleted /\ audit' = [audit EXCEPT !.untold = @ + gone]
  <2> DEFINE m == cleaner[w].deleted + gone
  <2>1. m \in Nat
    BY <1>0
  <2> HIDE DEF m
  <2>2. CASE cleaner' = [cleaner EXCEPT ![w].at = Nothing, ![w].deleted = m] /\ audit' = audit
    <3>1. /\ new \in [running : BOOLEAN, todo : SUBSET Uploads, at : Uploads \cup {Nothing}, deleted : Nat]
          /\ new.todo = cleaner[w].todo /\ new.at = Nothing /\ new.deleted = m
          /\ \A v \in Cleaners : v # w => cleaner'[v] = cleaner[v]
          /\ cleaner' = [v \in Cleaners |-> cleaner'[v]]
      BY <1>0, <2>1, <2>2 DEF CleanerTable
    <3> QED
      BY <2>2, <3>1 DEF m
  <2>3. CASE /\ cleaner' = [cleaner EXCEPT ![w].at = Nothing]
             /\ audit' = [audit EXCEPT !.untold = @ + gone]
    BY <1>0, <2>3 DEF CleanerTable
  <2> QED
    BY <1>1, <2>2, <2>3 DEF m
<1>6. cleaner' \in CleanerTable /\ cleaner'[w] = new
  <2>1. \A v \in Cleaners : cleaner'[v] \in [running : BOOLEAN, todo : SUBSET Uploads,
                                             at : Uploads \cup {Nothing}, deleted : Nat]
    BY <1>0, <1>5 DEF CleanerTable
  <2> HIDE DEF new
  <2> QED
    BY <1>5, <2>1 DEF CleanerTable, new
<1>6a. /\ audit' \in AuditRow
       /\ audit'.told + audit'.untold + new.deleted
            = audit.told + audit.untold + cleaner[w].deleted + gone
  <2>1. CASE new.deleted = cleaner[w].deleted + gone /\ audit' = audit
    BY <1>0, <2>1 DEF AuditRow
  <2>2. CASE new.deleted = cleaner[w].deleted /\ audit' = [audit EXCEPT !.untold = @ + gone]
    BY <1>0, <2>2 DEF AuditRow
  <2> QED
    BY <1>5, <2>1, <2>2
<1>7. PrivacyTypeOK'
  BY <1>1, <1>2, <1>3, <1>6, <1>6a, PrivacyTables DEF PrivacyTypeOK, UploadTable, RequestTable, CleanerTable, AuditRow
<1>8. RemovedCountedOnce'
  <2>1. f \in [Cleaners -> Nat] /\ g \in [Cleaners -> Nat]
    BY <1>0, <1>6 DEF CleanerTable
  <2>2. /\ f[w] = cleaner[w].deleted /\ g[w] = new.deleted
        /\ \A v \in Cleaners : v # w => g[v] = f[v]
    BY <1>5
  <2>5. audit.told + audit.untold + Tally(f) = Cardinality(Removed)
    BY DEF CustomersInv, PrivacyOK, RemovedCountedOnce, Removed, f
  <2>10. RemovedCountedOnce' <=> audit'.told + audit'.untold + Tally(g) = Cardinality(Removed')
    BY DEF RemovedCountedOnce, Removed, g
  <2> HIDE DEF f, g, new
  <2>3. Tally(g) = Tally(f) - f[w] + g[w] /\ Tally(f) \in Nat
    BY <2>1, <2>2, PrivacyAssumption, TallyChange, TallyType
  <2>4. audit'.told + audit'.untold + Tally(g) = audit.told + audit.untold + Tally(f) + gone
    <3>1. /\ audit.told \in Nat /\ audit.untold \in Nat /\ audit'.told \in Nat /\ audit'.untold \in Nat
          /\ f[w] \in Nat /\ g[w] \in Nat
      BY <1>0, <1>6a, <2>1 DEF AuditRow
    <3> QED
      BY <1>0, <1>6a, <2>2, <2>3, <3>1
  <2>6. IsFiniteSet(Removed) /\ Cardinality(Removed) \in Nat
    BY PrivacyAssumption, FS_Subset, FS_CardinalityType DEF Removed
  <2>7. Removed' = Removed \cup {i}
    BY <1>3 DEF Removed
  <2>8. Cardinality(Removed') = Cardinality(Removed) + gone
    <3>1. CASE Due(i)
      <4>1. i \notin Removed /\ gone = 1
        BY <3>1 DEF Due, Removed, Counted, gone
      <4>2. Cardinality(Removed \cup {i}) = Cardinality(Removed) + 1
        BY <2>6, <4>1, FS_AddElement
      <4> QED
        BY <2>7, <4>1, <4>2
    <3>2. CASE ~Due(i)
      <4>1. i \in Removed /\ gone = 0
        BY <1>2, <3>2 DEF Due, Removed, Counted, gone
      <4>2. Removed' = Removed
        BY <2>7, <4>1
      <4>3. Cardinality(Removed') = Cardinality(Removed)
        BY <4>2
      <4> QED
        BY <2>6, <4>1, <4>3
    <3> QED
      BY <3>1, <3>2
  <2> QED
    BY <2>4, <2>5, <2>8, <2>10
<1>9. LiveHasObject'
  BY <1>1, <1>3 DEF CustomersInv, PrivacyOK, LiveHasObject
<1>10. CleanersOK'
  <2> SUFFICES ASSUME NEW v \in Cleaners
               PROVE  /\ \A j \in cleaner'[v].todo : upload'[j].state \in {"due", "removed"}
                      /\ cleaner'[v].at # Nothing =>
                           upload'[cleaner'[v].at].state \in {"due", "removed"}
                           /\ cleaner'[v].at \notin objects
    BY <1>1 DEF CleanersOK
  <2>1. /\ \A j \in cleaner[v].todo : j \in Uploads /\ upload[j].state \in {"due", "removed"}
        /\ cleaner[v].at # Nothing =>
             /\ cleaner[v].at \in Uploads /\ cleaner[v].at \notin objects
             /\ upload[cleaner[v].at].state \in {"due", "removed"}
    BY CleanerRow, PrivacyTables DEF CleanerTable
  <2>2. /\ cleaner'[v].todo = cleaner[v].todo
        /\ cleaner'[v].at # Nothing => cleaner'[v].at = cleaner[v].at
    BY <1>5
  <2> QED
    BY <1>3, <2>1, <2>2
<1>11. PrivacyOK'
  BY <1>1, <1>f, <1>7, <1>8, <1>9, <1>10 DEF CustomersInv, PrivacyOK
<1> QED
  BY <1>1, <1>2, <1>3, <1>11, CleaningStep

(* The row stays, and the candidate is skipped.                            *)
LEMMA MetadataStaysStep ==
  ASSUME CustomersInv, NEW w \in Cleaners, NEW i \in Uploads, DeleteMetadataFails(w, i, FALSE)
  PROVE  CustomersInv'
<1> DEFINE new == [cleaner[w] EXCEPT !.at = Nothing]
<1>0. /\ cleaner \in CleanerTable /\ failures \in Nat /\ audit \in AuditRow
      /\ cleaner[w] \in [running : BOOLEAN, todo : SUBSET Uploads, at : Uploads \cup {Nothing}, deleted : Nat]
  BY CleanerRow, PrivacyTables
<1>1. /\ cleaner' = [cleaner EXCEPT ![w].at = Nothing] /\ failures' \in Nat
      /\ UNCHANGED <<uvars, upload, objects, privacy, stray>> /\ audit' = audit
  <2>1. audit' = [audit EXCEPT !.untold = @]
    BY DEF DeleteMetadataFails
  <2>2. [audit EXCEPT !.untold = @] = audit
    BY <1>0 DEF AuditRow
  <2> QED
    BY <1>0, <2>1, <2>2 DEF DeleteMetadataFails, Fails
<1>2. cleaner' = [cleaner EXCEPT ![w] = new]
  BY <1>0, <1>1 DEF CleanerTable
<1>3. /\ new \in [running : BOOLEAN, todo : SUBSET Uploads, at : Uploads \cup {Nothing}, deleted : Nat]
      /\ new.todo = cleaner[w].todo /\ new.at = Nothing /\ new.deleted = cleaner[w].deleted
  BY <1>0
<1> HIDE DEF new
<1>4. RemovedCountedOnce'
  BY <1>0, <1>1, <1>2, <1>3, CountStays DEF CleanerTable
<1>5. /\ objects' \subseteq objects /\ \A j \in objects : j \in objects'
      /\ UNCHANGED <<uvars, upload, privacy>> /\ UNCHANGED stray /\ audit' \in AuditRow
  BY <1>0, <1>1
<1> QED
  BY <1>1, <1>2, <1>3, <1>4, <1>5, CleanerRow, CleanerStep

(* The deletion of an account.                                             *)
LEMMA DeleteStep ==
  ASSUME CustomersInv, NEW q \in Requests, CompleteDelete(q)
  PROVE  CustomersInv'
<1> DEFINE d == pending[q]
           u == d.user
           gone == [status |-> "DELETED", phone |-> Gone]
<1>0. PendingOK /\ UserRowsOK /\ AttemptsOK /\ SeatsOK /\ OneInForce
  BY DEF CustomersInv
<1>1. /\ d.kind = "deletion" /\ user' = [user EXCEPT ![u] = gone]
      /\ seats' = SeatsWithout(u)
      /\ code' = [c \in Codes |-> IF d.phone # Gone /\ code[c].phone = d.phone
                              THEN [code[c] EXCEPT !.state = "deleted"] ELSE code[c]]
      /\ upload' = MarkDeleted(u)
      /\ privacy' = [privacy EXCEPT ![d.request].status = "COMPLETED"]
      /\ EndsAndOvertakes(q, RelyOn(u)) /\ overtaken' = (overtaken \/ ~d.fresh)
      /\ UNCHANGED <<rule, hit, objects, cleaner, failures, audit, stray>>
  BY DEF CompleteDelete, SignsOut, EndsAndOvertakes, kept
<1>2. u \in Users /\ d.request \in PrivacyIds /\ d.fresh \in BOOLEAN
  BY <1>0, <1>1, Columns DEF PendingOK
<1>3. Stale(RelyOn(u)) /\ pending'[q] = Rest
  BY <1>0, <1>1, <1>2, RelyingShape, StaleShape
<1>4. /\ user' \in [Users -> [status : UserStatus, phone : Phones \cup {Gone}]]
      /\ user'[u] = gone /\ \A v \in Users : v # u => user'[v] = user[v]
  <2>1. gone \in [status : UserStatus, phone : Phones \cup {Gone}]
    BY DEF UserStatus
  <2> HIDE DEF gone, d, u
  <2> QED
    BY <1>0, <1>1, <1>2, <2>1 DEF UserRowsOK
<1>5. gone.phone = Gone /\ gone.status = "DELETED"
  OBVIOUS
<1>6. ASSUME NEW c \in Codes
      PROVE  /\ code'[c] \in [state : {"none", "open", "used", "lapsed", "deleted"},
                              phone : Phones \cup {Gone}, attempts : Nat]
             /\ code'[c].attempts = code[c].attempts /\ code'[c].phone = code[c].phone
             /\ Past(c) => PastNext(c)
             /\ code'[c].state = "open" => code[c].state = "open"
  <2>1. code[c] \in [state : {"none", "open", "used", "lapsed", "deleted"},
                     phone : Phones \cup {Gone}, attempts : Nat]
    BY <1>0 DEF UserRowsOK
  <2>2. code'[c] = code[c] \/ code'[c] = [code[c] EXCEPT !.state = "deleted"]
    BY <1>1
  <2> QED
    BY <2>1, <2>2 DEF Past, PastNext
<1>7. code' = [c \in Codes |-> code'[c]]
  BY <1>1
<1>8. /\ upload' \in UploadTable
      /\ \A i \in Uploads :
           /\ upload'[i].user = upload[i].user
           /\ upload'[i].state = upload[i].state
              \/ (upload[i].state = "live" /\ upload'[i].state = "marked")
           /\ upload'[i].state = "live" => upload'[i].user # u
  <2>1. upload \in UploadTable
    BY PrivacyTables
  <2> HIDE DEF u, d
  <2>2. ASSUME NEW i \in Uploads
        PROVE  /\ upload'[i] \in [state : {"none", "live", "marked", "due", "removed"},
                                  user : Users \cup {Gone}]
               /\ upload'[i].user = upload[i].user
               /\ upload'[i].state = upload[i].state
                  \/ (upload[i].state = "live" /\ upload'[i].state = "marked")
               /\ upload'[i].state = "live" => upload'[i].user # u
    <3>1. upload[i] \in [state : {"none", "live", "marked", "due", "removed"},
                         user : Users \cup {Gone}]
      BY <2>1 DEF UploadTable
    <3>2. upload'[i] = IF upload[i].state = "live" /\ upload[i].user = u
                       THEN [upload[i] EXCEPT !.state = "marked"] ELSE upload[i]
      BY <1>1 DEF MarkDeleted
    <3> QED
      BY <3>1, <3>2
  <2>3. upload' = [i \in Uploads |-> upload'[i]]
    BY <1>1 DEF MarkDeleted
  <2>4. upload' \in UploadTable
    BY <2>2, <2>3 DEF UploadTable
  <2> QED
    BY <2>2, <2>4
<1>9. /\ privacy' \in RequestTable
      /\ \A y \in PrivacyIds : y # d.request => privacy'[y] = privacy[y]
      /\ privacy'[d.request].status = "COMPLETED"
  BY <1>1, <1>2, PrivacyTables DEF RequestTable
<1>10. \A s \in seats' : s \in seats /\ s.user # u
  BY <1>1 DEF SeatsWithout
<1> HIDE DEF gone, u, d
<1>11. UserRowsOK'
  <2>1. code' \in [Codes -> [state : {"none", "open", "used", "lapsed", "deleted"},
                             phone : Phones \cup {Gone}, attempts : Nat]]
    BY <1>6, <1>7
  <2>2. \A c \in Codes : code'[c].state = "open" => code'[c].phone # Gone
    BY <1>0, <1>6 DEF UserRowsOK
  <2>3. \A v, w \in Users : user'[v].phone = user'[w].phone /\ user'[v].phone # Gone => v = w
    <3>1. SUFFICES ASSUME NEW v \in Users, NEW w \in Users,
                          user'[v].phone = user'[w].phone, user'[v].phone # Gone
                   PROVE  v = w
      OBVIOUS
    <3>2. v # u /\ w # u
      BY <1>4, <1>5, <3>1
    <3>3. user'[v] = user[v] /\ user'[w] = user[w]
      BY <1>4, <3>2
    <3>4. \A x, y \in Users : user[x].phone = user[y].phone /\ user[x].phone # Gone => x = y
      BY <1>0 DEF UserRowsOK
    <3> QED
      BY <3>1, <3>3, <3>4
  <2>4. overtaken' \in BOOLEAN
    BY <1>0, <1>1, <1>2 DEF UserRowsOK
  <2> QED
    BY <1>0, <1>1, <1>4, <1>10, <2>1, <2>2, <2>3, <2>4 DEF UserRowsOK
<1>12. overtaken => overtaken'
  BY <1>1
<1>13. SeatsOK'
  <2>1. \A s \in seats' : s \in seats /\ s.user \in Users /\ s.code \in Codes /\ s.user # u
    BY <1>0, <1>10 DEF UserRowsOK
  <2>2. BarredSignedOut'
    BY <1>0, <1>4, <1>12, <2>1 DEF SeatsOK, BarredSignedOut, Barred
  <2>3. OneSessionPerCode'
    BY <1>0, <2>1 DEF SeatsOK, OneSessionPerCode
  <2>4. \A s \in seats' : PastNext(s.code)
    BY <1>0, <1>6, <2>1 DEF SeatsOK
  <2> QED
    BY <2>2, <2>3, <2>4 DEF SeatsOK, Past, PastNext
<1>14. ASSUME NEW x \in Requests
       PROVE  LeavesSession(pending'[x]) /\ LeavesPublication(pending'[x]) /\ LeavesUpload(pending'[x])
  <2>1. Older(pending[x], pending'[x]) /\ pending[x] \in PendingRows
    BY <1>0, <1>3 DEF Stale, PendingOK
  <2>2. pending'[x] \in PendingRows
    BY <2>1, OlderRow
  <2>3. /\ pending'[x].kind \in {"session", "upload"} =>
             pending'[x].user \in Users /\ (pending'[x].fresh => pending'[x].user # u)
        /\ pending'[x].kind = "session" => pending'[x].code \in Codes
        /\ pending'[x].kind = "upload" => pending'[x].object \in Uploads
    BY <1>0, <1>2, <1>3, <2>2, Columns, RelyingShape
  <2>4. LeavesSession(pending'[x])
    BY <1>4, <1>6, <1>10, <2>3 DEF LeavesSession, Reachable, ReachableNext, Barred, BarredNext
  <2>5. LeavesPublication(pending'[x])
    BY <1>1 DEF LeavesPublication, Published, PublishedNext
  <2>6. LeavesUpload(pending'[x])
    BY <1>1, <1>4, <1>8, <1>12, <2>3 DEF LeavesUpload, Reachable, ReachableNext
  <2> QED
    BY <2>4, <2>5, <2>6
<1>15. PendingOK'
  BY <1>0, <1>3, <1>14, PendingStep DEF Stale
<1>16. AttemptsOK'
  <2>1. \A c \in Codes : code[c].attempts \in Nat /\ code'[c].attempts \in Nat
    BY <1>6
  <2> QED
    BY <1>0, <1>3, <1>6, <2>1, AttemptsStep DEF Stale
<1>17. OneInForce'
  BY <1>0, <1>1, <1>12 DEF OneInForce, Published
<1>18. PrivacyOK'
  <2>1. PrivacyTypeOK'
    BY <1>1, <1>8, <1>9, PrivacyTables DEF PrivacyTypeOK, UploadTable, RequestTable, CleanerTable, AuditRow
  <2>2. RemovedCountedOnce'
    BY <1>1, <1>8, CountStays
  <2>3. LiveHasObject'
    BY <1>1, <1>8 DEF CustomersInv, PrivacyOK, LiveHasObject
  <2>4. CleanersOK'
    <3> SUFFICES ASSUME NEW w \in Cleaners
                 PROVE  /\ \A j \in cleaner[w].todo : upload'[j].state \in {"due", "removed"}
                        /\ cleaner[w].at # Nothing =>
                             upload'[cleaner[w].at].state \in {"due", "removed"}
                             /\ cleaner[w].at \notin objects
      BY <1>1 DEF CleanersOK
    <3>1. /\ \A j \in cleaner[w].todo : j \in Uploads /\ upload[j].state \in {"due", "removed"}
          /\ cleaner[w].at # Nothing =>
               /\ cleaner[w].at \in Uploads /\ cleaner[w].at \notin objects
               /\ upload[cleaner[w].at].state \in {"due", "removed"}
      BY CleanerRow, PrivacyTables DEF CleanerTable
    <3> QED
      BY <1>8, <3>1
  <2>5. \A y \in PrivacyIds : privacy'[y].status \in {"REQUESTED", "PROCESSING"} => privacy'[y].user \in Users
    BY <1>9 DEF CustomersInv, PrivacyOK
  <2> QED
    BY <1>1, <2>1, <2>2, <2>3, <2>4, <2>5, PrivacyTables DEF PrivacyOK
<1>19. DeletedLeavesNothing'
  BY <1>4, <1>8, <1>10, <1>12 DEF CustomersInv, DeletedLeavesNothing
<1> QED
  BY <1>11, <1>13, <1>15, <1>16, <1>17, <1>18, <1>19 DEF CustomersInv

LEMMA PrivacySteps == CustomersInv /\ PrivacyStep => CustomersInv'
<1> SUFFICES ASSUME CustomersInv, PrivacyStep PROVE CustomersInv'
  OBVIOUS
<1>1. ASSUME NEW q \in Requests,
             \/ \E u \in Users : \/ \E i \in Uploads : PutObject(q, u, i)
                                 \/ \E t \in {"DELETE", "EXPORT"} : FindPending(q, u, t)
             \/ CreateUpload(q)
             \/ \E d \in BOOLEAN : CreateUploadFails(q, d) \/ LoseCreatedUpload(q, d)
             \/ \E r \in PrivacyIds : CreatePrivacyRequest(q, r) \/ ReadDelete(q, r)
             \/ CompleteDelete(q)
      PROVE  CustomersInv'
  BY <1>1, PutStep, CreateStep, CreateFailsStep, LoseCreatedStep, FindSteps, CreateRequestStep, DeleteStep
<1>2. ASSUME NEW r \in PrivacyIds, CompleteExport(r) PROVE CustomersInv'
  BY <1>2, ExportStep
<1>3. ASSUME NEW i \in Uploads, RetentionPasses(i) PROVE CustomersInv'
  BY <1>3, RetentionStep
<1>4. ASSUME NEW w \in Cleaners,
             \/ ListDeletedUploads(w) \/ FinishCleanup(w) \/ CleanupStops(w)
             \/ \E i \in Uploads :
                  \/ DeleteObject(w, i) \/ DeleteUploadMetadata(w, i)
                  \/ \E gone \in BOOLEAN : DeleteObjectFails(w, i, gone) \/ DeleteMetadataFails(w, i, gone)
      PROVE  CustomersInv'
  <2>1. ASSUME NEW i \in Uploads, NEW gone \in BOOLEAN, DeleteMetadataFails(w, i, gone)
        PROVE  CustomersInv'
    <3>1. CASE gone = TRUE
      BY <2>1, <3>1, DeleteMetadataStep
    <3>2. CASE gone = FALSE
      BY <2>1, <3>2, MetadataStaysStep
    <3> QED
      BY <3>1, <3>2
  <2> QED
    BY <1>4, <2>1, CleanerSteps, DeleteMetadataStep
<1> QED
  BY <1>1, <1>2, <1>3, <1>4 DEF PrivacyStep

LEMMA NothingYet == PrivacyInit => CustomersInv
<1> SUFFICES ASSUME PrivacyInit PROVE CustomersInv
  OBVIOUS
<1>1. /\ user = [u \in Users |-> NoUser] /\ code = [c \in Codes |-> NoCode] /\ seats = {}
      /\ rule = [v \in Versions |-> NoRule] /\ hit = [u \in Users |-> [k \in Keys |-> NoHit]]
      /\ pending = [q \in Requests |-> Rest] /\ overtaken = FALSE
      /\ upload = [i \in Uploads |-> NoUpload] /\ objects = {}
      /\ privacy = [r \in PrivacyIds |-> NoRequest] /\ cleaner = [w \in Cleaners |-> Resting]
      /\ failures = 0 /\ audit = [told |-> 0, untold |-> 0] /\ stray = {}
  BY DEF PrivacyInit, UserInit
<1>2. UserRowsOK
  BY <1>1 DEF UserRowsOK, NoUser, NoCode, NoRule, NoHit, UserStatus, RiskAction
<1>3. PendingOK
  <2>1. Rest \in PendingRows /\ Rest.kind = "rest"
    BY DEF PendingRows, Rest
  <2>2. \A q \in Requests : RowOK(pending[q])
    BY <1>1, <2>1 DEF RowOK
  <2>3. Apart
    BY <1>1, <2>1 DEF Apart
  <2> QED
    BY <1>1, <2>1, <2>2, <2>3 DEF PendingOK
<1>4. AttemptsOK
  <2> SUFFICES ASSUME NEW c \in Codes
               PROVE  code[c].attempts + Cardinality(Guesses(c))
                        <= MaxAttempts + Cardinality(Requests) - 1
    BY DEF AttemptsOK
  <2>1. Guesses(c) = {}
    BY <1>1 DEF Guesses, Rest
  <2>2. Cardinality(Guesses(c)) = 0 /\ Cardinality(Requests) \in Nat
    BY <2>1, FS_EmptySet, FS_CardinalityType, UserAssumption
  <2>3. code[c].attempts = 0
    BY <1>1 DEF NoCode
  <2> QED
    BY <2>2, <2>3, UserAssumption
<1>5. SeatsOK
  BY <1>1 DEF SeatsOK, OneSessionPerCode, BarredSignedOut
<1>6. OneInForce
  BY <1>1 DEF OneInForce, Published, NoRule
<1>7. PrivacyOK
  <2>1. PrivacyTypeOK
    BY <1>1 DEF PrivacyTypeOK, NoUpload, NoRequest, Resting
  <2>2. LiveHasObject /\ CleanersOK
    BY <1>1 DEF LiveHasObject, CleanersOK, NoUpload, Resting
  <2>3. \A r \in PrivacyIds : privacy[r].status = "none"
    BY <1>1 DEF NoRequest
  <2>4. RemovedCountedOnce
    <3> DEFINE counts == [w \in Cleaners |-> cleaner[w].deleted]
    <3>1. \A w \in DOMAIN counts : counts[w] = 0
      BY <1>1 DEF Resting
    <3>2. Tally(counts) = 0
      <4> HIDE DEF counts
      <4> QED
        BY <3>1, TallyZero
    <3>3. {i \in Uploads : upload[i].state = "removed"} = {}
      BY <1>1 DEF NoUpload
    <3>4. Cardinality({i \in Uploads : upload[i].state = "removed"}) = 0
      BY <3>3, FS_EmptySet
    <3>5. audit.told = 0 /\ audit.untold = 0
      BY <1>1
    <3> QED
      BY <3>2, <3>4, <3>5 DEF RemovedCountedOnce
  <2> QED
    BY <1>1, <2>1, <2>2, <2>3, <2>4 DEF PrivacyOK
<1>8. DeletedLeavesNothing
  BY <1>1 DEF DeletedLeavesNothing, NoUpload
<1> QED
  BY <1>2, <1>3, <1>4, <1>5, <1>6, <1>7, <1>8 DEF CustomersInv

LEMMA CustomersStutter == CustomersInv /\ UNCHANGED allvars => CustomersInv'
<1> SUFFICES ASSUME CustomersInv, UNCHANGED allvars PROVE CustomersInv'
  OBVIOUS
<1>1. UNCHANGED <<user, code, seats, rule, hit, pending, overtaken>>
  BY DEF allvars, uvars
<1>2. UNCHANGED <<upload, objects, privacy, cleaner, failures, audit, stray>>
  BY DEF allvars, pvars
<1>3. PrivacyOK'
  BY <1>2 DEF CustomersInv, PrivacyOK, PrivacyTypeOK, LiveHasObject, CleanersOK, RemovedCountedOnce
<1> QED
  BY <1>1, <1>2, <1>3, CleaningStep DEF uvars

LEMMA CustomersInvariant == PrivacySpec => []CustomersInv
<1>1. CustomersInv /\ [PrivacyNext]_allvars => CustomersInv'
  BY UserSteps, PrivacySteps, CustomersStutter DEF PrivacyNext
<1> QED
  BY <1>1, NothingYet, PTL DEF PrivacySpec

-----------------------------------------------------------------------------
(* The theorems.                                                           *)

(* A set any two members of which are equal has at most one.               *)
LEMMA AtMostOne ==
  ASSUME NEW S, \A x, y \in S : x = y
  PROVE  Cardinality(S) <= 1
<1>1. CASE S = {}
  BY <1>1, FS_EmptySet
<1>2. ASSUME NEW x \in S PROVE Cardinality(S) <= 1
  <2>1. S = {x}
    OBVIOUS
  <2> QED
    BY <2>1, FS_Singleton
<1> QED
  BY <1>1, <1>2

(* Every row has the values its columns allow: a code is never guessed at  *)
(* more often than the limit and the requests under way permit (Valid is   *)
(* read before CountWrongCode adds one), and a phone number has one user   *)
(* (completeLogin's upsert, complete's release of the number).             *)
THEOREM AccountsTypeCorrect == PrivacySpec => []UserTypeOK
<1>1. CustomersInv => UserTypeOK
  <2> SUFFICES ASSUME CustomersInv PROVE UserTypeOK
    OBVIOUS
  <2>0. UserRowsOK /\ AttemptsOK
    BY DEF CustomersInv
  <2>1. ASSUME NEW c \in Codes
        PROVE  code[c] \in [state : {"none", "open", "used", "lapsed", "deleted"},
                            phone : Phones \cup {Gone},
                            attempts : 0 .. MaxAttempts + Cardinality(Requests) - 1]
    <3>1. code[c] \in [state : {"none", "open", "used", "lapsed", "deleted"},
                       phone : Phones \cup {Gone}, attempts : Nat]
      BY <2>0 DEF UserRowsOK
    <3>2. code[c].attempts <= MaxAttempts + Cardinality(Requests) - 1
      <4>1. code[c].attempts + Cardinality(Guesses(c)) <= MaxAttempts + Cardinality(Requests) - 1
        BY <2>0 DEF AttemptsOK
      <4>2. Cardinality(Guesses(c)) \in Nat /\ Cardinality(Requests) \in Nat
        BY GuessesFinite, FS_CardinalityType, UserAssumption
      <4> QED
        BY <3>1, <4>1, <4>2, UserAssumption
    <3>3. Cardinality(Requests) \in Nat
      BY FS_CardinalityType, UserAssumption
    <3>4. code[c].attempts \in 0 .. MaxAttempts + Cardinality(Requests) - 1
      BY <3>1, <3>2, <3>3, UserAssumption
    <3> QED
      BY <3>1, <3>4
  <2>2. code \in [Codes -> [state : {"none", "open", "used", "lapsed", "deleted"},
                            phone : Phones \cup {Gone},
                            attempts : 0 .. MaxAttempts + Cardinality(Requests) - 1]]
    <3>1. code = [c \in Codes |-> code[c]]
      BY <2>0 DEF UserRowsOK
    <3> QED
      BY <2>1, <3>1
  <2>3. ASSUME NEW p \in Phones PROVE Cardinality(Owner(p)) <= 1
    <3>1. \A u, v \in Owner(p) : u = v
      BY <2>0, UserAssumption DEF UserRowsOK, Owner
    <3> QED
      BY <3>1, AtMostOne
  <2> QED
    BY <2>0, <2>2, <2>3 DEF UserTypeOK, UserRowsOK
<1> QED
  BY <1>1, CustomersInvariant, PTL

(* Every row of the uploads and the privacy requests has the values its    *)
(* columns allow, and a row that was removed leaves no object behind       *)
(* (uploads.service cleanup: the object first, then the row).              *)
THEOREM UploadsTypeCorrect == PrivacySpec => []PrivacyTypeOK
<1>1. CustomersInv => PrivacyTypeOK
  BY DEF CustomersInv, PrivacyOK
<1> QED
  BY <1>1, CustomersInvariant, PTL

(* Sessions, codes and rules agree, however many logins, bans, deletions   *)
(* and publications overlap: a code opens one session, the banned and the  *)
(* deleted have none, and one version of a rule is in force, unless a      *)
(* commit overtook what another request had read (completeLogin,           *)
(* changeStatus, recordHitAndApply, publishRule).                          *)
THEOREM AccountsAreInOrder == PrivacySpec => []AccountsInOrder
<1>1. CustomersInv => AccountsInOrder
  <2> SUFFICES ASSUME CustomersInv PROVE AccountsInOrder
    OBVIOUS
  <2>1. OneSessionPerCode /\ BarredSignedOut
    BY DEF CustomersInv, SeatsOK
  <2>2. OnePublished
    BY AtMostOne DEF CustomersInv, OneInForce, OnePublished
  <2> QED
    BY <2>1, <2>2 DEF AccountsInOrder
<1> QED
  BY <1>1, CustomersInvariant, PTL

(* However many clean-ups, uploads and deletions overlap and whatever      *)
(* fails: an image that can be shown has its object, unless its creation   *)
(* lost its answer; the audits count each row that is gone once, but for   *)
(* the rows of runs that stopped and of deletions that did not answer; and *)
(* a deleted account keeps neither session nor image, unless a commit was  *)
(* overtaken (createReference, both clean-ups, completeDelete).            *)
THEOREM UploadsAreInOrder == PrivacySpec => []UploadsInOrder
<1>1. CustomersInv => UploadsInOrder
  BY DEF CustomersInv, PrivacyOK, UploadsInOrder
<1> QED
  BY <1>1, CustomersInvariant, PTL

(* No automatic restriction without a new hit: a request id that has been  *)
(* punished restricts nobody again (recordHitAndApply finds the hit).      *)
THEOREM PenaltiesHaveHits == PrivacySpec => PenaltyHasHit
<1> DEFINE Hits == \A q \in Requests : RecordHit(q) /\ user' # user => hit' # hit
<1>1. CustomersInv /\ [PrivacyNext]_allvars => [Hits]_uvars
  <2> SUFFICES ASSUME CustomersInv, NEW q \in Requests, RecordHit(q), user' # user
               PROVE  hit' # hit
    OBVIOUS
  <2> DEFINE r == pending[q]
  <2>1. r.kind = "hit" /\ ~Known(r) /\ hit' = [hit EXCEPT ![r.user][r.key] = r.action]
    BY DEF RecordHit
  <2>2. r.user \in Users /\ r.key \in Keys /\ r.action \in RiskAction
    BY <2>1, Columns DEF CustomersInv, PendingOK
  <2>3. hit[r.user][r.key] = NoHit /\ NoHit \notin RiskAction
    BY <2>1 DEF Known, NoHit, RiskAction
  <2>4. hit'[r.user][r.key] = r.action
    BY <2>1, <2>2 DEF CustomersInv, UserRowsOK
  <2> QED
    BY <2>2, <2>3, <2>4
<1>2. PrivacySpec => [][Hits]_uvars
  BY <1>1, CustomersInvariant, PTL DEF PrivacySpec
<1> QED
  BY <1>2 DEF PenaltyHasHit

-----------------------------------------------------------------------------
(***************************************************************************)
(* The pages of the administration (AdminScreens).                         *)
(***************************************************************************)
(* What the tables say.                                                    *)

Possible(p) == StatusesOf(p) \cup {"absent"}

Harmless == {"own", "last owner", "used", "others", "judged"}

LEMMA PageNames ==
  Pages = {"users", "accounts", "roles", "risk", "reviews", "appeals", "inspirations",
           "rules", "codes", "orders", "privacy", "tasks"}
BY DEF Pages, Buttons

LEMMA PageButtons ==
  /\ Buttons.users = UsersButtons
  /\ Buttons.accounts = AccountsButtons
  /\ Buttons.roles = RolesButtons
  /\ Buttons.risk = RiskButtons
  /\ Buttons.reviews = ReviewsButtons
  /\ Buttons.appeals = AppealsButtons
  /\ Buttons.inspirations = InspirationsButtons
  /\ Buttons.rules = RulesButtons
  /\ Buttons.codes = CodesButtons
  /\ Buttons.orders = OrdersButtons
  /\ Buttons.privacy = PrivacyButtons
  /\ DOMAIN Buttons.tasks = {}
BY DEF Buttons

LEMMA PageRoutes ==
  /\ Routes.users = UsersRoutes
  /\ Routes.accounts = AccountsRoutes
  /\ Routes.roles = RolesRoutes
  /\ Routes.risk = RiskRoutes
  /\ Routes.reviews = ModerationRoutes
  /\ Routes.appeals = ModerationRoutes
  /\ Routes.inspirations = InspirationsRoutes
  /\ Routes.rules = BillingRoutes
  /\ Routes.codes = BillingRoutes
  /\ Routes.orders = BillingRoutes
  /\ Routes.privacy = PrivacyRoutes
BY DEF Routes

LEMMA PageEffects ==
  /\ Effects.users = UsersEffects
  /\ Effects.accounts = AccountsEffects
  /\ Effects.roles = RolesEffects
  /\ Effects.risk = VersionEffects
  /\ Effects.reviews = ReviewsEffects
  /\ Effects.appeals = AppealsEffects
  /\ Effects.inspirations = InspirationsEffects
  /\ Effects.rules = VersionEffects
  /\ Effects.codes = CodesEffects
  /\ Effects.orders = OrdersEffects
  /\ Effects.privacy = PrivacyEffects
BY DEF Effects

LEMMA PageRefusals ==
  \A op, row :
    /\ Refusals("users", op, row) = UsersRefusals(op, row)
    /\ Refusals("accounts", op, row) = AccountsRefusals(op, row)
    /\ Refusals("roles", op, row) = RolesRefusals(op, row)
    /\ Refusals("risk", op, row) = RiskRefusals(op, row)
    /\ Refusals("reviews", op, row) = ReviewsRefusals(op, row)
    /\ Refusals("appeals", op, row) = AppealsRefusals(op, row)
    /\ Refusals("inspirations", op, row) = InspirationsRefusals(op, row)
    /\ Refusals("rules", op, row) = RulesRefusals(op, row)
    /\ Refusals("codes", op, row) = CodesRefusals(op, row)
    /\ Refusals("orders", op, row) = OrdersRefusals(op, row)
    /\ Refusals("privacy", op, row) = PrivacyRefusals(op, row)
BY DEF Refusals

LEMMA AccountsTell ==
  ASSUME NEW op \in DOMAIN AccountsButtons, NEW row, row.status \in AccountsButtons[op].on
  PROVE  AccountsRefusals(op, row) \subseteq Harmless
<1>1. CASE op = "create"
  <2>1. row.status = "absent"
    BY <1>1 DEF AccountsButtons, Button
  <2> QED
    BY <1>1, <2>1 DEF AccountsRefusals, Exists, When
<1>2. CASE op # "create"
  <2>1. row.status # "absent" /\ ~ (row.status = "revoked" /\ op \in {"activate", "suspend"})
    BY <1>2 DEF AccountsButtons, Button
  <2>2. When(row.status = "absent", "gone") = {}
        /\ When(row.status = "revoked" /\ op \in {"activate", "suspend"}, "moved on") = {}
    BY <2>1 DEF When
  <2>3. \A c : When(c, "own") \subseteq Harmless /\ When(c, "last owner") \subseteq Harmless
    BY DEF When, Harmless
  <2> QED
    BY <1>2, <2>2, <2>3 DEF AccountsRefusals, Vanished
<1> QED
  BY <1>1, <1>2
LEMMA RolesTell ==
  ASSUME NEW op \in DOMAIN RolesButtons, NEW row, row.status \in RolesButtons[op].on,
         row.ties \cap RolesButtons[op].unless = {}
  PROVE  RolesRefusals(op, row) \subseteq Harmless
<1>1. CASE op = "create"
  <2>1. row.status = "absent"
    BY <1>1 DEF RolesButtons, Button
  <2> QED
    BY <1>1, <2>1 DEF RolesRefusals, Exists, When
<1>2. CASE op # "create"
  <2>0. /\ RolesButtons[op].on = {"active", "inactive"}
        /\ RolesButtons[op].unless = IF op = "delete" THEN {"owner", "built in"} ELSE {"owner"}
    <3>1. op \in {"edit", "retire", "delete"}
      BY <1>2 DEF RolesButtons
    <3>2. CASE op = "edit"
      BY <3>2 DEF RolesButtons, ButtonUnless
    <3>3. CASE op = "retire"
      BY <3>3 DEF RolesButtons, ButtonUnless
    <3>4. CASE op = "delete"
      BY <3>4 DEF RolesButtons, ButtonUnless
    <3> QED
      BY <3>1, <3>2, <3>3, <3>4
  <2>1. row.status # "absent"
    BY <2>0
  <2>a. "owner" \in RolesButtons[op].unless /\ (op = "delete" => "built in" \in RolesButtons[op].unless)
    BY <2>0
  <2>b. "owner" \notin row.ties /\ ~ ("built in" \in row.ties /\ op = "delete")
    BY <2>a
  <2>2. When(row.status = "absent", "gone") = {} /\ When("owner" \in row.ties, "owner") = {}
        /\ When("built in" \in row.ties /\ op = "delete", "built in") = {}
    BY <2>1, <2>b DEF When
  <2>3. \A c : When(c, "own") \subseteq Harmless /\ When(c, "used") \subseteq Harmless
    BY DEF When, Harmless
  <2> QED
    BY <1>2, <2>2, <2>3 DEF RolesRefusals, Vanished
<1> QED
  BY <1>1, <1>2
LEMMA ReviewsTell ==
  ASSUME NEW op \in DOMAIN ReviewsButtons, NEW row, row.status \in ReviewsButtons[op].on
  PROVE  ReviewsRefusals(op, row) \subseteq Harmless
<1>1. op \in {"claim", "decide"}
  BY DEF ReviewsButtons
<1>2. row.status # "absent" /\ (op = "claim" => row.status = "open")
      /\ (op = "decide" => row.status \in {"mine", "others"})
  BY <1>1 DEF ReviewsButtons, Button
<1>3. When(row.status = "others", "others") \subseteq Harmless
  BY DEF When, Harmless
<1> QED
  BY <1>1, <1>2, <1>3 DEF ReviewsRefusals, Vanished, MovedOn, When
LEMMA AppealsTell ==
  ASSUME NEW op \in DOMAIN AppealsButtons, NEW row, row.status \in AppealsButtons[op].on
  PROVE  AppealsRefusals(op, row) \subseteq Harmless
<1>1. row.status = "open"
  BY DEF AppealsButtons, Button
<1>3. When("judged" \in row.ties, "judged") \subseteq Harmless
  BY DEF When, Harmless
<1> QED
  BY <1>1, <1>3 DEF AppealsRefusals, MovedOn, When
LEMMA UsersTell ==
  ASSUME NEW op \in DOMAIN UsersButtons, NEW row, row.status \in UsersButtons[op].on
  PROVE  UsersRefusals(op, row) = {}
BY DEF UsersButtons, Button, UsersRefusals, Vanished, When
LEMMA RiskTell ==
  ASSUME NEW op \in DOMAIN RiskButtons, NEW row, row.status \in RiskButtons[op].on
  PROVE  RiskRefusals(op, row) = {}
BY DEF RiskButtons, Button, RiskRefusals, Vanished, When
LEMMA InspirationsTell ==
  ASSUME NEW op \in DOMAIN InspirationsButtons, NEW row, row.status \in InspirationsButtons[op].on
  PROVE  InspirationsRefusals(op, row) = {}
<1>1. row.status # "absent" /\ (op = "feature" => row.status = "candidate")
  BY DEF InspirationsButtons, Button
<1> QED
  BY <1>1 DEF InspirationsRefusals, Vanished, When
LEMMA BillingTell ==
  ASSUME NEW op, NEW row
  PROVE  /\ op \in DOMAIN RulesButtons /\ row.status \in RulesButtons[op].on => RulesRefusals(op, row) = {}
         /\ op \in DOMAIN CodesButtons /\ row.status \in CodesButtons[op].on => CodesRefusals(op, row) = {}
         /\ op \in DOMAIN OrdersButtons /\ row.status \in OrdersButtons[op].on => OrdersRefusals(op, row) = {}
         /\ op \in DOMAIN PrivacyButtons /\ row.status \in PrivacyButtons[op].on => PrivacyRefusals(op, row) = {}
<1>1. op \in DOMAIN RulesButtons /\ row.status \in RulesButtons[op].on => RulesRefusals(op, row) = {}
  BY DEF RulesButtons, Button, RulesRefusals, Vanished, When
<1>2. op \in DOMAIN CodesButtons /\ row.status \in CodesButtons[op].on => CodesRefusals(op, row) = {}
  <2>1. op \in DOMAIN CodesButtons /\ row.status \in CodesButtons[op].on => op = "batch" \/ row.status = "active"
    BY DEF CodesButtons, Button
  <2> QED
    BY <2>1 DEF CodesRefusals, MovedOn, When
<1>3. op \in DOMAIN OrdersButtons /\ row.status \in OrdersButtons[op].on => OrdersRefusals(op, row) = {}
  <2>1. op \in DOMAIN OrdersButtons /\ row.status \in OrdersButtons[op].on => row.status = "refundable"
    BY DEF OrdersButtons, Button
  <2> QED
    BY <2>1 DEF OrdersRefusals, MovedOn, When
<1>4. op \in DOMAIN PrivacyButtons /\ row.status \in PrivacyButtons[op].on => PrivacyRefusals(op, row) = {}
  BY DEF PrivacyButtons, Button, PrivacyRefusals, Vanished, When
<1> QED
  BY <1>1, <1>2, <1>3, <1>4

(* A button asks for the permission of its route, except on the tab of     *)
(* codes, and the API refuses it only for what the page does not show.     *)
LEMMA ButtonsTell ==
  ASSUME NEW p \in Pages, NEW op \in DOMAIN Buttons[p], NEW row,
         row.status \in Buttons[p][op].on, row.ties \cap Buttons[p][op].unless = {}
  PROVE  Refusals(p, op, row) \subseteq Harmless
<1>1. CASE p \in {"users", "risk", "inspirations"}
  BY <1>1, PageButtons, PageRefusals, UsersTell, RiskTell, InspirationsTell
<1>2. CASE p \in {"rules", "codes", "orders", "privacy"}
  BY <1>2, PageButtons, PageRefusals, BillingTell
<1>3. CASE p = "accounts"
  BY <1>3, PageButtons, PageRefusals, AccountsTell
<1>4. CASE p = "roles"
  BY <1>4, PageButtons, PageRefusals, RolesTell
<1>5. CASE p = "reviews"
  BY <1>5, PageButtons, PageRefusals, ReviewsTell
<1>6. CASE p = "appeals"
  BY <1>6, PageButtons, PageRefusals, AppealsTell
<1>7. CASE p = "tasks"
  BY <1>7, PageButtons
<1> QED
  BY <1>1, <1>2, <1>3, <1>4, <1>5, <1>6, <1>7, PageNames

LEMMA ButtonsAsk ==
  ASSUME NEW p \in Pages \ {"codes"}, NEW op \in DOMAIN Buttons[p]
  PROVE  Routes[p][op] = Buttons[p][op].asks
<1> USE DEF Button, ButtonUnless
<1>1. CASE p = "users"
  <2>1. \A o \in DOMAIN UsersButtons : UsersRoutes[o] = UsersButtons[o].asks
    BY DEF UsersButtons, UsersRoutes
  <2> QED
    BY <1>1, <2>1, PageButtons, PageRoutes
<1>2. CASE p = "accounts"
  <2>1. \A o \in DOMAIN AccountsButtons : AccountsRoutes[o] = AccountsButtons[o].asks
    BY DEF AccountsButtons, AccountsRoutes
  <2> QED
    BY <1>2, <2>1, PageButtons, PageRoutes
<1>3. CASE p = "roles"
  <2>1. ASSUME NEW o \in DOMAIN RolesButtons
        PROVE  RolesRoutes[o] = RolesButtons[o].asks
    <3>1. RolesRoutes[o] = "roles:write" /\ o \in {"create", "edit", "retire", "delete"}
      BY DEF RolesButtons, RolesRoutes
    <3>2. CASE o = "create"
      BY <3>1, <3>2 DEF RolesButtons
    <3>3. CASE o = "edit"
      BY <3>1, <3>3 DEF RolesButtons
    <3>4. CASE o = "retire"
      BY <3>1, <3>4 DEF RolesButtons
    <3>5. CASE o = "delete"
      BY <3>1, <3>5 DEF RolesButtons
    <3> QED
      BY <3>1, <3>2, <3>3, <3>4, <3>5
  <2> QED
    BY <1>3, <2>1, PageButtons, PageRoutes
<1>4. CASE p = "risk"
  <2>1. \A o \in DOMAIN RiskButtons : RiskRoutes[o] = RiskButtons[o].asks
    BY DEF RiskButtons, RiskRoutes
  <2> QED
    BY <1>4, <2>1, PageButtons, PageRoutes
<1>5. CASE p = "reviews"
  <2>1. \A o \in DOMAIN ReviewsButtons : ModerationRoutes[o] = ReviewsButtons[o].asks
    BY DEF ReviewsButtons, ModerationRoutes
  <2> QED
    BY <1>5, <2>1, PageButtons, PageRoutes
<1>6. CASE p = "appeals"
  <2>1. \A o \in DOMAIN AppealsButtons : ModerationRoutes[o] = AppealsButtons[o].asks
    BY DEF AppealsButtons, ModerationRoutes
  <2> QED
    BY <1>6, <2>1, PageButtons, PageRoutes
<1>7. CASE p = "inspirations"
  <2>1. \A o \in DOMAIN InspirationsButtons : InspirationsRoutes[o] = InspirationsButtons[o].asks
    BY DEF InspirationsButtons, InspirationsRoutes
  <2> QED
    BY <1>7, <2>1, PageButtons, PageRoutes
<1>8. CASE p = "rules"
  <2>1. \A o \in DOMAIN RulesButtons : BillingRoutes[o] = RulesButtons[o].asks
    BY DEF RulesButtons, BillingRoutes
  <2> QED
    BY <1>8, <2>1, PageButtons, PageRoutes
<1>9. CASE p = "orders"
  <2>1. \A o \in DOMAIN OrdersButtons : BillingRoutes[o] = OrdersButtons[o].asks
    BY DEF OrdersButtons, BillingRoutes
  <2> QED
    BY <1>9, <2>1, PageButtons, PageRoutes
<1>10. CASE p = "privacy"
  <2>1. \A o \in DOMAIN PrivacyButtons : PrivacyRoutes[o] = PrivacyButtons[o].asks
    BY DEF PrivacyButtons, PrivacyRoutes
  <2> QED
    BY <1>10, <2>1, PageButtons, PageRoutes
<1>11. CASE p = "tasks"
  BY <1>11, PageButtons
<1> QED
  BY <1>1, <1>2, <1>3, <1>4, <1>5, <1>6, <1>7, <1>8, <1>9, <1>10, <1>11, PageNames

(* What is decided for good is accepted in one status only, the one its    *)
(* button is shown on; the page also offers what others have claimed.      *)
Decisive == {"claim", "decide", "judge", "feature", "disable", "refund"}

LEMMA DecisionsTell ==
  ASSUME NEW p \in Pages, NEW op \in DOMAIN Buttons[p], op \in Decisive, NEW row,
         Refusals(p, op, row) = {}
  PROVE  /\ p # "roles"
         /\ op # "decide" => Buttons[p][op].on = {row.status}
         /\ op = "decide" => p = "reviews" /\ row.status = "mine"
                             /\ Buttons[p][op].on = {"mine", "others"}
<1>0. \A from : MovedOn(row, from) = {} => row.status \in from
  BY DEF MovedOn, When
<1>1. CASE p \in {"users", "accounts", "roles", "risk", "rules", "privacy", "tasks"}
  <2>1. op \notin DOMAIN UsersButtons \cup DOMAIN AccountsButtons \cup DOMAIN RolesButtons
    BY DEF UsersButtons, AccountsButtons, RolesButtons, Decisive
  <2>2. op \notin DOMAIN RiskButtons \cup DOMAIN RulesButtons \cup DOMAIN PrivacyButtons
    BY DEF RiskButtons, RulesButtons, PrivacyButtons, Decisive
  <2> QED
    BY <1>1, <2>1, <2>2, PageButtons
<1>3. CASE p = "reviews"
  <2>1. op \in {"claim", "decide"} /\ ReviewsRefusals(op, row) = {} /\ Buttons[p] = ReviewsButtons
    BY <1>3, PageButtons, PageRefusals DEF ReviewsButtons
  <2>2. op = "claim" => row.status = "open" /\ ReviewsButtons[op].on = {"open"}
    BY <2>1, <1>0 DEF ReviewsRefusals, ReviewsButtons, Button
  <2>3. op = "decide" => row.status = "mine" /\ ReviewsButtons[op].on = {"mine", "others"}
    <3>1. op = "decide" => When(row.status = "others", "others") = {} /\ MovedOn(row, {"mine", "others"}) = {}
      BY <2>1 DEF ReviewsRefusals
    <3>2. op = "decide" => row.status # "others" /\ row.status \in {"mine", "others"}
      BY <3>1, <1>0 DEF When
    <3> QED
      BY <3>2 DEF ReviewsButtons, Button
  <2> QED
    BY <1>3, <2>1, <2>2, <2>3
<1>4. CASE p = "appeals"
  <2>1. op = "judge" /\ AppealsRefusals(op, row) = {} /\ Buttons[p] = AppealsButtons
    BY <1>4, PageButtons, PageRefusals DEF AppealsButtons
  <2> QED
    BY <1>4, <2>1, <1>0 DEF AppealsRefusals, AppealsButtons, Button
<1>5. CASE p = "inspirations"
  <2>1. op = "feature" /\ InspirationsRefusals(op, row) = {} /\ Buttons[p] = InspirationsButtons
    BY <1>5, PageButtons, PageRefusals DEF InspirationsButtons, Decisive
  <2>2. When(op = "feature" /\ row.status # "candidate", "moved on") = {}
    BY <2>1 DEF InspirationsRefusals
  <2>3. row.status = "candidate"
    BY <2>1, <2>2 DEF When
  <2> QED
    BY <1>5, <2>1, <2>3 DEF InspirationsButtons, Button
<1>6. CASE p = "codes"
  <2>1. op = "disable" /\ CodesRefusals(op, row) = {} /\ Buttons[p] = CodesButtons
    BY <1>6, PageButtons, PageRefusals DEF CodesButtons, Decisive
  <2> QED
    BY <1>6, <2>1, <1>0 DEF CodesRefusals, CodesButtons, Button
<1>7. CASE p = "orders"
  <2>1. op = "refund" /\ OrdersRefusals(op, row) = {} /\ Buttons[p] = OrdersButtons
    BY <1>7, PageButtons, PageRefusals DEF OrdersButtons
  <2> QED
    BY <1>7, <2>1, <1>0 DEF OrdersRefusals, OrdersButtons, Button
<1> QED
  BY <1>1, <1>3, <1>4, <1>5, <1>6, <1>7, PageNames

(* "another" is the status of no row.                                      *)
LEMMA NoneIsAnother ==
  ASSUME NEW p \in Pages
  PROVE  "another" \notin Possible(p)
<1>1. \A rows \in Start[p], r \in Rows : rows[r].status # "another"
  BY ScreensAssumption
<1>2. \A move \in Elsewhere[p] : move[1] # "another" /\ move[2] # "another"
  <2>1. CASE p \in {"users", "accounts", "roles", "risk"}
    BY <2>1 DEF Elsewhere, UsersElsewhere, AccountsElsewhere, RolesElsewhere, VersionElsewhere
  <2>2. CASE p \in {"reviews", "appeals", "inspirations", "rules"}
    BY <2>2 DEF Elsewhere, ReviewsElsewhere, AppealsElsewhere, InspirationsElsewhere, VersionElsewhere
  <2>3. CASE p \in {"codes", "orders", "privacy", "tasks"}
    BY <2>3 DEF Elsewhere, CodesElsewhere, OrdersElsewhere, PrivacyElsewhere
  <2> QED
    BY <2>1, <2>2, <2>3, PageNames
<1>3. \A op \in DOMAIN Buttons[p] : Effects[p][op] # "another"
  <2>1. CASE p \in {"users", "accounts", "roles"}
    <3>1. \A o \in DOMAIN UsersButtons : UsersEffects[o] # "another"
      BY DEF UsersButtons, UsersEffects
    <3>2. \A o \in DOMAIN AccountsButtons : AccountsEffects[o] # "another"
      BY DEF AccountsButtons, AccountsEffects
    <3>3. \A o \in DOMAIN RolesButtons : RolesEffects[o] # "another"
      BY DEF RolesButtons, RolesEffects
    <3> QED
      BY <2>1, <3>1, <3>2, <3>3, PageButtons, PageEffects
  <2>2. CASE p \in {"risk", "rules", "reviews", "appeals"}
    <3>1. \A o \in DOMAIN RiskButtons : VersionEffects[o] # "another"
      BY DEF RiskButtons, VersionEffects
    <3>2. \A o \in DOMAIN RulesButtons : VersionEffects[o] # "another"
      BY DEF RulesButtons, VersionEffects
    <3>3. \A o \in DOMAIN ReviewsButtons : ReviewsEffects[o] # "another"
      BY DEF ReviewsButtons, ReviewsEffects
    <3>4. \A o \in DOMAIN AppealsButtons : AppealsEffects[o] # "another"
      BY DEF AppealsButtons, AppealsEffects
    <3> QED
      BY <2>2, <3>1, <3>2, <3>3, <3>4, PageButtons, PageEffects
  <2>3. CASE p \in {"inspirations", "codes", "orders", "privacy"}
    <3>1. \A o \in DOMAIN InspirationsButtons : InspirationsEffects[o] # "another"
      BY DEF InspirationsButtons, InspirationsEffects
    <3>2. \A o \in DOMAIN CodesButtons : CodesEffects[o] # "another"
      BY DEF CodesButtons, CodesEffects
    <3>3. \A o \in DOMAIN OrdersButtons : OrdersEffects[o] # "another"
      BY DEF OrdersButtons, OrdersEffects
    <3>4. \A o \in DOMAIN PrivacyButtons : PrivacyEffects[o] # "another"
      BY DEF PrivacyButtons, PrivacyEffects
    <3> QED
      BY <2>3, <3>1, <3>2, <3>3, <3>4, PageButtons, PageEffects
  <2>4. CASE p = "tasks"
    BY <2>4, PageButtons
  <2> QED
    BY <2>1, <2>2, <2>3, <2>4, PageNames
<1> DEFINE First == {rows[r].status : rows \in Start[p], r \in Rows}
           Moves == UNION {{move[1], move[2]} : move \in Elsewhere[p]}
           Made == {Effects[p][op] : op \in DOMAIN Buttons[p]}
<1>4. "another" \notin First /\ "another" \notin Moves /\ "another" \notin Made
  BY <1>1, <1>2, <1>3
<1>5. StatusesOf(p) = First \cup Moves \cup (Made \ {"same"})
  BY DEF StatusesOf
<1> HIDE DEF First, Moves, Made
<1> QED
  BY <1>4, <1>5 DEF Possible

-----------------------------------------------------------------------------
(* Sequences, and the first of the rows.                                   *)

LEMMA NatIsWellFounded ==
  IsWellFoundedOn({ss \in Nat \X Nat : ss[1] < ss[2]}, Nat)
  BY NatLessThanWellFounded, Zenon DEF OpToRel

LEMMA LeastRow ==
  ASSUME NEW S \in SUBSET Nat, S # {}
  PROVE  \E r \in S : \A s \in S : r <= s
<1> DEFINE R == {ss \in Nat \X Nat : ss[1] < ss[2]}
<1>1. IsWellFoundedOn(R, Nat)
  BY NatIsWellFounded, Zenon
<1>2. \A x, y \in Nat : x < y => <<x, y>> \in R
  OBVIOUS
<1> HIDE DEF R
<1>a. S \subseteq Nat /\ S # {}
  OBVIOUS
<1>b. \E r \in S : \A s \in S : ~ (<<s, r>> \in R)
    BY <1>1, <1>a, WFMin, Zenon
<1>3. PICK r \in S : \A s \in S : <<s, r>> \notin R
  BY <1>b
<1>4. r \in Nat /\ \A s \in S : s \in Nat /\ ~ (s < r)
  BY <1>2, <1>3, <1>a
<1> QED
  BY <1>4

LEMMA Appended ==
  ASSUME NEW T, NEW s \in Seq(T), NEW a \in T
  PROVE  /\ Append(s, a) \in Seq(T)
         /\ \A i \in DOMAIN Append(s, a) :
              \/ i \in DOMAIN s /\ Append(s, a)[i] = s[i]
              \/ i = Len(s) + 1 /\ i \notin DOMAIN s /\ Append(s, a)[i] = a
  OBVIOUS

LEMMA TakenOut ==
  ASSUME NEW T, NEW s \in Seq(T), NEW i \in DOMAIN s
  PROVE  /\ RemoveAt(s, i) \in Seq(T)
         /\ \A k \in DOMAIN RemoveAt(s, i) :
              \/ k < i /\ k \in DOMAIN s /\ RemoveAt(s, i)[k] = s[k]
              \/ k >= i /\ k + 1 \in DOMAIN s /\ RemoveAt(s, i)[k] = s[k + 1]
<1>1. /\ Len(s) \in Nat /\ DOMAIN s = 1..Len(s) /\ i \in 1..Len(s)
  OBVIOUS
<1> DEFINE u == SubSeq(s, 1, i - 1)
           v == SubSeq(s, i + 1, Len(s))
<1>2. /\ u \in Seq(T) /\ Len(u) = i - 1 /\ \A k \in 1..(i - 1) : u[k] = s[k]
  BY <1>1, SubSeqProperties
<1>3. /\ v \in Seq(T) /\ Len(v) = Len(s) - i /\ \A k \in 1..(Len(s) - i) : v[k] = s[k + i]
  <2>1. CASE i = Len(s)
    BY <1>1, <2>1, SubSeqProperties
  <2>2. CASE i < Len(s)
    <3>1. i + 1 \in 1..(Len(s) + 1) /\ Len(s) \in i..Len(s)
      BY <1>1, <2>2
    <3>2. /\ v \in Seq(T) /\ Len(v) = Len(s) - (i + 1) + 1
          /\ \A k \in 1..(Len(s) - (i + 1) + 1) : v[k] = s[i + 1 + k - 1]
      BY <1>1, <3>1, SubSeqProperties
    <3>3. Len(s) - (i + 1) + 1 = Len(s) - i
      BY <1>1
    <3>4. ASSUME NEW k \in 1..(Len(s) - i)
          PROVE  v[k] = s[k + i]
      <4>1. i + 1 + k - 1 = k + i
        BY <1>1
      <4> QED
        BY <3>2, <3>3, <4>1
    <3> HIDE DEF v
    <3> QED
      BY <3>2, <3>3, <3>4
  <2> QED
    BY <1>1, <2>1, <2>2
<1> HIDE DEF u, v
<1>a. Len(u) + Len(v) = Len(s) - 1
  BY <1>1, <1>2, <1>3
<1>4. /\ u \o v \in Seq(T) /\ Len(u \o v) = Len(s) - 1
      /\ \A k \in 1..(Len(s) - 1) : (u \o v)[k] = IF k <= i - 1 THEN u[k] ELSE v[k - (i - 1)]
  <2>1. u \o v \in Seq(T) /\ Len(u \o v) = Len(u) + Len(v)
        /\ \A k \in 1..(Len(u) + Len(v)) : (u \o v)[k] = IF k <= Len(u) THEN u[k] ELSE v[k - Len(u)]
    BY <1>2, <1>3, ConcatProperties
  <2> QED
    BY <1>2, <1>a, <2>1
<1>5. RemoveAt(s, i) = u \o v
  BY DEF RemoveAt, u, v
<1>6. DOMAIN (u \o v) = 1..(Len(s) - 1)
  BY <1>4
<1>7. ASSUME NEW k \in 1..(Len(s) - 1)
      PROVE  \/ k < i /\ k \in DOMAIN s /\ (u \o v)[k] = s[k]
             \/ k >= i /\ k + 1 \in DOMAIN s /\ (u \o v)[k] = s[k + 1]
  <2>1. CASE k < i
    BY <1>1, <1>2, <1>4, <2>1
  <2>2. CASE k >= i
    <3>a. ~ (k <= i - 1) /\ k - (i - 1) \in 1..(Len(s) - i)
      BY <1>1, <2>2
    <3>1. (u \o v)[k] = v[k - (i - 1)] /\ k - (i - 1) \in 1..(Len(s) - i)
      BY <1>4, <3>a
    <3>2. v[k - (i - 1)] = s[k - (i - 1) + i]
      BY <1>3, <3>1
    <3>3. k - (i - 1) + i = k + 1 /\ k + 1 \in 1..Len(s)
      BY <1>1
    <3> QED
      BY <1>1, <2>2, <3>1, <3>2, <3>3
  <2>3. k < i \/ k >= i
    BY <1>1
  <2> QED
    BY <2>1, <2>2, <2>3
<1> QED
  BY <1>4, <1>5, <1>6, <1>7

-----------------------------------------------------------------------------
(* The invariant.  The values of the variables first.                      *)

Shown(p) == [Rows -> [status : Possible(p), ties : SUBSET STRING]]
Listed(p) == [rows : Shown(p), granted : BOOLEAN, ends : BOOLEAN]
Dialogues(p) == [op : DOMAIN Buttons[p], row : Rows, seen : Possible(p)]
Changes(p) ==
  [op : DOMAIN Buttons[p], row : Rows, seen : Possible(p) \cup {"another"},
   filter : {"all", "some"}, waits : BOOLEAN, of : Nat]

ServerType ==
  server \in [signedIn : BOOLEAN, held : SUBSET Needed(screen),
              rows : [Rows -> [status : StatusesOf(screen), ties : SUBSET STRING]]]
UiType ==
  ui \in [open : BOOLEAN, granted : SUBSET Needed(screen), filter : {"all", "some"},
          rows : Shown(screen), loading : BOOLEAN, saving : BOOLEAN,
          selected : Rows \cup {0}, dialog : Dialogues(screen) \cup {NoDialog}]
SweepType ==
  sweep \in [days : {30, 90}, preview : {0, 30, 90},
             request : {NoSweep} \cup [op : {"look", "delete"}, days : {30, 90}],
             looked : SUBSET {30, 90}]
ValuesOK ==
  /\ screen \in Pages /\ ServerType /\ UiType /\ SweepType
  /\ asked \in Seq(Listed(screen)) /\ sent \subseteq Changes(screen)
  /\ acts \in Nat /\ acts <= MaxActs

(* Nothing changes the ties of a row, so that every list shows the same.   *)
SameTies ==
  \A r \in Rows :
    /\ ui.rows[r].ties = server.rows[r].ties
    /\ \A i \in DOMAIN asked : asked[i].rows[r].ties = server.rows[r].ties

(* What the page offered: a button it has the permission for, on a row     *)
(* that was seen with one of its statuses.                                 *)
MayAsk(op) == Buttons[screen][op].asks \in ui.granted
WasOffered(op, r, seen) ==
  seen \in Buttons[screen][op].on /\ server.rows[r].ties \cap Buttons[screen][op].unless = {}

OfferedAll ==
  /\ ui.dialog # NoDialog =>
       MayAsk(ui.dialog.op) /\ WasOffered(ui.dialog.op, ui.dialog.row, ui.dialog.seen)
  /\ \A w \in sent : /\ MayAsk(w.op)
                     /\ WasOffered(w.op, w.row, w.seen) \/ (screen = "roles" /\ w.seen = "another")

(* Only one change, or the list after it, is waited for.                   *)
WaitsForOne ==
  screen \notin {"privacy", "codes"} =>
    /\ \A w \in sent : w.waits /\ ui.saving
    /\ \A v, w \in sent : v = w
    /\ \A i \in DOMAIN asked : asked[i].ends => ui.saving /\ sent = {}
    /\ \A i, j \in DOMAIN asked : asked[i].ends /\ asked[j].ends => i = j

(* What others have claimed is not given back.                             *)
OthersKeep ==
  screen = "reviews" =>
    \A r \in Rows :
      \/ ui.rows[r].status = "others"
      \/ \E i \in DOMAIN asked : asked[i].rows[r].status = "others"
      \/ \E w \in sent : w.row = r /\ w.seen = "others"
      \/ ui.dialog # NoDialog /\ ui.dialog.row = r /\ ui.dialog.seen = "others"
      => server.rows[r].status \in {"others", "decided"}

PreviewLooked == sweep.preview # 0 => sweep.preview \in sweep.looked

ScreenIInv ==
  /\ ValuesOK /\ SameTies /\ OfferedAll /\ WaitsForOne /\ OthersKeep /\ PreviewLooked
  /\ HonestButtons /\ DecidesWhatItSaw /\ LookedBeforeDeleting

-----------------------------------------------------------------------------
(* The steps.                                                              *)

LEMMA NarrowedTells ==
  ASSUME screen \in Pages, NEW f,
         NEW rows \in [Rows -> [status : StatusesOf(screen), ties : SUBSET STRING]]
  PROVE  /\ Narrowed(rows, f) \in Shown(screen)
         /\ \A r \in Rows : /\ Narrowed(rows, f)[r].ties = rows[r].ties
                            /\ \/ Narrowed(rows, f)[r].status = rows[r].status
                               \/ Narrowed(rows, f)[r].status = "absent"
BY DEF Narrowed, Shown, Possible

(* A step without an outcome says nothing new of outcomes.                 *)
LEMMA Silent ==
  ASSUME outcome' = NoOutcome
  PROVE  HonestButtons' /\ DecidesWhatItSaw'
BY DEF HonestButtons, DecidesWhatItSaw

LEMMA LoadStep ==
  ASSUME ScreenIInv, NEW f \in {"all", "some"}, Load(f)
  PROVE  ScreenIInv'
<1> DEFINE shown == Narrowed(server.rows, f)
           a == Answer(server, f, FALSE)
<1>a. /\ shown \in Shown(screen)
      /\ \A r \in Rows : /\ shown[r].ties = server.rows[r].ties
                         /\ shown[r].status = server.rows[r].status \/ shown[r].status = "absent"
  <2>1. /\ screen \in Pages
        /\ server.rows \in [Rows -> [status : StatusesOf(screen), ties : SUBSET STRING]]
    BY DEF ScreenIInv, ValuesOK, ServerType
  <2> QED
    BY <2>1, NarrowedTells
<1>b. a = [rows |-> shown, granted |-> server.signedIn, ends |-> FALSE]
  BY DEF Answer
<1> HIDE DEF shown, a
<1>0. server.signedIn \in BOOLEAN
  BY DEF ScreenIInv, ValuesOK, ServerType
<1>1. /\ a \in Listed(screen) /\ a.ends = FALSE
      /\ \A r \in Rows : /\ a.rows[r].ties = server.rows[r].ties
                         /\ a.rows[r].status = server.rows[r].status \/ a.rows[r].status = "absent"
  BY <1>0, <1>a, <1>b DEF Listed
<1>2. /\ asked \in Seq(Listed(screen)) /\ asked' = Append(asked, a)
      /\ UNCHANGED <<screen, server, sent, acts, sweep>> /\ outcome' = NoOutcome
  BY DEF Load, ScreenIInv, ValuesOK, a
<1>3. /\ asked' \in Seq(Listed(screen))
      /\ \A i \in DOMAIN asked' :
           \/ i \in DOMAIN asked /\ asked'[i] = asked[i]
           \/ i = Len(asked) + 1 /\ i \notin DOMAIN asked /\ asked'[i] = a
  BY <1>1, <1>2, Appended
<1>4. /\ UiType' /\ ui'.granted = ui.granted /\ ui'.rows = ui.rows /\ ui'.saving = ui.saving
      /\ ui'.dialog = ui.dialog
  BY <1>2 DEF Load, ScreenIInv, ValuesOK, UiType
<1>5. ValuesOK'
  BY <1>2, <1>3, <1>4 DEF ScreenIInv, ValuesOK, ServerType, SweepType
<1>6. SameTies'
  BY <1>1, <1>2, <1>3, <1>4 DEF ScreenIInv, SameTies
<1>7. OfferedAll'
  BY <1>2, <1>4 DEF ScreenIInv, OfferedAll, MayAsk, WasOffered
<1>8. WaitsForOne'
  BY <1>1, <1>2, <1>3, <1>4 DEF ScreenIInv, WaitsForOne
<1>9. OthersKeep'
  BY <1>1, <1>2, <1>3, <1>4 DEF ScreenIInv, OthersKeep
<1> QED
  BY <1>2, <1>5, <1>6, <1>7, <1>8, <1>9, Silent DEF ScreenIInv, PreviewLooked, LookedBeforeDeleting

(* Steps that leave all alone but what is selected, and a dialog.          *)
LEMMA DialogStep ==
  ASSUME ScreenIInv, NEW d, SetDialog(d),
         \/ d = NoDialog
         \/ /\ d \in Dialogues(screen) /\ MayAsk(d.op) /\ WasOffered(d.op, d.row, d.seen)
            /\ screen = "reviews" /\ d.seen = "others"
               => server.rows[d.row].status \in {"others", "decided"}
  PROVE  ScreenIInv'
<1>1. /\ UNCHANGED <<screen, server, asked, sent, acts, sweep>> /\ outcome' = NoOutcome
  BY DEF SetDialog
<1>2. /\ UiType' /\ ui'.granted = ui.granted /\ ui'.rows = ui.rows /\ ui'.saving = ui.saving
      /\ ui'.dialog = d
  BY <1>1 DEF SetDialog, ScreenIInv, ValuesOK, UiType
<1>3. ValuesOK'
  BY <1>1, <1>2 DEF ScreenIInv, ValuesOK, ServerType, SweepType
<1>4. SameTies' /\ WaitsForOne' /\ OthersKeep'
  BY <1>1, <1>2 DEF ScreenIInv, SameTies, WaitsForOne, OthersKeep
<1>5. OfferedAll'
  BY <1>1, <1>2 DEF ScreenIInv, OfferedAll, MayAsk, WasOffered
<1> QED
  BY <1>1, <1>3, <1>4, <1>5, Silent DEF ScreenIInv, PreviewLooked, LookedBeforeDeleting

LEMMA SelectStep ==
  ASSUME ScreenIInv, NEW r \in Rows, SelectRole(r)
  PROVE  ScreenIInv'
<1>1. /\ UNCHANGED <<screen, server, asked, sent, acts, sweep>> /\ outcome' = NoOutcome
  BY DEF SelectRole
<1>2. /\ UiType' /\ ui'.granted = ui.granted /\ ui'.rows = ui.rows /\ ui'.saving = ui.saving
      /\ ui'.dialog = ui.dialog
  BY <1>1 DEF SelectRole, ScreenIInv, ValuesOK, UiType
<1>3. ValuesOK'
  BY <1>1, <1>2 DEF ScreenIInv, ValuesOK, ServerType, SweepType
<1>4. SameTies' /\ WaitsForOne' /\ OthersKeep'
  BY <1>1, <1>2 DEF ScreenIInv, SameTies, WaitsForOne, OthersKeep
<1>5. OfferedAll'
  BY <1>1, <1>2 DEF ScreenIInv, OfferedAll, MayAsk, WasOffered
<1> QED
  BY <1>1, <1>3, <1>4, <1>5, Silent DEF ScreenIInv, PreviewLooked, LookedBeforeDeleting

LEMMA SaveNothingStep ==
  ASSUME ScreenIInv, screen = "roles", SaveNothing
  PROVE  ScreenIInv'
<1> DEFINE shown == Narrowed(server.rows, ui.filter)
           a == Answer(server, ui.filter, TRUE)
<1>a. /\ shown \in Shown(screen)
      /\ \A r \in Rows : /\ shown[r].ties = server.rows[r].ties
                         /\ shown[r].status = server.rows[r].status \/ shown[r].status = "absent"
  <2>1. /\ screen \in Pages
        /\ server.rows \in [Rows -> [status : StatusesOf(screen), ties : SUBSET STRING]]
    BY DEF ScreenIInv, ValuesOK, ServerType
  <2> QED
    BY <2>1, NarrowedTells
<1>b. a = [rows |-> shown, granted |-> server.signedIn, ends |-> TRUE]
  BY DEF Answer
<1> HIDE DEF shown, a
<1>0. server.signedIn \in BOOLEAN
  BY DEF ScreenIInv, ValuesOK, ServerType
<1>1. /\ a \in Listed(screen) /\ a.ends = TRUE
      /\ \A r \in Rows : /\ a.rows[r].ties = server.rows[r].ties
                         /\ a.rows[r].status = server.rows[r].status \/ a.rows[r].status = "absent"
  BY <1>0, <1>a, <1>b DEF Listed
<1>2. /\ asked \in Seq(Listed(screen)) /\ asked' = Append(asked, a) /\ ~ui.saving
      /\ UNCHANGED <<screen, server, sent, acts, sweep>> /\ outcome' = NoOutcome
  BY DEF SaveNothing, ScreenIInv, ValuesOK, a
<1>3. /\ asked' \in Seq(Listed(screen))
      /\ \A i \in DOMAIN asked' :
           \/ i \in DOMAIN asked /\ asked'[i] = asked[i]
           \/ i = Len(asked) + 1 /\ i \notin DOMAIN asked /\ asked'[i] = a
  BY <1>1, <1>2, Appended
<1>4. /\ UiType' /\ ui'.granted = ui.granted /\ ui'.rows = ui.rows /\ ui'.saving
      /\ ui'.dialog = NoDialog
  BY <1>2 DEF SaveNothing, ScreenIInv, ValuesOK, UiType
<1>5. ValuesOK'
  BY <1>2, <1>3, <1>4 DEF ScreenIInv, ValuesOK, ServerType, SweepType
<1>6. SameTies'
  BY <1>1, <1>2, <1>3, <1>4 DEF ScreenIInv, SameTies
<1>7. OfferedAll'
  BY <1>2, <1>4 DEF ScreenIInv, OfferedAll, MayAsk, WasOffered
<1>8. WaitsForOne'
  BY <1>1, <1>2, <1>3, <1>4 DEF ScreenIInv, WaitsForOne
<1>9. OthersKeep'
  BY <1>2 DEF OthersKeep
<1> QED
  BY <1>2, <1>5, <1>6, <1>7, <1>8, <1>9, Silent DEF ScreenIInv, PreviewLooked, LookedBeforeDeleting

(* A change is sent.                                                       *)
LEMMA SendStep ==
  ASSUME ScreenIInv, NEW op \in DOMAIN Buttons[screen], NEW r \in Rows,
         NEW seen \in Possible(screen) \cup {"another"}, NEW waits \in BOOLEAN,
         MayAsk(op),
         WasOffered(op, r, seen) \/ (screen = "roles" /\ seen = "another"),
         screen \notin {"privacy", "codes"} => waits /\ ~ui.saving,
         screen = "reviews" /\ seen = "others" => server.rows[r].status \in {"others", "decided"},
         Send(op, r, seen, waits)
  PROVE  ScreenIInv'
<1> DEFINE w == [op |-> op, row |-> r, seen |-> seen, filter |-> ui.filter,
                 waits |-> waits, of |-> acts]
<1>1. /\ w \in Changes(screen)
      /\ w.op = op /\ w.row = r /\ w.seen = seen /\ w.waits = waits
  BY DEF ScreenIInv, ValuesOK, UiType, Changes
<1> HIDE DEF w
<1>2. /\ UNCHANGED <<screen, server, asked, sweep>> /\ outcome' = NoOutcome
      /\ sent' = sent \cup {w} /\ acts < MaxActs /\ acts' = acts + 1
  BY DEF Send, w
<1>3. /\ UiType' /\ ui'.granted = ui.granted /\ ui'.rows = ui.rows
      /\ ui'.saving = (ui.saving \/ waits) /\ ui'.dialog = ui.dialog
  BY <1>2 DEF Send, ScreenIInv, ValuesOK, UiType
<1>4. ValuesOK'
  <2>1. acts' \in Nat /\ acts' <= MaxActs
    BY <1>2, ScreensAssumption DEF ScreenIInv, ValuesOK
  <2>2. screen' \in Pages /\ ServerType' /\ SweepType' /\ asked' \in Seq(Listed(screen'))
    BY <1>2 DEF ScreenIInv, ValuesOK, ServerType, SweepType
  <2>3. sent' \subseteq Changes(screen')
    BY <1>1, <1>2 DEF ScreenIInv, ValuesOK
  <2> QED
    BY <1>3, <2>1, <2>2, <2>3 DEF ValuesOK
<1>5. SameTies'
  BY <1>2, <1>3 DEF ScreenIInv, SameTies
<1>6. OfferedAll'
  BY <1>1, <1>2, <1>3 DEF ScreenIInv, OfferedAll, MayAsk, WasOffered
<1>7. WaitsForOne'
  BY <1>1, <1>2, <1>3 DEF ScreenIInv, WaitsForOne
<1>8. OthersKeep'
  BY <1>1, <1>2, <1>3 DEF ScreenIInv, OthersKeep
<1> QED
  BY <1>2, <1>4, <1>5, <1>6, <1>7, <1>8, Silent DEF ScreenIInv, PreviewLooked, LookedBeforeDeleting

(* The clean-up of uploads.                                                *)
LEMMA SweepStep ==
  ASSUME ScreenIInv, RunCleanUp(TRUE) \/ RunCleanUp(FALSE) \/ ChooseDays \/ CleanUpAnswers
  PROVE  ScreenIInv'
<1>1. PICK s : SetSweep(s)
  BY DEF RunCleanUp, ChooseDays, CleanUpAnswers
<1>2. UNCHANGED <<screen, server, ui, asked, sent, acts>> /\ outcome' = NoOutcome
  BY <1>1 DEF SetSweep
<1>3. SweepType' /\ PreviewLooked' /\ LookedBeforeDeleting'
  <2> USE DEF ScreenIInv, ValuesOK, SweepType, PreviewLooked, LookedBeforeDeleting, SetSweep, NoSweep
  <2>1. CASE RunCleanUp(TRUE)
    BY <2>1 DEF RunCleanUp
  <2>2. CASE RunCleanUp(FALSE)
    BY <2>2 DEF RunCleanUp, CleanUp
  <2>3. CASE ChooseDays
    BY <2>3 DEF ChooseDays
  <2>4. CASE CleanUpAnswers
    <3>1. sweep.request # NoSweep /\ sweep.request.days \in {30, 90} /\ UNCHANGED ui
      BY <1>2, <2>4 DEF CleanUpAnswers
    <3>2. CASE sweep' = [sweep EXCEPT !.request = NoSweep, !.preview = sweep.request.days,
                                      !.looked = @ \cup {sweep.request.days}]
      BY <3>1, <3>2
    <3>3. CASE sweep' = [sweep EXCEPT !.request = NoSweep]
      BY <3>1, <3>3
    <3> QED
      BY <2>4, <3>2, <3>3 DEF CleanUpAnswers
  <2> QED
    BY <2>1, <2>2, <2>3, <2>4
<1>4. ValuesOK'
  BY <1>2, <1>3 DEF ScreenIInv, ValuesOK, ServerType, UiType
<1>5. SameTies' /\ WaitsForOne' /\ OthersKeep' /\ OfferedAll'
  BY <1>2 DEF ScreenIInv, SameTies, WaitsForOne, OthersKeep, OfferedAll, MayAsk, WasOffered
<1> QED
  BY <1>2, <1>3, <1>4, <1>5, Silent DEF ScreenIInv

(* A list arrives, or does not.                                            *)
LEMMA SelectionTells ==
  ASSUME NEW rows, ui.selected \in Rows \cup {0}
  PROVE  Selection(rows) \in Rows \cup {0}
<1> DEFINE there == {r \in Rows : rows[r].status # "absent"}
<1>1. CASE screen # "roles" \/ ui.selected \in there \/ there = {}
  BY <1>1 DEF Selection
<1>2. CASE screen = "roles" /\ ui.selected \notin there /\ there # {}
  <2>1. there \in SUBSET Nat
    BY ScreensAssumption
  <2>2. Selection(rows) = CHOOSE r \in there : \A s \in there : r <= s
    BY <1>2 DEF Selection
  <2>3. there \subseteq Rows
    OBVIOUS
  <2> HIDE DEF there
  <2>4. \E r \in there : \A s \in there : r <= s
    BY <1>2, <2>1, LeastRow
  <2>5. (CHOOSE r \in there : \A s \in there : r <= s) \in there
    BY <2>4
  <2> QED
    BY <2>2, <2>3, <2>5
<1> QED
  BY <1>1, <1>2

LEMMA ListArrivesStep ==
  ASSUME ScreenIInv, NEW i \in DOMAIN asked, ListArrives(i)
  PROVE  ScreenIInv'
<1>1. /\ asked \in Seq(Listed(screen)) /\ asked[i] \in Listed(screen)
      /\ asked' = RemoveAt(asked, i) /\ i \in Nat
      /\ UNCHANGED <<screen, server, sent, acts, sweep>> /\ outcome' = NoOutcome
  BY DEF ListArrives, ScreenIInv, ValuesOK
<1>2. /\ asked' \in Seq(Listed(screen))
      /\ \A k \in DOMAIN asked' :
           \/ k \in Nat /\ k < i /\ k \in DOMAIN asked /\ asked'[k] = asked[k]
           \/ k \in Nat /\ k >= i /\ k + 1 \in DOMAIN asked /\ asked'[k] = asked[k + 1]
  BY <1>1, TakenOut
<1>3. /\ UiType' /\ ui'.granted = ui.granted /\ ui'.rows = asked[i].rows
      /\ ui'.saving = (ui.saving /\ ~asked[i].ends) /\ ui'.dialog = ui.dialog
  <2>1. Selection(asked[i].rows) \in Rows \cup {0}
    BY SelectionTells DEF ScreenIInv, ValuesOK, UiType
  <2>2. asked[i].rows \in Shown(screen) /\ (ui.saving /\ ~asked[i].ends) \in BOOLEAN
    BY <1>1 DEF Listed
  <2>3. ui' = [ui EXCEPT !.rows = asked[i].rows, !.loading = FALSE, !.saving = @ /\ ~asked[i].ends,
                         !.selected = Selection(asked[i].rows)]
    BY DEF ListArrives
  <2> QED
    BY <1>1, <2>1, <2>2, <2>3 DEF ScreenIInv, ValuesOK, UiType
<1>4. ValuesOK'
  BY <1>1, <1>2, <1>3 DEF ScreenIInv, ValuesOK, ServerType, SweepType
<1>5. SameTies'
  BY <1>1, <1>2, <1>3 DEF ScreenIInv, SameTies
<1>6. OfferedAll'
  BY <1>1, <1>3 DEF ScreenIInv, OfferedAll, MayAsk, WasOffered
<1>7. WaitsForOne'
  <2>0. SUFFICES ASSUME screen \notin {"privacy", "codes"} PROVE WaitsForOne'
    BY <1>1 DEF WaitsForOne
  <2>1. CASE asked[i].ends
    <3>1. sent = {} /\ \A k \in DOMAIN asked : asked[k].ends => k = i
      BY <2>0, <2>1 DEF ScreenIInv, WaitsForOne
    <3>2. \A k \in DOMAIN asked' : ~asked'[k].ends
      BY <1>1, <1>2, <3>1
    <3> QED
      BY <1>1, <3>1, <3>2 DEF WaitsForOne
  <2>2. CASE ~asked[i].ends
    <3>1. ui'.saving = ui.saving
      BY <1>3, <2>2 DEF ScreenIInv, ValuesOK, UiType
    <3>2. \A k \in DOMAIN asked' : asked'[k].ends => ui.saving /\ sent = {}
      BY <1>2, <2>0 DEF ScreenIInv, WaitsForOne
    <3>3. \A k, l \in DOMAIN asked' : asked'[k].ends /\ asked'[l].ends => k = l
      BY <1>1, <1>2, <2>0 DEF ScreenIInv, WaitsForOne
    <3> QED
      BY <1>1, <2>0, <3>1, <3>2, <3>3 DEF ScreenIInv, WaitsForOne
  <2> QED
    BY <2>1, <2>2
<1>8. OthersKeep'
  BY <1>1, <1>2, <1>3 DEF ScreenIInv, OthersKeep
<1> QED
  BY <1>1, <1>4, <1>5, <1>6, <1>7, <1>8, Silent DEF ScreenIInv, PreviewLooked, LookedBeforeDeleting

(* The page is left for the login.                                         *)
LEMMA LeaveStep ==
  ASSUME ScreenIInv, Leave, UNCHANGED <<screen, server, acts, sweep>>
  PROVE  ValuesOK' /\ SameTies' /\ OfferedAll' /\ WaitsForOne' /\ OthersKeep' /\ PreviewLooked'
         /\ LookedBeforeDeleting'
<1>1. asked' = <<>> /\ sent' = {}
  BY DEF Leave
<1>2. /\ UiType' /\ ui'.dialog = NoDialog
      /\ \A r \in Rows : ui'.rows[r].ties = ui.rows[r].ties /\ ui'.rows[r].status = "absent"
  <2>1. Empty(ui.rows) \in Shown(screen)
        /\ \A r \in Rows : /\ Empty(ui.rows)[r].ties = ui.rows[r].ties
                           /\ Empty(ui.rows)[r].status = "absent"
    BY DEF ScreenIInv, ValuesOK, UiType, Empty, Shown, Possible
  <2>2. ui' = [ui EXCEPT !.open = FALSE, !.granted = {}, !.rows = Empty(ui.rows), !.dialog = NoDialog,
                         !.saving = FALSE, !.loading = FALSE, !.selected = 0]
    BY DEF Leave
  <2> QED
    BY <2>1, <2>2 DEF ScreenIInv, ValuesOK, UiType
<1>3. ValuesOK'
  BY <1>1, <1>2 DEF ScreenIInv, ValuesOK, ServerType, SweepType
<1>4. SameTies' /\ OfferedAll' /\ WaitsForOne' /\ OthersKeep'
  BY <1>1, <1>2 DEF ScreenIInv, SameTies, OfferedAll, WaitsForOne, OthersKeep
<1> QED
  BY <1>3, <1>4 DEF ScreenIInv, PreviewLooked, LookedBeforeDeleting

LEMMA ListFailsStep ==
  ASSUME ScreenIInv, NEW i \in DOMAIN asked, ListFails(i)
  PROVE  ScreenIInv'
<1>0. UNCHANGED <<screen, server, acts, sweep>> /\ outcome' = NoOutcome
  BY DEF ListFails
<1>1. CASE Leave
  BY <1>0, <1>1, LeaveStep, Silent DEF ScreenIInv
<1>2. CASE ~Leave
  <2>1. /\ asked \in Seq(Listed(screen)) /\ i \in Nat
        /\ asked' = RemoveAt(asked, i) /\ sent' = sent
        /\ ui' = [ui EXCEPT !.loading = FALSE, !.saving = @ /\ ~asked[i].ends]
    BY <1>2 DEF ListFails, ScreenIInv, ValuesOK
  <2>2. /\ asked' \in Seq(Listed(screen))
        /\ \A k \in DOMAIN asked' :
             \/ k \in Nat /\ k < i /\ k \in DOMAIN asked /\ asked'[k] = asked[k]
             \/ k \in Nat /\ k >= i /\ k + 1 \in DOMAIN asked /\ asked'[k] = asked[k + 1]
    BY <2>1, TakenOut
  <2>3. /\ UiType' /\ ui'.granted = ui.granted /\ ui'.rows = ui.rows
        /\ ui'.saving = (ui.saving /\ ~asked[i].ends) /\ ui'.dialog = ui.dialog
    BY <1>0, <2>1 DEF ScreenIInv, ValuesOK, UiType
  <2>4. ValuesOK'
    BY <1>0, <2>1, <2>2, <2>3 DEF ScreenIInv, ValuesOK, ServerType, SweepType
  <2>5. SameTies'
    BY <1>0, <2>2, <2>3 DEF ScreenIInv, SameTies
  <2>6. OfferedAll'
    BY <1>0, <2>1, <2>3 DEF ScreenIInv, OfferedAll, MayAsk, WasOffered
  <2>7. WaitsForOne'
    <3>0. SUFFICES ASSUME screen \notin {"privacy", "codes"} PROVE WaitsForOne'
      BY <1>0 DEF WaitsForOne
    <3>1. CASE asked[i].ends
      <4>1. sent = {} /\ \A k \in DOMAIN asked : asked[k].ends => k = i
        BY <3>0, <3>1 DEF ScreenIInv, WaitsForOne
      <4>2. \A k \in DOMAIN asked' : ~asked'[k].ends
        BY <2>1, <2>2, <4>1
      <4> QED
        BY <2>1, <4>1, <4>2 DEF WaitsForOne
    <3>2. CASE ~asked[i].ends
      <4>1. ui'.saving = ui.saving
        BY <2>3, <3>2 DEF ScreenIInv, ValuesOK, UiType
      <4>2. \A k \in DOMAIN asked' : asked'[k].ends => ui.saving /\ sent = {}
        BY <2>2, <3>0 DEF ScreenIInv, WaitsForOne
      <4>3. \A k, l \in DOMAIN asked' : asked'[k].ends /\ asked'[l].ends => k = l
        BY <2>1, <2>2, <3>0 DEF ScreenIInv, WaitsForOne
      <4> QED
        BY <1>0, <2>1, <3>0, <4>1, <4>2, <4>3 DEF ScreenIInv, WaitsForOne
    <3> QED
      BY <3>1, <3>2
  <2>8. OthersKeep'
    BY <1>0, <2>1, <2>2, <2>3 DEF ScreenIInv, OthersKeep
  <2> QED
    BY <1>0, <2>4, <2>5, <2>6, <2>7, <2>8, Silent DEF ScreenIInv, PreviewLooked, LookedBeforeDeleting
<1> QED
  BY <1>1, <1>2

(* The API answers.                                                        *)
LEMMA StatusesTell ==
  ASSUME NEW p \in Pages
  PROVE  /\ \A rows \in Start[p], r \in Rows : rows[r].status \in StatusesOf(p)
         /\ \A move \in Elsewhere[p] : move[1] \in StatusesOf(p) /\ move[2] \in StatusesOf(p)
         /\ \A op \in DOMAIN Buttons[p] : Effects[p][op] # "same" => Effects[p][op] \in StatusesOf(p)
         /\ "publish" \in DOMAIN Buttons[p] => "archived" \in StatusesOf(p)
<1> DEFINE First == {rows[r].status : rows \in Start[p], r \in Rows}
           Moves == UNION {{move[1], move[2]} : move \in Elsewhere[p]}
           Made == {Effects[p][op] : op \in DOMAIN Buttons[p]}
<1>1. /\ \A rows \in Start[p], r \in Rows : rows[r].status \in First
      /\ \A move \in Elsewhere[p] : move[1] \in Moves /\ move[2] \in Moves
      /\ \A op \in DOMAIN Buttons[p] : Effects[p][op] \in Made
  OBVIOUS
<1>2. StatusesOf(p) = First \cup Moves \cup (Made \ {"same"})
  BY DEF StatusesOf
<1>3. "publish" \in DOMAIN Buttons[p] => p \in {"risk", "rules"}
  <2>1. "publish" \notin DOMAIN UsersButtons \cup DOMAIN AccountsButtons \cup DOMAIN RolesButtons
    BY DEF UsersButtons, AccountsButtons, RolesButtons
  <2>2. "publish" \notin DOMAIN ReviewsButtons \cup DOMAIN AppealsButtons \cup DOMAIN InspirationsButtons
    BY DEF ReviewsButtons, AppealsButtons, InspirationsButtons
  <2>3. "publish" \notin DOMAIN CodesButtons \cup DOMAIN OrdersButtons \cup DOMAIN PrivacyButtons
    BY DEF CodesButtons, OrdersButtons, PrivacyButtons
  <2> QED
    BY <2>1, <2>2, <2>3, PageNames, PageButtons
<1>4. p \in {"risk", "rules"} => <<"published", "archived">> \in Elsewhere[p]
  BY DEF Elsewhere, VersionElsewhere
<1>5. p \in {"risk", "rules"} => "archived" \in Moves
  BY <1>1, <1>4
<1> HIDE DEF First, Moves, Made
<1> QED
  BY <1>1, <1>2, <1>3, <1>5

LEMMA SentTells ==
  ASSUME ScreenIInv, NEW w \in sent
  PROVE  /\ screen \in Pages /\ w.op \in DOMAIN Buttons[screen] /\ w.row \in Rows
         /\ w.waits \in BOOLEAN /\ w.filter \in {"all", "some"}
BY DEF ScreenIInv, ValuesOK, Changes

LEMMA AppliedTells ==
  ASSUME ScreenIInv, NEW w \in sent, Causes(w) = {}
  PROVE  /\ Applied(w) \in [Rows -> [status : StatusesOf(screen), ties : SUBSET STRING]]
         /\ \A r \in Rows : Applied(w)[r].ties = server.rows[r].ties
         /\ screen = "reviews" =>
              \A r \in Rows : server.rows[r].status \in {"others", "decided"}
                              => Applied(w)[r].status \in {"others", "decided"}
<1>1. /\ screen \in Pages /\ w.op \in DOMAIN Buttons[screen] /\ w.row \in Rows
      /\ server.rows \in [Rows -> [status : StatusesOf(screen), ties : SUBSET STRING]]
  BY SentTells DEF ScreenIInv, ValuesOK, ServerType
<1>2. /\ Effects[screen][w.op] # "same" => Effects[screen][w.op] \in StatusesOf(screen)
      /\ w.op = "publish" => "archived" \in StatusesOf(screen)
  BY <1>1, StatusesTell
<1>3. \A r \in Rows :
        \/ Applied(w)[r] = server.rows[r]
        \/ w.op = "publish" /\ Applied(w)[r] = [server.rows[r] EXCEPT !.status = "archived"]
        \/ r = w.row /\ Effects[screen][w.op] # "same"
           /\ Applied(w)[r] = [server.rows[r] EXCEPT !.status = Effects[screen][w.op]]
  BY DEF Applied
<1>4. ASSUME NEW r \in Rows
      PROVE  /\ Applied(w)[r] \in [status : StatusesOf(screen), ties : SUBSET STRING]
             /\ Applied(w)[r].ties = server.rows[r].ties
  <2> DEFINE row == server.rows[r]
  <2>1. row \in [status : StatusesOf(screen), ties : SUBSET STRING]
    BY <1>1
  <2> HIDE DEF row
  <2>2. \A s \in StatusesOf(screen) :
          /\ [row EXCEPT !.status = s] \in [status : StatusesOf(screen), ties : SUBSET STRING]
          /\ [row EXCEPT !.status = s].ties = row.ties
    BY <2>1
  <2>3. \/ Applied(w)[r] = row
        \/ \E s \in StatusesOf(screen) : Applied(w)[r] = [row EXCEPT !.status = s]
    BY <1>2, <1>3 DEF row
  <2>4. Applied(w)[r] \in [status : StatusesOf(screen), ties : SUBSET STRING]
        /\ Applied(w)[r].ties = row.ties
    BY <2>1, <2>2, <2>3
  <2> QED
    BY <2>4 DEF row
<1>5. Applied(w) \in [Rows -> [status : StatusesOf(screen), ties : SUBSET STRING]]
  BY <1>4 DEF Applied
<1>6. ASSUME screen = "reviews", NEW r \in Rows, server.rows[r].status \in {"others", "decided"}
      PROVE  Applied(w)[r] = server.rows[r]
  <2>1. w.op \in {"claim", "decide"}
    BY <1>1, <1>6, PageButtons DEF ReviewsButtons
  <2>2. ReviewsRefusals(w.op, server.rows[w.row]) = {}
    BY <1>6, PageRefusals DEF Causes
  <2>3. server.rows[w.row].status \notin {"others", "decided"}
    <3>1. w.op = "claim" => MovedOn(server.rows[w.row], {"open"}) = {}
      BY <2>1, <2>2 DEF ReviewsRefusals
    <3>2. w.op = "decide" => /\ When(server.rows[w.row].status = "others", "others") = {}
                             /\ MovedOn(server.rows[w.row], {"mine", "others"}) = {}
      BY <2>1, <2>2 DEF ReviewsRefusals
    <3> QED
      BY <2>1, <3>1, <3>2 DEF MovedOn, When
  <2> QED
    BY <1>3, <1>6, <2>1, <2>3
<1> QED
  BY <1>4, <1>5, <1>6

(* What a result tells of the page.                                        *)
LEMMA ResultTells ==
  ASSUME ScreenIInv, NEW w \in sent, NEW causes, outcome' = Result(w, causes), UNCHANGED screen,
         causes = {} => Causes(w) = {},
         causes = {} \/ causes = {"text"} \/ causes = Causes(w)
  PROVE  HonestButtons' /\ DecidesWhatItSaw'
<1> DEFINE row == server.rows[w.row]
<1>1. /\ screen \in Pages /\ w.op \in DOMAIN Buttons[screen] /\ w.row \in Rows
      /\ row.status \in StatusesOf(screen) /\ "another" \notin Possible(screen)
      /\ StatusesOf(screen) \subseteq Possible(screen)
  BY SentTells, NoneIsAnother DEF ScreenIInv, ValuesOK, ServerType, Possible
<1>2. /\ MayAsk(w.op)
      /\ WasOffered(w.op, w.row, w.seen) \/ (screen = "roles" /\ w.seen = "another")
  BY DEF ScreenIInv, OfferedAll
<1>3. /\ outcome'.op = w.op /\ outcome'.seen = w.seen /\ outcome'.before = row.status
      /\ outcome'.causes = causes
      /\ outcome'.fresh = (w.seen = row.status /\ ui.granted = server.held /\ server.signedIn)
  BY DEF Result
<1>4. ASSUME w.seen = row.status, ui.granted = server.held, server.signedIn
      PROVE  causes \subseteq Excused
  <2>1. row.status \in Buttons[screen][w.op].on /\ row.ties \cap Buttons[screen][w.op].unless = {}
    BY <1>1, <1>2, <1>4 DEF WasOffered
  <2>2. Refusals(screen, w.op, row) \subseteq Harmless
    BY <1>1, <2>1, ButtonsTell
  <2>3. screen # "codes" => Routes[screen][w.op] \in server.held
    BY <1>1, <1>2, <1>4, ButtonsAsk DEF MayAsk
  <2>4. Causes(w) = {"permission"} \/ Causes(w) = Refusals(screen, w.op, row)
    BY <1>4 DEF Causes
  <2>5. screen # "codes" => Causes(w) = Refusals(screen, w.op, row)
    BY <1>4, <2>3 DEF Causes
  <2>6. screen = "codes" => When(screen = "codes", "permission") = {"permission"}
    BY DEF When
  <2>7. Harmless \subseteq Excused /\ "text" \in Excused
    BY DEF Harmless, Excused
  <2>8. screen = "codes" => {"permission"} \subseteq Excused
    BY <2>6 DEF Excused
  <2> QED
    BY <2>2, <2>4, <2>5, <2>7, <2>8
<1>5. Excused' = Excused
  BY DEF Excused
<1>6. HonestButtons'
  BY <1>3, <1>4, <1>5 DEF HonestButtons
<1>7. ASSUME w.op \in Decisive, causes = {}
      PROVE  w.seen = row.status
  <2>1. Refusals(screen, w.op, row) = {}
    BY <1>7 DEF Causes
  <2>2. /\ screen # "roles"
        /\ w.op # "decide" => Buttons[screen][w.op].on = {row.status}
        /\ w.op = "decide" => screen = "reviews" /\ row.status = "mine"
                              /\ Buttons[screen][w.op].on = {"mine", "others"}
    BY <1>1, <1>7, <2>1, DecisionsTell
  <2>3. w.seen \in Buttons[screen][w.op].on
    BY <1>2, <2>2 DEF WasOffered
  <2>4. w.op = "decide" => w.seen # "others"
    BY <1>1, <2>2 DEF ScreenIInv, OthersKeep
  <2> QED
    BY <2>2, <2>3, <2>4
<1>8. DecidesWhatItSaw'
  BY <1>3, <1>7 DEF DecidesWhatItSaw, Decisive
<1> QED
  BY <1>6, <1>8

LEMMA AcceptStep ==
  ASSUME ScreenIInv, NEW w \in sent, Accept(w)
  PROVE  ScreenIInv'
<1> DEFINE rows == Applied(w)
           shown == Narrowed(rows, w.filter)
           a == [rows |-> shown, granted |-> server.signedIn, ends |-> w.waits]
<1>1. /\ screen \in Pages /\ w.op \in DOMAIN Buttons[screen] /\ w.row \in Rows
      /\ w.waits \in BOOLEAN /\ Causes(w) = {} /\ server.signedIn \in BOOLEAN
      /\ server' = [server EXCEPT !.rows = rows] /\ sent' = sent \ {w} /\ outcome' = Result(w, {})
      /\ UNCHANGED <<screen, acts, sweep>>
  BY SentTells DEF Accept, ScreenIInv, ValuesOK, ServerType
<1>2. /\ rows \in [Rows -> [status : StatusesOf(screen), ties : SUBSET STRING]]
      /\ \A r \in Rows : rows[r].ties = server.rows[r].ties
      /\ screen = "reviews" =>
           \A r \in Rows : server.rows[r].status \in {"others", "decided"}
                           => rows[r].status \in {"others", "decided"}
  BY <1>1, AppliedTells
<1> HIDE DEF rows
<1>3. /\ shown \in Shown(screen)
      /\ \A r \in Rows : /\ shown[r].ties = rows[r].ties
                         /\ shown[r].status = rows[r].status \/ shown[r].status = "absent"
  BY <1>1, <1>2, NarrowedTells
<1>4. ServerType' /\ server'.rows = rows /\ server'.signedIn = server.signedIn
  BY <1>1, <1>2 DEF ScreenIInv, ValuesOK, ServerType
<1>5. asked' = Append(asked, a) /\ asked \in Seq(Listed(screen))
  BY <1>4 DEF Accept, Answer, ScreenIInv, ValuesOK
<1> HIDE DEF shown
<1>6. a \in Listed(screen) /\ a.rows = shown /\ a.ends = w.waits
  BY <1>1, <1>3 DEF Listed
<1> HIDE DEF a
<1>7. /\ asked' \in Seq(Listed(screen))
      /\ \A i \in DOMAIN asked' :
           \/ i \in DOMAIN asked /\ asked'[i] = asked[i]
           \/ i = Len(asked) + 1 /\ i \notin DOMAIN asked /\ asked'[i] = a
  BY <1>5, <1>6, Appended
<1>8. /\ UiType' /\ ui'.granted = ui.granted /\ ui'.rows = ui.rows
      /\ ui'.saving = ui.saving /\ ui'.dialog = NoDialog
  BY <1>1 DEF Accept, ScreenIInv, ValuesOK, UiType
<1>9. ValuesOK'
  BY <1>1, <1>4, <1>7, <1>8 DEF ScreenIInv, ValuesOK, SweepType
<1>10. SameTies'
  BY <1>1, <1>2, <1>3, <1>4, <1>6, <1>7, <1>8 DEF ScreenIInv, SameTies
<1>11. OfferedAll'
  <2>1. \A v \in sent' : v \in sent /\ v.row \in Rows
    BY <1>1, SentTells
  <2> QED
    BY <1>1, <1>2, <1>4, <1>8, <2>1 DEF ScreenIInv, OfferedAll, MayAsk, WasOffered
<1>12. WaitsForOne'
  <2>0. SUFFICES ASSUME screen \notin {"privacy", "codes"} PROVE WaitsForOne'
    BY <1>1 DEF WaitsForOne
  <2>1. ui.saving /\ sent = {w} /\ \A i \in DOMAIN asked : ~asked[i].ends
    BY <2>0 DEF ScreenIInv, WaitsForOne
  <2> QED
    BY <1>1, <1>7, <1>8, <2>1 DEF WaitsForOne
<1>13. OthersKeep'
  <2>1. SUFFICES ASSUME screen = "reviews", NEW r \in Rows,
                        \/ ui.rows[r].status = "others"
                        \/ \E i \in DOMAIN asked' : asked'[i].rows[r].status = "others"
                        \/ \E v \in sent : v.row = r /\ v.seen = "others"
                        \/ ui.dialog # NoDialog /\ ui.dialog.row = r /\ ui.dialog.seen = "others"
                 PROVE  rows[r].status \in {"others", "decided"}
    BY <1>1, <1>4, <1>8 DEF OthersKeep
  <2>2. CASE \E i \in DOMAIN asked' : i \notin DOMAIN asked /\ asked'[i].rows[r].status = "others"
    BY <1>3, <1>6, <1>7, <2>1, <2>2
  <2>3. CASE ~ \E i \in DOMAIN asked' : i \notin DOMAIN asked /\ asked'[i].rows[r].status = "others"
    BY <1>2, <1>7, <2>1, <2>3 DEF ScreenIInv, OthersKeep
  <2> QED
    BY <2>2, <2>3
<1>14. HonestButtons' /\ DecidesWhatItSaw'
  BY <1>1, ResultTells
<1> QED
  BY <1>1, <1>9, <1>10, <1>11, <1>12, <1>13, <1>14 DEF ScreenIInv, PreviewLooked, LookedBeforeDeleting

LEMMA LoseAnswerStep ==
  ASSUME ScreenIInv, NEW w \in sent, LoseAnswer(w)
  PROVE  ScreenIInv'
<1> DEFINE rows == Applied(w)
<1>1. /\ screen \in Pages /\ w.op \in DOMAIN Buttons[screen] /\ w.row \in Rows
      /\ w.waits \in BOOLEAN /\ Causes(w) = {}
      /\ server' = [server EXCEPT !.rows = rows] /\ sent' = sent \ {w} /\ outcome' = Result(w, {})
      /\ UNCHANGED <<screen, asked, acts, sweep>>
  BY SentTells DEF LoseAnswer
<1>2. /\ rows \in [Rows -> [status : StatusesOf(screen), ties : SUBSET STRING]]
      /\ \A r \in Rows : rows[r].ties = server.rows[r].ties
      /\ screen = "reviews" =>
           \A r \in Rows : server.rows[r].status \in {"others", "decided"}
                           => rows[r].status \in {"others", "decided"}
  BY <1>1, AppliedTells
<1> HIDE DEF rows
<1>3. ServerType' /\ server'.rows = rows
  BY <1>1, <1>2 DEF ScreenIInv, ValuesOK, ServerType
<1>4. /\ UiType' /\ ui'.granted = ui.granted /\ ui'.rows = ui.rows /\ ui'.dialog = ui.dialog
  BY <1>1 DEF LoseAnswer, ScreenIInv, ValuesOK, UiType
<1>5. ValuesOK'
  BY <1>1, <1>3, <1>4 DEF ScreenIInv, ValuesOK, SweepType
<1>6. SameTies'
  BY <1>1, <1>2, <1>3, <1>4 DEF ScreenIInv, SameTies
<1>7. OfferedAll'
  <2>1. \A v \in sent' : v \in sent /\ v.row \in Rows
    BY <1>1, SentTells
  <2>2. ui.dialog # NoDialog => ui.dialog.row \in Rows
    BY DEF ScreenIInv, ValuesOK, UiType, Dialogues
  <2> QED
    BY <1>1, <1>2, <1>3, <1>4, <2>1, <2>2 DEF ScreenIInv, OfferedAll, MayAsk, WasOffered
<1>8. WaitsForOne'
  <2>0. SUFFICES ASSUME screen \notin {"privacy", "codes"} PROVE WaitsForOne'
    BY <1>1 DEF WaitsForOne
  <2>1. sent = {w} /\ \A i \in DOMAIN asked : ~asked[i].ends
    BY <2>0 DEF ScreenIInv, WaitsForOne
  <2> QED
    BY <1>1, <2>1 DEF WaitsForOne
<1>9. OthersKeep'
  BY <1>1, <1>2, <1>3, <1>4 DEF ScreenIInv, OthersKeep
<1>10. HonestButtons' /\ DecidesWhatItSaw'
  BY <1>1, ResultTells
<1> QED
  BY <1>1, <1>5, <1>6, <1>7, <1>8, <1>9, <1>10 DEF ScreenIInv, PreviewLooked, LookedBeforeDeleting

LEMMA RefuseStep ==
  ASSUME ScreenIInv, NEW w \in sent, Refuse(w)
  PROVE  ScreenIInv'
<1> DEFINE causes == IF Causes(w) = {} /\ w.op \in Typed THEN {"text"} ELSE Causes(w)
<1>1. /\ causes # {} /\ outcome' = Result(w, causes) /\ UNCHANGED <<screen, server, acts, sweep>>
      /\ causes = {} \/ causes = {"text"} \/ causes = Causes(w)
  BY DEF Refuse
<1>2. Leave \/ /\ sent' = sent \ {w} /\ ui' = [ui EXCEPT !.saving = @ /\ ~w.waits]
               /\ UNCHANGED asked
  BY DEF Refuse
<1> HIDE DEF causes
<1>3. HonestButtons' /\ DecidesWhatItSaw'
  BY <1>1, ResultTells
<1>4. CASE Leave
  BY <1>1, <1>3, <1>4, LeaveStep DEF ScreenIInv
<1>5. CASE ~Leave
  <2>1. /\ sent' = sent \ {w} /\ ui' = [ui EXCEPT !.saving = @ /\ ~w.waits]
        /\ UNCHANGED asked /\ w.waits \in BOOLEAN
    BY <1>2, <1>5, SentTells
  <2>2. /\ UiType' /\ ui'.granted = ui.granted /\ ui'.rows = ui.rows /\ ui'.dialog = ui.dialog
    BY <1>1, <2>1 DEF ScreenIInv, ValuesOK, UiType
  <2>3. ValuesOK'
    BY <1>1, <2>1, <2>2 DEF ScreenIInv, ValuesOK, ServerType, SweepType
  <2>4. SameTies'
    BY <1>1, <2>1, <2>2 DEF ScreenIInv, SameTies
  <2>5. OfferedAll'
    BY <1>1, <2>1, <2>2 DEF ScreenIInv, OfferedAll, MayAsk, WasOffered
  <2>6. WaitsForOne'
    <3>0. SUFFICES ASSUME screen \notin {"privacy", "codes"} PROVE WaitsForOne'
      BY <1>1 DEF WaitsForOne
    <3>1. sent = {w} /\ \A i \in DOMAIN asked : ~asked[i].ends
      BY <3>0 DEF ScreenIInv, WaitsForOne
    <3> QED
      BY <2>1, <3>1 DEF WaitsForOne
  <2>7. OthersKeep'
    BY <1>1, <2>1, <2>2 DEF ScreenIInv, OthersKeep
  <2> QED
    BY <1>1, <1>3, <2>3, <2>4, <2>5, <2>6, <2>7 DEF ScreenIInv, PreviewLooked, LookedBeforeDeleting
<1> QED
  BY <1>4, <1>5

(* The others.                                                             *)
LEMMA MeanwhileStep ==
  ASSUME ScreenIInv, NEW new, Meanwhile(new),
         new \in [signedIn : BOOLEAN, held : SUBSET Needed(screen),
                  rows : [Rows -> [status : StatusesOf(screen), ties : SUBSET STRING]]],
         \A r \in Rows : /\ new.rows[r].ties = server.rows[r].ties
                         /\ \/ screen # "reviews"
                            \/ server.rows[r].status \notin {"others", "decided"}
                            \/ new.rows[r].status \in {"others", "decided"}
  PROVE  ScreenIInv'
<1>1. /\ server' = new /\ outcome' = NoOutcome /\ acts < MaxActs /\ acts' = acts + 1
      /\ UNCHANGED <<screen, ui, asked, sent, sweep>>
  BY DEF Meanwhile
<1>2. ValuesOK'
  <2>1. acts' \in Nat /\ acts' <= MaxActs
    BY <1>1, ScreensAssumption DEF ScreenIInv, ValuesOK
  <2> QED
    BY <1>1, <2>1 DEF ScreenIInv, ValuesOK, ServerType, UiType, SweepType
<1>3. SameTies'
  BY <1>1 DEF ScreenIInv, SameTies
<1>4. OfferedAll'
  <2>1. \A w \in sent : w.row \in Rows
    BY SentTells
  <2>2. ui.dialog # NoDialog => ui.dialog.row \in Rows
    BY DEF ScreenIInv, ValuesOK, UiType, Dialogues
  <2> QED
    BY <1>1, <2>1, <2>2 DEF ScreenIInv, OfferedAll, MayAsk, WasOffered
<1>5. WaitsForOne'
  BY <1>1 DEF ScreenIInv, WaitsForOne
<1>6. OthersKeep'
  BY <1>1 DEF ScreenIInv, OthersKeep
<1> QED
  BY <1>1, <1>2, <1>3, <1>4, <1>5, <1>6, Silent DEF ScreenIInv, PreviewLooked, LookedBeforeDeleting

LEMMA OthersStep ==
  ASSUME ScreenIInv,
         \/ \E r \in Rows, move \in Elsewhere[screen] : OthersChange(r, move)
         \/ \E p \in server.held : LosesPermission(p)
         \/ SessionEnded
  PROVE  ScreenIInv'
<1>1. /\ screen \in Pages
      /\ server \in [signedIn : BOOLEAN, held : SUBSET Needed(screen),
                     rows : [Rows -> [status : StatusesOf(screen), ties : SUBSET STRING]]]
  BY DEF ScreenIInv, ValuesOK, ServerType
<1>2. ASSUME NEW r \in Rows, NEW move \in Elsewhere[screen], OthersChange(r, move)
      PROVE  ScreenIInv'
  <2> DEFINE row == [server.rows[r] EXCEPT !.status = move[2]]
             rows == [server.rows EXCEPT ![r] = row]
             new == [server EXCEPT !.rows = rows]
  <2>1. server.rows[r].status = move[1] /\ Meanwhile(new)
    BY <1>1, <1>2 DEF OthersChange
  <2>2. row \in [status : StatusesOf(screen), ties : SUBSET STRING]
        /\ row.ties = server.rows[r].ties /\ row.status = move[2]
    BY <1>1, StatusesTell
  <2> HIDE DEF row
  <2>3. /\ rows \in [Rows -> [status : StatusesOf(screen), ties : SUBSET STRING]]
        /\ \A s \in Rows : rows[s] = IF s = r THEN row ELSE server.rows[s]
    BY <1>1, <2>2
  <2> HIDE DEF rows
  <2>4. /\ new \in [signedIn : BOOLEAN, held : SUBSET Needed(screen),
                    rows : [Rows -> [status : StatusesOf(screen), ties : SUBSET STRING]]]
        /\ new.rows = rows
    BY <1>1, <2>3
  <2> HIDE DEF new
  <2>5. screen = "reviews" /\ move[1] \in {"others", "decided"} => move[2] \in {"others", "decided"}
    BY DEF Elsewhere, ReviewsElsewhere
  <2>6. \A s \in Rows : /\ new.rows[s].ties = server.rows[s].ties
                        /\ \/ screen # "reviews"
                           \/ server.rows[s].status \notin {"others", "decided"}
                           \/ new.rows[s].status \in {"others", "decided"}
    BY <2>1, <2>2, <2>3, <2>4, <2>5
  <2> QED
    BY <2>1, <2>4, <2>6, MeanwhileStep
<1>3. ASSUME NEW p \in server.held, LosesPermission(p)
      PROVE  ScreenIInv'
  <2> DEFINE new == [server EXCEPT !.held = @ \ {p}]
  <2>1. Meanwhile(new)
    BY <1>3 DEF LosesPermission
  <2>2. /\ new \in [signedIn : BOOLEAN, held : SUBSET Needed(screen),
                    rows : [Rows -> [status : StatusesOf(screen), ties : SUBSET STRING]]]
        /\ new.rows = server.rows
    BY <1>1
  <2> HIDE DEF new
  <2> QED
    BY <2>1, <2>2, MeanwhileStep
<1>4. ASSUME SessionEnded
      PROVE  ScreenIInv'
  <2> DEFINE new == [server EXCEPT !.signedIn = FALSE]
  <2>1. Meanwhile(new)
    BY <1>4 DEF SessionEnded
  <2>2. /\ new \in [signedIn : BOOLEAN, held : SUBSET Needed(screen),
                    rows : [Rows -> [status : StatusesOf(screen), ties : SUBSET STRING]]]
        /\ new.rows = server.rows
    BY <1>1
  <2> HIDE DEF new
  <2> QED
    BY <2>1, <2>2, MeanwhileStep
<1> QED
  BY <1>2, <1>3, <1>4

(* The page.                                                               *)
LEMMA OpenDialogStep ==
  ASSUME ScreenIInv, NEW op \in DOMAIN Buttons[screen], NEW r \in Rows, Open(op, r)
  PROVE  ScreenIInv'
<1> DEFINE d == [op |-> op, row |-> r, seen |-> ui.rows[r].status]
<1>1. SetDialog(d) /\ Offered(op, r)
  BY DEF Open
<1>2. d \in Dialogues(screen) /\ d.op = op /\ d.row = r /\ d.seen = ui.rows[r].status
  BY DEF ScreenIInv, ValuesOK, UiType, Shown, Dialogues
<1> HIDE DEF d
<1>3. MayAsk(d.op) /\ WasOffered(d.op, d.row, d.seen)
  BY <1>1, <1>2 DEF Offered, MayAsk, WasOffered, ScreenIInv, SameTies
<1>4. screen = "reviews" /\ d.seen = "others" => server.rows[d.row].status \in {"others", "decided"}
  BY <1>2 DEF ScreenIInv, OthersKeep
<1> QED
  BY <1>1, <1>2, <1>3, <1>4, DialogStep

LEMMA CancelStep ==
  ASSUME ScreenIInv, Cancel
  PROVE  ScreenIInv'
BY DialogStep DEF Cancel

LEMMA ConfirmStep ==
  ASSUME ScreenIInv, NEW r \in Rows, Confirm(r), r = ui.dialog.row \/ screen = "roles"
  PROVE  ScreenIInv'
<1> DEFINE seen == IF r = ui.dialog.row THEN ui.dialog.seen ELSE "another"
<1>1. /\ ui.dialog # NoDialog /\ ~ui.saving /\ Send(ui.dialog.op, r, seen, TRUE)
      /\ ui.dialog \in Dialogues(screen)
  BY DEF Confirm, ScreenIInv, ValuesOK, UiType
<1>2. /\ ui.dialog.op \in DOMAIN Buttons[screen] /\ seen \in Possible(screen) \cup {"another"}
  BY <1>1 DEF Dialogues
<1>3. /\ MayAsk(ui.dialog.op)
      /\ WasOffered(ui.dialog.op, r, seen) \/ (screen = "roles" /\ seen = "another")
  BY <1>1 DEF ScreenIInv, OfferedAll
<1>4. screen = "reviews" /\ seen = "others" => server.rows[r].status \in {"others", "decided"}
  BY <1>1 DEF ScreenIInv, OthersKeep
<1> QED
  BY <1>1, <1>2, <1>3, <1>4, SendStep

LEMMA ClickStep ==
  ASSUME ScreenIInv, NEW op \in DOMAIN Buttons[screen], NEW r \in Rows,
         Click(op, r) \/ (screen \in {"privacy", "codes"} /\ ClickFreely(op, r))
  PROVE  ScreenIInv'
<1> DEFINE seen == ui.rows[r].status
<1>1. PICK waits \in BOOLEAN : /\ Send(op, r, seen, waits)
                               /\ screen \notin {"privacy", "codes"} => waits /\ ~ui.saving
  BY DEF Click, ClickFreely
<1>2. seen \in Possible(screen) \cup {"another"}
  BY DEF ScreenIInv, ValuesOK, UiType, Shown
<1>3. MayAsk(op) /\ WasOffered(op, r, seen)
  BY DEF Click, ClickFreely, Offered, MayAsk, WasOffered, ScreenIInv, SameTies
<1>4. screen = "reviews" /\ seen = "others" => server.rows[r].status \in {"others", "decided"}
  BY DEF ScreenIInv, OthersKeep
<1> HIDE DEF seen
<1> QED
  BY <1>1, <1>2, <1>3, <1>4, SendStep

LEMMA DialogsStep ==
  ASSUME ScreenIInv, NEW ops \in SUBSET DOMAIN Buttons[screen], Dialogs(ops)
  PROVE  ScreenIInv'
<1>1. CASE \E op \in ops, r \in Rows : Open(op, r)
  BY <1>1, OpenDialogStep
<1>2. CASE ui.dialog # NoDialog /\ Confirm(ui.dialog.row)
  <2>1. ui.dialog.row \in Rows
    BY <1>2 DEF ScreenIInv, ValuesOK, UiType, Dialogues
  <2> QED
    BY <1>2, <2>1, ConfirmStep
<1>3. CASE Cancel
  BY <1>3, CancelStep
<1> QED
  BY <1>1, <1>2, <1>3 DEF Dialogs

LEMMA ClicksStep ==
  ASSUME ScreenIInv, NEW ops \in SUBSET DOMAIN Buttons[screen], Clicks(ops)
  PROVE  ScreenIInv'
BY ClickStep DEF Clicks

LEMMA ReadStep ==
  ASSUME ScreenIInv, Refresh \/ RefreshWhenIdle \/ Narrow
  PROVE  ScreenIInv'
<1>1. PICK f \in {"all", "some"} : Load(f)
  BY DEF Refresh, RefreshWhenIdle, Narrow, ScreenIInv, ValuesOK, UiType
<1> QED
  BY <1>1, LoadStep

LEMMA PageStep ==
  ASSUME ScreenIInv, PageActs
  PROVE  ScreenIInv'
<1>1. CASE UsersPage
  <2>1. UsersDialogs \in SUBSET DOMAIN Buttons[screen]
    BY <1>1, PageButtons DEF UsersPage, UsersDialogs
  <2> QED
    BY <1>1, <2>1, ReadStep, DialogsStep DEF UsersPage
<1>2. CASE AccountsPage
  <2>1. AccountsDialogs \in SUBSET DOMAIN Buttons[screen]
    BY <1>2, PageButtons DEF AccountsPage, AccountsDialogs
  <2> QED
    BY <1>2, <2>1, ReadStep, DialogsStep DEF AccountsPage
<1>3. CASE RolesPage
  <2>0. screen = "roles"
    BY <1>3 DEF RolesPage
  <2>1. RolesDialogs = DOMAIN Buttons[screen] /\ "create" \in DOMAIN Buttons[screen]
    BY <2>0, PageButtons DEF RolesDialogs, RolesButtons
  <2>2. CASE RefreshWhenIdle
    BY <2>2, ReadStep
  <2>3. CASE \E r \in Rows : SelectRole(r) \/ Open("create", r)
    BY <2>1, <2>3, SelectStep, OpenDialogStep
  <2>4. CASE \E op \in RolesDialogs \ {"create"}, r \in {ui.selected} \cap Rows : Open(op, r)
    BY <2>1, <2>4, OpenDialogStep
  <2>5. CASE ui.dialog # NoDialog /\ ui.dialog.op = "create" /\ Confirm(ui.dialog.row)
    <3>1. ui.dialog.row \in Rows
      BY <2>5 DEF ScreenIInv, ValuesOK, UiType, Dialogues
    <3> QED
      BY <2>0, <2>5, <3>1, ConfirmStep
  <2>6. CASE ui.dialog # NoDialog /\ ui.dialog.op # "create" /\ ui.selected \in Rows /\ Confirm(ui.selected)
    BY <2>0, <2>6, ConfirmStep
  <2>7. CASE SaveNothing
    BY <2>0, <2>7, SaveNothingStep
  <2>8. CASE Cancel
    BY <2>8, CancelStep
  <2> QED
    BY <1>3, <2>2, <2>3, <2>4, <2>5, <2>6, <2>7, <2>8 DEF RolesPage
<1>4. CASE RiskPage
  <2>1. RiskDialogs \in SUBSET DOMAIN Buttons[screen]
        /\ {"publish", "archive"} \in SUBSET DOMAIN Buttons[screen]
    BY <1>4, PageButtons DEF RiskPage, RiskDialogs, RiskButtons
  <2> QED
    BY <1>4, <2>1, ReadStep, DialogsStep, ClicksStep DEF RiskPage
<1>5. CASE ModerationPage
  <2>1. screen = "reviews" => {"claim", "decide"} \in SUBSET DOMAIN Buttons[screen]
    BY PageButtons DEF ReviewsButtons
  <2>2. screen = "appeals" => {"judge"} \in SUBSET DOMAIN Buttons[screen]
    BY PageButtons DEF AppealsButtons
  <2> QED
    BY <1>5, <2>1, <2>2, ReadStep, ClicksStep DEF ModerationPage
<1>6. CASE InspirationsPage
  <2>1. {"feature", "unpublish"} \in SUBSET DOMAIN Buttons[screen]
    BY <1>6, PageButtons DEF InspirationsPage, InspirationsButtons
  <2> QED
    BY <1>6, <2>1, ReadStep, ClicksStep DEF InspirationsPage
<1>7. CASE BillingPage
  <2>1. screen = "rules" => {"create", "publish"} \in SUBSET DOMAIN Buttons[screen]
    BY PageButtons DEF RulesButtons
  <2>2. screen = "codes" => {"batch"} \in SUBSET DOMAIN Buttons[screen]
                            /\ "disable" \in DOMAIN Buttons[screen]
    BY PageButtons DEF CodesButtons
  <2>3. screen = "orders" => OrdersDialogs \in SUBSET DOMAIN Buttons[screen]
    BY PageButtons DEF OrdersButtons, OrdersDialogs
  <2> QED
    BY <1>7, <2>1, <2>2, <2>3, ReadStep, ClicksStep, ClickStep, DialogsStep DEF BillingPage
<1>8. CASE TasksPage
  BY <1>8, ReadStep DEF TasksPage
<1>9. CASE PrivacyPage
  <2>1. screen = "privacy" /\ "complete" \in DOMAIN Buttons[screen]
    BY <1>9, PageButtons DEF PrivacyPage, PrivacyButtons
  <2> QED
    BY <1>9, <2>1, ReadStep, ClickStep, SweepStep DEF PrivacyPage
<1> QED
  BY <1>1, <1>2, <1>3, <1>4, <1>5, <1>6, <1>7, <1>8, <1>9 DEF PageActs

LEMMA ScreenIInvInit ==
  ASSUME ScreenInit
  PROVE  ScreenIInv
<1>1. PICK held \in {Needed(screen)} \cup {Needed(screen) \ {q} : q \in Needed(screen)},
           rows \in Start[screen] :
        /\ server = [signedIn |-> TRUE, held |-> held, rows |-> rows]
        /\ ui = [open |-> TRUE, granted |-> held, filter |-> "all", rows |-> Empty(rows),
                 loading |-> TRUE, saving |-> FALSE, selected |-> 0, dialog |-> NoDialog]
        /\ asked = <<Answer(server, "all", FALSE)>>
  BY DEF ScreenInit
<1>2. /\ screen \in Pages /\ sent = {} /\ acts = 0 /\ outcome = NoOutcome
      /\ sweep = [days |-> 30, preview |-> 0, request |-> NoSweep, looked |-> {}]
  BY DEF ScreenInit
<1>3. held \in SUBSET Needed(screen)
  OBVIOUS
<1>4. rows \in [Rows -> [status : StatusesOf(screen), ties : SUBSET STRING]]
  <2>1. rows \in [Rows -> [status : STRING, ties : SUBSET STRING]]
    BY <1>2, ScreensAssumption
  <2>2. \A r \in Rows : rows[r].status \in StatusesOf(screen)
    BY <1>2, StatusesTell
  <2>3. \A r \in Rows : rows[r] \in [status : StatusesOf(screen), ties : SUBSET STRING]
    BY <2>1, <2>2
  <2> QED
    BY <2>1, <2>3
<1>5. Empty(rows) \in Shown(screen) /\ \A r \in Rows : /\ Empty(rows)[r].ties = rows[r].ties
                                                      /\ Empty(rows)[r].status = "absent"
  BY <1>4 DEF Empty, Shown, Possible
<1> DEFINE shown == Narrowed(rows, "all")
           a == [rows |-> shown, granted |-> TRUE, ends |-> FALSE]
<1>6. shown = rows /\ asked = <<a>>
  BY <1>1 DEF Narrowed, Answer
<1>7. shown \in Shown(screen) /\ \A r \in Rows : shown[r].ties = rows[r].ties
  BY <1>2, <1>4, NarrowedTells
<1> HIDE DEF shown
<1>8. a \in Listed(screen) /\ a.rows = shown /\ ~a.ends
  BY <1>7 DEF Listed
<1> HIDE DEF a
<1>9. asked \in Seq(Listed(screen)) /\ \A i \in DOMAIN asked : asked[i] = a
  BY <1>6, <1>8
<1>10. ServerType /\ server.rows = rows
  BY <1>1, <1>3, <1>4 DEF ServerType
<1>11. UiType /\ ui.rows = Empty(rows) /\ ui.dialog = NoDialog
  BY <1>1, <1>3, <1>5 DEF UiType
<1>12. SweepType /\ PreviewLooked /\ LookedBeforeDeleting
  BY <1>2 DEF SweepType, PreviewLooked, LookedBeforeDeleting, NoSweep
<1>13. ValuesOK
  BY <1>2, <1>9, <1>10, <1>11, <1>12, ScreensAssumption DEF ValuesOK
<1>14. SameTies
  BY <1>5, <1>7, <1>8, <1>9, <1>10, <1>11 DEF SameTies
<1>15. OfferedAll /\ WaitsForOne
  BY <1>2, <1>8, <1>9, <1>11 DEF OfferedAll, WaitsForOne
<1>16. OthersKeep
  BY <1>2, <1>5, <1>6, <1>8, <1>9, <1>10, <1>11 DEF OthersKeep
<1>17. HonestButtons /\ DecidesWhatItSaw
  BY <1>2 DEF HonestButtons, DecidesWhatItSaw
<1> QED
  BY <1>12, <1>13, <1>14, <1>15, <1>16, <1>17 DEF ScreenIInv

LEMMA ScreenIInvStep ==
  ASSUME ScreenIInv, [ScreenNext]_scvars
  PROVE  ScreenIInv'
<1>1. CASE ui.open /\ PageActs
  BY <1>1, PageStep
<1>2. CASE \E i \in DOMAIN asked : ListArrives(i) \/ ListFails(i)
  BY <1>2, ListArrivesStep, ListFailsStep
<1>3. CASE \E w \in sent : Accept(w) \/ LoseAnswer(w) \/ Refuse(w)
  BY <1>3, AcceptStep, LoseAnswerStep, RefuseStep
<1>4. CASE \/ \E r \in Rows, move \in Elsewhere[screen] : OthersChange(r, move)
           \/ \E p \in server.held : LosesPermission(p)
           \/ SessionEnded
  BY <1>4, OthersStep
<1>5. CASE UNCHANGED scvars
  <2>1. UNCHANGED <<screen, server, ui, asked, sent, acts, outcome, sweep>>
    BY <1>5 DEF scvars
  <2>2. ValuesOK'
    BY <2>1 DEF ScreenIInv, ValuesOK, ServerType, UiType, SweepType
  <2>3. SameTies' /\ OfferedAll' /\ WaitsForOne' /\ OthersKeep'
    BY <2>1 DEF ScreenIInv, SameTies, OfferedAll, MayAsk, WasOffered, WaitsForOne, OthersKeep
  <2>4. PreviewLooked' /\ HonestButtons' /\ DecidesWhatItSaw' /\ LookedBeforeDeleting'
    BY <2>1 DEF ScreenIInv, PreviewLooked, HonestButtons, DecidesWhatItSaw, LookedBeforeDeleting, Excused
  <2> QED
    BY <2>2, <2>3, <2>4 DEF ScreenIInv
<1> QED
  BY <1>1, <1>2, <1>3, <1>4, <1>5 DEF ScreenNext

(* What follows from the invariant.                                        *)
LEMMA InOrder ==
  ASSUME ScreenIInv
  PROVE  ScreensInOrder
<1>1. OneChangeAtATime
  <2>1. SUFFICES ASSUME screen \notin {"privacy", "codes"} PROVE Cardinality(sent) <= 1
    BY DEF OneChangeAtATime
  <2>2. CASE sent = {}
    BY <2>2, FS_EmptySet
  <2>3. CASE sent # {}
    <3>1. PICK w \in sent : \A v \in sent : v = w
      BY <2>1, <2>3 DEF ScreenIInv, WaitsForOne
    <3>2. sent = {w}
      BY <3>1
    <3> QED
      BY <3>2, FS_Singleton
  <2> QED
    BY <2>2, <2>3
<1> QED
  BY <1>1 DEF ScreenIInv, ScreensInOrder

LEMMA ValuesTell ==
  ASSUME ScreenIInv
  PROVE  ScreenTypeOK
BY DEF ScreenIInv, ValuesOK, ServerType, UiType, Shown, Possible, ScreenTypeOK

(* Whatever arrives late, and whoever else is at work: a button of a page  *)
(* that is up to date is not refused, what is decided for good was seen as *)
(* it was, nothing is deleted that nobody looked at, and one change of a   *)
(* page is under way at a time (AdminScreens: the pages of apps/admin).    *)
THEOREM ScreensStayInOrder == ScreenSpec => []ScreensInOrder
<1>1. ScreenInit => ScreenIInv
  BY ScreenIInvInit
<1>2. ScreenIInv /\ [ScreenNext]_scvars => ScreenIInv'
  BY ScreenIInvStep
<1>3. ScreenIInv => ScreensInOrder
  BY InOrder
<1> QED
  BY <1>1, <1>2, <1>3, PTL DEF ScreenSpec

(* Every row the API has or a page shows has a status of that page.        *)
THEOREM ScreensKeepTheirTypes == ScreenSpec => []ScreenTypeOK
<1>1. ScreenInit => ScreenIInv
  BY ScreenIInvInit
<1>2. ScreenIInv /\ [ScreenNext]_scvars => ScreenIInv'
  BY ScreenIInvStep
<1>3. ScreenIInv => ScreenTypeOK
  BY ValuesTell
<1> QED
  BY <1>1, <1>2, <1>3, PTL DEF ScreenSpec

-----------------------------------------------------------------------------
(* The customers and the pages together (MCCustomers): every story is one  *)
(* of each.                                                                *)

LEMMA CustomersTell ==
  CustomersSpec => PrivacySpec /\ ScreenSpec
<1>1. CustomersInit => PrivacyInit /\ ScreenInit
  BY DEF CustomersInit
<1> DEFINE Told == AccountStory \/ PrivacyStory \/ PagesStory
<1>2. [Told]_customerVars => [PrivacyNext]_allvars
  BY DEF AccountStory, PrivacyStory, PagesStory, customerVars, allvars, PrivacyNext
<1>3. [Told]_customerVars => [ScreenNext]_scvars
  BY DEF AccountStory, PrivacyStory, PagesStory, customerVars
<1> QED
  BY <1>1, <1>2, <1>3, PTL DEF CustomersSpec, PrivacySpec, ScreenSpec

(* No row of the accounts, their images and requests, and nothing a page   *)
(* of the administration shows of them, takes a value it may not have.     *)
THEOREM CustomersTypesCorrect == CustomersSpec => []CustomersTypeOK
BY CustomersTell, AccountsTypeCorrect, UploadsTypeCorrect, ScreensKeepTheirTypes,
   PTL DEF CustomersTypeOK

=============================================================================
