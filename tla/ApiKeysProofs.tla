---------------------------- MODULE ApiKeysProofs ----------------------------
(***************************************************************************)
(* Machine-checked theorems about ApiKeys, for every number of keys,       *)
(* handlers and revokers, every debounce window and clock bound.           *)
(***************************************************************************)
EXTENDS ApiKeys, FiniteSetTheorems, TLAPS

\* The handlers whose request presents k and has found it.
Holders(k) == {s \in Sessions : auths[s].key = k}

\* A revocation on its way commits a clock reading.
RevokeShape(a) == revokes[a].pc = "revoking" => revokes[a].at \in Nat

\* While k is active nobody was let in late; afterwards only those who had found
\* it before can be, and each of them once.
LateBudget(k) ==
    /\ k \in Issued /\ is_active(k) => late[k] = 0
    /\ k \notin Issued => late[k] = 0
    /\ late[k] + Cardinality(Holders(k)) <= Cardinality(Sessions)

KInv == /\ TypeOK
        /\ \A a \in Revokers : RevokeShape(a)
        /\ \A k \in Keys : LateBudget(k)

(***************************************************************************)
(* Counting handlers.                                                      *)
(***************************************************************************)
LEMMA HoldersFinite ==
    ASSUME NEW k
    PROVE  /\ IsFiniteSet(Holders(k)) /\ Cardinality(Holders(k)) \in Nat
           /\ Cardinality(Sessions) \in Nat
           /\ Cardinality(Holders(k)) <= Cardinality(Sessions)
  BY KeyAssumption, FS_Subset, FS_CardinalityType DEF Holders

\* The same after a step.
LEMMA HoldersFiniteNext ==
    ASSUME NEW k
    PROVE  /\ Cardinality(Holders(k)') \in Nat
           /\ Cardinality(Holders(k)') <= Cardinality(Sessions)
  BY KeyAssumption, FS_Subset, FS_CardinalityType DEF Holders

\* A handler that ends its request is one holder less of its key.
LEMMA HolderLeaves ==
    ASSUME NEW s \in Sessions, DOMAIN auths = Sessions,
           auths' = [auths EXCEPT ![s] = NoAuth], NEW k, k # NULL
    PROVE  Cardinality(Holders(k)') =
              IF auths[s].key = k THEN Cardinality(Holders(k)) - 1
                                  ELSE Cardinality(Holders(k))
<1>1. /\ auths'[s].key = NULL
      /\ \A t \in Sessions \ {s} : auths'[t] = auths[t]
  BY DEF NoAuth
<1>2. CASE auths[s].key = k
  <2>1. Holders(k)' = Holders(k) \ {s} /\ s \in Holders(k)
    BY <1>1, <1>2 DEF Holders
  <2> QED
    BY <1>2, <2>1, HoldersFinite, FS_RemoveElement
<1>3. CASE auths[s].key # k
  <2>1. Holders(k)' = Holders(k)
    BY <1>1, <1>3 DEF Holders
  <2> QED
    BY <1>3, <2>1
<1> QED
  BY <1>2, <1>3

(***************************************************************************)
(* Initial states.                                                         *)
(***************************************************************************)
LEMMA InitHolds == Init => KInv
<1> SUFFICES ASSUME Init PROVE KInv
  OBVIOUS
<1>1. TypeOK
  BY KeyAssumption DEF Init, TypeOK, Issued, Auth, NoAuth, Revoke, NoRevoke, APIKey,
                       TimeOrNull
<1>2. \A a \in Revokers : RevokeShape(a)
  BY DEF Init, NoRevoke, RevokeShape
<1>3. ASSUME NEW k \in Keys
      PROVE  LateBudget(k)
  <2>1. late[k] = 0 /\ k \notin Issued
    BY DEF Init, Issued
  <2> QED
    BY <2>1, HoldersFinite DEF LateBudget
<1> QED
  BY <1>1, <1>2, <1>3 DEF KInv

(***************************************************************************)
(* One lemma per operation.                                                *)
(***************************************************************************)
\* The part of TypeOK about one handler's call.
AuthShape(a) == IF a.pc = "idle" THEN a = NoAuth
                ELSE a.key \in Issued /\ a.copy \in APIKey

\* One handler takes a step and no key disappears.
LEMMA AuthStep ==
    ASSUME TypeOK, NEW s \in Sessions, NEW a \in Auth, AuthShape(a),
           auths' = [auths EXCEPT ![s] = a], Issued' = Issued
    PROVE  /\ auths' \in [Sessions -> Auth]
           /\ auths'[s] = a /\ \A t \in Sessions \ {s} : auths'[t] = auths[t]
           /\ \A t \in Sessions : AuthShape(auths[t])'
<1>1. /\ auths' \in [Sessions -> Auth]
      /\ auths'[s] = a /\ \A t \in Sessions \ {s} : auths'[t] = auths[t]
  BY DEF TypeOK
<1>2. ASSUME NEW t \in Sessions
      PROVE  AuthShape(auths[t])'
  <2>1. CASE t = s
    BY <1>1, <2>1 DEF AuthShape
  <2>2. CASE t # s
    BY <1>1, <2>2 DEF TypeOK, AuthShape
  <2> QED
    BY <2>1, <2>2
<1> QED
  BY <1>1, <1>2

\* A new key has no late request.
LEMMA CreateStep ==
    ASSUME KInv, NEW k \in Keys, create_api_key(k)
    PROVE  KInv'
<1>1. /\ Issued' = Issued \cup {k} /\ k \notin Issued
      /\ \A i \in Issued : keys'[i] = keys[i]
      /\ keys'[k] = [last_used_at |-> NULL, revoked_at |-> NULL]
      /\ UNCHANGED <<now, auths, revokes, late, touches>>
  BY DEF create_api_key, Issued
<1>2. keys' \in [Issued' -> APIKey] /\ Issued' \subseteq Keys
  BY <1>1 DEF KInv, TypeOK, create_api_key, Issued, APIKey, TimeOrNull
<1>3. TypeOK'
  BY <1>1, <1>2 DEF KInv, TypeOK
<1>4. \A a \in Revokers : RevokeShape(a)'
  BY <1>1 DEF KInv, RevokeShape
<1>5. ASSUME NEW i \in Keys
      PROVE  LateBudget(i)'
  BY <1>1 DEF KInv, LateBudget, Holders, is_active
<1> QED
  BY <1>3, <1>4, <1>5 DEF KInv

\* find_active_by_plaintext reads a key that is active.
LEMMA FindStep ==
    ASSUME KInv, NEW s \in Sessions, NEW k \in Keys, find_active_by_plaintext(s, k)
    PROVE  KInv'
<1> DEFINE a == [pc |-> "found", key |-> k, copy |-> keys[k], used |-> NULL]
<1>1. /\ k \in Issued /\ is_active(k) /\ keys[k] \in APIKey
      /\ auths' = [auths EXCEPT ![s] = a]
      /\ UNCHANGED <<keys, now, revokes, late, touches>> /\ Issued' = Issued
  BY DEF KInv, TypeOK, find_active_by_plaintext, Issued
<1>2. a \in Auth /\ AuthShape(a) /\ a.key = k
  BY <1>1 DEF Auth, TimeOrNull, AuthShape
<1> HIDE DEF a
<1>3. /\ auths' \in [Sessions -> Auth]
      /\ auths'[s] = a /\ \A t \in Sessions \ {s} : auths'[t] = auths[t]
      /\ \A t \in Sessions : AuthShape(auths[t])'
  BY <1>1, <1>2, AuthStep DEF KInv
<1>4. TypeOK'
  BY <1>1, <1>3 DEF KInv, TypeOK, AuthShape
<1>5. \A b \in Revokers : RevokeShape(b)'
  BY <1>1 DEF KInv, RevokeShape
<1>6. ASSUME NEW i \in Keys
      PROVE  LateBudget(i)'
  <2>1. CASE i = k
    BY <1>1, <2>1, HoldersFiniteNext DEF KInv, LateBudget, is_active, Issued
  <2>2. CASE i # k
    <3>1. auths[s].key = NULL /\ NULL # i
      BY KeyAssumption DEF KInv, TypeOK, find_active_by_plaintext, NoAuth
    <3>2. Holders(i)' = Holders(i)
      BY <1>2, <1>3, <2>2, <3>1 DEF Holders
    <3> QED
      BY <1>1, <3>2 DEF KInv, LateBudget, is_active, Issued
  <2> QED
    BY <2>1, <2>2
<1> QED
  BY <1>4, <1>5, <1>6 DEF KInv

\* touch_last_used stamps its clock and goes on to its commit.
LEMMA TouchStep ==
    ASSUME KInv, NEW s \in Sessions, touch_last_used(s)
    PROVE  KInv'
<1> DEFINE a == [auths[s] EXCEPT !.pc = "touching", !.used = now]
<1>1. /\ auths' = [auths EXCEPT ![s] = a] /\ auths[s] \in Auth
      /\ auths[s].key \in Issued /\ auths[s].copy \in APIKey /\ now \in Nat
      /\ UNCHANGED <<keys, now, revokes, late, touches>> /\ Issued' = Issued
  BY KeyAssumption DEF KInv, TypeOK, touch_last_used, Issued
<1>2. a \in Auth /\ AuthShape(a) /\ a.key = auths[s].key
  BY <1>1 DEF Auth, TimeOrNull, AuthShape
<1> HIDE DEF a
<1>3. /\ auths' \in [Sessions -> Auth]
      /\ auths'[s] = a /\ \A t \in Sessions \ {s} : auths'[t] = auths[t]
      /\ \A t \in Sessions : AuthShape(auths[t])'
  BY <1>1, <1>2, AuthStep DEF KInv
<1>4. TypeOK'
  BY <1>1, <1>3 DEF KInv, TypeOK, AuthShape
<1>5. \A b \in Revokers : RevokeShape(b)'
  BY <1>1 DEF KInv, RevokeShape
<1>6. ASSUME NEW i \in Keys
      PROVE  LateBudget(i)'
  <2>1. Holders(i)' = Holders(i)
    BY <1>2, <1>3 DEF Holders
  <2> QED
    BY <1>1, <2>1 DEF KInv, LateBudget, is_active, Issued
<1> QED
  BY <1>4, <1>5, <1>6 DEF KInv

\* The request ends: of a revoked key, one more was let in or none, and one fewer
\* holds it.
LEMMA LetInStep ==
    ASSUME KInv, NEW s \in Sessions, auths[s].pc # "idle", LetIn(s) \/ TurnAway(s),
           UNCHANGED <<now, revokes>>,
           keys' \in [Issued -> APIKey],
           \A k \in Issued : keys'[k].revoked_at = keys[k].revoked_at,
           touches' \in [Keys -> [0..Horizon -> Nat]]
    PROVE  KInv'
<1>1. /\ auths[s].key \in Issued /\ auths[s].key \in Keys /\ auths[s].key # NULL
      /\ auths' = [auths EXCEPT ![s] = NoAuth] /\ DOMAIN auths = Sessions
      /\ Issued' = Issued
  BY KeyAssumption DEF KInv, TypeOK, LetIn, TurnAway, Issued
<1>2. NoAuth \in Auth /\ AuthShape(NoAuth)
  BY DEF NoAuth, Auth, TimeOrNull, AuthShape
<1>3. /\ auths' \in [Sessions -> Auth]
      /\ \A t \in Sessions : AuthShape(auths[t])'
  BY <1>1, <1>2, AuthStep DEF KInv
<1>4. /\ late' \in [Keys -> Nat]
      /\ \A k \in Keys :
            \/ late'[k] = late[k]
            \/ late'[k] = late[k] + 1 /\ k = auths[s].key /\ ~is_active(k)
  BY <1>1 DEF KInv, TypeOK, LetIn, TurnAway
<1>5. TypeOK'
  BY <1>1, <1>3, <1>4 DEF KInv, TypeOK, AuthShape
<1>6. \A b \in Revokers : RevokeShape(b)'
  BY DEF KInv, RevokeShape
<1>7. ASSUME NEW k \in Keys
      PROVE  LateBudget(k)'
  <2>1. /\ LateBudget(k) /\ late[k] \in Nat /\ k # NULL
        /\ Cardinality(Holders(k)) \in Nat /\ Cardinality(Sessions) \in Nat
    BY KeyAssumption, HoldersFinite DEF KInv, TypeOK
  <2>2. Cardinality(Holders(k)') =
           IF auths[s].key = k THEN Cardinality(Holders(k)) - 1
                               ELSE Cardinality(Holders(k))
    BY <1>1, <2>1, HolderLeaves
  <2>3. k \in Issued => (is_active(k)' <=> is_active(k))
    BY DEF is_active
  <2> QED
    BY <1>1, <1>4, <2>1, <2>2, <2>3 DEF LateBudget
<1> QED
  BY <1>5, <1>6, <1>7 DEF KInv

\* The steps that let a request in, late or not, or turn it away.
LEMMA LetInSteps ==
    ASSUME KInv, NEW s \in Sessions,
           SkipTouch(s) \/ CommitTouch(s) \/ CommitTouchFails(s)
    PROVE  KInv'
<1>1. CASE SkipTouch(s)
  BY <1>1, LetInStep DEF KInv, TypeOK, SkipTouch
<1>2. CASE CommitTouch(s)
  <2> DEFINE key == auths[s].key
             used == auths[s].used
  <2>1. /\ auths[s].pc = "touching" /\ key \in Issued /\ used \in TimeOrNull
        /\ keys \in [Issued -> APIKey] /\ touches \in [Keys -> [0..Horizon -> Nat]]
    BY <1>2 DEF KInv, TypeOK, CommitTouch, Auth
  <2>2. /\ keys' \in [Issued -> APIKey]
        /\ \A k \in Issued : keys'[k].revoked_at = keys[k].revoked_at
    BY <1>2, <2>1 DEF CommitTouch, APIKey
  <2>3. touches' \in [Keys -> [0..Horizon -> Nat]]
    <3> DEFINE f == touches[key]
               g == [f EXCEPT ![used] = @ + 1]
    <3>1. f \in [0..Horizon -> Nat]
      BY <2>1 DEF KInv, TypeOK
    <3>2. g \in [0..Horizon -> Nat]
      <4>1. ASSUME NEW t \in 0..Horizon
            PROVE  g[t] \in Nat
        <5>1. f[t] \in Nat
          BY <3>1
        <5>2. g[t] = f[t] + 1 \/ g[t] = f[t]
          BY <3>1
        <5>3. f[t] + 1 \in Nat
          BY <5>1
        <5> QED
          BY <5>1, <5>2, <5>3
      <4> QED
        BY <3>1, <4>1
    <3>3. touches' = [touches EXCEPT ![key] = g]
      BY <1>2 DEF CommitTouch, Touched
    <3> HIDE DEF g
    <3> QED
      BY <2>1, <3>2, <3>3
  <2> QED
    BY <1>2, <2>1, <2>2, <2>3, LetInStep DEF CommitTouch
<1>3. CASE CommitTouchFails(s)
  BY <1>3, LetInStep DEF KInv, TypeOK, CommitTouchFails
<1> QED
  BY <1>1, <1>2, <1>3

\* revoke reads and commits; the requests under way stay few.
LEMMA RevokeSteps ==
    ASSUME KInv, NEW b \in Revokers, Revoking(b)
    PROVE  KInv'
<1>1. CASE \E k \in Keys : revoke(b, k)
  <2>1. PICK k \in Keys : revoke(b, k)
    BY <1>1
  <2>2. /\ now \in Nat
        /\ revokes' = [revokes EXCEPT ![b] = [pc |-> "revoking", key |-> k, at |-> now]]
        /\ UNCHANGED <<keys, now, auths, late, touches>>
    BY <2>1, KeyAssumption DEF revoke, KInv, TypeOK
  <2>3. TypeOK'
    BY <2>2 DEF KInv, TypeOK, Revoke, TimeOrNull, Issued
  <2>4. \A c \in Revokers : RevokeShape(c)'
    BY <2>2 DEF KInv, TypeOK, RevokeShape
  <2>5. \A i \in Keys : LateBudget(i)'
    BY <2>2 DEF KInv, LateBudget, Holders, is_active, Issued
  <2> QED
    BY <2>3, <2>4, <2>5 DEF KInv
<1>2. CASE CommitRevoke(b)
  <2> DEFINE key == revokes[b].key
  <2>1. /\ revokes[b].at \in Nat /\ revokes[b].at # NULL
        /\ keys' = [keys EXCEPT ![key].revoked_at = revokes[b].at]
        /\ revokes' = [revokes EXCEPT ![b] = NoRevoke]
        /\ UNCHANGED <<now, auths, late, touches>>
    BY <1>2, KeyAssumption DEF CommitRevoke, KInv, RevokeShape
  <2>2. /\ keys' \in [Issued -> APIKey] /\ Issued' = Issued
        /\ \A i \in Issued : is_active(i)' => is_active(i)
    BY <2>1 DEF KInv, TypeOK, APIKey, TimeOrNull, Issued, is_active
  <2>3. TypeOK'
    BY <2>1, <2>2 DEF KInv, TypeOK, Revoke, NoRevoke, TimeOrNull
  <2>4. \A c \in Revokers : RevokeShape(c)'
    BY <2>1 DEF KInv, TypeOK, RevokeShape, NoRevoke
  <2>5. \A i \in Keys : LateBudget(i)'
    BY <2>1, <2>2 DEF KInv, LateBudget, Holders
  <2> QED
    BY <2>3, <2>4, <2>5 DEF KInv
<1>3. CASE CommitRevokeFails(b)
  <2>1. /\ revokes' = [revokes EXCEPT ![b] = NoRevoke]
        /\ UNCHANGED <<keys, now, auths, late, touches>>
    BY <1>3 DEF CommitRevokeFails
  <2>2. TypeOK'
    BY <2>1 DEF KInv, TypeOK, Revoke, NoRevoke, TimeOrNull, Issued
  <2>3. \A c \in Revokers : RevokeShape(c)'
    BY <2>1 DEF KInv, TypeOK, RevokeShape, NoRevoke
  <2>4. \A i \in Keys : LateBudget(i)'
    BY <2>1 DEF KInv, LateBudget, Holders, is_active, Issued
  <2> QED
    BY <2>2, <2>3, <2>4 DEF KInv
<1> QED
  BY <1>1, <1>2, <1>3 DEF Revoking

\* touch_last_used takes its clock, and time passes.
LEMMA OtherSteps ==
    ASSUME KInv, Tick \/ UNCHANGED vars
    PROVE  KInv'
<1>1. UNCHANGED <<keys, auths, revokes, late, touches>> /\ now' \in 0..Horizon
  BY KeyAssumption DEF Tick, vars, KInv, TypeOK
<1>2. TypeOK'
  BY <1>1 DEF KInv, TypeOK, Issued
<1>3. \A b \in Revokers : RevokeShape(b)'
  BY <1>1 DEF KInv, RevokeShape
<1>4. \A i \in Keys : LateBudget(i)'
  BY <1>1 DEF KInv, LateBudget, Holders, is_active, Issued
<1> QED
  BY <1>2, <1>3, <1>4 DEF KInv

\* Every step of authentication or revocation keeps the invariant.
LEMMA NextKeeps == KInv /\ [Next]_vars => KInv'
<1> SUFFICES ASSUME KInv, [Next]_vars PROVE KInv'
  OBVIOUS
<1>1. ASSUME NEW k \in Keys, create_api_key(k)
      PROVE  KInv'
  BY <1>1, CreateStep
<1>2. ASSUME NEW s \in Sessions, Authenticate(s)
      PROVE  KInv'
  BY <1>2, FindStep, TouchStep, LetInSteps DEF Authenticate
<1>3. ASSUME NEW b \in Revokers, Revoking(b)
      PROVE  KInv'
  BY <1>3, RevokeSteps
<1>4. CASE Tick \/ UNCHANGED vars
  BY <1>4, OtherSteps
<1> QED
  BY <1>1, <1>2, <1>3, <1>4 DEF Next

(***************************************************************************)
(* The theorems.                                                           *)
(***************************************************************************)

\* Type correctness, with the counts that bound the late requests.
THEOREM Invariance == Spec => []KInv
<1>1. Init => KInv
  BY InitHolds
<1>2. KInv /\ [Next]_vars => KInv'
  BY NextKeeps
<1> QED
  BY <1>1, <1>2, PTL DEF Spec

\* Type correctness of the key store, its requests and revocations.
THEOREM TypeCorrect == Spec => []TypeOK
<1>1. KInv => TypeOK
  BY DEF KInv
<1> QED
  BY <1>1, Invariance, PTL

\* However many requests and revocations overlap: after a revocation each handler
\* lets in at most one request that presents the revoked key.
THEOREM RevocationWorks == Spec => []RevocationHolds
<1>1. KInv => RevocationHolds
  <2> SUFFICES ASSUME KInv, NEW k \in Keys
               PROVE  late[k] <= Cardinality(Sessions)
    BY DEF RevocationHolds
  <2> QED
    BY HoldersFinite DEF KInv, TypeOK, LateBudget
<1> QED
  BY <1>1, Invariance, PTL

\* No write of last_used_at, no second revocation and no new key ever makes a
\* revoked key active again.
THEOREM RevokedForGood == Spec => RevocationIsFinal
<1>1. KInv /\ [Next]_vars =>
         \A k \in Issued : ~is_active(k) => keys'[k].revoked_at # NULL
  <2> SUFFICES ASSUME KInv, [Next]_vars, NEW k \in Issued, ~is_active(k)
               PROVE  keys'[k].revoked_at # NULL
    OBVIOUS
  <2>1. keys \in [Issued -> APIKey]
    BY DEF KInv, TypeOK
  <2>2. ASSUME NEW i \in Keys, create_api_key(i)
        PROVE  keys'[k] = keys[k]
    BY <2>2 DEF create_api_key, Issued
  <2>3. ASSUME NEW s \in Sessions, CommitTouch(s)
        PROVE  keys'[k].revoked_at = keys[k].revoked_at
    BY <2>1, <2>3 DEF CommitTouch, APIKey
  <2>4. ASSUME NEW b \in Revokers, CommitRevoke(b)
        PROVE  keys'[k].revoked_at # NULL
    <3>1. revokes[b].at # NULL
      BY <2>4, KeyAssumption DEF CommitRevoke, KInv, RevokeShape
    <3> QED
      BY <2>1, <2>4, <3>1 DEF CommitRevoke, APIKey, is_active
  <2>5. ASSUME UNCHANGED keys
        PROVE  keys'[k] = keys[k]
    BY <2>5
  <2> QED
    BY <2>2, <2>3, <2>4, <2>5 DEF Next, Authenticate, find_active_by_plaintext,
       SkipTouch, touch_last_used, CommitTouchFails, Revoking, revoke,
       CommitRevokeFails, Tick, vars, is_active
<1> QED
  BY <1>1, Invariance, PTL DEF Spec, RevocationIsFinal

(***************************************************************************)
(* How often last_used_at is written in the debounce window that starts at *)
(* t.  A handler that carries a stamp from before t can open the window    *)
(* again; one that carries an old copy of the key, or a stamp of the       *)
(* window, can add one write.                                              *)
(***************************************************************************)
IsOld(stamp, t) == stamp = NULL \/ stamp < t

WindowIsOpen(k, t) == k \in Issued => IsOld(keys[k].last_used_at, t)

\* What the call a makes of key k at the window from t on.
Reopens(a, k, t) == a.key = k /\ a.pc = "touching" /\ a.used < t

Writes(a, k, t) == /\ a.key = k
                   /\ \/ a.pc = "found" /\ IsOld(a.copy.last_used_at, t)
                      \/ a.pc = "touching" /\ a.used \in Window(t)

Reopeners(who, k, t) == {s \in Sessions : Reopens(who[s], k, t)}
Writers(who, k, t)   == {s \in Sessions : Writes(who[s], k, t)}

\* Stamps are numbers.
Stamps(who) == \A s \in Sessions : who[s].pc = "touching" => who[s].used \in Nat

\* Twice the writes that x reopeners among n handlers still allow.
Reopened(n, x) == x * (2 * n - x + 1)

\* Twice the writes to come: of all handlers that do not hold a stamp from before
\* t while the window is open, of the writers only once it is closed, and those
\* after every reopening.
ToCome(k, t) ==
    LET n == Cardinality(Sessions)
        x == Cardinality(Reopeners(auths, k, t))
    IN Reopened(n, x) + 2 * IF WindowIsOpen(k, t) THEN n - x
                            ELSE Cardinality(Writers(auths, k, t))

WindowCounted(k, t) ==
    /\ IsFiniteSet(Stamped(k, t))
    /\ 2 * Cardinality(Stamped(k, t)) + ToCome(k, t)
          <= Cardinality(Sessions) * (Cardinality(Sessions) + 1)

\* Stamps are readings of the clock.
StampIsPast(s) == auths[s].pc = "touching" => auths[s].used \in 0..now

WInv == /\ KInv
        /\ \A s \in Sessions : StampIsPast(s)
        /\ \A k \in Keys, t \in 0..Horizon : t > now => touches[k][t] = 0
        /\ \A k \in Keys, t \in 0..now : WindowCounted(k, t)

\* The two kinds of handlers are disjoint, and at most all of them.
LEMMA Kinds ==
    ASSUME NEW who, NEW k, NEW t \in Nat, Stamps(who)
    PROVE  /\ IsFiniteSet(Reopeners(who, k, t)) /\ IsFiniteSet(Writers(who, k, t))
           /\ Cardinality(Reopeners(who, k, t)) \in Nat /\ Cardinality(Writers(who, k, t)) \in Nat
           /\ Cardinality(Sessions) \in Nat
           /\ Cardinality(Reopeners(who, k, t)) + Cardinality(Writers(who, k, t))
                 <= Cardinality(Sessions)
<1>1. Reopeners(who, k, t) \cap Writers(who, k, t) = {}
  <2> SUFFICES ASSUME NEW s \in Sessions, Reopens(who[s], k, t), Writes(who[s], k, t)
               PROVE  FALSE
    BY DEF Reopeners, Writers
  <2>1. PICK u \in Nat : u = who[s].used /\ u < t /\ u \in Window(t)
    BY DEF Reopens, Writes, Stamps
  <2>2. u >= t
    BY <2>1, KeyAssumption DEF Window
  <2> QED
    BY <2>1, <2>2
<1>2. /\ IsFiniteSet(Reopeners(who, k, t)) /\ IsFiniteSet(Writers(who, k, t)) /\ IsFiniteSet(Sessions)
      /\ Reopeners(who, k, t) \cup Writers(who, k, t) \in SUBSET Sessions
  BY KeyAssumption, FS_Subset DEF Reopeners, Writers
<1>3. /\ Cardinality(Reopeners(who, k, t)) \in Nat /\ Cardinality(Writers(who, k, t)) \in Nat
      /\ Cardinality(Sessions) \in Nat
      /\ Cardinality(Reopeners(who, k, t) \cup Writers(who, k, t)) <= Cardinality(Sessions)
  BY <1>2, FS_Subset, FS_CardinalityType
<1>4. Cardinality(Reopeners(who, k, t) \cup Writers(who, k, t))
         = Cardinality(Reopeners(who, k, t)) + Cardinality(Writers(who, k, t))
  <2>1. Cardinality(Reopeners(who, k, t) \cap Writers(who, k, t)) = 0
    BY <1>1, FS_EmptySet
  <2>2. Cardinality(Reopeners(who, k, t) \cup Writers(who, k, t))
           = Cardinality(Reopeners(who, k, t)) + Cardinality(Writers(who, k, t))
             - Cardinality(Reopeners(who, k, t) \cap Writers(who, k, t))
    BY <1>2, FS_Union
  <2> QED
    BY <1>3, <2>1, <2>2
<1> QED
  BY <1>2, <1>3, <1>4

\* The sums 1 + 2 + ... + n the bound is made of.
LEMMA ReopenedFacts ==
    ASSUME NEW n \in Nat, NEW x \in 0..n
    PROVE  /\ Reopened(n, x) \in Nat
           /\ x > 0 => Reopened(n, x - 1) + 2 * (n - (x - 1)) = Reopened(n, x)
           /\ Reopened(n, x) + 2 * (n - x) <= n * (n + 1)
           /\ n * (n + 1) \in Nat
<1>1. PICK k \in Nat : n = x + k
  <2>1. n - x \in Nat /\ n = x + (n - x)
    OBVIOUS
  <2> QED
    BY <2>1
<1>2. Reopened(n, x) = x * (x + 2 * k + 1) /\ Reopened(n, x) \in Nat
  BY <1>1 DEF Reopened
<1>3. x > 0 => Reopened(n, x - 1) + 2 * (n - (x - 1)) = Reopened(n, x)
  <2> SUFFICES ASSUME x > 0
               PROVE  Reopened(n, x - 1) + 2 * (n - (x - 1)) = Reopened(n, x)
    OBVIOUS
  <2>1. (x - 1) * (2 * n - (x - 1) + 1) + 2 * (n - (x - 1)) = x * (2 * n - x + 1)
    OBVIOUS
  <2> QED
    BY <2>1 DEF Reopened
<1>4. Reopened(n, x) + 2 * (n - x) <= n * (n + 1)
  <2>1. (x + k) * (x + k + 1) = x * (x + 2 * k + 1) + 2 * k + k * (k - 1)
    OBVIOUS
  <2>2. k * (k - 1) \in Nat
    <3>1. CASE k = 0
      BY <3>1
    <3>2. CASE k > 0
      <4>1. k - 1 \in Nat
        BY <3>2
      <4> QED
        BY <4>1
    <3> QED
      BY <3>1, <3>2
  <2>3. n - x = k /\ n * (n + 1) = (x + k) * (x + k + 1)
    BY <1>1
  <2> QED
    BY <1>2, <2>1, <2>2, <2>3
<1>5. n * (n + 1) \in Nat
  OBVIOUS
<1> QED
  BY <1>2, <1>3, <1>4, <1>5

\* Changing one handler changes a set of handlers by that one at most.
LEMMA Toggle ==
    ASSUME NEW S, NEW T, NEW x, IsFiniteSet(S), IsFiniteSet(T), T \ {x} = S \ {x}
    PROVE  Cardinality(T) + (IF x \in S THEN 1 ELSE 0)
              = Cardinality(S) + (IF x \in T THEN 1 ELSE 0)
<1>1. Cardinality(S) \in Nat /\ Cardinality(T) \in Nat
  BY FS_CardinalityType
<1>2. /\ Cardinality(S \ {x}) = IF x \in S THEN Cardinality(S) - 1 ELSE Cardinality(S)
      /\ Cardinality(T \ {x}) = IF x \in T THEN Cardinality(T) - 1 ELSE Cardinality(T)
  BY FS_RemoveElement
<1> QED
  BY <1>1, <1>2

\* Only the call of handler s changes.
OnlyOf(s, who, new) == \A r \in Sessions \ {s} : new[r] = who[r]

\* What a step of handler s does to the two kinds.
LEMMA KindsStep ==
    ASSUME NEW s \in Sessions, NEW who, NEW new, NEW k, NEW t \in Nat,
           Stamps(who), Stamps(new), OnlyOf(s, who, new)
    PROVE  /\ Cardinality(Reopeners(new, k, t)) + (IF Reopens(who[s], k, t) THEN 1 ELSE 0)
                 = Cardinality(Reopeners(who, k, t)) + (IF Reopens(new[s], k, t) THEN 1 ELSE 0)
           /\ Cardinality(Writers(new, k, t)) + (IF Writes(who[s], k, t) THEN 1 ELSE 0)
                 = Cardinality(Writers(who, k, t)) + (IF Writes(new[s], k, t) THEN 1 ELSE 0)
<1>1. /\ IsFiniteSet(Reopeners(who, k, t)) /\ IsFiniteSet(Reopeners(new, k, t))
      /\ IsFiniteSet(Writers(who, k, t)) /\ IsFiniteSet(Writers(new, k, t))
  BY Kinds
<1>2. /\ Reopeners(new, k, t) \ {s} = Reopeners(who, k, t) \ {s}
      /\ s \in Reopeners(who, k, t) <=> Reopens(who[s], k, t)
      /\ s \in Reopeners(new, k, t) <=> Reopens(new[s], k, t)
  BY DEF Reopeners, OnlyOf
<1>3. /\ Writers(new, k, t) \ {s} = Writers(who, k, t) \ {s}
      /\ s \in Writers(who, k, t) <=> Writes(who[s], k, t)
      /\ s \in Writers(new, k, t) <=> Writes(new[s], k, t)
  BY DEF Writers, OnlyOf
<1>4. Cardinality(Reopeners(new, k, t)) + (IF s \in Reopeners(who, k, t) THEN 1 ELSE 0)
         = Cardinality(Reopeners(who, k, t)) + (IF s \in Reopeners(new, k, t) THEN 1 ELSE 0)
  BY <1>1, <1>2, Toggle
<1>5. Cardinality(Writers(new, k, t)) + (IF s \in Writers(who, k, t) THEN 1 ELSE 0)
         = Cardinality(Writers(who, k, t)) + (IF s \in Writers(new, k, t) THEN 1 ELSE 0)
  BY <1>1, <1>3, Toggle
<1> QED
  BY <1>2, <1>3, <1>4, <1>5

\* What every step finds at a window.
LEMMA AtWindow ==
    ASSUME WInv, NEW k \in Keys, NEW t \in 0..now
    PROVE  /\ t \in Nat /\ t \in 0..Horizon /\ now \in Nat /\ WindowCounted(k, t)
           /\ DOMAIN auths = Sessions
           /\ Stamps(auths)
           /\ Cardinality(Sessions) \in Nat
           /\ Cardinality(Reopeners(auths, k, t)) \in 0..Cardinality(Sessions)
           /\ Cardinality(Writers(auths, k, t)) \in Nat
           /\ Cardinality(Writers(auths, k, t))
                 <= Cardinality(Sessions) - Cardinality(Reopeners(auths, k, t))
           /\ IsFiniteSet(Stamped(k, t)) /\ Cardinality(Stamped(k, t)) \in Nat
<1>1. /\ now \in 0..Horizon /\ Horizon \in Nat /\ DOMAIN auths = Sessions
      /\ WindowCounted(k, t) /\ \A s \in Sessions : StampIsPast(s)
  BY KeyAssumption DEF WInv, KInv, TypeOK
<1>2. /\ t \in Nat /\ t \in 0..Horizon /\ now \in Nat
      /\ Stamps(auths)
  BY <1>1 DEF StampIsPast, Stamps
<1>3. /\ Cardinality(Reopeners(auths, k, t)) \in Nat
      /\ Cardinality(Writers(auths, k, t)) \in Nat /\ Cardinality(Sessions) \in Nat
      /\ Cardinality(Reopeners(auths, k, t)) + Cardinality(Writers(auths, k, t))
            <= Cardinality(Sessions)
  BY <1>2, Kinds
<1>4. IsFiniteSet(Stamped(k, t)) /\ Cardinality(Stamped(k, t)) \in Nat
  BY <1>1, FS_CardinalityType DEF WindowCounted
<1> QED
  BY <1>1, <1>2, <1>3, <1>4

\* Steps that write no stamp: nobody reopens the window and nobody new may write in
\* it, or everybody might already.
LEMMA WindowKept ==
    ASSUME WInv, NEW k \in Keys, NEW t \in 0..now, Stamped(k, t)' = Stamped(k, t),
           WindowIsOpen(k, t)' = WindowIsOpen(k, t),
           Cardinality(Reopeners(auths', k, t)) = Cardinality(Reopeners(auths, k, t)),
           Cardinality(Writers(auths', k, t)) \in Nat,
           WindowIsOpen(k, t) \/ Cardinality(Writers(auths', k, t))
                                    <= Cardinality(Writers(auths, k, t))
    PROVE  WindowCounted(k, t)'
<1> DEFINE n == Cardinality(Sessions)
           x == Cardinality(Reopeners(auths, k, t))
           R == Reopened(n, x)
           B == n * (n + 1)
<1>2. n \in Nat /\ x \in 0..n /\ R \in Nat /\ B \in Nat
  BY AtWindow, ReopenedFacts
<1>3. ToCome(k, t) = R + 2 * IF WindowIsOpen(k, t) THEN n - x
                             ELSE Cardinality(Writers(auths, k, t))
  BY DEF ToCome
<1>4. ToCome(k, t)' = R + 2 * IF WindowIsOpen(k, t) THEN n - x
                              ELSE Cardinality(Writers(auths', k, t))
  BY DEF ToCome
<1>5. IsFiniteSet(Stamped(k, t)) /\ Cardinality(Stamped(k, t)) \in Nat
      /\ 2 * Cardinality(Stamped(k, t)) + ToCome(k, t) <= B
      /\ Cardinality(Writers(auths, k, t)) \in Nat
  BY AtWindow DEF WindowCounted
<1> HIDE DEF n, x, R, B
<1>6. 2 * Cardinality(Stamped(k, t)) + ToCome(k, t)' <= B
  BY <1>2, <1>3, <1>4, <1>5
<1> QED
  BY <1>5, <1>6 DEF WindowCounted, B, n

\* An idle handler is of neither kind.
LEMMA NoAuthKinds == \A k, t : ~Reopens(NoAuth, k, t) /\ ~Writes(NoAuth, k, t)
                               /\ NoAuth.pc # "touching"
  BY DEF NoAuth, Reopens, Writes

\* A handler that ends its request and writes nothing: one reopener less, or one
\* writer, or none.
LEMMA FailCounts ==
    ASSUME WInv, NEW s \in Sessions, Stamps(auths'), OnlyOf(s, auths, auths'),
           auths'[s] = NoAuth, UNCHANGED <<keys, touches>>,
           NEW k \in Keys, NEW t \in 0..now
    PROVE  WindowCounted(k, t)'
<1> DEFINE n  == Cardinality(Sessions)
           x  == Cardinality(Reopeners(auths, k, t))
           y  == Cardinality(Writers(auths, k, t))
           x2 == Cardinality(Reopeners(auths', k, t))
           y2 == Cardinality(Writers(auths', k, t))
           C  == Cardinality(Stamped(k, t))
           B  == n * (n + 1)
<1>1. /\ n \in Nat /\ x \in 0..n /\ y \in Nat /\ y <= n - x /\ C \in Nat /\ t \in Nat
      /\ IsFiniteSet(Stamped(k, t)) /\ WindowCounted(k, t) /\ Stamps(auths)
  BY AtWindow
<1>2. /\ x2 \in Nat /\ y2 \in Nat /\ y2 <= y
      /\ x2 = x \/ (x > 0 /\ x2 = x - 1)
  <2>1. /\ x2 + (IF Reopens(auths[s], k, t) THEN 1 ELSE 0)
              = x + (IF Reopens(auths'[s], k, t) THEN 1 ELSE 0)
        /\ y2 + (IF Writes(auths[s], k, t) THEN 1 ELSE 0)
              = y + (IF Writes(auths'[s], k, t) THEN 1 ELSE 0)
    BY <1>1, KindsStep
  <2>2. x2 \in Nat /\ y2 \in Nat
    BY <1>1, Kinds
  <2>3. ~Reopens(auths'[s], k, t) /\ ~Writes(auths'[s], k, t)
    BY NoAuthKinds
  <2> HIDE DEF n, x, y, x2, y2
  <2> QED
    BY <1>1, <2>1, <2>2, <2>3
<1>3. Stamped(k, t)' = Stamped(k, t) /\ WindowIsOpen(k, t)' = WindowIsOpen(k, t)
  BY DEF Stamped, WindowIsOpen, Issued
<1>4. /\ Reopened(n, x) \in Nat /\ B \in Nat
      /\ x > 0 => Reopened(n, x - 1) + 2 * (n - (x - 1)) = Reopened(n, x)
  BY <1>1, ReopenedFacts
<1>5. /\ 2 * C + ToCome(k, t) <= B
      /\ ToCome(k, t) = Reopened(n, x) + 2 * IF WindowIsOpen(k, t) THEN n - x ELSE y
      /\ ToCome(k, t)' = Reopened(n, x2) + 2 * IF WindowIsOpen(k, t) THEN n - x2 ELSE y2
  BY <1>1, <1>3 DEF WindowCounted, ToCome
<1>6. PICK R \in Nat : R = Reopened(n, x)
  BY <1>4
<1>7. 2 * C + ToCome(k, t)' <= B
  <2>1. CASE x2 = x
    <3>1. ToCome(k, t)' = R + 2 * IF WindowIsOpen(k, t) THEN n - x ELSE y2
      BY <1>5, <1>6, <2>1
    <3> HIDE DEF n, x, y, x2, y2, C, B
    <3> QED
      BY <1>1, <1>2, <1>4, <1>5, <1>6, <3>1
  <2>2. CASE x > 0 /\ x2 = x - 1
    <3>1. PICK Q : Q = Reopened(n, x - 1)
      OBVIOUS
    <3>2. ToCome(k, t)' = Q + 2 * IF WindowIsOpen(k, t) THEN n - x2 ELSE y2
      BY <1>5, <2>2, <3>1
    <3>3. Q + 2 * (n - (x - 1)) = R
      BY <1>4, <1>6, <2>2, <3>1
    <3>4. Q \in Int
      BY <1>1, <3>1 DEF Reopened
    <3> HIDE DEF n, x, y, x2, y2, C, B
    <3> QED
      BY <1>1, <1>2, <1>4, <1>5, <1>6, <2>2, <3>2, <3>3, <3>4
  <2> QED
    BY <1>2, <2>1, <2>2
<1> QED
  BY <1>1, <1>3, <1>7 DEF WindowCounted

\* A step of one handler that neither brings a stamp from before t with it nor takes
\* one away, and makes it a writer of the window only if it might be one already.
LEMMA HandlerKept ==
    ASSUME WInv, NEW s \in Sessions, Stamps(auths'), OnlyOf(s, auths, auths'),
           NEW k \in Keys, NEW t \in 0..now, Stamped(k, t)' = Stamped(k, t),
           WindowIsOpen(k, t)' = WindowIsOpen(k, t),
           ~Reopens(auths[s], k, t), ~Reopens(auths'[s], k, t),
           Writes(auths'[s], k, t) => Writes(auths[s], k, t) \/ WindowIsOpen(k, t)
    PROVE  WindowCounted(k, t)'
<1>1. /\ t \in Nat /\ Stamps(auths)
      /\ Cardinality(Reopeners(auths, k, t)) \in Nat
      /\ Cardinality(Writers(auths, k, t)) \in Nat
  BY AtWindow
<1>2. /\ Cardinality(Reopeners(auths', k, t)) + (IF Reopens(auths[s], k, t) THEN 1 ELSE 0)
            = Cardinality(Reopeners(auths, k, t)) + (IF Reopens(auths'[s], k, t) THEN 1 ELSE 0)
      /\ Cardinality(Writers(auths', k, t)) + (IF Writes(auths[s], k, t) THEN 1 ELSE 0)
            = Cardinality(Writers(auths, k, t)) + (IF Writes(auths'[s], k, t) THEN 1 ELSE 0)
  BY <1>1, KindsStep
<1>3. /\ Cardinality(Reopeners(auths', k, t)) \in Nat
      /\ Cardinality(Writers(auths', k, t)) \in Nat
  BY <1>1, Kinds
<1>4. Cardinality(Reopeners(auths', k, t)) = Cardinality(Reopeners(auths, k, t))
  BY <1>1, <1>2, <1>3
<1>5. \/ WindowIsOpen(k, t)
      \/ Cardinality(Writers(auths', k, t)) <= Cardinality(Writers(auths, k, t))
  BY <1>1, <1>2, <1>3
<1> QED
  BY <1>3, <1>4, <1>5, WindowKept

\* A handler's step of a run whose stamps are numbers.
LEMMA OneHandler ==
    ASSUME WInv, NEW s \in Sessions, NEW a, auths' = [auths EXCEPT ![s] = a],
           a.pc = "touching" => a.used \in Nat
    PROVE  Stamps(auths') /\ OnlyOf(s, auths, auths') /\ auths'[s] = a
<1>1. /\ DOMAIN auths = Sessions /\ now \in Nat
      /\ \A r \in Sessions : auths[r].pc = "touching" => auths[r].used \in 0..now
  BY KeyAssumption DEF WInv, KInv, TypeOK, StampIsPast
<1>2. auths'[s] = a /\ \A r \in Sessions \ {s} : auths'[r] = auths[r]
  BY <1>1
<1>3. Stamps(auths')
  BY <1>1, <1>2 DEF Stamps
<1> QED
  BY <1>2, <1>3 DEF OnlyOf

\* Reading the key makes a writer only of an open window.
LEMMA FindCounts ==
    ASSUME WInv, NEW s \in Sessions, NEW i \in Keys, find_active_by_plaintext(s, i),
           NEW k \in Keys, NEW t \in 0..now
    PROVE  WindowCounted(k, t)'
<1> DEFINE a == [pc |-> "found", key |-> i, copy |-> keys[i], used |-> NULL]
<1>1. /\ auths' = [auths EXCEPT ![s] = a] /\ i \in Issued /\ UNCHANGED <<keys, touches>>
      /\ auths[s] = NoAuth
  BY DEF find_active_by_plaintext, WInv, KInv, TypeOK
<1>2. a.pc = "found" /\ a.key = i /\ a.copy = keys[i]
  OBVIOUS
<1> HIDE DEF a
<1>3. ~Reopens(a, k, t) /\ (Writes(a, k, t) => WindowIsOpen(k, t))
  BY <1>1, <1>2 DEF Reopens, Writes, WindowIsOpen
<1>4. Stamped(k, t)' = Stamped(k, t) /\ WindowIsOpen(k, t)' = WindowIsOpen(k, t)
  BY <1>1 DEF Stamped, WindowIsOpen, Issued
<1>5. ~Reopens(auths[s], k, t)
  BY <1>1, NoAuthKinds
<1>6. Stamps(auths') /\ OnlyOf(s, auths, auths') /\ auths'[s] = a
  BY <1>1, <1>2, OneHandler
<1> QED
  BY <1>3, <1>4, <1>5, <1>6, HandlerKept

\* A stamp of the window is taken only from an old copy: the debounce check.
LEMMA TouchCounts ==
    ASSUME WInv, NEW s \in Sessions, SkipTouch(s) \/ touch_last_used(s),
           NEW k \in Keys, NEW t \in 0..now
    PROVE  WindowCounted(k, t)'
<1>1. /\ auths[s].pc = "found" /\ auths[s] \in Auth /\ auths[s].copy \in APIKey
      /\ UNCHANGED <<keys, touches>> /\ now \in Nat /\ t \in Nat /\ Debounce \in Nat
  BY KeyAssumption, AtWindow DEF SkipTouch, touch_last_used, WInv, KInv, TypeOK
<1>2. Stamped(k, t)' = Stamped(k, t) /\ WindowIsOpen(k, t)' = WindowIsOpen(k, t)
  BY <1>1 DEF Stamped, WindowIsOpen, Issued
<1>3. ~Reopens(auths[s], k, t)
  BY <1>1 DEF Reopens
<1>4. CASE SkipTouch(s)
  <2>1. auths' = [auths EXCEPT ![s] = NoAuth]
    BY <1>4 DEF SkipTouch, LetIn
  <2>2. Stamps(auths') /\ OnlyOf(s, auths, auths') /\ auths'[s] = NoAuth
    BY <2>1, NoAuthKinds, OneHandler
  <2> QED
    BY <1>2, <1>3, <2>2, NoAuthKinds, HandlerKept
<1>5. CASE touch_last_used(s)
  <2> DEFINE a == [auths[s] EXCEPT !.pc = "touching", !.used = now]
  <2>1. /\ auths' = [auths EXCEPT ![s] = a] /\ ~Debounced(s)
        /\ a.pc = "touching" /\ a.used = now /\ a.key = auths[s].key
    BY <1>1, <1>5 DEF touch_last_used, Auth
  <2> HIDE DEF a
  <2>2. ~Reopens(a, k, t)
    BY <1>1, <2>1 DEF Reopens
  <2>3. Writes(a, k, t) => Writes(auths[s], k, t)
    <3> SUFFICES ASSUME Writes(a, k, t) PROVE Writes(auths[s], k, t)
      OBVIOUS
    <3>1. now < t + Debounce /\ auths[s].key = k
      BY <1>1, <2>1 DEF Writes, Window
    <3>2. PICK v : v = auths[s].copy.last_used_at
      OBVIOUS
    <3>3. v \in TimeOrNull /\ (v # NULL => ~(now - v < Debounce))
      BY <1>1, <2>1, <3>2 DEF Debounced, APIKey
    <3>4. IsOld(v, t)
      BY <1>1, <3>1, <3>3 DEF IsOld, TimeOrNull
    <3> QED
      BY <1>1, <3>1, <3>2, <3>4 DEF Writes
  <2>4. Stamps(auths') /\ OnlyOf(s, auths, auths') /\ auths'[s] = a
    BY <1>1, <2>1, OneHandler
  <2> QED
    BY <1>2, <1>3, <2>2, <2>3, <2>4, HandlerKept
<1> QED
  BY <1>4, <1>5

\* One more write of stamp u is one more element of the windows that hold u.
LEMMA OneMoreStamp ==
    ASSUME TypeOK, NEW k \in Keys, NEW u \in 0..Horizon, NEW t \in Nat,
           touches' = [touches EXCEPT ![k][u] = @ + 1], IsFiniteSet(Stamped(k, t))
    PROVE  /\ \A i \in Keys \ {k} : Stamped(i, t)' = Stamped(i, t)
           /\ u \notin Window(t) => Stamped(k, t)' = Stamped(k, t)
           /\ u \in Window(t) => /\ IsFiniteSet(Stamped(k, t)')
                                 /\ Cardinality(Stamped(k, t)') = Cardinality(Stamped(k, t)) + 1
<1>1. touches \in [Keys -> [0..Horizon -> Nat]]
  BY DEF TypeOK
<1>2. /\ \A i \in Keys \ {k} : touches'[i] = touches[i]
      /\ touches'[k][u] = touches[k][u] + 1 /\ touches[k][u] \in Nat
      /\ \A v \in 0..Horizon : v # u => touches'[k][v] = touches[k][v]
  BY <1>1
<1>3. Window(t) \subseteq 0..Horizon
  BY DEF Window
<1>4. \A i \in Keys \ {k} : Stamped(i, t)' = Stamped(i, t)
  BY <1>2 DEF Stamped
<1>5. ASSUME u \notin Window(t)
      PROVE  Stamped(k, t)' = Stamped(k, t)
  BY <1>2, <1>3, <1>5 DEF Stamped
<1>6. ASSUME u \in Window(t)
      PROVE  /\ IsFiniteSet(Stamped(k, t)')
             /\ Cardinality(Stamped(k, t)') = Cardinality(Stamped(k, t)) + 1
  <2> DEFINE m == touches[k][u] + 1
  <2>1. 1..m = (1..(m - 1)) \cup {m} /\ m \notin 1..(m - 1) /\ m - 1 = touches[k][u]
    BY <1>2
  <2>2. touches'[k][u] = m
    BY <1>2
  <2> HIDE DEF m
  <2>3. \A e : e \in Stamped(k, t)' <=> \E v \in Window(t) : \E j \in 1..touches'[k][v] : e = <<v, j>>
    BY DEF Stamped
  <2>4. \A e : e \in Stamped(k, t) <=> \E v \in Window(t) : \E j \in 1..touches[k][v] : e = <<v, j>>
    BY DEF Stamped
  <2>5. Stamped(k, t)' = Stamped(k, t) \cup {<<u, m>>}
    <3>1. ASSUME NEW e \in Stamped(k, t)'
          PROVE  e \in Stamped(k, t) \cup {<<u, m>>}
      <4>1. PICK v \in Window(t) : \E j \in 1..touches'[k][v] : e = <<v, j>>
        BY <2>3, <3>1
      <4>2. CASE v = u
        BY <1>6, <2>1, <2>2, <2>4, <4>1, <4>2
      <4>3. CASE v # u
        <5>1. touches'[k][v] = touches[k][v]
          BY <1>2, <1>3, <4>1, <4>3
        <5> QED
          BY <2>4, <4>1, <5>1
      <4> QED
        BY <4>2, <4>3
    <3>2. ASSUME NEW e \in Stamped(k, t)
          PROVE  e \in Stamped(k, t)'
      <4>1. PICK v \in Window(t) : \E j \in 1..touches[k][v] : e = <<v, j>>
        BY <2>4, <3>2
      <4>2. \E j \in 1..touches'[k][v] : e = <<v, j>>
        <5>1. CASE v = u
          BY <2>1, <2>2, <4>1, <5>1
        <5>2. CASE v # u
          BY <1>2, <1>3, <4>1, <5>2
        <5> QED
          BY <5>1, <5>2
      <4> QED
        BY <2>3, <4>1, <4>2
    <3>3. <<u, m>> \in Stamped(k, t)'
      BY <1>6, <2>1, <2>2, <2>3
    <3> QED
      BY <3>1, <3>2, <3>3
  <2>6. <<u, m>> \notin Stamped(k, t)
    BY <2>1, <2>4
  <2> QED
    BY <2>5, <2>6, FS_AddElement
<1> QED
  BY <1>4, <1>5, <1>6

\* The commit of a stamp from before t opens the window again and is one reopener
\* less; the commit of a stamp of the window closes it and is one writer less.
LEMMA CommitCounts ==
    ASSUME WInv, NEW s \in Sessions, CommitTouch(s), NEW k \in Keys, NEW t \in 0..now
    PROVE  WindowCounted(k, t)'
<1>0. PICK c, u : c = auths[s].key /\ u = auths[s].used
  OBVIOUS
<1>1. /\ auths[s].pc = "touching" /\ u \in 0..now /\ u \in 0..Horizon /\ u # NULL
      /\ c \in Issued /\ c \in Keys /\ t \in Nat /\ TypeOK
      /\ keys' = [keys EXCEPT ![c].last_used_at = u]
      /\ touches' = [touches EXCEPT ![c][u] = @ + 1]
      /\ auths' = [auths EXCEPT ![s] = NoAuth]
      /\ now \in 0..Horizon /\ Horizon \in Nat /\ Debounce \in Nat
      /\ keys \in [Issued -> APIKey]
  <2>1. WInv /\ KInv /\ TypeOK /\ StampIsPast(s) /\ t \in Nat
    BY AtWindow DEF WInv, KInv
  <2>2. /\ auths[s].pc = "touching" /\ now \in 0..Horizon /\ Horizon \in Nat
        /\ Debounce \in Nat /\ NULL \notin Int
    BY <2>1, KeyAssumption DEF CommitTouch, TypeOK
  <2>3. u \in 0..now
    BY <1>0, <2>1, <2>2 DEF StampIsPast
  <2>4. auths' = [auths EXCEPT ![s] = NoAuth]
    BY DEF CommitTouch, LetIn, TurnAway
  <2>5. c \in Issued /\ c \in Keys /\ keys \in [Issued -> APIKey]
    BY <1>0, <2>1, <2>2 DEF TypeOK
  <2> QED
    BY <1>0, <2>1, <2>2, <2>3, <2>4, <2>5 DEF CommitTouch, Touched
<1>2. Stamps(auths') /\ OnlyOf(s, auths, auths') /\ auths'[s] = NoAuth
  BY <1>1, NoAuthKinds, OneHandler
<1>3. /\ \A i \in Keys \ {c} : Stamped(i, t)' = Stamped(i, t)
      /\ IsFiniteSet(Stamped(c, t)) =>
            /\ u \notin Window(t) => Stamped(c, t)' = Stamped(c, t)
            /\ u \in Window(t) => /\ IsFiniteSet(Stamped(c, t)')
                                  /\ Cardinality(Stamped(c, t)') = Cardinality(Stamped(c, t)) + 1
  <2>1. IsFiniteSet(Stamped(c, t))
    BY <1>1, AtWindow
  <2>2. /\ TypeOK /\ c \in Keys /\ u \in 0..Horizon /\ t \in Nat
        /\ touches' = [touches EXCEPT ![c][u] = @ + 1]
    BY <1>1
  <2> QED
    BY <2>1, <2>2, OneMoreStamp
<1>4. CASE k # c
  <2>1. Stamped(k, t)' = Stamped(k, t) /\ WindowIsOpen(k, t)' = WindowIsOpen(k, t)
    BY <1>1, <1>3, <1>4 DEF WindowIsOpen, Issued
  <2>2. ~Reopens(auths[s], k, t)
    BY <1>0, <1>4 DEF Reopens
  <2> QED
    BY <1>2, <2>1, <2>2, NoAuthKinds, HandlerKept
<1>5. CASE k = c
  <2> DEFINE n  == Cardinality(Sessions)
             x  == Cardinality(Reopeners(auths, k, t))
             y  == Cardinality(Writers(auths, k, t))
             x2 == Cardinality(Reopeners(auths', k, t))
             y2 == Cardinality(Writers(auths', k, t))
             C  == Cardinality(Stamped(k, t))
             C2 == Cardinality(Stamped(k, t)')
             B  == n * (n + 1)
  <2>1. /\ n \in Nat /\ x \in 0..n /\ y \in Nat /\ y <= n - x /\ C \in Nat
        /\ IsFiniteSet(Stamped(k, t)) /\ WindowCounted(k, t) /\ Stamps(auths)
    BY AtWindow
  <2>2. /\ x2 + (IF Reopens(auths[s], k, t) THEN 1 ELSE 0) = x
        /\ y2 + (IF Writes(auths[s], k, t) THEN 1 ELSE 0) = y
        /\ x2 \in Nat /\ y2 \in Nat
    <3>1. /\ x2 + (IF Reopens(auths[s], k, t) THEN 1 ELSE 0)
                = x + (IF Reopens(auths'[s], k, t) THEN 1 ELSE 0)
          /\ y2 + (IF Writes(auths[s], k, t) THEN 1 ELSE 0)
                = y + (IF Writes(auths'[s], k, t) THEN 1 ELSE 0)
      <4>1. t \in Nat /\ Stamps(auths) /\ Stamps(auths') /\ OnlyOf(s, auths, auths')
        BY <1>1, <1>2, <2>1
      <4> QED
        BY <4>1, KindsStep
    <3>2. x2 \in Nat /\ y2 \in Nat
      BY <1>1, <1>2, Kinds
    <3>3. ~Reopens(auths'[s], k, t) /\ ~Writes(auths'[s], k, t)
      BY <1>2, NoAuthKinds
    <3> QED
      BY <2>1, <3>1, <3>2, <3>3
  <2>3. /\ Reopens(auths[s], k, t) <=> u < t
        /\ Writes(auths[s], k, t) <=> u \in Window(t)
    BY <1>0, <1>1, <1>5 DEF Reopens, Writes
  <2>4. WindowIsOpen(k, t)' <=> u < t
    <3>1. keys'[k].last_used_at = u /\ k \in Issued' /\ Issued' = Issued
      BY <1>1, <1>5 DEF Issued, APIKey
    <3> QED
      BY <1>1, <3>1 DEF WindowIsOpen, IsOld
  <2>5. u \in Window(t) => u >= t
    BY <1>1 DEF Window
  <2>6. /\ Reopened(n, x) \in Nat /\ B \in Nat
        /\ x > 0 => Reopened(n, x - 1) + 2 * (n - (x - 1)) = Reopened(n, x)
    BY <2>1, ReopenedFacts
  <2>7. /\ 2 * C + ToCome(k, t) <= B
        /\ ToCome(k, t) = Reopened(n, x) + 2 * IF WindowIsOpen(k, t) THEN n - x ELSE y
    BY <2>1 DEF WindowCounted, ToCome
  <2>8. ToCome(k, t)' = Reopened(n, x2) + 2 * IF u < t THEN n - x2 ELSE y2
    BY <2>4 DEF ToCome
  <2>9. 2 * C + Reopened(n, x) + 2 * y <= B /\ 2 * C + Reopened(n, x) <= B
    <3>1. PICK R \in Nat : R = Reopened(n, x)
      BY <2>6
    <3> HIDE DEF n, x, y, C, B
    <3> QED
      BY <2>1, <2>6, <2>7, <3>1
  <2>10. IsFiniteSet(Stamped(k, t)') /\ 2 * C2 + ToCome(k, t)' <= B
    <3> HIDE DEF n, x, y, x2, y2, B
    <3>1. CASE u < t
      <4>1. x2 = x - 1 /\ x > 0
        BY <1>1, <2>1, <2>2, <2>3, <3>1
      <4>2. Stamped(k, t)' = Stamped(k, t)
        <5>1. u \notin Window(t)
          BY <1>1, <2>5, <3>1
        <5> QED
          BY <1>3, <1>5, <2>1, <5>1
      <4>3. ToCome(k, t)' = Reopened(n, x)
        BY <2>6, <2>8, <3>1, <4>1
      <4> QED
        BY <2>1, <2>9, <4>2, <4>3
    <3>2. CASE u \in Window(t)
      <4>1. x2 = x /\ y2 = y - 1 /\ ~(u < t)
        BY <1>1, <2>1, <2>2, <2>3, <2>5, <3>2
      <4>2. IsFiniteSet(Stamped(k, t)') /\ C2 = C + 1
        BY <1>3, <1>5, <2>1, <3>2
      <4>3. ToCome(k, t)' = Reopened(n, x) + 2 * (y - 1)
        BY <2>8, <4>1
      <4> HIDE DEF C, C2
      <4> QED
        BY <2>1, <2>6, <2>9, <4>2, <4>3
    <3>3. CASE ~(u < t) /\ u \notin Window(t)
      <4>1. x2 = x /\ y2 = y
        BY <2>1, <2>2, <2>3, <3>3
      <4>2. Stamped(k, t)' = Stamped(k, t)
        BY <1>3, <1>5, <2>1, <3>3
      <4>3. ToCome(k, t)' = Reopened(n, x) + 2 * y
        BY <2>8, <3>3, <4>1
      <4> QED
        BY <2>1, <2>6, <2>9, <4>2, <4>3
    <3> QED
      BY <3>1, <3>2, <3>3
  <2> QED
    BY <2>10 DEF WindowCounted
<1> QED
  BY <1>4, <1>5

\* A window no stamp of which was written yet: n + (n - 1) + ... + 1 are to come.
LEMMA FreshWindow ==
    ASSUME NEW k \in Keys, NEW t \in Nat, Stamps(auths), Stamped(k, t) = {}
    PROVE  WindowCounted(k, t)
<1> DEFINE n == Cardinality(Sessions)
           x == Cardinality(Reopeners(auths, k, t))
           y == Cardinality(Writers(auths, k, t))
           B == n * (n + 1)
<1>1. n \in Nat /\ x \in 0..n /\ y \in Nat /\ y <= n - x
  <2>1. n \in Nat /\ x \in Nat /\ y \in Nat /\ x + y <= n
    BY Kinds
  <2> HIDE DEF n, x, y
  <2> QED
    BY <2>1
<1>2. /\ Reopened(n, x) \in Nat /\ B \in Nat
      /\ Reopened(n, x) + 2 * (n - x) <= B
  BY <1>1, ReopenedFacts
<1>3. ToCome(k, t) = Reopened(n, x) + 2 * IF WindowIsOpen(k, t) THEN n - x ELSE y
  BY DEF ToCome
<1>4. IsFiniteSet(Stamped(k, t)) /\ Cardinality(Stamped(k, t)) = 0
  BY FS_EmptySet
<1>5. 2 * Cardinality(Stamped(k, t)) + ToCome(k, t) <= B
  <2>1. PICK R \in Nat : R = Reopened(n, x)
    BY <1>2
  <2> HIDE DEF n, x, y, B
  <2>2. R + 2 * y <= B /\ R + 2 * (n - x) <= B
    BY <1>1, <1>2, <2>1
  <2>3. ToCome(k, t) = R + 2 * (n - x) \/ ToCome(k, t) = R + 2 * y
    BY <1>3, <2>1
  <2> QED
    BY <1>1, <1>2, <1>4, <2>2, <2>3
<1> QED
  BY <1>4, <1>5 DEF WindowCounted

\* A step that leaves the handlers and the stamps alone, and every window as open
\* as it was.
LEMMA WindowsUnchanged ==
    ASSUME NEW k, NEW t, WindowCounted(k, t), UNCHANGED <<auths, touches>>,
           WindowIsOpen(k, t)' = WindowIsOpen(k, t)
    PROVE  WindowCounted(k, t)'
  BY DEF WindowCounted, Stamped, ToCome, Reopeners, Writers

\* New keys, revocations and the clock: a window begins with the tick it starts at.
LEMMA OtherCounts ==
    ASSUME WInv, \/ \E i \in Keys : create_api_key(i)
                 \/ \E b \in Revokers : Revoking(b)
                 \/ Tick
                 \/ UNCHANGED vars,
           NEW k \in Keys, NEW t \in 0..now'
    PROVE  WindowCounted(k, t)'
<1>1. /\ UNCHANGED <<auths, touches>> /\ (now' = now \/ now' = now + 1)
      /\ now \in Nat /\ t \in Nat /\ now \in 0..Horizon /\ now' \in 0..Horizon
  <2>1. now \in 0..Horizon /\ Horizon \in Nat
    BY KeyAssumption DEF WInv, KInv, TypeOK
  <2>2. /\ UNCHANGED <<auths, touches>>
        /\ now' = now \/ (now < Horizon /\ now' = now + 1)
    <3>1. ASSUME NEW i \in Keys, create_api_key(i)
          PROVE  UNCHANGED <<auths, touches, now>>
      BY <3>1 DEF create_api_key
    <3>2. ASSUME NEW b \in Revokers, Revoking(b)
          PROVE  UNCHANGED <<auths, touches, now>>
      BY <3>2 DEF Revoking, revoke, CommitRevoke, CommitRevokeFails
    <3> QED
      BY <3>1, <3>2 DEF Tick, vars
  <2>3. now' \in 0..Horizon /\ now \in Nat
    BY <2>1, <2>2
  <2> QED
    BY <2>1, <2>2, <2>3
<1>2. WindowIsOpen(k, t)' = WindowIsOpen(k, t)
  <2>1. keys \in [Issued -> APIKey]
    BY DEF WInv, KInv, TypeOK
  <2>2. ASSUME NEW i \in Keys, create_api_key(i)
        PROVE  WindowIsOpen(k, t)' = WindowIsOpen(k, t)
    <3>1. /\ Issued' = Issued \cup {i} /\ i \notin Issued
          /\ \A j \in Issued : keys'[j] = keys[j]
          /\ keys'[i].last_used_at = NULL
      BY <2>2 DEF create_api_key, Issued
    <3>2. CASE k = i
      BY <3>1, <3>2 DEF WindowIsOpen, IsOld
    <3>3. CASE k # i
      BY <3>1, <3>3 DEF WindowIsOpen
    <3> QED
      BY <3>2, <3>3
  <2>3. ASSUME NEW b \in Revokers, CommitRevoke(b)
        PROVE  WindowIsOpen(k, t)' = WindowIsOpen(k, t)
    <3>1. Issued' = Issued
          /\ \A j \in Issued : keys'[j].last_used_at = keys[j].last_used_at
      BY <2>1, <2>3 DEF CommitRevoke, Issued, APIKey
    <3> QED
      BY <3>1 DEF WindowIsOpen
  <2>4. ASSUME UNCHANGED keys
        PROVE  WindowIsOpen(k, t)' = WindowIsOpen(k, t)
    BY <2>4 DEF WindowIsOpen, Issued
  <2> QED
    BY <2>2, <2>3, <2>4 DEF Revoking, revoke, CommitRevokeFails, Tick, vars
<1>3. WindowCounted(k, t)
  <2>1. CASE t <= now
    BY <1>1, <2>1 DEF WInv
  <2>2. CASE ~(t <= now)
    <3>1. \A u \in Window(t) : touches[k][u] = 0
      BY <1>1, <2>2, KeyAssumption DEF WInv, Window
    <3>2. Stamped(k, t) = {}
      BY <3>1 DEF Stamped
    <3>3. Stamps(auths)
      BY <1>1 DEF WInv, StampIsPast, Stamps
    <3> QED
      BY <1>1, <3>2, <3>3, FreshWindow
  <2> QED
    BY <2>1, <2>2
<1> QED
  BY <1>1, <1>2, <1>3, WindowsUnchanged

\* Stamps stay readings of the clock, and no write bears a stamp of the future.
LEMMA StampsStayPast ==
    ASSUME WInv, [Next]_vars
    PROVE  /\ \A s \in Sessions : StampIsPast(s)'
           /\ \A k \in Keys, t \in 0..Horizon : t > now' => touches'[k][t] = 0
<1>1. /\ TypeOK /\ now \in Nat /\ now \in 0..Horizon /\ DOMAIN auths = Sessions
      /\ touches \in [Keys -> [0..Horizon -> Nat]]
      /\ \A s \in Sessions : StampIsPast(s)
      /\ \A k \in Keys, t \in 0..Horizon : t > now => touches[k][t] = 0
  BY KeyAssumption DEF WInv, KInv, TypeOK
<1>2. now' \in Nat /\ now' >= now
  <2>1. now' = now \/ now' = now + 1
    BY DEF Next, Authenticate, create_api_key, find_active_by_plaintext, SkipTouch,
       touch_last_used, CommitTouch, CommitTouchFails, Revoking, revoke, CommitRevoke,
       CommitRevokeFails, Tick, vars
  <2> QED
    BY <1>1, <2>1
<1>3. ASSUME NEW s \in Sessions
      PROVE  StampIsPast(s)'
  <2>1. ASSUME NEW r \in Sessions, NEW k \in Keys, find_active_by_plaintext(r, k)
        PROVE  auths'[s] = auths[s] \/ auths'[s].pc # "touching"
    BY <1>1, <2>1 DEF find_active_by_plaintext
  <2>2. ASSUME NEW r \in Sessions,
               SkipTouch(r) \/ CommitTouch(r) \/ CommitTouchFails(r)
        PROVE  auths'[s] = auths[s] \/ auths'[s].pc # "touching"
    BY <1>1, <2>2 DEF SkipTouch, CommitTouch, CommitTouchFails, LetIn, TurnAway, NoAuth
  <2>3. ASSUME NEW r \in Sessions, touch_last_used(r)
        PROVE  auths'[s] = auths[s] \/ auths'[s].used = now
    BY <1>1, <2>3 DEF touch_last_used, TypeOK, Auth
  <2>4. auths'[s] = auths[s] \/ auths'[s].pc # "touching" \/ auths'[s].used = now
    BY <2>1, <2>2, <2>3 DEF Next, Authenticate, create_api_key, Revoking, revoke,
       CommitRevoke, CommitRevokeFails, Tick, vars
  <2> QED
    BY <1>1, <1>2, <2>4 DEF StampIsPast
<1>4. ASSUME NEW k \in Keys, NEW t \in 0..Horizon, t > now'
      PROVE  touches'[k][t] = 0
  <2>1. ASSUME NEW r \in Sessions, CommitTouch(r)
        PROVE  touches'[k][t] = touches[k][t]
    <3>1. PICK c, u : c = auths[r].key /\ u = auths[r].used
      OBVIOUS
    <3>2. u \in 0..now
      BY <1>1, <2>1, <3>1 DEF CommitTouch, StampIsPast
    <3>3. touches' = [touches EXCEPT ![c][u] = @ + 1] /\ u # t
      BY <1>1, <1>2, <1>4, <2>1, <3>1, <3>2 DEF CommitTouch, Touched
    <3> QED
      BY <1>1, <3>3
  <2>2. touches'[k][t] = touches[k][t]
    BY <2>1 DEF Next, Authenticate, create_api_key, find_active_by_plaintext, SkipTouch,
       touch_last_used, CommitTouchFails, Revoking, revoke, CommitRevoke,
       CommitRevokeFails, Tick, vars
  <2> QED
    BY <1>1, <1>2, <1>4, <2>2
<1> QED
  BY <1>3, <1>4

\* Nothing is stamped at first.
LEMMA InitCounted == Init => WInv
<1> SUFFICES ASSUME Init PROVE WInv
  OBVIOUS
<1>1. KInv
  BY InitHolds
<1>2. \A s \in Sessions : StampIsPast(s)
  BY DEF Init, NoAuth, StampIsPast
<1>3. \A k \in Keys, t \in 0..Horizon : t > now => touches[k][t] = 0
  BY DEF Init
<1>4. ASSUME NEW k \in Keys, NEW t \in 0..now
      PROVE  WindowCounted(k, t)
  <2>1. \A u \in Window(t) : touches[k][u] = 0
    BY DEF Init, Window
  <2>2. Stamped(k, t) = {}
    BY <2>1 DEF Stamped
  <2>3. Stamps(auths) /\ t \in Nat
    BY DEF Init, NoAuth, Stamps
  <2> QED
    BY <2>2, <2>3, FreshWindow
<1> QED
  BY <1>1, <1>2, <1>3, <1>4 DEF WInv

\* Every step keeps the count of every window.
LEMMA NextKeepsCounts == WInv /\ [Next]_vars => WInv'
<1> SUFFICES ASSUME WInv, [Next]_vars PROVE WInv'
  OBVIOUS
<1>1. KInv'
  BY NextKeeps DEF WInv
<1>2. /\ \A s \in Sessions : StampIsPast(s)'
      /\ \A k \in Keys, t \in 0..Horizon : t > now' => touches'[k][t] = 0
  BY StampsStayPast
<1>3. ASSUME NEW k \in Keys, NEW t \in 0..now'
      PROVE  WindowCounted(k, t)'
  <2>1. ASSUME NEW s \in Sessions, Authenticate(s)
        PROVE  WindowCounted(k, t)'
    <3>1. t \in 0..now
      BY <2>1 DEF Authenticate, find_active_by_plaintext, SkipTouch, touch_last_used,
         CommitTouch, CommitTouchFails
    <3>2. ASSUME CommitTouchFails(s)
          PROVE  WindowCounted(k, t)'
      <4>1. /\ auths' = [auths EXCEPT ![s] = NoAuth] /\ UNCHANGED <<keys, touches>>
        BY <3>2 DEF CommitTouchFails, TurnAway
      <4>2. Stamps(auths') /\ OnlyOf(s, auths, auths') /\ auths'[s] = NoAuth
        BY <4>1, NoAuthKinds, OneHandler
      <4> QED
        BY <3>1, <4>1, <4>2, FailCounts
    <3> QED
      BY <2>1, <3>1, <3>2, FindCounts, TouchCounts, CommitCounts DEF Authenticate
  <2> QED
    BY <2>1, OtherCounts DEF Next
<1> QED
  BY <1>1, <1>2, <1>3 DEF WInv

\* However many handlers authenticate with a key at once and however late their
\* commits come: with n handlers no debounce window gets more than n(n + 1)/2 writes
\* of last_used_at.
THEOREM TouchesDebounced == Spec => []TouchesAreDebounced
<1>1. WInv => TouchesAreDebounced
  <2> SUFFICES ASSUME WInv, NEW k \in Keys, NEW t \in 0..now
               PROVE  2 * TouchesFrom(k, t) <= Cardinality(Sessions) * (Cardinality(Sessions) + 1)
    BY DEF TouchesAreDebounced
  <2> DEFINE n == Cardinality(Sessions)
             x == Cardinality(Reopeners(auths, k, t))
             y == Cardinality(Writers(auths, k, t))
             C == Cardinality(Stamped(k, t))
             B == n * (n + 1)
  <2>1. /\ n \in Nat /\ x \in 0..n /\ y \in Nat /\ C \in Nat /\ WindowCounted(k, t)
    BY AtWindow
  <2>2. Reopened(n, x) \in Nat /\ B \in Nat
    BY <2>1, ReopenedFacts
  <2>3. /\ 2 * C + ToCome(k, t) <= B
        /\ ToCome(k, t) = Reopened(n, x) + 2 * IF WindowIsOpen(k, t) THEN n - x ELSE y
    BY <2>1 DEF WindowCounted, ToCome
  <2>4. TouchesFrom(k, t) = C
    BY DEF TouchesFrom
  <2>5. PICK R \in Nat : R = Reopened(n, x)
    BY <2>2
  <2>6. 2 * C <= B
    <3> HIDE DEF n, x, y, C, B
    <3> QED
      BY <2>1, <2>2, <2>3, <2>5
  <2> QED
    BY <2>4, <2>6
<1>2. Init => WInv
  BY InitCounted
<1>3. WInv /\ [Next]_vars => WInv'
  BY NextKeepsCounts
<1> QED
  BY <1>1, <1>2, <1>3, PTL DEF Spec

=============================================================================
