------------------------------ MODULE ApiKeys ------------------------------
(***************************************************************************)
(* The keys that callers authenticate with (services/api_key_service.py,   *)
(* require_api_key of core/security.py).  Authentication reads the key,    *)
(* and at most once per debounce window writes last_used_at back; keys are *)
(* revoked meanwhile.  Each of these awaits between its SELECT and its     *)
(* commit, and the commit overwrites the one column it assigned.           *)
(***************************************************************************)
EXTENDS Integers, FiniteSets

CONSTANTS
    Keys,        \* the keys that may be issued; a key is found by its hash
    Sessions,    \* handlers that serve authenticated requests
    Revokers,    \* processes that revoke keys
    Debounce,    \* _DEFAULT_LAST_USED_DEBOUNCE, in clock ticks
    Horizon,     \* bound of the clock
    NULL         \* SQL NULL

ASSUME KeyAssumption ==
    /\ Debounce \in Nat /\ Horizon \in Nat
    /\ IsFiniteSet(Sessions)
    /\ NULL \notin Int /\ NULL \notin Keys

VARIABLES
    keys,        \* the api_keys table
    now,         \* the clock
    auths,       \* the authentication each session is making
    revokes,     \* the revocation each revoker is making
    late,        \* late[k]: requests let in with k since k was revoked
    touches      \* touches[k][t]: commits that wrote last_used_at = t for k

vars == <<keys, now, auths, revokes, late, touches>>

TimeOrNull == Nat \cup {NULL}

APIKey == [last_used_at : TimeOrNull, revoked_at : TimeOrNull]

Issued == DOMAIN keys
is_active(k) == keys[k].revoked_at = NULL

\* "found" holds the copy that find_active_by_plaintext returned, "touching" the
\* clock touch_last_used is about to commit.
Auth == [pc   : {"idle", "found", "touching"},
         key  : Keys \cup {NULL},
         copy : APIKey \cup {NULL},
         used : TimeOrNull]

NoAuth == [pc |-> "idle", key |-> NULL, copy |-> NULL, used |-> NULL]

Revoke == [pc : {"idle", "revoking"}, key : Keys \cup {NULL}, at : TimeOrNull]

NoRevoke == [pc |-> "idle", key |-> NULL, at |-> NULL]

Init == /\ keys = [k \in {} |-> k]
        /\ now = 0
        /\ auths = [s \in Sessions |-> NoAuth]
        /\ revokes = [a \in Revokers |-> NoRevoke]
        /\ late = [k \in Keys |-> 0]
        /\ touches = [k \in Keys |-> [t \in 0..Horizon |-> 0]]

create_api_key(k) ==
    /\ k \notin Issued
    /\ keys' = [i \in Issued \cup {k} |->
                   IF i \in Issued THEN keys[i]
                                   ELSE [last_used_at |-> NULL, revoked_at |-> NULL]]
    /\ UNCHANGED <<now, auths, revokes, late, touches>>

(***************************************************************************)
(* require_api_key.  An unknown or revoked key is answered 401 at once.    *)
(***************************************************************************)
\* Mutant of find_active_by_plaintext: revoked keys are found too.
find_by_plaintext(s, k) ==
    /\ auths[s].pc = "idle"
    /\ k \in Issued
    /\ auths' = [auths EXCEPT ![s] = [pc |-> "found", key |-> k, copy |-> keys[k],
                                      used |-> NULL]]
    /\ UNCHANGED <<keys, now, revokes, late, touches>>

find_active_by_plaintext(s, k) ==
    /\ auths[s].pc = "idle"
    /\ k \in Issued /\ is_active(k)
    /\ auths' = [auths EXCEPT ![s] = [pc |-> "found", key |-> k, copy |-> keys[k],
                                      used |-> NULL]]
    /\ UNCHANGED <<keys, now, revokes, late, touches>>

\* Mutant of Debounced: the window closes a tick early.
DebouncedLate(s) ==
    /\ auths[s].copy.last_used_at # NULL
    /\ now - auths[s].copy.last_used_at < Debounce - 1

Debounced(s) ==
    /\ auths[s].copy.last_used_at # NULL
    /\ now - auths[s].copy.last_used_at < Debounce

\* Mutant of LetIn: the session outlives its request.
LetInKeepsCopy(s) ==
    /\ auths' = [auths EXCEPT ![s].pc = "idle"]
    /\ late' = late

\* The request goes on to its handler; its session ends with it.
LetIn(s) ==
    /\ auths' = [auths EXCEPT ![s] = NoAuth]
    /\ late' = IF is_active(auths[s].key) THEN late
               ELSE [late EXCEPT ![auths[s].key] = @ + 1]

\* The request ends with an error instead.
TurnAway(s) ==
    /\ auths' = [auths EXCEPT ![s] = NoAuth]
    /\ late' = late

SkipTouch(s) ==
    /\ auths[s].pc = "found"
    /\ Debounced(s)
    /\ LetIn(s)
    /\ UNCHANGED <<keys, now, revokes, touches>>

touch_last_used(s) ==
    /\ auths[s].pc = "found"
    /\ ~Debounced(s)
    /\ auths' = [auths EXCEPT ![s] = [@ EXCEPT !.pc = "touching", !.used = now]]
    /\ UNCHANGED <<keys, now, revokes, late, touches>>

\* One more last_used_at = auths[s].used reached the table.
Touched(s) ==
    touches' = [touches EXCEPT ![auths[s].key][auths[s].used] = @ + 1]

\* Mutant of CommitTouch: the whole copy is written back.
CommitWholeCopy(s) ==
    /\ auths[s].pc = "touching"
    /\ keys' = [keys EXCEPT ![auths[s].key] =
                    [auths[s].copy EXCEPT !.last_used_at = auths[s].used]]
    /\ Touched(s)
    /\ LetIn(s)
    /\ UNCHANGED <<now, revokes>>

\* The database answers the commit, or the answer is lost: then it raises.
CommitTouch(s) ==
    /\ auths[s].pc = "touching"
    /\ keys' = [keys EXCEPT ![auths[s].key].last_used_at = auths[s].used]
    /\ Touched(s)
    /\ LetIn(s) \/ TurnAway(s)
    /\ UNCHANGED <<now, revokes>>

\* The commit fails, or the request is abandoned before it.
CommitTouchFails(s) ==
    /\ auths[s].pc = "touching"
    /\ TurnAway(s)
    /\ UNCHANGED <<keys, now, revokes, touches>>

(***************************************************************************)
(* revoke.  A key already revoked when it is read is left alone.           *)
(***************************************************************************)
revoke(a, k) ==
    /\ revokes[a].pc = "idle"
    /\ k \in Issued /\ is_active(k)
    /\ revokes' = [revokes EXCEPT ![a] = [pc |-> "revoking", key |-> k, at |-> now]]
    /\ UNCHANGED <<keys, now, auths, late, touches>>

CommitRevoke(a) ==
    /\ revokes[a].pc = "revoking"
    /\ keys' = [keys EXCEPT ![revokes[a].key].revoked_at = revokes[a].at]
    /\ revokes' = [revokes EXCEPT ![a] = NoRevoke]
    /\ UNCHANGED <<now, auths, late, touches>>

\* The same failure of this commit: the key stays as it was.
CommitRevokeFails(a) ==
    /\ revokes[a].pc = "revoking"
    /\ revokes' = [revokes EXCEPT ![a] = NoRevoke]
    /\ UNCHANGED <<keys, now, auths, late, touches>>

Tick == /\ now < Horizon
        /\ now' = now + 1
        /\ UNCHANGED <<keys, auths, revokes, late, touches>>

Authenticate(s) ==
    \/ \E k \in Keys : find_active_by_plaintext(s, k)
    \/ SkipTouch(s) \/ touch_last_used(s) \/ CommitTouch(s) \/ CommitTouchFails(s)

Revoking(a) ==
    \/ \E k \in Keys : revoke(a, k)
    \/ CommitRevoke(a) \/ CommitRevokeFails(a)

Next == \/ \E k \in Keys : create_api_key(k)
        \/ \E s \in Sessions : Authenticate(s)
        \/ \E a \in Revokers : Revoking(a)
        \/ Tick

Spec == Init /\ [][Next]_vars

-----------------------------------------------------------------------------
TypeOK == /\ Issued \subseteq Keys /\ keys \in [Issued -> APIKey]
          /\ now \in 0..Horizon
          /\ auths \in [Sessions -> Auth]
          /\ \A s \in Sessions :
                IF auths[s].pc = "idle" THEN auths[s] = NoAuth
                ELSE auths[s].key \in Issued /\ auths[s].copy \in APIKey
          /\ revokes \in [Revokers -> Revoke]
          /\ late \in [Keys -> Nat]
          /\ touches \in [Keys -> [0..Horizon -> Nat]]

\* Revocation works at once: every request that arrives after it is refused.  The
\* requests whose key was read before may still be let in, one per handler.
RevocationHolds == \A k \in Keys : late[k] <= Cardinality(Sessions)

\* The writes of last_used_at stamped in the debounce window from t on: the n-th
\* write that bears stamp u is the pair <<u, n>>.
Window(t) == t..(t + Debounce - 1) \cap 0..Horizon

Stamped(k, t) == UNION {{u} \X (1..touches[k][u]) : u \in Window(t)}

TouchesFrom(k, t) == Cardinality(Stamped(k, t))

\* "At most once per debounce window" is what one handler keeps.  With n of them a
\* window sees up to n + (n - 1) + ... + 1 writes, and never more: each of the
\* others may commit a stamp from before the window over a newer one, and whoever
\* reads the key then finds the window open again.
TouchesAreDebounced ==
    LET n == Cardinality(Sessions)
    IN \A k \in Keys, t \in 0..now : 2 * TouchesFrom(k, t) <= n * (n + 1)

\* A revoked key stays revoked, though an authentication that read it while it was
\* active commits last_used_at afterwards.
RevocationIsFinal ==
    [][\A k \in Issued : ~is_active(k) => keys'[k].revoked_at # NULL]_vars

=============================================================================
