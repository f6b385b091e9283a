------------------------------ MODULE OtpRows ------------------------------
(***************************************************************************)
(* The rows of the `otps` table (models/otp.py) and the two ways the code  *)
(* touches them: a SELECT that copies a row into an ORM object, and a      *)
(* COMMIT that writes back the columns the handler assigned.               *)
(*                                                                         *)
(* The engine runs at READ COMMITTED with no version column and no         *)
(* SELECT ... FOR UPDATE, so a commit overwrites whatever is in the row,   *)
(* with values computed from the copy (core/database.py).                  *)
(***************************************************************************)
EXTENDS Integers

CONSTANTS
    Ids,                 \* primary keys a row may get
    Recipients,          \* phone numbers and e-mail addresses
    Codes,               \* plaintext codes
    Providers,           \* message ids a provider may hand out
    MAX_OTP_ATTEMPTS,    \* config.py: wrong guesses before lockout
    OTP_TTL_SECONDS,     \* config.py: life of a code, in clock ticks
    NULL                 \* SQL NULL

\* config.py bounds both settings from below (ge=1, ge=30).
ASSUME SettingsAssumption ==
    /\ MAX_OTP_ATTEMPTS \in Nat \ {0}
    /\ OTP_TTL_SECONDS \in Nat \ {0}

Channels == {"sms", "email"}

\* Mutant of Active: the SELECT forgets that BLOCKED rows are no live codes.
ActiveAndBlocked == {"pending", "sent", "delivered", "failed", "blocked"}

\* _latest_active_otp leaves out VERIFIED, EXPIRED and BLOCKED.
Active   == {"pending", "sent", "delivered", "failed"}
Terminal == {"verified", "expired", "blocked"}
Statuses == Active \cup Terminal

ASSUME NullAssumption ==
    /\ NULL \notin Int
    /\ NULL \notin Ids
    /\ NULL \notin Providers
    /\ NULL \notin Statuses

\* HMAC-SHA256 under SECRET_KEY: a digest tells nobody the code, and two
\* digests are equal exactly when the codes are.
hash_code(code) == [hmac |-> code]
Hashes == {hash_code(c) : c \in Codes}

Time      == Nat
TimeOrNull == Nat \cup {NULL}

Row == [recipient           : Recipients,
        channel             : Channels,
        code_hash           : Hashes,
        status              : Statuses,
        created_at          : Time,
        expires_at          : Time,
        used_at             : TimeOrNull,
        attempt_count       : Nat,
        sent_at             : TimeOrNull,
        delivered_at        : TimeOrNull,
        failed_at           : TimeOrNull,
        provider_message_id : Providers \cup {NULL}]

\* The table maps the keys inserted so far to their rows.
IsTable(rows) == /\ DOMAIN rows \subseteq Ids
                 /\ rows \in [DOMAIN rows -> Row]

EmptyTable == [id \in {} |-> id]

FreshIds(rows) == Ids \ DOMAIN rows

Insert(rows, id, row) ==
    [i \in DOMAIN rows \cup {id} |-> IF i = id THEN row ELSE rows[i]]

\* The row create_otp and record_blocked build: all lifecycle columns NULL.
NewRow(r, ch, code, st, created, expires) ==
    [recipient |-> r, channel |-> ch, code_hash |-> hash_code(code),
     status |-> st, created_at |-> created, expires_at |-> expires,
     used_at |-> NULL, attempt_count |-> 0, sent_at |-> NULL,
     delivered_at |-> NULL, failed_at |-> NULL, provider_message_id |-> NULL]

(***************************************************************************)
(* _latest_active_otp: ORDER BY created_at DESC LIMIT 1 over the active    *)
(* rows of a recipient.  Rows created in the same instant tie, and the     *)
(* database may return any of them; an empty set is scalar None.           *)
(***************************************************************************)
ActiveIds(rows, r) ==
    {id \in DOMAIN rows : /\ rows[id].recipient = r
                          /\ rows[id].status \in Active}

LatestActive(rows, r) ==
    {id \in ActiveIds(rows, r) :
        \A other \in ActiveIds(rows, r) :
            rows[other].created_at <= rows[id].created_at}

(***************************************************************************)
(* The unit of work: the columns a handler assigned since it loaded the    *)
(* row, NULL for one it did not assign (no handler assigns NULL).  Flush   *)
(* is the UPDATE of the commit: assigned columns are overwritten with      *)
(* their absolute values, the others keep what the row holds by then.      *)
(***************************************************************************)
Dirty == [status              : Statuses \cup {NULL},
          used_at             : TimeOrNull,
          attempt_count       : Nat \cup {NULL},
          sent_at             : TimeOrNull,
          delivered_at        : TimeOrNull,
          failed_at           : TimeOrNull,
          provider_message_id : Providers \cup {NULL}]

Clean == [status |-> NULL, used_at |-> NULL, attempt_count |-> NULL,
          sent_at |-> NULL, delivered_at |-> NULL, failed_at |-> NULL,
          provider_message_id |-> NULL]

Assigned(new, old) == IF new = NULL THEN old ELSE new

Flush(row, dirty) ==
    [row EXCEPT
        !.status              = Assigned(dirty.status, @),
        !.used_at             = Assigned(dirty.used_at, @),
        !.attempt_count       = Assigned(dirty.attempt_count, @),
        !.sent_at             = Assigned(dirty.sent_at, @),
        !.delivered_at        = Assigned(dirty.delivered_at, @),
        !.failed_at           = Assigned(dirty.failed_at, @),
        !.provider_message_id = Assigned(dirty.provider_message_id, @)]

\* The commit of a unit of work that holds several rows.
FlushAll(rows, dirty) ==
    [id \in DOMAIN rows |->
        IF id \in DOMAIN dirty THEN Flush(rows[id], dirty[id]) ELSE rows[id]]
=============================================================================
