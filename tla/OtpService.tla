----------------------------- MODULE OtpService -----------------------------
(***************************************************************************)
(* services/otp_service.py behind the API: create_otp, record_blocked and  *)
(* verify_otp, run by the request handlers of Sessions.                    *)
(*                                                                         *)
(* A verify call awaits twice: at its SELECT and at its commit.  Between   *)
(* the two it decides from the copy it loaded.  Other calls, and the       *)
(* commits of the delivery tasks, take their steps at the awaits; so one   *)
(* call is three steps: Select, then one of the decisions, then Commit.    *)
(* A session stands for a handler that serves one call after another; the  *)
(* number of sessions is the number of calls that can overlap.             *)
(***************************************************************************)
EXTENDS OtpRows

CONSTANTS
    Sessions,            \* handlers that serve verify calls
    Phones,              \* the recipients reached by SMS, the others by e-mail
    DeliveryStatuses,    \* what the delivery tasks may write to a row's status
    RequestSpan,         \* ticks between a request's first query and its commit
    Horizon              \* bound of the clock

ASSUME ServiceAssumption ==
    /\ Phones \subseteq Recipients
    /\ DeliveryStatuses \subseteq {"sent", "delivered", "failed"}
    /\ RequestSpan \in Nat
    /\ Horizon \in Nat

VARIABLES
    otps,       \* the table
    now,        \* the clock the API and the database share
    calls,      \* the verify call each session is serving
    wins,       \* wins[s][id]: times s answered verified=True for id
    misses      \* misses[id]: wrong guesses answered for id

vars == <<otps, now, calls, wins, misses>>

(***************************************************************************)
(* VerifyOutcome, and the state of a call: "loaded" after the SELECT, with *)
(* the copy in `row`; "flushing" once decided, with the assigned columns   *)
(* in `dirty` and the answer to give after the commit in `reply`.          *)
(***************************************************************************)
Reply(verified, remaining, status) ==
    [verified |-> verified, attempts_remaining |-> remaining, status |-> status]

VerifyOutcome == [verified : BOOLEAN, attempts_remaining : Int, status : Statuses]

Call == [pc    : {"idle", "loaded", "flushing"},
         id    : Ids \cup {NULL},
         code  : Codes \cup {NULL},
         row   : Row \cup {NULL},
         dirty : Dirty,
         reply : VerifyOutcome \cup {NULL}]

Idle == [pc |-> "idle", id |-> NULL, code |-> NULL, row |-> NULL,
         dirty |-> Clean, reply |-> NULL]

Channel(r) == IF r \in Phones THEN "sms" ELSE "email"

Init == /\ otps = EmptyTable
        /\ now = 0
        /\ calls = [s \in Sessions |-> Idle]
        /\ wins = [s \in Sessions |-> [id \in Ids |-> 0]]
        /\ misses = [id \in Ids |-> 0]

(***************************************************************************)
(* Issuing.  created_at is now() of the server: the start of the request's *)
(* transaction, up to RequestSpan before its commit; expires_at is read    *)
(* from the clock when the row is built.                                   *)
(***************************************************************************)
CreatedAt == {t \in 0..now : now - t <= RequestSpan}

create_otp(id, r, code) ==
    /\ id \in FreshIds(otps)
    /\ \E created \in CreatedAt :
          otps' = Insert(otps, id, NewRow(r, Channel(r), code, "pending",
                                          created, now + OTP_TTL_SECONDS))
    /\ UNCHANGED <<now, calls, wins, misses>>

\* The audit row of a request the abuse engine refused; its code is thrown away.
record_blocked(id, r, code) ==
    /\ id \in FreshIds(otps)
    /\ \E created \in CreatedAt :
          otps' = Insert(otps, id, NewRow(r, Channel(r), code, "blocked",
                                          created, now))
    /\ UNCHANGED <<now, calls, wins, misses>>

(***************************************************************************)
(* verify_otp, up to its first await.                                      *)
(***************************************************************************)
Select(s, r, code) ==
    /\ calls[s].pc = "idle"
    /\ \E id \in LatestActive(otps, r) :
          calls' = [calls EXCEPT ![s] = [Idle EXCEPT !.pc   = "loaded",
                                                     !.id   = id,
                                                     !.code = code,
                                                     !.row  = otps[id]]]
    /\ UNCHANGED <<otps, now, wins, misses>>

\* No active row: answered (False, 0, EXPIRED) without touching anything.
SelectNone(s, r) ==
    /\ calls[s].pc = "idle"
    /\ LatestActive(otps, r) = {}
    /\ UNCHANGED vars

(***************************************************************************)
(* The decisions of verify_otp, in the order of the code: each is guarded  *)
(* by the failure of the checks before it.                                 *)
(***************************************************************************)
\* Mutants of the guards below: TTL off by one, used_at not looked at, cap not
\* looked at.
InTimeLate(s)        == calls[s].pc = "loaded" /\ now <= calls[s].row.expires_at
UnusedUnchecked(s)   == calls[s].pc = "loaded" /\ now < calls[s].row.expires_at
BelowCapUnchecked(s) == UnusedUnchecked(s) /\ calls[s].row.used_at = NULL

Loaded(s)   == calls[s].pc = "loaded"
InTime(s)   == Loaded(s) /\ now < calls[s].row.expires_at
Unused(s)   == InTime(s) /\ calls[s].row.used_at = NULL
BelowCap(s) == Unused(s) /\ calls[s].row.attempt_count < MAX_OTP_ATTEMPTS

\* Mutant of verify_code: any code will do.
VerifyAnyCode(code, code_hash) == TRUE

verify_code(code, code_hash) == hash_code(code) = code_hash
Matches(s) == verify_code(calls[s].code, calls[s].row.code_hash)

Decide(s, dirty, reply) ==
    /\ calls' = [calls EXCEPT ![s].pc = "flushing",
                              ![s].dirty = dirty,
                              ![s].reply = reply]
    /\ UNCHANGED <<otps, now, wins, misses>>

Expired(s) ==
    /\ Loaded(s) /\ ~InTime(s)
    /\ Decide(s, [Clean EXCEPT !.status = "expired"], Reply(FALSE, 0, "expired"))

\* Answered at once, nothing assigned and nothing committed.
AlreadyUsed(s) ==
    /\ InTime(s) /\ ~Unused(s)
    /\ calls' = [calls EXCEPT ![s] = Idle]
    /\ UNCHANGED <<otps, now, wins, misses>>

LockedOut(s) ==
    /\ Unused(s) /\ ~BelowCap(s)
    /\ Decide(s, [Clean EXCEPT !.status = "expired"], Reply(FALSE, 0, "expired"))

\* Mutant of Match: used_at is not stamped.
MatchWithoutStamp(s) ==
    /\ BelowCap(s) /\ Matches(s)
    /\ Decide(s, [Clean EXCEPT !.status = "verified"],
              Reply(TRUE, MAX_OTP_ATTEMPTS - calls[s].row.attempt_count, "verified"))

Match(s) ==
    /\ BelowCap(s) /\ Matches(s)
    /\ Decide(s, [Clean EXCEPT !.status = "verified", !.used_at = now],
              Reply(TRUE, MAX_OTP_ATTEMPTS - calls[s].row.attempt_count, "verified"))

Miss(s) ==
    /\ BelowCap(s) /\ ~Matches(s)
    /\ LET count == calls[s].row.attempt_count + 1
       IN IF count >= MAX_OTP_ATTEMPTS
          THEN Decide(s, [Clean EXCEPT !.attempt_count = count, !.status = "expired"],
                      Reply(FALSE, 0, "expired"))
          ELSE Decide(s, [Clean EXCEPT !.attempt_count = count],
                      Reply(FALSE, MAX_OTP_ATTEMPTS - count, calls[s].row.status))

(***************************************************************************)
(* The second await.  Commit is the UPDATE, the COMMIT and the answer; the *)
(* answer may be lost after the COMMIT, and the call may die before it     *)
(* (database error, process killed, client gone).                          *)
(***************************************************************************)
\* Mutant of Flushed: the commit is moved before the increment of attempt_count.
FlushedWithoutCount(s) ==
    [otps EXCEPT ![calls[s].id] =
        Flush(@, [calls[s].dirty EXCEPT !.attempt_count = NULL])]

\* Mutant of Flushed: the whole copy is written back.
FlushedWholeCopy(s) ==
    [otps EXCEPT ![calls[s].id] = Flush(calls[s].row, calls[s].dirty)]

Flushed(s) == [otps EXCEPT ![calls[s].id] = Flush(@, calls[s].dirty)]

Commit(s) ==
    /\ calls[s].pc = "flushing"
    /\ otps' = Flushed(s)
    /\ wins' = IF calls[s].reply.verified
               THEN [wins EXCEPT ![s][calls[s].id] = @ + 1] ELSE wins
    /\ misses' = IF calls[s].dirty.attempt_count # NULL
                 THEN [misses EXCEPT ![calls[s].id] = @ + 1] ELSE misses
    /\ calls' = [calls EXCEPT ![s] = Idle]
    /\ UNCHANGED now

\* Mutant of CommitUnanswered: the session keeps the last call's copy.
CommitUnansweredKeepsCopy(s) ==
    /\ calls[s].pc = "flushing"
    /\ otps' = Flushed(s)
    /\ calls' = [calls EXCEPT ![s].pc = "idle"]
    /\ UNCHANGED <<now, wins, misses>>

CommitUnanswered(s) ==
    /\ calls[s].pc = "flushing"
    /\ otps' = Flushed(s)
    /\ calls' = [calls EXCEPT ![s] = Idle]
    /\ UNCHANGED <<now, wins, misses>>

Abandon(s) ==
    /\ calls[s].pc # "idle"
    /\ calls' = [calls EXCEPT ![s] = Idle]
    /\ UNCHANGED <<otps, now, wins, misses>>

(***************************************************************************)
(* The delivery tasks, as the service sees them: at any moment dispatch    *)
(* commits the status of a row, or the DLR poll those of a batch, decided  *)
(* from copies of their own.  Every row but a BLOCKED one has been handed  *)
(* to them.                                                                *)
(***************************************************************************)
DeliveryCommit(ids) ==
    /\ ids # {}
    /\ \A id \in ids : otps[id].status # "blocked"
    /\ \E status \in [ids -> DeliveryStatuses] :
          otps' = FlushAll(otps, [id \in ids |-> [Clean EXCEPT !.status = status[id]]])
    /\ UNCHANGED <<now, calls, wins, misses>>

Tick == /\ now < Horizon
        /\ now' = now + 1
        /\ UNCHANGED <<otps, calls, wins, misses>>

Serve(s) == \/ \E r \in Recipients : SelectNone(s, r)
            \/ \E r \in Recipients, code \in Codes : Select(s, r, code)
            \/ Expired(s) \/ AlreadyUsed(s) \/ LockedOut(s) \/ Match(s) \/ Miss(s)
            \/ Commit(s) \/ CommitUnanswered(s) \/ Abandon(s)

Next == \/ \E id \in Ids, r \in Recipients, code \in Codes :
              create_otp(id, r, code) \/ record_blocked(id, r, code)
        \/ \E s \in Sessions : Serve(s)
        \/ \E ids \in SUBSET DOMAIN otps : DeliveryCommit(ids)
        \/ Tick

Spec == Init /\ [][Next]_vars

-----------------------------------------------------------------------------
\* Every variable keeps its type; a call in progress holds what its step needs.
CallShape(s) ==
    /\ calls[s] \in Call
    /\ calls[s].pc = "idle" => calls[s] = Idle
    /\ calls[s].pc # "idle" =>
          /\ calls[s].id \in DOMAIN otps
          /\ calls[s].code \in Codes
          /\ calls[s].row \in Row
    /\ calls[s].pc = "flushing" => calls[s].reply \in VerifyOutcome

TypeOK == /\ IsTable(otps)
          /\ now \in 0..Horizon
          /\ DOMAIN calls = Sessions
          /\ \A s \in Sessions : CallShape(s)
          /\ wins \in [Sessions -> [Ids -> Nat]]
          /\ misses \in [Ids -> Nat]

\* attempt_count never passes MAX_OTP_ATTEMPTS, whatever calls overlap, however
\* their absolute writes of attempt_count cross (verify_otp, step 6) and even on a
\* locked row that a delivery task made active again.
AttemptsWithinCap ==
    \A id \in DOMAIN otps : otps[id].attempt_count <= MAX_OTP_ATTEMPTS

\* A code is never accepted at or after its expires_at, even by a call that
\* loaded the row in time and was delayed (verify_otp, step 2, judges the TTL
\* after the SELECT returned).  The clock reads of steps 2 and 5 have no await
\* between them and count as one tick.
UsedInTime ==
    \A id \in DOMAIN otps :
        otps[id].used_at # NULL => otps[id].used_at < otps[id].expires_at

\* The answer verified=True is given only once used_at is durable, and no later
\* commit of a verify call or a delivery task clears it ("All transitions commit
\* before returning").
AcceptanceIsDurable ==
    \A s \in Sessions, id \in Ids :
        wins[s][id] > 0 => id \in DOMAIN otps /\ otps[id].used_at # NULL

\* A handler that serves its calls one after another accepts a code at most
\* once, even when a delivery task turns the VERIFIED row back to DELIVERED and
\* _latest_active_otp offers it again: the used_at check of verify_otp (step 3)
\* is what holds.  So a code is accepted at most once per overlapping call.
AcceptedOncePerHandler ==
    \A s \in Sessions, id \in Ids : wins[s][id] <= 1

\* "OTP must not be already used": a code is accepted once, by one call.
AcceptedOnce ==
    \A id \in Ids, s, t \in Sessions :
        wins[s][id] > 0 /\ wins[t][id] > 0 => s = t /\ wins[s][id] = 1

\* No wrong guess is answered without being counted on the row.
MissesAreCounted ==
    \A id \in DOMAIN otps : misses[id] <= otps[id].attempt_count

\* MAX_OTP_ATTEMPTS: no more wrong guesses than that are ever answered.
GuessesWithinCap ==
    \A id \in Ids : misses[id] <= MAX_OTP_ATTEMPTS

\* What MAX_OTP_ATTEMPTS is worth when two calls overlap (Sessions has two
\* members): each can write back a count it read before the other's guesses, so
\* the cap of MAX guesses grows, but only to 2 + 3 + ... + (MAX + 1) of them; with
\* n handlers the bound TLC finds is the binomial (MAX + n over n) - 1.
GuessesWithinPairBudget ==
    \A id \in Ids :
        2 * misses[id] <= MAX_OTP_ATTEMPTS * (MAX_OTP_ATTEMPTS + 3)

\* After the last allowed wrong guess was answered the right code is refused,
\* even on a row a delivery task revived (verify_otp, step 4).
LockoutHolds ==
    [][\A s \in Sessions, id \in Ids :
          wins'[s][id] # wins[s][id] => misses[id] < MAX_OTP_ATTEMPTS]_vars

\* The audit row of a refused request is inert: no guess ever reaches it and
\* nothing about it changes.
BlockedIsInert ==
    [][\A id \in DOMAIN otps :
          otps[id].status = "blocked" =>
              /\ otps'[id] = otps[id]
              /\ \A s \in Sessions : calls[s].id # id]_vars

=============================================================================
