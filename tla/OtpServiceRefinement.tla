------------------------ MODULE OtpServiceRefinement ------------------------
(***************************************************************************)
(* With one handler the service is the one-time code of OneTimeCode,       *)
(* whatever the delivery tasks write to the status column meanwhile: the   *)
(* phase is read from used_at, attempt_count and expires_at alone          *)
(* (models/otp.py: the three "together enforce TTL, single-use, and        *)
(* max-retries").                                                          *)
(***************************************************************************)
EXTENDS OtpService

\* A guess judged before expires_at may be committed after it; until then the
\* code counts as live.
JudgedInTime(id) ==
    \E s \in Sessions :
        /\ calls[s].pc = "flushing" /\ calls[s].id = id
        /\ calls[s].dirty.used_at # NULL \/ calls[s].dirty.attempt_count # NULL

IsDead(id) == \/ otps[id].status = "blocked"
              \/ otps[id].attempt_count >= MAX_OTP_ATTEMPTS
              \/ now >= otps[id].expires_at /\ ~JudgedInTime(id)

Phase(id) == IF id \notin DOMAIN otps THEN "none"
             ELSE IF otps[id].used_at # NULL THEN "used"
             ELSE IF IsDead(id) THEN "dead" ELSE "live"

Abs == INSTANCE OneTimeCode WITH
           Callers  <- Sessions,
           MaxTries <- MAX_OTP_ATTEMPTS,
           phase    <- [id \in Ids |-> Phase(id)],
           tries    <- [id \in Ids |-> IF id \in DOMAIN otps
                                       THEN otps[id].attempt_count ELSE 0],
           accepted <- wins

\* Issued once, accepted at most once, at most MAX_OTP_ATTEMPTS wrong guesses,
\* never back from used or dead: verify_otp, served serially, is OneTimeCode, even
\* on rows that a delivery task turns back to an active status.
ImplementsOneTimeCode == Abs!Spec
=============================================================================
