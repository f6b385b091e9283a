---------------------------- MODULE OneTimeCode ----------------------------
(***************************************************************************)
(* What the OTP service promises of one code, stated without tables,       *)
(* sessions or a clock (docstring of verify_otp, models/otp.py lines 16-17 *)
(* "expires_at + used_at + attempt_count together enforce TTL, single-use, *)
(* and max-retries"): a code is issued once, is accepted at most once, is  *)
(* guessed wrong at most MaxTries times, and never comes back once it is   *)
(* used or dead.                                                           *)
(***************************************************************************)
EXTENDS Integers

CONSTANTS Ids, Callers, MaxTries

VARIABLES
    phase,      \* "none", "live", "used" or "dead"
    tries,      \* wrong guesses answered or lost
    accepted    \* accepted[c][id]: times c was told the code is right

vars == <<phase, tries, accepted>>

Init == /\ phase = [id \in Ids |-> "none"]
        /\ tries = [id \in Ids |-> 0]
        /\ accepted = [c \in Callers |-> [id \in Ids |-> 0]]

Issue(id) == /\ phase[id] = "none"
             /\ phase' = [phase EXCEPT ![id] = "live"]
             /\ UNCHANGED <<tries, accepted>>

\* A request the abuse engine refused leaves a code nobody can ever use.
IssueDead(id) == /\ phase[id] = "none"
                 /\ phase' = [phase EXCEPT ![id] = "dead"]
                 /\ UNCHANGED <<tries, accepted>>

\* The answer to a right guess may be lost on its way to the caller.
Accept(id) == /\ phase[id] = "live"
              /\ tries[id] < MaxTries
              /\ phase' = [phase EXCEPT ![id] = "used"]
              /\ \/ \E c \in Callers : accepted' = [accepted EXCEPT ![c][id] = @ + 1]
                 \/ UNCHANGED accepted
              /\ UNCHANGED tries

\* The last wrong guess kills the code; with an earlier one it may have died of
\* age in the meantime.
Miss(id) == /\ phase[id] = "live"
            /\ tries[id] < MaxTries
            /\ tries' = [tries EXCEPT ![id] = @ + 1]
            /\ \E after \in {"live", "dead"} :
                  /\ tries'[id] = MaxTries => after = "dead"
                  /\ phase' = [phase EXCEPT ![id] = after]
            /\ UNCHANGED accepted

\* Codes die of age, several at one tick of the clock.
Expire(ids) == /\ \A id \in ids : phase[id] = "live"
               /\ phase' = [id \in Ids |-> IF id \in ids THEN "dead" ELSE phase[id]]
               /\ UNCHANGED <<tries, accepted>>

Next == \/ \E id \in Ids : Issue(id) \/ IssueDead(id) \/ Accept(id) \/ Miss(id)
        \/ \E ids \in SUBSET Ids : Expire(ids)

Spec == Init /\ [][Next]_vars
=============================================================================
