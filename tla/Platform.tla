------------------------------ MODULE Platform ------------------------------
(***************************************************************************)
(* OtpService, Dispatch and DlrPoll on one table.  Each of these modules   *)
(* stands in for the other two with small actions that may write a row at  *)
(* any moment; here the real handlers, workers and ticks take their place, *)
(* and the users, who know a code only once a provider has carried it.     *)
(*                                                                         *)
(* That every step of the composition is a step one component takes or     *)
(* expects of the others is checked below: what was shown of OtpService    *)
(* and of Dispatch alone then holds of them in the platform.               *)
(***************************************************************************)
EXTENDS OtpRows, Channels, Metrics

CONSTANTS
    Sessions, Workers, Pollers,             \* handlers, Celery workers
    Phones,                                 \* the recipients reached by SMS
    Guesses,                                \* codes that are never issued
    MaxRetries, MaxRedeliveries,            \* see Dispatch
    Answers, Receipts,                      \* see Channels
    DLR_POLL_BATCH_SIZE, DLR_TIMEOUT_SECONDS,
    MaxCrashes,                             \* see DlrPoll
    Horizon                                 \* bound of the clock

\* What the three components assume of the constants they are given.
ASSUME PlatformAssumption ==
    /\ Phones \subseteq Recipients
    /\ {MaxRetries, MaxRedeliveries, MaxCrashes, Horizon} \subseteq Nat
    /\ DLR_POLL_BATCH_SIZE \in Nat \ {0} /\ DLR_TIMEOUT_SECONDS \in Nat
    /\ \A answer \in Answers \cup Receipts : answer.status \in Nat
    /\ NULL \notin [id : Ids, retries : 0..MaxRetries] \cup Codes

VARIABLES
    otps, now,                                  \* shared
    calls, wins, misses,                        \* see OtpService
    requests, queue, workers,
    carried, issued, misread,
    dropped, redeliveries,                      \* see Dispatch
    ticks, fate, crashes                        \* see DlrPoll

serviceVars  == <<calls, wins, misses>>
deliveryVars == <<requests, queue, workers, carried, issued, misread, dropped,
                  redeliveries>>
pollVars     == <<ticks, fate, crashes>>

vars == <<otps, now, serviceVars, deliveryVars, pollVars>>

Service == INSTANCE OtpService WITH
               DeliveryStatuses <- {}, RequestSpan <- 0

Delivery == INSTANCE Dispatch WITH
                DatabaseMayFail <- TRUE, EnqueuesMayFail <- FALSE,
                ServiceStatuses <- {}, PollStatuses <- {}

\* Dispatch is here itself: nothing is kept of the stub the poll has of it.
Polling == INSTANCE DlrPoll WITH
               SmsWithoutId <- FALSE, ServiceStatuses <- {},
               dispatched <- [id \in Ids |-> <<>>]

Init == Service!Init /\ Delivery!Init /\ Polling!Init

(***************************************************************************)
(* POST /otp/request, for a code drawn at random, and its message.         *)
(***************************************************************************)
request_otp(id, r) ==
    /\ Delivery!request_otp(id, r)
    /\ otps'[id].code_hash \notin {hash_code(guess) : guess \in Guesses}
    /\ UNCHANGED <<serviceVars, pollVars>>

\* What a user may have read, from an SMS or an e-mail some provider carried.
Received == {code \in Codes : \E id \in DOMAIN otps :
                carried[id] > 0 /\ otps[id].code_hash = hash_code(code)}

\* POST /otp/verify, with a code the user received or a wrong one.
verify_otp(s) ==
    /\ Service!Serve(s)
    /\ calls'[s].code \in {NULL} \cup Received \cup Guesses
    /\ UNCHANGED <<deliveryVars, pollVars>>

Dispatching ==
    /\ \/ Delivery!Api
       \/ \E w \in Workers : Delivery!Work(w) \/ Delivery!Crash(w)
       \/ \E id \in Ids : Delivery!Replay(id)
    /\ UNCHANGED <<serviceVars, pollVars>>

Reconciling ==
    /\ \E w \in Pollers : Polling!Poll(w) \/ Polling!Crash(w)
    /\ UNCHANGED <<serviceVars, deliveryVars>>

\* The carrier settles a message TunisiaSMS gave an id, before or after the worker
\* stored that id.  What no provider took cannot arrive.
Carrier(p) ==
    /\ issued[p] # NULL
    /\ fate[p] = "transit"
    /\ Polling!Decided(p)
    /\ fate'[p] = "delivered" => carried[issued[p]] > 0
    /\ UNCHANGED <<otps, now, serviceVars, deliveryVars, ticks, crashes>>

Tick == Service!Tick /\ UNCHANGED <<deliveryVars, pollVars>>

Next == \/ \E id \in Ids, r \in Recipients : request_otp(id, r)
        \/ \E s \in Sessions : verify_otp(s)
        \/ Dispatching
        \/ Reconciling
        \/ \E p \in Providers : Carrier(p)
        \/ Tick

Spec == Init /\ [][Next]_vars

-----------------------------------------------------------------------------
(***************************************************************************)
(* What one component knows of a row: the columns of the others blanked.   *)
(***************************************************************************)
WithoutDelivery(row) ==
    [row EXCEPT !.sent_at = NULL, !.delivered_at = NULL, !.failed_at = NULL,
                !.provider_message_id = NULL]

WithoutVerification(row) ==
    [row EXCEPT !.used_at = NULL, !.attempt_count = 0, !.delivered_at = NULL]

\* The table as the service and as dispatch know it, and the copies of the calls.
ServiceRows(rows) == [id \in DOMAIN rows |-> WithoutDelivery(rows[id])]

DeliveryRows(rows) == [id \in DOMAIN rows |-> WithoutVerification(rows[id])]

CallView(call) ==
    IF call.pc = "idle" THEN call ELSE [call EXCEPT !.row = WithoutDelivery(@)]

ServiceCalls(all) == [s \in Sessions |-> CallView(all[s])]

ServiceView == INSTANCE OtpServiceRefinement WITH
    otps  <- ServiceRows(otps),
    calls <- ServiceCalls(calls),
    DeliveryStatuses <- {"sent", "delivered", "failed"},
    RequestSpan <- 0

DeliveryView == INSTANCE Dispatch WITH
    otps <- DeliveryRows(otps),
    DatabaseMayFail <- TRUE, EnqueuesMayFail <- FALSE,
    ServiceStatuses <- {"verified", "expired"},
    PollStatuses <- {"delivered", "failed"}

\* OtpService expects of dispatch and of the poll that they touch a row's status
\* alone among the columns it reads, and never a row it has not issued: everything
\* they do in the platform is that, so what holds of OtpService holds here.
ServiceInContext == ServiceView!Spec

\* Dispatch expects of verify_otp and of the poll that they never make a row
\* PENDING again, and that the poll writes only rows it stored a provider id in.
DeliveryInContext == DeliveryView!Spec

\* With one handler the platform is a one-time code: no send retried, no receipt
\* polled and no status revived lets a code be accepted twice, after its TTL or after
\* the last allowed wrong guess.
OneTimeCodeInContext == ServiceView!ImplementsOneTimeCode

TypeOK == /\ Service!TypeOK
          /\ Delivery!TypeOK
          /\ Polling!TypeOK

\* Nobody is let in with a code that was not sent: a row is verified only after a
\* provider carried its code, even if the row says PENDING or FAILED by then.  Where
\* two rows drew the same code the message of either will do.
VerifiedWasCarried ==
    \A id \in DOMAIN otps :
        otps[id].used_at # NULL =>
            \E sent \in DOMAIN otps : /\ carried[sent] > 0
                                     /\ otps[sent].code_hash = otps[id].code_hash

\* DELIVERED is never a guess, though a message that was redelivered replaced the
\* provider id the receipt was asked for: one of the row's messages did arrive.
DeliveredIsTrue ==
    \A id \in DOMAIN otps :
        otps[id].delivered_at # NULL =>
            \E p \in Providers : issued[p] = id /\ fate[p] = "delivered"

\* "A stable delivery picture regardless of later lifecycle transitions": no step
\* of verify_otp, of a redelivered dispatch or of an overlapping poll makes a count
\* of the dashboard go down.
MetricsAreStable ==
    [][\A ch \in Channels :
          LET m == delivery_metrics(otps, ch)
          IN /\ m.total     <= delivery_metrics(otps, ch)'.total
             /\ m.delivered <= delivery_metrics(otps, ch)'.delivered
             /\ m.failed    <= delivery_metrics(otps, ch)'.failed]_vars
=============================================================================
