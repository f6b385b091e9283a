------------------------------ MODULE DlrPoll ------------------------------
(***************************************************************************)
(* tasks/dlr.py: the reconciliation loop that asks TunisiaSMS for delivery *)
(* receipts and moves SENT rows to DELIVERED or FAILED.                    *)
(*                                                                         *)
(* A tick takes its clock once, loads a batch, queries row by row, and     *)
(* commits everything at the end.  Beat starts ticks on a timer; nothing   *)
(* keeps two of them from overlapping when there are several workers.      *)
(***************************************************************************)
EXTENDS OtpRows, Channels, Metrics, Sequences

CONSTANTS
    Pollers,                 \* workers that may run poll_pending
    DLR_POLL_BATCH_SIZE,     \* config.py: rows per tick
    DLR_TIMEOUT_SECONDS,     \* config.py: age at which a SENT row is failed
    Receipts,                \* what TunisiaSMS may answer about a message
    SmsWithoutId,            \* whether dispatch may store an SMS without an id
    ServiceStatuses,         \* what verify_otp may write meanwhile
    MaxCrashes,              \* bound of the workers lost, in a tick or in dispatch
    Horizon                  \* bound of the clock

ASSUME PollAssumption ==
    /\ DLR_POLL_BATCH_SIZE \in Nat \ {0}
    /\ DLR_TIMEOUT_SECONDS \in Nat
    /\ {MaxCrashes, Horizon} \subseteq Nat
    /\ \A answer \in Receipts : answer.status \in Nat
    /\ SmsWithoutId \in BOOLEAN
    /\ ServiceStatuses \subseteq {"verified", "expired"}

VARIABLES
    otps,       \* the table
    now,        \* the clock
    dispatched, \* dispatched[id]: the outcomes dispatch committed to row id so far
    ticks,      \* the tick each poller is running
    fate,       \* fate[p]: what the carrier did with the message p
    crashes     \* workers lost so far: in a tick, or in dispatch, whose message the
                \* broker then delivers again

table == <<otps, now, dispatched>>

vars == <<table, ticks, fate, crashes>>

(***************************************************************************)
(* A tick: "started" once it took the clock, "querying" while it works     *)
(* through its batch.  `seen` maps the rows left to what the loop reads of *)
(* their copies; `dirty` maps the rows done to the columns assigned.       *)
(***************************************************************************)
Copy == [sent_at : Time, provider_message_id : Providers]

IsTickOfRows(tick) ==
    /\ tick.pc \in {"idle", "started", "querying"}
    /\ tick.started \in Time
    /\ DOMAIN tick.seen \subseteq Ids /\ tick.seen \in [DOMAIN tick.seen -> Copy]
    /\ DOMAIN tick.dirty \subseteq Ids /\ tick.dirty \in [DOMAIN tick.dirty -> Dirty]

Nothing == [id \in {} |-> id]

Idle == [pc |-> "idle", started |-> 0, seen |-> Nothing, dirty |-> Nothing]

Init == /\ otps = EmptyTable
        /\ now = 0
        /\ dispatched = [id \in Ids |-> <<>>]
        /\ ticks = [w \in Pollers |-> Idle]
        /\ fate = [p \in Providers |-> "transit"]
        /\ crashes = 0

(***************************************************************************)
(* What the poll finds: rows dispatch committed, an SMS as SENT with the   *)
(* id TunisiaSMS gave it or none, an e-mail with an id of its own, or a    *)
(* refusal of either as FAILED.  A second worker that loaded the row       *)
(* PENDING before the first one's commit (dispatch.py checks the status    *)
(* before it sends, not when it commits) commits its own outcome over      *)
(* whatever the row is by then.                                            *)
(***************************************************************************)
Issued(id) == {p \in Providers : \E i \in DOMAIN dispatched[id] :
                                    dispatched[id][i].provider_message_id = p}

FreeProviders == Providers \ UNION {Issued(id) : id \in Ids}

\* Ids are issued in a fixed order: which fresh one is next makes no difference.
NextId == {p \in FreeProviders : p = CHOOSE q \in FreeProviders : TRUE}

SentNow(p) == [Clean EXCEPT !.status = "sent", !.sent_at = now,
                            !.provider_message_id = p]
RefusedNow == [Clean EXCEPT !.status = "failed", !.failed_at = now]

WithoutId(ch) == IF ch = "sms" /\ SmsWithoutId THEN {NULL} ELSE {}

DispatchOutcomes(ch) ==
    {SentNow(p) : p \in NextId \cup WithoutId(ch)} \cup {RefusedNow}

\* The bound on `now` leaves the clock room for every row to time out.
InGoodTime == now + DLR_TIMEOUT_SECONDS < Horizon

Record(id, d) == dispatched' = [dispatched EXCEPT ![id] = Append(@, d)]

DispatchCommit(id) ==
    /\ id \in FreshIds(otps)
    /\ InGoodTime
    /\ \E r \in Recipients, ch \in Channels, code \in Codes :
          \E d \in DispatchOutcomes(ch) :
             /\ otps' = Insert(otps, id,
                               Flush(NewRow(r, ch, code, "pending",
                                            now, now + OTP_TTL_SECONDS), d))
             /\ Record(id, d)
    /\ UNCHANGED <<now, ticks, fate, crashes>>

DispatchAgain(id) ==
    /\ crashes < MaxCrashes
    /\ id \in DOMAIN otps
    /\ InGoodTime
    /\ \E d \in DispatchOutcomes(otps[id].channel) :
          /\ otps' = [otps EXCEPT ![id] = Flush(@, d)]
          /\ Record(id, d)
    /\ crashes' = crashes + 1
    /\ UNCHANGED <<now, ticks, fate>>

\* The carrier delivers a message or gives up on it, once.
Decided(p) == \E end \in {"delivered", "failed"} : fate' = [fate EXCEPT ![p] = end]

Carrier(p) ==
    /\ \E id \in DOMAIN otps : otps[id].channel = "sms" /\ p \in Issued(id)
    /\ fate[p] = "transit"
    /\ Decided(p)
    /\ UNCHANGED <<table, ticks, crashes>>

\* A commit of verify_otp, decided from a copy that may be stale.
VerifyCommit(id) ==
    /\ id \in DOMAIN otps
    /\ \E st \in ServiceStatuses :
          otps' = [otps EXCEPT ![id] = Flush(@, [Clean EXCEPT !.status = st])]
    /\ UNCHANGED <<now, dispatched, ticks, fate, crashes>>

Clock == /\ now < Horizon
         /\ now' = now + 1
         /\ UNCHANGED <<otps, dispatched, ticks, fate, crashes>>

(***************************************************************************)
(* _poll_pending_async.                                                    *)
(***************************************************************************)
Start(w) ==
    /\ ticks[w].pc = "idle"
    /\ ticks' = [ticks EXCEPT ![w] = [Idle EXCEPT !.pc = "started", !.started = now]]
    /\ UNCHANGED <<table, fate, crashes>>

\* Mutant of InFlightSms: DELIVERED rows are polled again.
InFlightOrDelivered == {id \in DOMAIN otps :
                            /\ otps[id].status \in {"sent", "delivered"}
                            /\ otps[id].channel = "sms"
                            /\ otps[id].provider_message_id # NULL}

InFlightSms == {id \in DOMAIN otps : /\ otps[id].status = "sent"
                                     /\ otps[id].channel = "sms"
                                     /\ otps[id].provider_message_id # NULL}

\* ORDER BY sent_at ASC LIMIT DLR_POLL_BATCH_SIZE; ties go either way.
IsBatch(batch) ==
    /\ batch \subseteq InFlightSms
    /\ \/ Cardinality(batch) = DLR_POLL_BATCH_SIZE
       \/ Cardinality(batch) < DLR_POLL_BATCH_SIZE /\ batch = InFlightSms
    /\ \A id \in batch, left \in InFlightSms \ batch :
          otps[id].sent_at <= otps[left].sent_at

\* No row in flight: the tick is over.
SelectNone(w) ==
    /\ ticks[w].pc = "started"
    /\ InFlightSms = {}
    /\ ticks' = [ticks EXCEPT ![w] = Idle]
    /\ UNCHANGED <<table, fate, crashes>>

Select(w) ==
    /\ ticks[w].pc = "started"
    /\ InFlightSms # {}
    /\ \E batch \in SUBSET InFlightSms :
          /\ IsBatch(batch)
          /\ ticks' = [ticks EXCEPT
                         ![w].pc = "querying",
                         ![w].seen = [id \in batch |->
                            [sent_at             |-> otps[id].sent_at,
                             provider_message_id |-> otps[id].provider_message_id]]]
    /\ UNCHANGED <<table, fate, crashes>>

\* The next row of the batch: the oldest of those left.
IsNext(w, id) ==
    /\ ticks[w].pc = "querying"
    /\ id \in DOMAIN ticks[w].seen
    /\ \A left \in DOMAIN ticks[w].seen :
          ticks[w].seen[id].sent_at <= ticks[w].seen[left].sent_at

Cutoff(w) == ticks[w].started - DLR_TIMEOUT_SECONDS

\* Mutants of TooOld: off by one; no sweep at all.
TooOldEarly(w, id) == ticks[w].seen[id].sent_at <= Cutoff(w)
NeverTooOld(w, id) == FALSE

TooOld(w, id) == ticks[w].seen[id].sent_at < Cutoff(w)

Assign(w, id, dirty) ==
    ticks' = [ticks EXCEPT
                ![w].seen  = [i \in DOMAIN ticks[w].seen \ {id} |-> ticks[w].seen[i]],
                ![w].dirty = [i \in DOMAIN ticks[w].dirty \cup {id} |->
                                 IF i = id THEN dirty ELSE ticks[w].dirty[i]]]

\* Mutants of DeliveredAt: the row stays SENT; it takes the provider's own word for
\* its status.
DeliveredStillSent(t) == [Clean EXCEPT !.delivered_at = t]
DeliveredRaw(t)       == [Clean EXCEPT !.status = "delivrd", !.delivered_at = t]

DeliveredAt(t) == [Clean EXCEPT !.status = "delivered", !.delivered_at = t]

\* Mutant of FailedAt: the count of wrong guesses is reset.
FailedAtReset(t) ==
    [Clean EXCEPT !.status = "failed", !.failed_at = t, !.attempt_count = 0]

FailedAt(t) == [Clean EXCEPT !.status = "failed", !.failed_at = t]

\* The timeout sweep: failed without a query.
Sweep(w, id) ==
    /\ IsNext(w, id) /\ TooOld(w, id)
    /\ Assign(w, id, FailedAt(ticks[w].started))
    /\ UNCHANGED <<table, fate, crashes>>

\* query_dlr is asked with the id of the copy.
Answered(w, id, answer) ==
    /\ IsNext(w, id) /\ ~TooOld(w, id)
    /\ Truthful(answer, fate[ticks[w].seen[id].provider_message_id])

Receipt(w, id) ==
    /\ \E answer \in Receipts :
          /\ Answered(w, id, answer)
          /\ \/ /\ query_dlr(answer) = "delivered"
                /\ Assign(w, id, DeliveredAt(ticks[w].started))
             \/ /\ query_dlr(answer) = "failed"
                /\ Assign(w, id, FailedAt(ticks[w].started))
             \/ /\ query_dlr(answer) \in {"pending", "unknown"}
                /\ Assign(w, id, Clean)
    /\ UNCHANGED <<table, fate, crashes>>

\* An exception of query_dlr leaves the loop: the session closes without the
\* commit, and with it goes all that the tick has assigned.
Garbled(w, id) ==
    /\ \E answer \in Receipts :
          Answered(w, id, answer) /\ query_dlr(answer) = "error"
    /\ ticks' = [ticks EXCEPT ![w] = Idle]
    /\ UNCHANGED <<table, fate, crashes>>

\* The one commit of the tick, over whatever the rows hold by now.
CommitAll(w) ==
    /\ ticks[w].pc = "querying" /\ DOMAIN ticks[w].seen = {}
    /\ otps' = FlushAll(otps, ticks[w].dirty)
    /\ ticks' = [ticks EXCEPT ![w] = Idle]
    /\ UNCHANGED <<now, dispatched, fate, crashes>>

\* The worker dies or the commit fails: nothing of the tick reaches the table.
Crash(w) ==
    /\ crashes < MaxCrashes
    /\ ticks[w].pc # "idle"
    /\ ticks' = [ticks EXCEPT ![w] = Idle]
    /\ crashes' = crashes + 1
    /\ UNCHANGED <<table, fate>>

Poll(w) == \/ Start(w) \/ SelectNone(w) \/ Select(w) \/ CommitAll(w)
           \/ \E id \in Ids : Sweep(w, id) \/ Receipt(w, id) \/ Garbled(w, id)

Next == \/ \E id \in Ids : DispatchCommit(id) \/ DispatchAgain(id) \/ VerifyCommit(id)
        \/ \E p \in Providers : Carrier(p)
        \/ \E w \in Pollers : Poll(w) \/ Crash(w)
        \/ Clock

Spec == Init /\ [][Next]_vars

\* Time passes and Beat keeps starting ticks that run; nothing is assumed of
\* the carrier, of the user or of what the DLR endpoint answers.
Fairness == WF_vars(Clock) /\ \A w \in Pollers : WF_vars(Poll(w))

FairSpec == Spec /\ Fairness

-----------------------------------------------------------------------------
TypeOK == /\ IsTable(otps)
          /\ now \in 0..Horizon
          /\ dispatched \in [Ids -> Seq(Dirty)]
          /\ DOMAIN ticks = Pollers
          /\ \A w \in Pollers : IsTickOfRows(ticks[w])
          /\ fate \in [Providers -> {"transit", "delivered", "failed"}]
          /\ crashes \in 0..MaxCrashes

WasDelivered(id) == \E p \in Issued(id) : fate[p] = "delivered"

\* Never DELIVERED on doubt: delivered_at is set only if the carrier delivered a
\* message of the row, whatever the DLR endpoint answers, fails to answer or answers
\* late, and also when the id it was asked about has been replaced since.
DeliveredIsTrue ==
    \A id \in DOMAIN otps :
        otps[id].delivered_at # NULL => WasDelivered(id)

FailureDeserved(id, t) ==
    \E i \in DOMAIN dispatched[id] :
        LET d == dispatched[id][i]
        IN \/ d.failed_at = t
           \/ d.provider_message_id # NULL /\ fate[d.provider_message_id] = "failed"
           \/ d.sent_at # NULL /\ d.sent_at < t - DLR_TIMEOUT_SECONDS

\* A row is failed only for an outcome dispatch committed: a refusal, a message the
\* carrier gave up on, or one past the timeout, also when the tick that judged it took
\* its clock, and its copy, long before its commit.
FailedIsDeserved ==
    \A id \in DOMAIN otps :
        otps[id].failed_at # NULL => FailureDeserved(id, otps[id].failed_at)

Redispatched(ch) == {id \in Aggregated(otps, ch) : Len(dispatched[id]) > 1}

\* What GET /otp/metrics calls in flight falls short of the messages sent that have
\* neither receipt by at most one for every row dispatch committed more than once:
\* polling by itself never gives a row both receipts.
MetricsNearlyAddUp ==
    \A ch \in Channels :
        Cardinality(AwaitingReceipt(otps, ch)) - delivery_metrics(otps, ch).in_flight
            \in 0..Cardinality(Redispatched(ch))

KeepsReceipts(id) == /\ otps[id].delivered_at # NULL =>
                            otps'[id].delivered_at = otps[id].delivered_at
                     /\ otps[id].failed_at # NULL =>
                            otps'[id].failed_at = otps[id].failed_at

\* "delivered_at / failed_at are write-once" (decisions.md): so they are on a row
\* dispatch committed once.  No late tick, retried query or verification in between
\* makes the poll stamp it again.
WriteOnceUnlessRedispatched ==
    [][\A id \in DOMAIN otps : Len(dispatched'[id]) = 1 => KeepsReceipts(id)]_vars

\* Nothing stays SENT for ever among the rows the poll can ask about, even behind
\* a batch of older rows the provider never answers for, a message whose receipt
\* is garbled every time, and ticks that die.
PolledRowsSettle ==
    \A id \in Ids :
        id \in InFlightSms ~> id \in DOMAIN otps /\ otps[id].status # "sent"

\* "A provider that simply stops answering must never wedge an OTP in SENT
\* forever": said of every SMS.
EverySmsSettles ==
    \A id \in Ids :
        id \in DOMAIN otps /\ otps[id].channel = "sms"
            ~> id \in DOMAIN otps /\ otps[id].status # "sent"
=============================================================================
