------------------------------ MODULE Dispatch ------------------------------
(***************************************************************************)
(* From the API to the provider: POST /otp/request and /otp/resend create  *)
(* a row and enqueue dispatch_otp; Celery workers take the message, send   *)
(* the code on the row's channel and commit the outcome                    *)
(* (api/otp.py, tasks/dispatch.py, tasks/celery_app.py, channels/).        *)
(*                                                                         *)
(* Celery acknowledges late: a message leaves the broker when the task has *)
(* ended, and goes back to the queue when its worker is lost.              *)
(***************************************************************************)
EXTENDS OtpRows, Channels, FiniteSets, Bags

CONSTANTS
    Workers,             \* Celery worker processes
    Phones,              \* the recipients reached by SMS, the others by e-mail
    MaxRetries,          \* max_retries of the task (3)
    Answers,             \* what providers may answer to a send, see Channels
    DatabaseMayFail,     \* whether the database may fail a worker's query
    EnqueuesMayFail,     \* whether the broker may refuse a message
    ServiceStatuses,     \* what verify_otp may write to a row's status meanwhile
    PollStatuses,        \* what the DLR poll may write to it
    MaxRedeliveries,     \* bound of the worker crashes and replays by hand
    Horizon              \* bound of the clock

ASSUME DispatchAssumption ==
    /\ Phones \subseteq Recipients
    /\ {MaxRetries, MaxRedeliveries, Horizon} \subseteq Nat
    /\ \A answer \in Answers : answer.status \in Nat
    /\ DatabaseMayFail \in BOOLEAN /\ EnqueuesMayFail \in BOOLEAN
    /\ ServiceStatuses \subseteq {"verified", "expired"}
    /\ PollStatuses \subseteq {"delivered", "failed"}

VARIABLES
    otps,        \* the table
    now,         \* the clock
    requests,    \* rows committed by an API request that has yet to enqueue
    queue,       \* bag of messages [id, retries] ready in the broker
    workers,     \* what each worker is doing
    carried,     \* carried[id]: times a provider took a message for id
    issued,      \* issued[p]: the row whose message got provider id p
    misread,     \* rows a provider refused in an answer taken for a success
    dropped,     \* rows some task or request gave up without changing them
    redeliveries \* messages a crash gave back or a hand re-enqueued so far

table == <<otps, now>>
provider == <<carried, issued, misread>>

vars == <<table, requests, queue, workers, provider, dropped, redeliveries>>

Message == [id : Ids, retries : 0..MaxRetries]

\* No row and no message is None.
ASSUME NoneAssumption == NULL \notin Message

(***************************************************************************)
(* A worker holds one message (worker_prefetch_multiplier=1) until it acks *)
(* it: "reserved" before the SELECT, "sending" with a PENDING copy,        *)
(* "flushing" before the commit, "retrying" after TransientChannelError,   *)
(* "acking" once the task has ended.                                       *)
(***************************************************************************)
Worker == [pc : {"idle", "reserved", "sending", "flushing", "retrying", "acking"},
           msg : Message \cup {NULL},
           dirty : Dirty]

Idle == [pc |-> "idle", msg |-> NULL, dirty |-> Clean]

Init == /\ otps = EmptyTable
        /\ now = 0
        /\ requests = {}
        /\ queue = EmptyBag
        /\ workers = [w \in Workers |-> Idle]
        /\ carried = [id \in Ids |-> 0]
        /\ issued = [p \in Providers |-> NULL]
        /\ misread = {}
        /\ dropped = {}
        /\ redeliveries = 0

(***************************************************************************)
(* request_otp and resend_otp, once the abuse engine let them pass: the    *)
(* row is committed, then dispatch_otp.delay publishes the message.  The   *)
(* process may die, or the broker refuse, between the two.                 *)
(***************************************************************************)
Channel(r) == IF r \in Phones THEN "sms" ELSE "email"

request_otp(id, r) ==
    /\ id \in FreshIds(otps)
    /\ \E code \in Codes :
          otps' = Insert(otps, id, NewRow(r, Channel(r), code, "pending",
                                          now, now + OTP_TTL_SECONDS))
    /\ requests' = requests \cup {id}
    /\ UNCHANGED <<now, queue, workers, provider, dropped, redeliveries>>

Publish(msg) == queue' = queue (+) SetToBag({msg})

Enqueue(id) ==
    /\ id \in requests
    /\ requests' = requests \ {id}
    /\ Publish([id |-> id, retries |-> 0])
    /\ UNCHANGED <<table, workers, provider, dropped, redeliveries>>

EnqueueFails(id) ==
    /\ EnqueuesMayFail
    /\ id \in requests
    /\ requests' = requests \ {id}
    /\ dropped' = dropped \cup {id}
    /\ UNCHANGED <<table, queue, workers, provider, redeliveries>>

\* "Manual replay safety": an operator publishes the message of a row once more.
Replay(id) ==
    /\ redeliveries < MaxRedeliveries
    /\ id \in DOMAIN otps
    /\ Publish([id |-> id, retries |-> 0])
    /\ redeliveries' = redeliveries + 1
    /\ UNCHANGED <<table, requests, workers, provider, dropped>>

(***************************************************************************)
(* The worker.                                                             *)
(***************************************************************************)
At(w, pc) == workers[w].pc = pc
Target(w) == workers[w].msg.id

Goto(w, pc) == workers' = [workers EXCEPT ![w].pc = pc]

\* The broker hands out a message and keeps it until the ack.
Reserve(w) ==
    /\ At(w, "idle")
    /\ \E msg \in BagToSet(queue) :
          /\ workers' = [workers EXCEPT ![w] = [Idle EXCEPT !.pc = "reserved",
                                                            !.msg = msg]]
          /\ queue' = queue (-) SetToBag({msg})
    /\ UNCHANGED <<table, requests, provider, dropped, redeliveries>>

\* An exception that is none to retry on, or a message the broker refuses, ends the
\* task: Celery acknowledges its message, and the row stays as it is.
Fails(w) == dropped' = dropped \cup {Target(w)} /\ Goto(w, "acking")

\* session.get and the idempotency check.  The message was published after the
\* row was committed and nothing deletes rows, so the row is always found.
Load(w) ==
    /\ At(w, "reserved")
    /\ Goto(w, IF otps[Target(w)].status = "pending" THEN "sending" ELSE "acking")
    /\ UNCHANGED <<table, requests, queue, provider, dropped, redeliveries>>

\* session.get may raise a database error: no TransientChannelError.
LoadFails(w) ==
    /\ DatabaseMayFail
    /\ At(w, "reserved")
    /\ Fails(w)
    /\ UNCHANGED <<table, requests, queue, provider, redeliveries>>

Carry(w) == carried' = [carried EXCEPT ![Target(w)] = @ + 1]

Decide(w, dirty) ==
    workers' = [workers EXCEPT ![w].pc = "flushing", ![w].dirty = dirty]

\* Mutant of Sent: sent_at is not stamped.
SentUnstamped == [Clean EXCEPT !.status = "sent"]

Sent == [Clean EXCEPT !.status = "sent", !.sent_at = now]
Failed == [Clean EXCEPT !.status = "failed", !.failed_at = now]

\* The id of an accepted message is stored with SENT; without one the column
\* stays NULL.
Accepted(w, channel, answer) ==
    /\ send(channel, answer) = "accepted"
    /\ IF NamesMessage(channel, answer)
       THEN \E p \in Providers :
               /\ issued[p] = NULL
               /\ issued' = [issued EXCEPT ![p] = Target(w)]
               /\ Decide(w, [Sent EXCEPT !.provider_message_id = p])
       ELSE Decide(w, Sent) /\ UNCHANGED issued
    /\ UNCHANGED dropped

\* Mutant of Refused: a refusal is recorded as a send.
RefusedAsSent(w, channel, answer) ==
    /\ send(channel, answer) \in {"rejected", "permanent"}
    /\ Decide(w, Sent)
    /\ UNCHANGED <<issued, dropped>>

\* REJECTED, or PermanentChannelError: bad recipient or bad credentials.
Refused(w, channel, answer) ==
    /\ send(channel, answer) \in {"rejected", "permanent"}
    /\ Decide(w, Failed)
    /\ UNCHANGED <<issued, dropped>>

\* RETRY is turned into the TransientChannelError that Celery retries on.
Transient(w, channel, answer) ==
    /\ send(channel, answer) \in {"retry", "transient"}
    /\ Goto(w, "retrying")
    /\ UNCHANGED <<issued, dropped>>

\* Any other exception ends the task for good.
Raises(w, channel, answer) ==
    /\ send(channel, answer) = "error"
    /\ Fails(w)
    /\ UNCHANGED issued

Send(w) ==
    /\ At(w, "sending")
    /\ LET channel == otps[Target(w)].channel
       IN \E answer \in Answers :
             /\ answer.protocol = Protocol(channel)
             /\ \E taken \in MayHaveTaken(channel, answer) :
                   IF taken THEN Carry(w) ELSE UNCHANGED carried
             /\ misread' = misread \cup {id \in {Target(w)} : Misreads(channel, answer)}
             /\ \/ Accepted(w, channel, answer)
                \/ Refused(w, channel, answer)
                \/ Transient(w, channel, answer)
                \/ Raises(w, channel, answer)
    /\ UNCHANGED <<table, requests, queue, redeliveries>>

Commit(w) ==
    /\ At(w, "flushing")
    /\ otps' = [otps EXCEPT ![Target(w)] = Flush(@, workers[w].dirty)]
    /\ Goto(w, "acking")
    /\ UNCHANGED <<now, requests, queue, provider, dropped, redeliveries>>

\* So may the commit.
CommitFails(w) ==
    /\ DatabaseMayFail
    /\ At(w, "flushing")
    /\ Fails(w)
    /\ UNCHANGED <<table, requests, queue, provider, redeliveries>>

\* Mutants of Retry: one attempt too many; the attempts are not counted.
RetryOnceTooOften(w) ==
    /\ At(w, "retrying")
    /\ workers[w].msg.retries <= MaxRetries
    /\ Publish([id |-> Target(w), retries |-> workers[w].msg.retries + 1])
    /\ Goto(w, "acking")
    /\ UNCHANGED <<table, requests, provider, dropped, redeliveries>>

RetryForever(w) ==
    /\ At(w, "retrying")
    /\ Publish(workers[w].msg)
    /\ Goto(w, "acking")
    /\ UNCHANGED <<table, requests, provider, dropped, redeliveries>>

\* autoretry_for publishes the next attempt and then lets this one end.
Retry(w) ==
    /\ At(w, "retrying")
    /\ workers[w].msg.retries < MaxRetries
    /\ Publish([id |-> Target(w), retries |-> workers[w].msg.retries + 1])
    /\ Goto(w, "acking")
    /\ UNCHANGED <<table, requests, provider, dropped, redeliveries>>

\* The broker does not take the next attempt: Celery rejects the message it holds,
\* without a requeue.
RetryFails(w) ==
    /\ EnqueuesMayFail
    /\ At(w, "retrying")
    /\ workers[w].msg.retries < MaxRetries
    /\ Fails(w)
    /\ UNCHANGED <<table, requests, queue, provider, redeliveries>>

\* Retries exhausted.
GiveUp(w) ==
    /\ At(w, "retrying")
    /\ workers[w].msg.retries = MaxRetries
    /\ Fails(w)
    /\ UNCHANGED <<table, requests, queue, provider, redeliveries>>

\* Mutant of Ack: the worker keeps the message it acknowledged.
AckKeepsMessage(w) ==
    /\ At(w, "acking")
    /\ Goto(w, "idle")
    /\ UNCHANGED <<table, requests, queue, provider, dropped, redeliveries>>

Ack(w) ==
    /\ At(w, "acking")
    /\ workers' = [workers EXCEPT ![w] = Idle]
    /\ UNCHANGED <<table, requests, queue, provider, dropped, redeliveries>>

\* Mutant of Crash: messages are acknowledged before the task runs.
CrashLosesMessage(w) ==
    /\ redeliveries < MaxRedeliveries
    /\ ~At(w, "idle")
    /\ workers' = [workers EXCEPT ![w] = Idle]
    /\ redeliveries' = redeliveries + 1
    /\ UNCHANGED <<table, requests, queue, provider, dropped>>

\* task_reject_on_worker_lost, or the visibility timeout: back to the queue.
Crash(w) ==
    /\ redeliveries < MaxRedeliveries
    /\ ~At(w, "idle")
    /\ Publish(workers[w].msg)
    /\ workers' = [workers EXCEPT ![w] = Idle]
    /\ redeliveries' = redeliveries + 1
    /\ UNCHANGED <<table, requests, provider, dropped>>

(***************************************************************************)
(* Around the workers: the commits of verify_otp and of the DLR poll, each *)
(* decided from a copy that may be stale, and the clock.                   *)
(***************************************************************************)
VerifyCommit(id) ==
    /\ id \in DOMAIN otps
    /\ \E st \in ServiceStatuses :
          otps' = [otps EXCEPT ![id] = Flush(@, [Clean EXCEPT !.status = st])]
    /\ UNCHANGED <<now, requests, queue, workers, provider, dropped, redeliveries>>

\* The poll asks about rows it has a provider id for, and commits what it learnt of
\* a batch at once; its clock may lag.
Receipt(st, t) == IF st = "failed"
                  THEN [Clean EXCEPT !.status = st, !.failed_at = t]
                  ELSE [Clean EXCEPT !.status = st]

PollCommit(ids) ==
    /\ ids # {}
    /\ \A id \in ids : otps[id].provider_message_id # NULL
    /\ \E status \in [ids -> PollStatuses], t \in 0..now :
          otps' = FlushAll(otps, [id \in ids |-> Receipt(status[id], t)])
    /\ UNCHANGED <<now, requests, queue, workers, provider, dropped, redeliveries>>

Tick == /\ now < Horizon
        /\ now' = now + 1
        /\ UNCHANGED <<otps, requests, queue, workers, provider, dropped, redeliveries>>

Work(w) == \/ Reserve(w) \/ Load(w) \/ LoadFails(w) \/ Send(w)
           \/ Commit(w) \/ CommitFails(w)
           \/ Retry(w) \/ RetryFails(w) \/ GiveUp(w) \/ Ack(w)

Api == \E id \in Ids : Enqueue(id) \/ EnqueueFails(id)

Next == \/ \E id \in Ids, r \in Recipients : request_otp(id, r)
        \/ Api
        \/ \E w \in Workers : Work(w) \/ Crash(w)
        \/ \E id \in Ids : Replay(id) \/ VerifyCommit(id)
        \/ \E ids \in SUBSET DOMAIN otps : PollCommit(ids)
        \/ Tick

Spec == Init /\ [][Next]_vars

\* Workers keep working and requests finish; redeliveries are bounded above.
Fairness == WF_vars(Api) /\ \A w \in Workers : WF_vars(Work(w))

FairSpec == Spec /\ Fairness

-----------------------------------------------------------------------------
TypeOK == /\ IsTable(otps)
          /\ now \in 0..Horizon
          /\ requests \subseteq DOMAIN otps
          /\ IsABag(queue) /\ BagToSet(queue) \subseteq Message
          /\ workers \in [Workers -> Worker]
          /\ \A w \in Workers : At(w, "idle") <=> workers[w].msg = NULL
          /\ carried \in [Ids -> Nat]
          /\ issued \in [Providers -> Ids \cup {NULL}]
          /\ misread \subseteq Ids /\ dropped \subseteq Ids
          /\ redeliveries \in 0..MaxRedeliveries

\* A message for id is in the broker or in the hands of a worker.
InFlight(id) == \/ id \in requests
                \/ \E msg \in BagToSet(queue) : msg.id = id
                \/ \E w \in Workers : ~At(w, "idle") /\ Target(w) = id

\* A row is never left PENDING without a message on its way, unless its task failed or
\* its request never got to the enqueue: no crash of a worker at any point loses a
\* message (task_acks_late, task_reject_on_worker_lost).
PendingIsAccountedFor ==
    \A id \in DOMAIN otps :
        otps[id].status = "pending" => InFlight(id) \/ id \in dropped

SaysSent(id) == otps[id].status = "sent" \/ otps[id].sent_at # NULL

\* A row says SENT, or bears sent_at, only after a provider took a message for it, or
\* turned it down in the one way the adapter does not read (an HTTP 200 whose body
\* says "rejected", which sms.py's docstring says "the adapter translates").  No
\* timeout, lost answer, retry, crash or second worker makes a row SENT otherwise.
SentWasAnswered ==
    \A id \in DOMAIN otps : SaysSent(id) => carried[id] > 0 \/ id \in misread

\* The id the DLR poll will ask about was issued for this very row, whatever
\* duplicated or retried tasks wrote it.
ProviderIdIsOwn ==
    \A id \in DOMAIN otps :
        LET p == otps[id].provider_message_id
        IN p # NULL => issued[p] = id /\ otps[id].sent_at # NULL

\* A code is sent at most once: retries and the PENDING check never make the
\* provider carry it twice ("won't double-send").
NoDoubleSend == \A id \in Ids : carried[id] <= 1

\* What crashes, replays and lost answers can cost: every attempt of a chain of
\* retries may be carried, and every crash or replay may start one more chain.
SendsAreBounded ==
    \A id \in Ids : carried[id] <= (MaxRetries + 1) * (MaxRedeliveries + 1)

\* What must become of a row: it left PENDING, or was given up, and none of its
\* messages is left.
Settled(id) == /\ id \in DOMAIN otps
               /\ ~InFlight(id)
               /\ otps[id].status # "pending" \/ id \in dropped

\* Every row the API created settles: no message is retried for ever and none is
\* forgotten, whatever the providers answer.
EveryRequestSettles == \A id \in Ids : id \in DOMAIN otps ~> Settled(id)
=============================================================================
