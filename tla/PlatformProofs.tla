--------------------------- MODULE PlatformProofs ---------------------------
(***************************************************************************)
(* Machine-checked theorems about Platform, for any number of rows, users, *)
(* handlers, workers and pollers, all batch sizes, bounds and settings:    *)
(* the invariants of OtpService and Dispatch survive in each other's       *)
(* company, what only the composition can say is true, and the platform    *)
(* implements the two components, their stubs of each other included.      *)
(***************************************************************************)
EXTENDS Platform, OtpRowsProofs, FiniteSetTheorems

\* The theorems and lemmas of the two components, about the platform's variables.
Verifying == INSTANCE OtpServiceProofs WITH DeliveryStatuses <- {}, RequestSpan <- 0

Sending == INSTANCE DispatchProofs WITH
               DatabaseMayFail <- TRUE, EnqueuesMayFail <- FALSE,
               ServiceStatuses <- {}, PollStatuses <- {}

Settling == INSTANCE DlrPollProofs WITH
                SmsWithoutId <- FALSE, ServiceStatuses <- {},
                dispatched <- [id \in Ids |-> <<>>]

(***************************************************************************)
(* The instances the platform is built from and those the lemmas are about *)
(* say the same.                                                           *)
(***************************************************************************)
\* The steps, initial states and types of the service.
LEMMA SameService ==
    /\ \A s \in Sessions : Service!Serve(s) <=> Verifying!Serve(s)
    /\ Service!Init <=> Verifying!Init
    /\ Service!Tick <=> Verifying!Tick
    /\ Service!TypeOK <=> Verifying!TypeOK
  BY ZenonT(60) DEF Service!Serve, Verifying!Serve, Service!SelectNone, Verifying!SelectNone,
     Service!LatestActive, Verifying!LatestActive, Service!ActiveIds,
     Verifying!ActiveIds, Service!Active, Verifying!Active, Service!vars,
     Verifying!vars, Service!Select, Verifying!Select, Service!Idle, Verifying!Idle,
     Service!Clean, Verifying!Clean, Service!Expired, Verifying!Expired, Service!Loaded,
     Verifying!Loaded, Service!InTime, Verifying!InTime, Service!Decide,
     Verifying!Decide, Service!Reply, Verifying!Reply, Service!AlreadyUsed,
     Verifying!AlreadyUsed, Service!Unused, Verifying!Unused, Service!LockedOut,
     Verifying!LockedOut, Service!BelowCap, Verifying!BelowCap, Service!Match,
     Verifying!Match, Service!Matches, Verifying!Matches, Service!verify_code,
     Verifying!verify_code, Service!hash_code, Verifying!hash_code, Service!Miss,
     Verifying!Miss, Service!Commit, Verifying!Commit, Service!Flushed,
     Verifying!Flushed, Service!Flush, Verifying!Flush, Service!Assigned,
     Verifying!Assigned, Service!CommitUnanswered, Verifying!CommitUnanswered,
     Service!Abandon, Verifying!Abandon, Service!Init, Verifying!Init,
     Service!EmptyTable, Verifying!EmptyTable, Service!Tick, Verifying!Tick,
     Service!TypeOK, Verifying!TypeOK, Service!IsTable, Verifying!IsTable, Service!Row,
     Verifying!Row, Service!Hashes, Verifying!Hashes, Service!Statuses,
     Verifying!Statuses, Service!Terminal, Verifying!Terminal, Service!Time,
     Verifying!Time, Service!TimeOrNull, Verifying!TimeOrNull, Service!CallShape,
     Verifying!CallShape, Service!Call, Verifying!Call, Service!Dirty, Verifying!Dirty,
     Service!VerifyOutcome, Verifying!VerifyOutcome, Service!Channels,
     Verifying!Channels

\* The steps of the API, the broker and the workers.
LEMMA SameDelivery ==
    /\ \A id \in Ids, r \in Recipients :
          Delivery!request_otp(id, r) <=> Sending!request_otp(id, r)
    /\ Delivery!Api <=> Sending!Api
    /\ \A w \in Workers : Delivery!Work(w) <=> Sending!Work(w)
    /\ \A w \in Workers : Delivery!Crash(w) <=> Sending!Crash(w)
    /\ \A id \in Ids : Delivery!Replay(id) <=> Sending!Replay(id)
    /\ Delivery!Init <=> Sending!Init
    /\ Delivery!TypeOK <=> Sending!TypeOK
<1>1. \A id \in Ids, r \in Recipients :
             Delivery!request_otp(id, r) <=> Sending!request_otp(id, r)
  BY Zenon DEF Delivery!request_otp, Sending!request_otp, Delivery!FreshIds,
     Sending!FreshIds, Delivery!Insert, Sending!Insert, Delivery!NewRow, Sending!NewRow,
     Delivery!Channel, Sending!Channel, Delivery!hash_code, Sending!hash_code,
     Delivery!provider, Sending!provider
<1>2. Delivery!Api <=> Sending!Api
  BY Zenon DEF Delivery!Api, Sending!Api, Delivery!Enqueue, Sending!Enqueue,
     Delivery!EnqueueFails, Sending!EnqueueFails, Delivery!Publish, Sending!Publish,
     Delivery!SetToBag, Sending!SetToBag, Delivery!BagToSet, Sending!BagToSet,
     Delivery!IsABag, Sending!IsABag, Delivery!(+), Sending!(+), Delivery!table,
     Sending!table, Delivery!provider, Sending!provider
<1>3. ASSUME NEW w \in Workers
      PROVE  Delivery!Work(w) <=> Sending!Work(w)
  <2>1. Delivery!Reserve(w) <=> Sending!Reserve(w)
    BY Zenon DEF Delivery!Reserve, Sending!Reserve, Delivery!At, Sending!At,
       Delivery!Idle, Sending!Idle, Delivery!Clean, Sending!Clean, Delivery!SetToBag,
       Sending!SetToBag, Delivery!BagToSet, Sending!BagToSet, Delivery!IsABag,
       Sending!IsABag, Delivery!(-), Sending!(-), Delivery!table, Sending!table,
       Delivery!provider, Sending!provider
  <2>2. Delivery!Load(w) <=> Sending!Load(w)
    BY Zenon DEF Delivery!Load, Sending!Load, Delivery!At, Sending!At, Delivery!Goto,
       Sending!Goto, Delivery!Target, Sending!Target, Delivery!table, Sending!table,
       Delivery!provider, Sending!provider
  <2>3. Delivery!Send(w) <=> Sending!Send(w)
    BY Zenon DEF Delivery!Send, Sending!Send, Delivery!At, Sending!At, Delivery!Goto,
       Sending!Goto, Delivery!Target, Sending!Target, Delivery!Carry, Sending!Carry,
       Delivery!Decide, Sending!Decide, Delivery!Accepted, Sending!Accepted,
       Delivery!Refused, Sending!Refused, Delivery!Transient, Sending!Transient,
       Delivery!Raises, Sending!Raises, Delivery!Sent, Sending!Sent, Delivery!Failed,
       Sending!Failed, Delivery!Clean, Sending!Clean, Delivery!send, Sending!send,
       Delivery!sms_send, Sending!sms_send, Delivery!email_send, Sending!email_send,
       Delivery!NoHttp, Sending!NoHttp, Delivery!_classify, Sending!_classify,
       Delivery!Succeeds, Sending!Succeeds, Delivery!Throttles, Sending!Throttles,
       Delivery!ServerFails, Sending!ServerFails, Delivery!Denies, Sending!Denies,
       Delivery!Protocol, Sending!Protocol, Delivery!NamesMessage, Sending!NamesMessage,
       Delivery!MayHaveTaken, Sending!MayHaveTaken, Delivery!table, Sending!table,
       Delivery!provider, Sending!provider, Delivery!Misreads, Sending!Misreads,
       Delivery!Fails, Sending!Fails
  <2>4. Delivery!Commit(w) <=> Sending!Commit(w)
    BY Zenon DEF Delivery!Commit, Sending!Commit, Delivery!At, Sending!At, Delivery!Goto,
       Sending!Goto, Delivery!Target, Sending!Target, Delivery!Flush, Sending!Flush,
       Delivery!Assigned, Sending!Assigned, Delivery!table, Sending!table,
       Delivery!provider, Sending!provider
  <2>5. Delivery!CommitFails(w) <=> Sending!CommitFails(w)
    BY Zenon DEF Delivery!CommitFails, Sending!CommitFails, Delivery!At, Sending!At,
       Delivery!Goto, Sending!Goto, Delivery!Target, Sending!Target, Delivery!table,
       Sending!table, Delivery!provider, Sending!provider, Delivery!Fails, Sending!Fails
  <2>6. Delivery!Retry(w) <=> Sending!Retry(w)
    BY Zenon DEF Delivery!Retry, Sending!Retry, Delivery!At, Sending!At, Delivery!Goto,
       Sending!Goto, Delivery!Target, Sending!Target, Delivery!Publish, Sending!Publish,
       Delivery!SetToBag, Sending!SetToBag, Delivery!BagToSet, Sending!BagToSet,
       Delivery!IsABag, Sending!IsABag, Delivery!(+), Sending!(+), Delivery!table,
       Sending!table, Delivery!provider, Sending!provider
  <2>7. Delivery!GiveUp(w) <=> Sending!GiveUp(w)
    BY Zenon DEF Delivery!GiveUp, Sending!GiveUp, Delivery!At, Sending!At,
       Delivery!Goto, Sending!Goto, Delivery!Target, Sending!Target, Delivery!table,
       Sending!table, Delivery!provider, Sending!provider, Delivery!Fails, Sending!Fails
  <2>8. Delivery!Ack(w) <=> Sending!Ack(w)
    BY Zenon DEF Delivery!Ack, Sending!Ack, Delivery!At, Sending!At, Delivery!Idle,
       Sending!Idle, Delivery!Clean, Sending!Clean, Delivery!table, Sending!table,
       Delivery!provider, Sending!provider
  <2>9. Delivery!LoadFails(w) <=> Sending!LoadFails(w)
    BY Zenon DEF Delivery!LoadFails, Sending!LoadFails, Delivery!At, Sending!At,
       Delivery!Goto, Sending!Goto, Delivery!Target, Sending!Target, Delivery!Fails,
       Sending!Fails, Delivery!table, Sending!table, Delivery!provider, Sending!provider
  <2>10. Delivery!RetryFails(w) <=> Sending!RetryFails(w)
    BY Zenon DEF Delivery!RetryFails, Sending!RetryFails, Delivery!At, Sending!At,
       Delivery!Goto, Sending!Goto, Delivery!Target, Sending!Target, Delivery!Fails,
       Sending!Fails, Delivery!table, Sending!table, Delivery!provider, Sending!provider
  <2> QED
    BY Zenon, <2>1, <2>2, <2>3, <2>4, <2>5, <2>6, <2>7, <2>8, <2>9, <2>10
    DEF Delivery!Work, Sending!Work
<1>4. \A w \in Workers : Delivery!Crash(w) <=> Sending!Crash(w)
  BY Zenon DEF Delivery!Crash, Sending!Crash, Delivery!At, Sending!At, Delivery!Publish,
     Sending!Publish, Delivery!SetToBag, Sending!SetToBag, Delivery!BagToSet,
     Sending!BagToSet, Delivery!IsABag, Sending!IsABag, Delivery!(+), Sending!(+),
     Delivery!Idle, Sending!Idle, Delivery!Clean, Sending!Clean, Delivery!table,
     Sending!table, Delivery!provider, Sending!provider
<1>5. \A id \in Ids : Delivery!Replay(id) <=> Sending!Replay(id)
  BY Zenon DEF Delivery!Replay, Sending!Replay, Delivery!Publish, Sending!Publish,
     Delivery!SetToBag, Sending!SetToBag, Delivery!BagToSet, Sending!BagToSet,
     Delivery!IsABag, Sending!IsABag, Delivery!(+), Sending!(+), Delivery!table,
     Sending!table, Delivery!provider, Sending!provider
<1>6. Delivery!Init <=> Sending!Init
  BY Zenon DEF Delivery!Init, Sending!Init, Delivery!EmptyTable, Sending!EmptyTable,
     Delivery!Idle, Sending!Idle, Delivery!Clean, Sending!Clean, Delivery!EmptyBag,
     Sending!EmptyBag, Delivery!SetToBag, Sending!SetToBag
<1>7. Delivery!TypeOK <=> Sending!TypeOK
  BY Zenon DEF Delivery!TypeOK, Sending!TypeOK, Delivery!IsABag, Sending!IsABag,
     Delivery!BagToSet, Sending!BagToSet, Delivery!IsTable, Sending!IsTable,
     Delivery!Row, Sending!Row, Delivery!Hashes, Sending!Hashes, Delivery!hash_code,
     Sending!hash_code, Delivery!Statuses, Sending!Statuses, Delivery!Active,
     Sending!Active, Delivery!Terminal, Sending!Terminal, Delivery!Time, Sending!Time,
     Delivery!TimeOrNull, Sending!TimeOrNull, Delivery!Message, Sending!Message,
     Delivery!Worker, Sending!Worker, Delivery!At, Sending!At, Delivery!Dirty,
     Sending!Dirty, Delivery!Channels, Sending!Channels
<1> QED
  BY <1>1, <1>2, <1>3, <1>4, <1>5, <1>6, <1>7

\* The steps of the poll and of the carrier.
LEMMA SamePolling ==
    /\ \A w \in Pollers : Polling!Poll(w) <=> Settling!Poll(w)
    /\ \A w \in Pollers : Polling!Crash(w) <=> Settling!Crash(w)
    /\ \A p \in Providers : Polling!Decided(p) <=> Settling!Decided(p)
    /\ Polling!Init <=> Settling!Init
    /\ Polling!TypeOK <=> Settling!TypeOK
<1>1. ASSUME NEW w \in Pollers
      PROVE  Polling!Poll(w) <=> Settling!Poll(w)
  <2>1. Polling!Start(w) <=> Settling!Start(w)
    BY Zenon DEF Polling!Start, Settling!Start, Polling!Idle, Settling!Idle,
       Polling!Nothing, Settling!Nothing, Polling!table, Settling!table
  <2>2. Polling!SelectNone(w) <=> Settling!SelectNone(w)
    BY Zenon DEF Polling!SelectNone, Settling!SelectNone, Polling!Idle, Settling!Idle,
       Polling!Nothing, Settling!Nothing, Polling!InFlightSms, Settling!InFlightSms,
       Polling!table, Settling!table
  <2>3. Polling!Select(w) <=> Settling!Select(w)
    BY Zenon DEF Polling!Select, Settling!Select, Polling!InFlightSms,
       Settling!InFlightSms, Polling!IsBatch, Settling!IsBatch, Polling!Cardinality,
       Settling!Cardinality, Polling!table, Settling!table
  <2>4. Polling!CommitAll(w) <=> Settling!CommitAll(w)
    BY Zenon DEF Polling!CommitAll, Settling!CommitAll, Polling!Idle, Settling!Idle,
       Polling!Nothing, Settling!Nothing, Polling!FlushAll, Settling!FlushAll,
       Polling!Flush, Settling!Flush, Polling!Assigned, Settling!Assigned
  <2>5. \A id \in Ids : Polling!Sweep(w, id) <=> Settling!Sweep(w, id)
    BY Zenon DEF Polling!Sweep, Settling!Sweep, Polling!IsNext, Settling!IsNext,
       Polling!TooOld, Settling!TooOld, Polling!Cutoff, Settling!Cutoff, Polling!Assign,
       Settling!Assign, Polling!FailedAt, Settling!FailedAt, Polling!Clean,
       Settling!Clean, Polling!table, Settling!table
  <2>6. \A id \in Ids : Polling!Receipt(w, id) <=> Settling!Receipt(w, id)
    BY Zenon DEF Polling!Receipt, Settling!Receipt, Polling!Answered, Settling!Answered,
       Polling!IsNext, Settling!IsNext, Polling!TooOld, Settling!TooOld, Polling!Cutoff,
       Settling!Cutoff, Polling!Assign, Settling!Assign, Polling!query_dlr,
       Settling!query_dlr, Polling!Truthful, Settling!Truthful, Polling!DeliveredTokens,
       Settling!DeliveredTokens, Polling!FailedTokens, Settling!FailedTokens,
       Polling!PendingTokens, Settling!PendingTokens, Polling!_DLR_STATUS_MAP,
       Settling!_DLR_STATUS_MAP, Polling!NoHttp, Settling!NoHttp, Polling!DeliveredAt,
       Settling!DeliveredAt, Polling!FailedAt, Settling!FailedAt, Polling!Clean,
       Settling!Clean, Polling!table, Settling!table
  <2>7. \A id \in Ids : Polling!Garbled(w, id) <=> Settling!Garbled(w, id)
    BY Zenon DEF Polling!Garbled, Settling!Garbled, Polling!Answered, Settling!Answered,
       Polling!IsNext, Settling!IsNext, Polling!TooOld, Settling!TooOld, Polling!Cutoff,
       Settling!Cutoff, Polling!Assign, Settling!Assign, Polling!query_dlr,
       Settling!query_dlr, Polling!Truthful, Settling!Truthful, Polling!DeliveredTokens,
       Settling!DeliveredTokens, Polling!FailedTokens, Settling!FailedTokens,
       Polling!PendingTokens, Settling!PendingTokens, Polling!_DLR_STATUS_MAP,
       Settling!_DLR_STATUS_MAP, Polling!NoHttp, Settling!NoHttp, Polling!DeliveredAt,
       Settling!DeliveredAt, Polling!FailedAt, Settling!FailedAt, Polling!Clean,
       Settling!Clean, Polling!Idle, Settling!Idle, Polling!Nothing, Settling!Nothing,
       Polling!table, Settling!table
  <2> QED
    BY Zenon, <2>1, <2>2, <2>3, <2>4, <2>5, <2>6, <2>7 DEF Polling!Poll, Settling!Poll
<1>2. \A w \in Pollers : Polling!Crash(w) <=> Settling!Crash(w)
  BY Zenon DEF Polling!Crash, Settling!Crash, Polling!Idle, Settling!Idle,
     Polling!Nothing, Settling!Nothing, Polling!table, Settling!table
<1>3. \A p \in Providers : Polling!Decided(p) <=> Settling!Decided(p)
  BY Zenon DEF Polling!Decided, Settling!Decided
<1>4. Polling!Init <=> Settling!Init
  BY Zenon DEF Polling!Init, Settling!Init, Polling!EmptyTable, Settling!EmptyTable,
     Polling!Idle, Settling!Idle, Polling!Nothing, Settling!Nothing
<1>5. Polling!TypeOK <=> Settling!TypeOK
  BY Zenon DEF Polling!TypeOK, Settling!TypeOK, Polling!IsTickOfRows,
     Settling!IsTickOfRows, Polling!Copy, Settling!Copy, Polling!Dirty, Settling!Dirty,
     Polling!IsTable, Settling!IsTable, Polling!Row, Settling!Row, Polling!Hashes,
     Settling!Hashes, Polling!hash_code, Settling!hash_code, Polling!Statuses,
     Settling!Statuses, Polling!Active, Settling!Active, Polling!Terminal,
     Settling!Terminal, Polling!Time, Settling!Time, Polling!TimeOrNull,
     Settling!TimeOrNull, Polling!Channels, Settling!Channels
<1> QED
  BY <1>1, <1>2, <1>3, <1>4, <1>5

\* All of them mean the same table, the same rows and the same units of work.
LEMMA SameRows ==
    /\ \A rows : /\ Verifying!IsTable(rows) <=> IsTable(rows)
                 /\ Sending!IsTable(rows) <=> IsTable(rows)
                 /\ Settling!IsTable(rows) <=> IsTable(rows)
    /\ \A row, d : /\ Verifying!Flush(row, d) = Flush(row, d)
                   /\ Sending!Flush(row, d) = Flush(row, d)
                   /\ Settling!Flush(row, d) = Flush(row, d)
    /\ \A rows : Verifying!FreshIds(rows) = FreshIds(rows) /\ Sending!FreshIds(rows) = FreshIds(rows)
    /\ \A code : Verifying!hash_code(code) = hash_code(code)
    /\ Verifying!Dirty = Dirty /\ Sending!Dirty = Dirty /\ Settling!Dirty = Dirty
    /\ Verifying!Row = Row
    /\ EmptyTable = Sending!EmptyTable
  BY ZenonT(60) DEF Verifying!IsTable, Sending!IsTable, Settling!IsTable, IsTable,
     Verifying!Row, Sending!Row, Settling!Row, Row, Verifying!Hashes, Sending!Hashes,
     Settling!Hashes, Hashes, Verifying!hash_code, Sending!hash_code,
     Settling!hash_code, hash_code, Verifying!Statuses, Sending!Statuses,
     Settling!Statuses, Statuses, Verifying!Active, Sending!Active, Settling!Active,
     Active, Verifying!Terminal, Sending!Terminal, Settling!Terminal, Terminal,
     Verifying!Time, Sending!Time, Settling!Time, Time, Verifying!TimeOrNull,
     Sending!TimeOrNull, Settling!TimeOrNull, TimeOrNull, Verifying!Channels,
     Sending!Channels, Settling!Channels, Channels, Verifying!Dirty, Sending!Dirty,
     Settling!Dirty, Dirty, Verifying!Flush, Sending!Flush, Settling!Flush, Flush,
     Verifying!Assigned, Sending!Assigned, Settling!Assigned, Assigned,
     Verifying!FreshIds, Sending!FreshIds, FreshIds, Sending!EmptyTable, EmptyTable

\* A request inserts the same row for the service and for dispatch.
LEMMA SameInsert ==
    ASSUME NEW id \in Ids, NEW r \in Recipients, Sending!request_otp(id, r)
    PROVE  \E code \in Codes :
              /\ otps' = Insert(otps, id, NewRow(r, Sending!Channel(r), code, "pending",
                                               now, now + OTP_TTL_SECONDS))
              /\ otps' = Verifying!Insert(otps, id,
                            Verifying!NewRow(r, Verifying!Channel(r), code, "pending",
                                             now, now + OTP_TTL_SECONDS))
  BY Zenon DEF Verifying!Insert, Sending!Insert, Insert, Verifying!NewRow,
     Sending!NewRow, NewRow, Verifying!hash_code, Sending!hash_code, hash_code,
     Verifying!Channel, Sending!Channel, Sending!request_otp

\* The platform's constants are what its components assume of theirs.
LEMMA Given ==
    /\ Phones \subseteq Recipients
    /\ MAX_OTP_ATTEMPTS \in Nat \ {0} /\ OTP_TTL_SECONDS \in Nat \ {0}
    /\ {MaxRetries, MaxRedeliveries, Horizon} \subseteq Nat
    /\ {0, MaxCrashes, Horizon} \subseteq Nat
    /\ Horizon \in Nat /\ MaxCrashes \in Nat
    /\ DLR_POLL_BATCH_SIZE \in Nat \ {0} /\ DLR_TIMEOUT_SECONDS \in Nat
    /\ \A answer \in Answers : answer.status \in Nat
    /\ \A answer \in Receipts : answer.status \in Nat
    /\ NULL \notin Int /\ NULL \notin Ids /\ NULL \notin Providers /\ NULL \notin Codes
    /\ NULL \notin Verifying!Statuses /\ NULL \notin Sending!Statuses
    /\ NULL \notin Settling!Statuses
    /\ NULL \notin Sending!Message
    /\ TRUE \in BOOLEAN /\ FALSE \in BOOLEAN /\ 0 \in Nat
  BY PlatformAssumption, SettingsAssumption, NullAssumption
  DEF Verifying!Statuses, Verifying!Active, Verifying!Terminal, Sending!Statuses,
      Sending!Active, Sending!Terminal, Settling!Statuses, Settling!Active,
      Settling!Terminal, Sending!Message, Statuses, Active, Terminal

(***************************************************************************)
(* The inductive invariant.  Each component's own, and what they know of   *)
(* each other: the code a call of verify_otp was given was carried or is   *)
(* a wrong one, and the receipts a tick has read are of its rows' messages. *)
(***************************************************************************)
WasCarried(hash) == \E sent \in DOMAIN otps : /\ carried[sent] > 0
                                             /\ otps[sent].code_hash = hash

WasDelivered(id) == \E p \in Providers : issued[p] = id /\ fate[p] = "delivered"

CodeIsKnown(s) ==
    calls[s].pc # "idle" =>
        calls[s].code \in Guesses \/ WasCarried(hash_code(calls[s].code))

SeenIsOwn(w) ==
    \A id \in DOMAIN ticks[w].seen :
        /\ id \in DOMAIN otps /\ otps[id].provider_message_id # NULL
        /\ issued[ticks[w].seen[id].provider_message_id] = id

AssignedIsTrue(w) ==
    \A id \in DOMAIN ticks[w].dirty :
        /\ id \in DOMAIN otps /\ otps[id].provider_message_id # NULL
        /\ Settling!PollColumns(ticks[w].dirty[id], ticks[w].started)
        /\ ticks[w].dirty[id].delivered_at # NULL => WasDelivered(id)

ServiceHolds ==
    /\ Verifying!IInv
    /\ \A s \in Sessions : Verifying!Verifies(s)
    /\ \A s \in Sessions : CodeIsKnown(s)

DispatchHolds ==
    /\ Sending!DInv
    /\ \A w \in Workers : Sending!Dispatches(w)

PollHolds ==
    /\ Settling!TypeOK
    /\ \A w \in Pollers : /\ SeenIsOwn(w) /\ AssignedIsTrue(w)
                          /\ ticks[w].started <= now

NoGuessIsIssued ==
    \A id \in DOMAIN otps :
        otps[id].code_hash \notin {hash_code(guess) : guess \in Guesses}

NoneIsBlocked == \A id \in DOMAIN otps : otps[id].status # "blocked"

RowsHold == /\ NoGuessIsIssued
            /\ NoneIsBlocked
            /\ VerifiedWasCarried
            /\ DeliveredIsTrue
            /\ IsFiniteSet(DOMAIN otps)

PlInv == ServiceHolds /\ DispatchHolds /\ PollHolds /\ RowsHold

(***************************************************************************)
(* What only ever grows: rows, what their columns say, what the providers  *)
(* took and what the carrier delivered.                                    *)
(***************************************************************************)
RowGoesOn(old, new) ==
    /\ new.code_hash = old.code_hash /\ new.channel = old.channel
    /\ old.sent_at # NULL => new.sent_at # NULL
    /\ old.delivered_at # NULL => new.delivered_at # NULL
    /\ old.failed_at # NULL => new.failed_at # NULL
    /\ old.provider_message_id # NULL => new.provider_message_id # NULL
    /\ old.status # "blocked" => new.status # "blocked"

Onward ==
    /\ IsTable(otps) /\ IsTable(otps') /\ DOMAIN otps \subseteq DOMAIN otps'
    /\ \A id \in DOMAIN otps : RowGoesOn(otps[id], otps'[id])
    /\ Sending!ProvidersGoOn
    /\ \A p \in Providers : fate[p] = "delivered" => fate'[p] = "delivered"
    /\ now <= now'

\* What the steps below use of the invariant.
LEMMA Facts ==
    ASSUME PlInv
    PROVE  /\ IsTable(otps) /\ DOMAIN otps \subseteq Ids
           /\ \A id \in DOMAIN otps : otps[id] \in Row
           /\ now \in Nat
           /\ carried \in [Ids -> Nat] /\ issued \in [Providers -> Ids \cup {NULL}]
           /\ fate \in [Providers -> {"transit", "delivered", "failed"}]
<1>1. IsTable(otps)
  BY SameRows DEF PlInv, DispatchHolds, Sending!DInv, Sending!TypeOK
<1> QED
  BY <1>1, Given DEF PlInv, DispatchHolds, PollHolds, Sending!DInv, Sending!TypeOK,
                     Settling!TypeOK, IsTable

\* A commit clears no column, and blocks no row.
LEMMA CommitGoesOn ==
    ASSUME IsTable(otps), NEW id \in DOMAIN otps, NEW d \in Dirty,
           d.status # "blocked", otps' = [otps EXCEPT ![id] = Flush(@, d)]
    PROVE  /\ IsTable(otps') /\ DOMAIN otps' = DOMAIN otps
           /\ otps'[id] = Flush(otps[id], d) /\ otps[id] \in Row
           /\ \A i \in DOMAIN otps \ {id} : otps'[i] = otps[i]
           /\ \A i \in DOMAIN otps : RowGoesOn(otps[i], otps'[i])
<1>1. /\ IsTable(otps') /\ DOMAIN otps' = DOMAIN otps
      /\ otps'[id] = Flush(otps[id], d) /\ otps[id] \in Row
      /\ \A i \in DOMAIN otps \ {id} : otps'[i] = otps[i]
  BY CommitType
<1>2. RowGoesOn(otps[id], otps'[id])
  BY <1>1, FlushType DEF Assigned, RowGoesOn
<1> QED
  BY <1>1, <1>2 DEF RowGoesOn

\* Nothing that was carried or delivered is undone.
LEMMA KnowledgeGrows ==
    ASSUME Onward
    PROVE  /\ \A hash : WasCarried(hash) => WasCarried(hash)'
           /\ \A id \in Ids : WasDelivered(id) => WasDelivered(id)'
<1>1. ASSUME NEW hash, WasCarried(hash)
      PROVE  WasCarried(hash)'
  BY <1>1 DEF Onward, RowGoesOn, IsTable, WasCarried, Sending!ProvidersGoOn
<1>2. ASSUME NEW id \in Ids, WasDelivered(id)
      PROVE  WasDelivered(id)'
  BY <1>2, NullAssumption DEF Onward, WasDelivered, Sending!ProvidersGoOn
<1> QED
  BY <1>1, <1>2

\* So a call that waits keeps knowing its code.
LEMMA WaitingCall ==
    ASSUME Onward, NEW s, CodeIsKnown(s), calls'[s] = calls[s]
    PROVE  CodeIsKnown(s)'
  BY KnowledgeGrows DEF CodeIsKnown

\* A tick that waits keeps what it has seen and assigned true of its rows.
LEMMA WaitingTick ==
    ASSUME Onward, PlInv, NEW w \in Pollers, ticks'[w] = ticks[w], now' \in Nat
    PROVE  SeenIsOwn(w)' /\ AssignedIsTrue(w)' /\ ticks'[w].started <= now'
<1>1. /\ DOMAIN otps \subseteq DOMAIN otps' /\ DOMAIN otps \subseteq Ids
      /\ Settling!IsTickOfRows(ticks[w])
      /\ SeenIsOwn(w) /\ AssignedIsTrue(w)
      /\ \A id \in DOMAIN otps : otps[id].provider_message_id # NULL =>
                                    otps'[id].provider_message_id # NULL
  BY Facts DEF Onward, RowGoesOn, PlInv, PollHolds, Settling!TypeOK
<1>2. SeenIsOwn(w)'
  <2> SUFFICES ASSUME NEW id \in DOMAIN ticks[w].seen
               PROVE  /\ id \in DOMAIN otps' /\ otps'[id].provider_message_id # NULL
                      /\ issued'[ticks[w].seen[id].provider_message_id] = id
    BY DEF SeenIsOwn
  <2>1. ticks[w].seen[id].provider_message_id \in Providers
    BY <1>1 DEF Settling!IsTickOfRows, Settling!Copy
  <2>2. /\ issued[ticks[w].seen[id].provider_message_id] = id /\ id \in DOMAIN otps
        /\ otps[id].provider_message_id # NULL
    BY <1>1 DEF SeenIsOwn
  <2> QED
    BY <1>1, <2>1, <2>2, NullAssumption DEF Onward, Sending!ProvidersGoOn
<1>3. AssignedIsTrue(w)'
  <2> SUFFICES ASSUME NEW id \in DOMAIN ticks[w].dirty
               PROVE  /\ id \in DOMAIN otps' /\ otps'[id].provider_message_id # NULL
                      /\ Settling!PollColumns(ticks[w].dirty[id], ticks[w].started)
                      /\ ticks[w].dirty[id].delivered_at # NULL => WasDelivered(id)'
    BY DEF AssignedIsTrue, Settling!PollColumns
  <2>1. /\ id \in DOMAIN otps /\ otps[id].provider_message_id # NULL
        /\ Settling!PollColumns(ticks[w].dirty[id], ticks[w].started)
        /\ ticks[w].dirty[id].delivered_at # NULL => WasDelivered(id)
    BY <1>1 DEF AssignedIsTrue
  <2> QED
    BY <1>1, <2>1, KnowledgeGrows
<1>4. ticks'[w].started <= now'
  <2>1. /\ ticks[w].started \in Nat /\ ticks[w].started <= now
        /\ now \in Nat /\ now' \in Nat /\ now <= now'
    BY <1>1, Facts DEF PlInv, PollHolds, Onward, Settling!IsTickOfRows, Settling!Time
  <2> QED
    BY <2>1
<1> QED
  BY <1>2, <1>3, <1>4

\* A step that leaves the calls alone.
LEMMA CallsWait ==
    ASSUME Onward, PlInv, UNCHANGED calls
    PROVE  \A s \in Sessions : Verifying!Verifies(s)' /\ CodeIsKnown(s)'
<1> SUFFICES ASSUME NEW s \in Sessions PROVE Verifying!Verifies(s)' /\ CodeIsKnown(s)'
  OBVIOUS
<1>1. /\ Verifying!IInv /\ Verifying!Verifies(s) /\ CodeIsKnown(s)
      /\ calls'[s] = calls[s]
      /\ \A id \in DOMAIN otps : otps'[id].code_hash = otps[id].code_hash
  BY DEF PlInv, ServiceHolds, Onward, RowGoesOn
<1>2. Verifying!Verifies(s)'
  BY <1>1, Given, Verifying!WaitingVerifies
<1> QED
  BY <1>1, <1>2, WaitingCall

\* A step that leaves the ticks alone.
LEMMA TicksWait ==
    ASSUME Onward, PlInv, UNCHANGED <<ticks, crashes>>, now' \in 0..Horizon,
           fate' \in [Providers -> {"transit", "delivered", "failed"}]
    PROVE  PollHolds'
<1>1. Settling!TypeOK'
  BY SameRows DEF Onward, PlInv, PollHolds, Settling!TypeOK
<1>2. \A w \in Pollers : SeenIsOwn(w)' /\ AssignedIsTrue(w)' /\ ticks'[w].started <= now'
  BY WaitingTick, Given
<1> QED
  BY <1>1, <1>2 DEF PollHolds

\* The rows stay true if what a step adds to them is.
LEMMA RowsStayTrue ==
    ASSUME Onward, PlInv, IsFiniteSet(DOMAIN otps'),
           \A id \in DOMAIN otps' \ DOMAIN otps :
              /\ otps'[id].status # "blocked"
              /\ otps'[id].code_hash \notin {hash_code(guess) : guess \in Guesses},
           \A id \in DOMAIN otps' :
              otps'[id].used_at # NULL =>
                 id \in DOMAIN otps /\ WasCarried(otps[id].code_hash),
           \A id \in DOMAIN otps' :
              otps'[id].delivered_at # NULL => id \in DOMAIN otps /\ WasDelivered(id)
    PROVE  RowsHold'
<1>1. \A id \in DOMAIN otps : /\ id \in DOMAIN otps' /\ id \in Ids
                              /\ otps'[id].code_hash = otps[id].code_hash
  BY Facts DEF Onward, RowGoesOn
<1>2. NoGuessIsIssued' /\ NoneIsBlocked'
  BY <1>1 DEF PlInv, RowsHold, NoGuessIsIssued, NoneIsBlocked, Onward, RowGoesOn
<1>3. ASSUME NEW id \in DOMAIN otps', otps'[id].used_at # NULL
      PROVE  \E sent \in DOMAIN otps' : /\ carried'[sent] > 0
                                        /\ otps'[sent].code_hash = otps'[id].code_hash
  <2>1. id \in DOMAIN otps /\ WasCarried(otps[id].code_hash)
    BY <1>3
  <2>2. PICK hash : hash = otps[id].code_hash
    OBVIOUS
  <2>3. WasCarried(hash)' /\ hash = otps'[id].code_hash
    BY <1>1, <2>1, <2>2, KnowledgeGrows
  <2> QED
    BY <2>3 DEF WasCarried
<1>4. ASSUME NEW id \in DOMAIN otps', otps'[id].delivered_at # NULL
      PROVE  \E p \in Providers : issued'[p] = id /\ fate'[p] = "delivered"
  <2>1. id \in Ids /\ WasDelivered(id)
    BY <1>1, <1>4
  <2>2. WasDelivered(id)'
    BY <2>1, KnowledgeGrows
  <2> QED
    BY <2>2 DEF WasDelivered
<1> QED
  BY <1>2, <1>3, <1>4 DEF RowsHold, VerifiedWasCarried, DeliveredIsTrue

\* What the rows say now.
LEMMA RowsAreTrue ==
    ASSUME PlInv, NEW id \in DOMAIN otps
    PROVE  /\ otps[id].used_at # NULL => WasCarried(otps[id].code_hash)
           /\ otps[id].delivered_at # NULL => WasDelivered(id)
  BY DEF PlInv, RowsHold, VerifiedWasCarried, DeliveredIsTrue, WasCarried, WasDelivered

(***************************************************************************)
(* The steps of the platform.                                              *)
(***************************************************************************)
\* POST /otp/request.
LEMMA RequestStep ==
    ASSUME PlInv, NEW id \in Ids, NEW r \in Recipients, request_otp(id, r)
    PROVE  PlInv' /\ Onward
<1>1. IsTable(otps) /\ now \in Nat
  BY Facts
<1>2. /\ Sending!request_otp(id, r) /\ UNCHANGED <<calls, wins, misses, ticks, fate, crashes>>
      /\ otps'[id].code_hash \notin {hash_code(guess) : guess \in Guesses}
  BY SameDelivery DEF request_otp, serviceVars, pollVars
<1>3. /\ UNCHANGED <<now, queue, workers, carried, issued, misread, dropped,
                     redeliveries>>
      /\ id \in FreshIds(otps) /\ id \notin DOMAIN otps
  BY <1>2, SameRows DEF Sending!request_otp, Sending!provider, FreshIds
<1>4. PICK code \in Codes :
         /\ otps' = Insert(otps, id, NewRow(r, Sending!Channel(r), code, "pending",
                                            now, now + OTP_TTL_SECONDS))
         /\ otps' = Verifying!Insert(otps, id,
                       Verifying!NewRow(r, Verifying!Channel(r), code, "pending",
                                        now, now + OTP_TTL_SECONDS))
  BY <1>2, SameInsert
<1>5. PICK row \in Row : /\ otps' = Insert(otps, id, row) /\ row.status = "pending"
                         /\ row.used_at = NULL /\ row.delivered_at = NULL
  <2>1. PICK ch, expires, st :
           /\ ch = Sending!Channel(r) /\ expires = now + OTP_TTL_SECONDS
           /\ st = "pending"
    OBVIOUS
  <2>2. ch \in Channels /\ expires \in Nat /\ st \in Statuses
    BY <1>1, <2>1, Given, StatusNames DEF Sending!Channel, Channels
  <2>3. LET new == NewRow(r, ch, code, st, now, expires)
        IN /\ new \in Row /\ new.used_at = NULL /\ new.delivered_at = NULL
    BY <1>1, <2>2, NewRowType
  <2>4. NewRow(r, ch, code, st, now, expires).status = "pending"
    BY <2>1 DEF NewRow
  <2> QED
    BY <1>4, <2>1, <2>3, <2>4
<1>6. /\ IsTable(otps') /\ DOMAIN otps' = DOMAIN otps \cup {id} /\ otps'[id] = row
      /\ \A i \in DOMAIN otps : otps'[i] = otps[i]
  <2>1. /\ IsTable(Insert(otps, id, row))
        /\ DOMAIN Insert(otps, id, row) = DOMAIN otps \cup {id}
        /\ Insert(otps, id, row)[id] = row
        /\ \A i \in DOMAIN otps \ {id} : Insert(otps, id, row)[i] = otps[i]
    BY ZenonT(60), <1>1, InsertType
  <2> QED
    BY <1>3, <1>5, <2>1
<1>7. Onward
  BY <1>1, <1>2, <1>3, <1>6 DEF Onward, RowGoesOn, Sending!ProvidersGoOn
<1>8. Verifying!IInv'
  <2>1. now \in Verifying!CreatedAt
    BY <1>1 DEF Verifying!CreatedAt
  <2>2. Verifying!create_otp(id, r, code)
    BY <1>2, <1>3, <1>4, <2>1, SameRows DEF Verifying!create_otp
  <2> QED
    BY <2>2, Given, Verifying!IssueSteps DEF PlInv, ServiceHolds
<1>9. Sending!DInv'
  BY <1>2, Given, Sending!RequestStep DEF PlInv, DispatchHolds
<1>10. ServiceHolds'
  BY <1>2, <1>7, <1>8, CallsWait DEF ServiceHolds
<1>11. DispatchHolds'
  BY <1>3, <1>9 DEF PlInv, DispatchHolds, Sending!Dispatches, Sending!DispatchColumns
<1>12. PollHolds'
  BY <1>2, <1>3, <1>7, TicksWait DEF PlInv, PollHolds, Settling!TypeOK
<1>13. RowsHold'
  <2>1. IsFiniteSet(DOMAIN otps')
    BY <1>6, FS_AddElement DEF PlInv, RowsHold
  <2> QED
    BY <1>2, <1>5, <1>6, <1>7, <2>1, RowsAreTrue, RowsStayTrue
<1> QED
  BY <1>7, <1>10, <1>11, <1>12, <1>13 DEF PlInv

\* A step of POST /otp/verify.
LEMMA VerifyStep ==
    ASSUME PlInv, NEW s \in Sessions, verify_otp(s)
    PROVE  PlInv' /\ Onward
<1>1. /\ Verifying!Serve(s) /\ calls'[s].code \in {NULL} \cup Received \cup Guesses
      /\ UNCHANGED <<requests, queue, workers, carried, issued, misread, dropped,
                     redeliveries>>
      /\ UNCHANGED <<ticks, fate, crashes>>
  BY SameService DEF verify_otp, deliveryVars, pollVars
<1>2. /\ IsTable(otps) /\ DOMAIN otps \subseteq Ids /\ Verifying!IInv
      /\ \A t \in Sessions : Verifying!Verifies(t) /\ CodeIsKnown(t)
  BY Facts DEF PlInv, ServiceHolds
<1>3. Verifying!IInv'
  BY <1>1, <1>2, Given, Verifying!NextKeeps DEF Verifying!Next
<1>4. /\ \A t \in Sessions : Verifying!Verifies(t)'
      /\ \A t \in Sessions \ {s} : calls'[t] = calls[t]
      /\ now' = now
      /\ \/ UNCHANGED otps
         \/ \E id \in DOMAIN otps, d \in Verifying!Dirty :
               /\ otps' = [otps EXCEPT ![id] = Verifying!Flush(@, d)]
               /\ Verifying!VerifyColumns(d)
               /\ calls[s].pc # "idle" /\ calls[s].code \in Codes
               /\ d.used_at # NULL =>
                     Verifying!hash_code(calls[s].code) = otps[id].code_hash
  BY <1>1, <1>2, Given, Verifying!ServeVerifies
<1>5. /\ IsTable(otps') /\ DOMAIN otps' = DOMAIN otps
      /\ \A id \in DOMAIN otps :
            /\ RowGoesOn(otps[id], otps'[id])
            /\ otps'[id].sent_at = otps[id].sent_at
            /\ otps'[id].delivered_at = otps[id].delivered_at
            /\ otps'[id].provider_message_id = otps[id].provider_message_id
            /\ \/ otps'[id].status = otps[id].status
               \/ otps'[id].status \notin {"pending", "sent"}
            /\ \/ otps'[id].used_at = otps[id].used_at
               \/ WasCarried(otps[id].code_hash)
  <2>1. CASE UNCHANGED otps
    BY <1>2, <2>1 DEF RowGoesOn
  <2>2. CASE ~ UNCHANGED otps
    <3>1. PICK id \in DOMAIN otps, d \in Dirty :
             /\ otps' = [otps EXCEPT ![id] = Flush(@, d)]
             /\ Verifying!VerifyColumns(d)
             /\ calls[s].pc # "idle" /\ calls[s].code \in Codes
             /\ d.used_at # NULL => hash_code(calls[s].code) = otps[id].code_hash
      BY <1>4, <2>2, SameRows
    <3>2. /\ IsTable(otps') /\ DOMAIN otps' = DOMAIN otps
          /\ otps'[id] = Flush(otps[id], d) /\ otps[id] \in Row
          /\ \A i \in DOMAIN otps \ {id} : otps'[i] = otps[i]
          /\ \A i \in DOMAIN otps : RowGoesOn(otps[i], otps'[i])
      BY <1>2, <3>1, CommitGoesOn, StatusNames DEF Verifying!VerifyColumns
    <3>3. d.used_at # NULL => WasCarried(otps[id].code_hash)
      BY <1>2, <3>1 DEF CodeIsKnown, PlInv, RowsHold, NoGuessIsIssued
    <3>4. /\ otps'[id].sent_at = otps[id].sent_at
          /\ otps'[id].delivered_at = otps[id].delivered_at
          /\ otps'[id].provider_message_id = otps[id].provider_message_id
          /\ \/ otps'[id].status = otps[id].status
             \/ otps'[id].status \notin {"pending", "sent"}
          /\ d.used_at = NULL => otps'[id].used_at = otps[id].used_at
      BY <3>1, <3>2, FlushType DEF Assigned, Verifying!VerifyColumns
    <3> QED
      BY <3>2, <3>3, <3>4
  <2> QED
    BY <2>1, <2>2
<1>6. Onward
  BY <1>1, <1>2, <1>4, <1>5, Facts DEF Onward, Sending!ProvidersGoOn
<1>7. CodeIsKnown(s)'
  <2> SUFFICES ASSUME calls'[s].pc # "idle", calls'[s].code \notin Guesses
               PROVE  WasCarried(hash_code(calls[s].code))'
    BY DEF CodeIsKnown
  <2>1. PICK code : code = calls'[s].code
    OBVIOUS
  <2>2. code \in Codes
    BY <1>3, <2>1 DEF Verifying!IInv, Verifying!TypeOK, Verifying!CallShape
  <2>3. WasCarried(hash_code(code))
    BY <1>1, <2>1, <2>2, Given DEF Received, WasCarried
  <2>4. WasCarried(hash_code(code))'
    BY <1>6, <2>3, KnowledgeGrows
  <2> QED
    BY <2>1, <2>4
<1>8. ServiceHolds'
  BY <1>2, <1>3, <1>4, <1>6, <1>7, WaitingCall DEF ServiceHolds
<1>9. DispatchHolds'
  <2>1. Sending!DInv'
    BY <1>1, <1>4, <1>5, Given, SameRows, Sending!OthersWrite
    DEF PlInv, DispatchHolds, Sending!provider
  <2> QED
    BY <1>1, <2>1 DEF PlInv, DispatchHolds, Sending!Dispatches, Sending!DispatchColumns
<1>10. PollHolds'
  BY <1>1, <1>4, <1>6, TicksWait DEF PlInv, PollHolds, Settling!TypeOK
<1>11. RowsHold'
  BY <1>5, <1>6, RowsAreTrue, RowsStayTrue DEF PlInv, RowsHold
<1> QED
  BY <1>6, <1>8, <1>9, <1>10, <1>11 DEF PlInv

\* What a step of dispatch writes.
LEMMA DispatchWrites ==
    ASSUME PlInv, Dispatching
    PROVE  /\ \A w \in Workers : Sending!Dispatches(w)'
           /\ Sending!ProvidersGoOn /\ now' = now
           /\ \/ UNCHANGED otps
              \/ \E id \in DOMAIN otps, d \in Dirty :
                    /\ Sending!DispatchColumns(d)
                    /\ otps' = [otps EXCEPT ![id] = Flush(@, d)]
<1>1. /\ \/ Sending!Api
         \/ \E w \in Workers : Sending!Work(w) \/ Sending!Crash(w)
         \/ \E id \in Ids : Sending!Replay(id)
      /\ Sending!DInv /\ \A w \in Workers : Sending!Dispatches(w)
  BY SameDelivery DEF Dispatching, PlInv, DispatchHolds
<1>2. CASE \E w \in Workers : Sending!Work(w) \/ Sending!Crash(w)
  <2>1. PICK w \in Workers : Sending!Work(w) \/ Sending!Crash(w)
    BY <1>2
  <2>2. /\ \A v \in Workers : Sending!Dispatches(v)'
        /\ Sending!ProvidersGoOn /\ now' = now
        /\ \/ UNCHANGED otps
           \/ \E id \in DOMAIN otps, d \in Sending!Dirty :
                 /\ Sending!DispatchColumns(d)
                 /\ otps' = [otps EXCEPT ![id] = Sending!Flush(@, d)]
    BY <1>1, <2>1, Given, Sending!WorkDispatches
  <2> QED
    BY <2>2, SameRows
<1>3. CASE Sending!Api \/ \E id \in Ids : Sending!Replay(id)
  <2>1. UNCHANGED <<otps, now, workers, carried, issued>>
    BY <1>3 DEF Sending!Api, Sending!Enqueue, Sending!EnqueueFails, Sending!Replay,
                Sending!table, Sending!provider
  <2> QED
    BY <1>1, <2>1 DEF Sending!Dispatches, Sending!DispatchColumns, Sending!ProvidersGoOn
<1> QED
  BY <1>1, <1>2, <1>3

\* A step of the API's broker call, of a worker or of an operator.
LEMMA DispatchStep ==
    ASSUME PlInv, Dispatching
    PROVE  PlInv' /\ Onward
<1>1. /\ \/ Sending!Api
         \/ \E w \in Workers : Sending!Work(w) \/ Sending!Crash(w)
         \/ \E id \in Ids : Sending!Replay(id)
      /\ UNCHANGED <<calls, wins, misses, ticks, fate, crashes>>
  BY SameDelivery DEF Dispatching, serviceVars, pollVars
<1>2. /\ IsTable(otps) /\ DOMAIN otps \subseteq Ids /\ Sending!DInv
      /\ \A w \in Workers : Sending!Dispatches(w)
  BY Facts DEF PlInv, DispatchHolds
<1>3. Sending!DInv'
  BY <1>1, <1>2, Given, Sending!NextKeeps DEF Sending!Next
<1>4. /\ \A w \in Workers : Sending!Dispatches(w)'
      /\ Sending!ProvidersGoOn /\ now' = now
      /\ \/ UNCHANGED otps
         \/ \E id \in DOMAIN otps, d \in Dirty :
               Sending!DispatchColumns(d) /\ otps' = [otps EXCEPT ![id] = Flush(@, d)]
  BY DispatchWrites
<1>5. /\ IsTable(otps') /\ DOMAIN otps' = DOMAIN otps
      /\ \A id \in DOMAIN otps :
            /\ RowGoesOn(otps[id], otps'[id])
            /\ otps'[id].expires_at = otps[id].expires_at
            /\ otps'[id].used_at = otps[id].used_at
            /\ otps'[id].attempt_count = otps[id].attempt_count
            /\ otps'[id].delivered_at = otps[id].delivered_at
  <2>1. CASE UNCHANGED otps
    BY <1>2, <2>1 DEF RowGoesOn
  <2>2. CASE ~ UNCHANGED otps
    <3>1. PICK id \in DOMAIN otps, d \in Dirty :
             Sending!DispatchColumns(d) /\ otps' = [otps EXCEPT ![id] = Flush(@, d)]
      BY <1>4, <2>2
    <3>2. /\ IsTable(otps') /\ DOMAIN otps' = DOMAIN otps
          /\ otps'[id] = Flush(otps[id], d) /\ otps[id] \in Row
          /\ \A i \in DOMAIN otps \ {id} : otps'[i] = otps[i]
          /\ \A i \in DOMAIN otps : RowGoesOn(otps[i], otps'[i])
      BY <1>2, <3>1, CommitGoesOn, StatusNames DEF Sending!DispatchColumns
    <3>3. /\ otps'[id].expires_at = otps[id].expires_at
          /\ otps'[id].used_at = otps[id].used_at
          /\ otps'[id].attempt_count = otps[id].attempt_count
          /\ otps'[id].delivered_at = otps[id].delivered_at
      BY <3>1, <3>2, FlushType DEF Assigned, Sending!DispatchColumns
    <3> QED
      BY <3>2, <3>3
  <2> QED
    BY <2>1, <2>2
<1>6. Onward
  BY <1>1, <1>2, <1>4, <1>5, Facts DEF Onward
<1>7. ServiceHolds'
  <2>1. Verifying!IInv'
    BY <1>1, <1>4, <1>5, Given, SameRows, Verifying!OthersWrite DEF PlInv, ServiceHolds
  <2> QED
    BY <1>1, <1>6, <2>1, CallsWait DEF ServiceHolds
<1>8. DispatchHolds'
  BY <1>3, <1>4 DEF DispatchHolds
<1>9. PollHolds'
  BY <1>1, <1>4, <1>6, TicksWait DEF PlInv, PollHolds, Settling!TypeOK
<1>10. RowsHold'
  BY <1>5, <1>6, RowsAreTrue, RowsStayTrue DEF PlInv, RowsHold
<1> QED
  BY <1>6, <1>7, <1>8, <1>9, <1>10 DEF PlInv

\* What a step of the reconciliation writes.
LEMMA TickWrites ==
    ASSUME PlInv, Reconciling
    PROVE  \E w \in Pollers :
              /\ Settling!TypeOK' /\ UNCHANGED <<now, fate>>
              /\ \A v \in Pollers \ {w} : ticks'[v] = ticks[v]
              /\ Settling!SeesOnly(ticks[w], ticks'[w])
              /\ Settling!AssignsOnly(ticks[w], ticks'[w])
              /\ Settling!StartsOnly(ticks[w], ticks'[w])
              /\ Settling!WritesOnly(ticks[w])
              /\ SeenIsOwn(w) /\ AssignedIsTrue(w) /\ Settling!IsTickOfRows(ticks[w])
<1>1. PICK w \in Pollers : Settling!Poll(w) \/ Settling!Crash(w)
  BY SamePolling DEF Reconciling
<1>2. /\ Settling!TypeOK
      /\ \A id \in DOMAIN otps :
            otps[id].provider_message_id # NULL => otps[id].sent_at # NULL
  BY DEF PlInv, PollHolds, DispatchHolds, Sending!DInv, Sending!ProviderIdIsOwn
<1>3. /\ Settling!TypeOK' /\ UNCHANGED <<now, fate>>
      /\ \A v \in Pollers \ {w} : ticks'[v] = ticks[v]
      /\ Settling!SeesOnly(ticks[w], ticks'[w])
      /\ Settling!AssignsOnly(ticks[w], ticks'[w])
      /\ Settling!StartsOnly(ticks[w], ticks'[w])
      /\ Settling!WritesOnly(ticks[w])
  BY <1>1, <1>2, Given, Settling!PollWrites
<1> QED
  BY <1>1, <1>2, <1>3 DEF PlInv, PollHolds, Settling!TypeOK

\* A step of the reconciliation: what a tick copies or assigns is about a row's own
\* message, so what it commits is true of the row even if the row has since been
\* given another message's id.
LEMMA PollStep ==
    ASSUME PlInv, Reconciling
    PROVE  PlInv' /\ Onward
<1>1. PICK w \in Pollers :
         /\ Settling!TypeOK' /\ UNCHANGED <<now, fate>>
         /\ \A v \in Pollers \ {w} : ticks'[v] = ticks[v]
         /\ Settling!SeesOnly(ticks[w], ticks'[w])
         /\ Settling!AssignsOnly(ticks[w], ticks'[w])
         /\ Settling!StartsOnly(ticks[w], ticks'[w])
         /\ Settling!WritesOnly(ticks[w])
         /\ SeenIsOwn(w) /\ AssignedIsTrue(w)
  BY TickWrites
<1>2. /\ UNCHANGED <<calls, wins, misses>>
      /\ UNCHANGED <<requests, queue, workers, carried, issued, misread, dropped,
                     redeliveries>>
  BY DEF Reconciling, serviceVars, deliveryVars
<1>3. /\ IsTable(otps) /\ DOMAIN otps \subseteq Ids /\ Settling!TypeOK /\ now \in Nat
      /\ ticks[w].started \in Nat /\ ticks[w].started <= now
      /\ \A id \in DOMAIN otps : otps[id] \in Row
      /\ SeenIsOwn(w) /\ AssignedIsTrue(w)
      /\ \A id \in DOMAIN otps :
            otps[id].provider_message_id # NULL =>
               /\ otps[id].sent_at # NULL
               /\ otps[id].provider_message_id \in Providers
               /\ issued[otps[id].provider_message_id] = id
  BY Facts DEF PlInv, PollHolds, DispatchHolds, Sending!DInv, Sending!ProviderIdIsOwn,
               Row, Settling!TypeOK, Settling!IsTickOfRows, Settling!Time
<1>4. /\ Settling!TypeOK' /\ UNCHANGED <<now, fate>>
      /\ \A v \in Pollers \ {w} : ticks'[v] = ticks[v]
      /\ Settling!SeesOnly(ticks[w], ticks'[w])
      /\ Settling!AssignsOnly(ticks[w], ticks'[w])
      /\ Settling!StartsOnly(ticks[w], ticks'[w])
      /\ Settling!WritesOnly(ticks[w])
  BY <1>1
<1>5. /\ DOMAIN otps' = DOMAIN otps
      /\ \A id \in DOMAIN otps :
            /\ RowGoesOn(otps[id], otps'[id])
            /\ otps'[id].expires_at = otps[id].expires_at
            /\ otps'[id].used_at = otps[id].used_at
            /\ otps'[id].attempt_count = otps[id].attempt_count
            /\ otps'[id].sent_at = otps[id].sent_at
            /\ otps'[id].provider_message_id = otps[id].provider_message_id
            /\ \/ otps'[id].status = otps[id].status
               \/ otps'[id].status \notin {"pending", "sent"}
            /\ \/ otps'[id].delivered_at = otps[id].delivered_at
               \/ WasDelivered(id)
  <2>1. DOMAIN otps' = DOMAIN otps
    BY <1>4 DEF Settling!WritesOnly
  <2>2. ASSUME NEW id \in DOMAIN otps, otps'[id] = otps[id]
        PROVE  RowGoesOn(otps[id], otps'[id])
    BY <2>2 DEF RowGoesOn
  <2>3. ASSUME NEW id \in DOMAIN otps, otps'[id] # otps[id]
        PROVE  /\ RowGoesOn(otps[id], otps'[id])
               /\ otps'[id].expires_at = otps[id].expires_at
               /\ otps'[id].used_at = otps[id].used_at
               /\ otps'[id].attempt_count = otps[id].attempt_count
               /\ otps'[id].sent_at = otps[id].sent_at
               /\ otps'[id].provider_message_id = otps[id].provider_message_id
               /\ \/ otps'[id].status = otps[id].status
                  \/ otps'[id].status \notin {"pending", "sent"}
               /\ \/ otps'[id].delivered_at = otps[id].delivered_at
                  \/ WasDelivered(id)
    <3>1. PICK d : d = ticks[w].dirty[id]
      OBVIOUS
    <3>2. id \in DOMAIN ticks[w].dirty /\ otps'[id] = Flush(otps[id], d)
      BY <1>4, <2>3, <3>1, SameRows DEF Settling!WritesOnly
    <3>3. /\ d \in Dirty /\ Settling!PollColumns(d, ticks[w].started)
          /\ d.delivered_at # NULL => WasDelivered(id)
      BY <1>3, <3>1, <3>2, SameRows
      DEF AssignedIsTrue, Settling!TypeOK, Settling!IsTickOfRows
    <3> QED
      BY <1>3, <3>2, <3>3, FlushType, StatusNames
      DEF Assigned, Settling!PollColumns, RowGoesOn
  <2> QED
    BY <2>1, <2>2, <2>3
<1>6. IsTable(otps')
  BY <1>4, SameRows DEF Settling!TypeOK
<1>7. Onward
  BY <1>2, <1>3, <1>4, <1>5, <1>6 DEF Onward, Sending!ProvidersGoOn
<1>8. SeenIsOwn(w)'
  <2> SUFFICES ASSUME NEW id \in DOMAIN ticks'[w].seen
               PROVE  /\ id \in DOMAIN otps /\ otps[id].provider_message_id # NULL
                      /\ issued[ticks'[w].seen[id].provider_message_id] = id
    BY <1>2, <1>5 DEF SeenIsOwn
  <2>1. CASE id \in DOMAIN ticks[w].seen /\ ticks'[w].seen[id] = ticks[w].seen[id]
    BY <1>3, <2>1 DEF SeenIsOwn
  <2>2. CASE /\ id \in DOMAIN otps /\ otps[id].provider_message_id # NULL
             /\ ticks'[w].seen[id].provider_message_id = otps[id].provider_message_id
    BY <1>3, <2>2
  <2> QED
    BY <1>4, <2>1, <2>2 DEF Settling!SeesOnly
<1>9. AssignedIsTrue(w)'
  <2> SUFFICES ASSUME NEW id \in DOMAIN ticks'[w].dirty
               PROVE  /\ id \in DOMAIN otps /\ otps[id].provider_message_id # NULL
                      /\ Settling!PollColumns(ticks'[w].dirty[id], ticks'[w].started)
                      /\ ticks'[w].dirty[id].delivered_at # NULL => WasDelivered(id)
    BY <1>2, <1>4, <1>5 DEF AssignedIsTrue, Settling!PollColumns, WasDelivered
  <2>1. CASE /\ id \in DOMAIN ticks[w].dirty /\ ticks'[w].dirty[id] = ticks[w].dirty[id]
             /\ ticks'[w].started = ticks[w].started
    BY <1>3, <2>1 DEF AssignedIsTrue
  <2>2. CASE /\ id \in DOMAIN ticks[w].seen
             /\ Settling!PollColumns(ticks'[w].dirty[id], ticks'[w].started)
             /\ ticks'[w].dirty[id].delivered_at # NULL =>
                   fate[ticks[w].seen[id].provider_message_id] = "delivered"
    <3>1. ticks[w].seen[id].provider_message_id \in Providers
      BY <1>3, <2>2 DEF Settling!TypeOK, Settling!IsTickOfRows, Settling!Copy
    <3> QED
      BY <1>3, <2>2, <3>1 DEF SeenIsOwn, WasDelivered
  <2> QED
    BY <1>4, <2>1, <2>2 DEF Settling!AssignsOnly
<1>10. ServiceHolds'
  <2>1. Verifying!IInv'
    BY <1>2, <1>4, <1>5, <1>6, Given, SameRows, Verifying!OthersWrite
    DEF PlInv, ServiceHolds
  <2> QED
    BY <1>2, <1>7, <2>1, CallsWait DEF ServiceHolds
<1>11. DispatchHolds'
  <2>1. Sending!DInv'
    BY <1>2, <1>4, <1>5, <1>6, Given, SameRows, Sending!OthersWrite
    DEF PlInv, DispatchHolds, Sending!provider
  <2> QED
    BY <1>2, <2>1 DEF PlInv, DispatchHolds, Sending!Dispatches, Sending!DispatchColumns
<1>12. PollHolds'
  <2>1. ticks'[w].started <= now'
    BY <1>3, <1>4 DEF Settling!StartsOnly
  <2> QED
    BY <1>3, <1>4, <1>7, <1>8, <1>9, <2>1, WaitingTick DEF PollHolds
<1>13. RowsHold'
  BY <1>5, <1>7, RowsAreTrue, RowsStayTrue DEF PlInv, RowsHold
<1> QED
  BY <1>7, <1>10, <1>11, <1>12, <1>13 DEF PlInv

\* The carrier settles a message, the clock moves, or nothing happens.
LEMMA OtherSteps ==
    ASSUME PlInv, (\E p \in Providers : Carrier(p)) \/ Tick \/ UNCHANGED vars
    PROVE  PlInv' /\ Onward
<1>1. /\ UNCHANGED <<otps, calls, wins, misses, requests, queue, workers, carried,
                     issued, misread, dropped, redeliveries, ticks, crashes>>
      /\ now' \in 0..Horizon /\ now <= now'
      /\ fate' \in [Providers -> {"transit", "delivered", "failed"}]
      /\ \A p \in Providers : fate[p] = "delivered" => fate'[p] = "delivered"
  <2>1. now \in 0..Horizon /\ fate \in [Providers -> {"transit", "delivered", "failed"}]
    BY DEF PlInv, PollHolds, Settling!TypeOK
  <2>2. CASE \E p \in Providers : Carrier(p)
    <3>1. PICK p \in Providers, end \in {"delivered", "failed"} :
             fate[p] = "transit" /\ fate' = [fate EXCEPT ![p] = end]
      BY <2>2 DEF Carrier, Polling!Decided
    <3>2. UNCHANGED <<otps, now, calls, wins, misses, requests, queue, workers,
                      carried, issued, misread, dropped, redeliveries, ticks, crashes>>
      BY <2>2 DEF Carrier, serviceVars, deliveryVars
    <3> QED
      BY <2>1, <3>1, <3>2
  <2>3. CASE Tick
    <3>1. /\ now < Horizon /\ now' = now + 1
          /\ UNCHANGED <<otps, calls, wins, misses, requests, queue, workers, carried,
                         issued, misread, dropped, redeliveries, ticks, fate, crashes>>
      BY <2>3 DEF Tick, Service!Tick, deliveryVars, pollVars
    <3> QED
      BY <2>1, <3>1, Given
  <2>4. CASE UNCHANGED vars
    BY <2>1, <2>4 DEF vars, serviceVars, deliveryVars, pollVars
  <2> QED
    BY <2>2, <2>3, <2>4
<1>2. IsTable(otps)
  BY Facts
<1>3. Onward
  BY <1>1, <1>2 DEF Onward, RowGoesOn, Sending!ProvidersGoOn
<1>4. ServiceHolds'
  <2>1. Verifying!IInv'
    BY <1>1 DEF PlInv, ServiceHolds, Verifying!IInv, Verifying!TypeOK,
       Verifying!CallShape, Verifying!CopyIsFaithful, Verifying!DecisionIsSound,
       Verifying!AttemptsWithinCap, Verifying!UsedInTime,
       Verifying!AcceptanceIsDurable, Verifying!AcceptedOncePerHandler
  <2> QED
    BY <1>1, <1>3, <2>1, CallsWait DEF ServiceHolds
<1>5. DispatchHolds'
  <2>1. Sending!DInv'
    BY <1>1 DEF PlInv, DispatchHolds, Sending!DInv, Sending!TypeOK, Sending!At,
       Sending!WorkerShape, Sending!OutcomeIsTrue, Sending!Awaited, Sending!Works,
       Sending!SentWasAnswered, Sending!SaysSent, Sending!ProviderIdIsOwn
  <2> QED
    BY <1>1, <2>1 DEF PlInv, DispatchHolds, Sending!Dispatches, Sending!DispatchColumns
<1>6. PollHolds'
  BY <1>1, <1>3, TicksWait
<1>7. RowsHold'
  BY <1>1, <1>3, RowsAreTrue, RowsStayTrue DEF PlInv, RowsHold
<1> QED
  BY <1>3, <1>4, <1>5, <1>6, <1>7 DEF PlInv

\* The platform starts with an empty table and everyone idle.
LEMMA InitHolds == Init => PlInv
<1> SUFFICES ASSUME Init PROVE PlInv
  OBVIOUS
<1>1. Verifying!Init /\ Sending!Init /\ Settling!Init
  BY SameService, SameDelivery, SamePolling DEF Init
<1>2. DOMAIN otps = {}
  BY <1>1, SameRows, EmptyType DEF Sending!Init
<1>3. Verifying!IInv /\ Sending!DInv
  BY <1>1, Given, Verifying!InitHolds, Sending!InitHolds
<1>4. ServiceHolds
  BY <1>1, <1>3 DEF ServiceHolds, Verifying!Init, Verifying!Idle, Verifying!Clean,
     Verifying!Verifies, Verifying!VerifyColumns, CodeIsKnown
<1>5. DispatchHolds
  BY <1>1, <1>3 DEF DispatchHolds, Sending!Init, Sending!Idle, Sending!Clean,
     Sending!Dispatches, Sending!DispatchColumns
<1>6. PollHolds
  <2>1. Settling!TypeOK
    BY <1>1, Given, Settling!InitHolds DEF Settling!PInv
  <2>2. \A w \in Pollers : /\ DOMAIN ticks[w].seen = {} /\ DOMAIN ticks[w].dirty = {}
                           /\ ticks[w].started <= now
    BY <1>1 DEF Settling!Init, Settling!Idle, Settling!Nothing
  <2> QED
    BY <2>1, <2>2 DEF PollHolds, SeenIsOwn, AssignedIsTrue
<1>7. RowsHold
  BY <1>2, FS_EmptySet
  DEF RowsHold, NoGuessIsIssued, NoneIsBlocked, VerifiedWasCarried, DeliveredIsTrue
<1> QED
  BY <1>4, <1>5, <1>6, <1>7 DEF PlInv

\* Every step of the platform.
LEMMA NextKeeps == PlInv /\ [Next]_vars => PlInv' /\ Onward
<1> SUFFICES ASSUME PlInv, [Next]_vars PROVE PlInv' /\ Onward
  OBVIOUS
<1> QED
  BY RequestStep, VerifyStep, DispatchStep, PollStep, OtherSteps DEF Next

(***************************************************************************)
(* The refinements.  Each component is shown the platform's table without  *)
(* the columns it neither reads nor writes: a step of a neighbour is then  *)
(* one of the steps its module allows the neighbours, or none.             *)
(*                                                                         *)
(* The rows.                                                               *)
(***************************************************************************)
\* A row is its twelve columns.
LEMMA RowsEqual ==
    ASSUME NEW a \in Row, NEW b \in Row,
           a.recipient = b.recipient, a.channel = b.channel, a.code_hash = b.code_hash,
           a.status = b.status, a.created_at = b.created_at, a.expires_at = b.expires_at,
           a.used_at = b.used_at, a.attempt_count = b.attempt_count,
           a.sent_at = b.sent_at, a.delivered_at = b.delivered_at,
           a.failed_at = b.failed_at, a.provider_message_id = b.provider_message_id
    PROVE  a = b
  BY DEF Row

\* What the service knows of a row.
LEMMA ServiceColumns ==
    ASSUME NEW row \in Row
    PROVE  LET seen == WithoutDelivery(row)
           IN /\ seen \in Row
              /\ seen.recipient = row.recipient /\ seen.channel = row.channel
              /\ seen.code_hash = row.code_hash /\ seen.status = row.status
              /\ seen.created_at = row.created_at /\ seen.expires_at = row.expires_at
              /\ seen.used_at = row.used_at /\ seen.attempt_count = row.attempt_count
              /\ seen.sent_at = NULL /\ seen.delivered_at = NULL
              /\ seen.failed_at = NULL /\ seen.provider_message_id = NULL
  BY DEF Row, WithoutDelivery, TimeOrNull

\* What dispatch knows of a row.
LEMMA DeliveryColumns ==
    ASSUME NEW row \in Row
    PROVE  LET seen == WithoutVerification(row)
           IN /\ seen \in Row
              /\ seen.recipient = row.recipient /\ seen.channel = row.channel
              /\ seen.code_hash = row.code_hash /\ seen.status = row.status
              /\ seen.created_at = row.created_at /\ seen.expires_at = row.expires_at
              /\ seen.used_at = NULL /\ seen.attempt_count = 0
              /\ seen.sent_at = row.sent_at /\ seen.delivered_at = NULL
              /\ seen.failed_at = row.failed_at
              /\ seen.provider_message_id = row.provider_message_id
  BY DEF Row, WithoutVerification, TimeOrNull

\* The service sees a commit of its own whole, and of a commit of the others the
\* status alone.
LEMMA ServiceFlush ==
    ASSUME NEW row \in Row, NEW d \in Dirty
    PROVE  /\ Verifying!VerifyColumns(d) =>
                 WithoutDelivery(Flush(row, d)) = Flush(WithoutDelivery(row), d)
           /\ d.used_at = NULL /\ d.attempt_count = NULL =>
                 WithoutDelivery(Flush(row, d))
                    = IF d.status = NULL THEN WithoutDelivery(row)
                      ELSE Flush(WithoutDelivery(row), [Clean EXCEPT !.status = d.status])
<1> DEFINE seen == WithoutDelivery(row)
           only == [Clean EXCEPT !.status = d.status]
<1>1. /\ only \in Dirty /\ only.status = d.status /\ only.used_at = NULL
      /\ only.attempt_count = NULL /\ only.sent_at = NULL /\ only.delivered_at = NULL
      /\ only.failed_at = NULL /\ only.provider_message_id = NULL
  BY DEF Clean, Dirty, TimeOrNull
<1>2. seen \in Row /\ Flush(row, d) \in Row /\ WithoutDelivery(Flush(row, d)) \in Row
      /\ Flush(seen, d) \in Row /\ Flush(seen, only) \in Row
  BY <1>1, ServiceColumns, FlushType
<1> HIDE DEF only, seen
<1>3. ASSUME Verifying!VerifyColumns(d)
      PROVE  WithoutDelivery(Flush(row, d)) = Flush(seen, d)
  <2>1. PICK a, b : a = WithoutDelivery(Flush(row, d)) /\ b = Flush(seen, d)
    OBVIOUS
  <2>2. /\ a \in Row /\ b \in Row
        /\ a.recipient = b.recipient /\ a.channel = b.channel /\ a.code_hash = b.code_hash
        /\ a.status = b.status /\ a.created_at = b.created_at
        /\ a.expires_at = b.expires_at
        /\ a.used_at = b.used_at /\ a.attempt_count = b.attempt_count
        /\ a.sent_at = b.sent_at /\ a.delivered_at = b.delivered_at
        /\ a.failed_at = b.failed_at /\ a.provider_message_id = b.provider_message_id
    BY <1>2, <1>3, <2>1, FlushType, ServiceColumns
    DEF seen, Verifying!VerifyColumns, Assigned
  <2> QED
    BY <2>1, <2>2, RowsEqual
<1>4. ASSUME d.used_at = NULL, d.attempt_count = NULL
      PROVE  WithoutDelivery(Flush(row, d)) = Flush(seen, only)
  <2>1. PICK a, b : a = WithoutDelivery(Flush(row, d)) /\ b = Flush(seen, only)
    OBVIOUS
  <2>2. /\ a \in Row /\ b \in Row
        /\ a.recipient = b.recipient /\ a.channel = b.channel /\ a.code_hash = b.code_hash
        /\ a.status = b.status /\ a.created_at = b.created_at
        /\ a.expires_at = b.expires_at
        /\ a.used_at = b.used_at /\ a.attempt_count = b.attempt_count
        /\ a.sent_at = b.sent_at /\ a.delivered_at = b.delivered_at
        /\ a.failed_at = b.failed_at /\ a.provider_message_id = b.provider_message_id
    BY <1>1, <1>2, <1>4, <2>1, FlushType, ServiceColumns DEF seen, Assigned
  <2> QED
    BY <2>1, <2>2, RowsEqual
<1>5. ASSUME d.used_at = NULL, d.attempt_count = NULL, d.status = NULL
      PROVE  WithoutDelivery(Flush(row, d)) = seen
  <2>1. PICK a : a = WithoutDelivery(Flush(row, d))
    OBVIOUS
  <2>2. /\ a \in Row /\ seen \in Row
        /\ a.recipient = seen.recipient /\ a.channel = seen.channel
        /\ a.code_hash = seen.code_hash /\ a.status = seen.status
        /\ a.created_at = seen.created_at /\ a.expires_at = seen.expires_at
        /\ a.used_at = seen.used_at /\ a.attempt_count = seen.attempt_count
        /\ a.sent_at = seen.sent_at /\ a.delivered_at = seen.delivered_at
        /\ a.failed_at = seen.failed_at
        /\ a.provider_message_id = seen.provider_message_id
    BY <1>2, <1>5, <2>1, FlushType, ServiceColumns DEF seen, Assigned
  <2> QED
    BY <2>1, <2>2, RowsEqual
<1> QED
  BY <1>3, <1>4, <1>5 DEF seen, only

\* Nothing assigned is nothing assigned, for dispatch too.
LEMMA SameClean == Sending!Clean = Clean
  BY DEF Sending!Clean, Clean

\* Dispatch sees its own commits whole, those of verify_otp as a status, and those of
\* the poll as a receipt, or not at all where the receipt says nothing yet.
LEMMA DeliveryFlush ==
    ASSUME NEW row \in Row, NEW d \in Dirty
    PROVE  /\ Sending!DispatchColumns(d) =>
                 WithoutVerification(Flush(row, d)) = Flush(WithoutVerification(row), d)
           /\ Verifying!VerifyColumns(d) =>
                 WithoutVerification(Flush(row, d))
                    = IF d.status = NULL THEN WithoutVerification(row)
                      ELSE Flush(WithoutVerification(row), [Clean EXCEPT !.status = d.status])
           /\ \A t \in Nat :
                 Settling!PollColumns(d, t) =>
                    WithoutVerification(Flush(row, d))
                       = IF d.status = NULL THEN WithoutVerification(row)
                         ELSE Flush(WithoutVerification(row), Sending!Receipt(d.status, t))
<1> DEFINE seen == WithoutVerification(row)
           view == WithoutVerification(Flush(row, d))
<1>1. seen \in Row /\ Flush(row, d) \in Row /\ view \in Row /\ Flush(seen, d) \in Row
  BY DeliveryColumns, FlushType
<1>2. /\ view.recipient = seen.recipient /\ view.channel = seen.channel
      /\ view.code_hash = seen.code_hash /\ view.created_at = seen.created_at
      /\ view.expires_at = seen.expires_at
      /\ view.used_at = NULL /\ view.attempt_count = 0 /\ view.delivered_at = NULL
      /\ seen.used_at = NULL /\ seen.attempt_count = 0 /\ seen.delivered_at = NULL
      /\ view.status = Assigned(d.status, seen.status)
      /\ view.sent_at = Assigned(d.sent_at, seen.sent_at)
      /\ view.failed_at = Assigned(d.failed_at, seen.failed_at)
      /\ view.provider_message_id
            = Assigned(d.provider_message_id, seen.provider_message_id)
  BY <1>1, DeliveryColumns, FlushType
<1> HIDE DEF seen, view
<1>3. ASSUME NEW e \in Dirty,
             e.used_at = NULL, e.attempt_count = NULL, e.delivered_at = NULL,
             e.status = d.status, e.sent_at = d.sent_at, e.failed_at = d.failed_at,
             e.provider_message_id = d.provider_message_id
      PROVE  view = Flush(seen, e)
  <2>1. PICK b : b = Flush(seen, e)
    OBVIOUS
  <2>2. /\ view.recipient = b.recipient /\ view.channel = b.channel
        /\ view.code_hash = b.code_hash /\ view.status = b.status
        /\ view.created_at = b.created_at /\ view.expires_at = b.expires_at
        /\ view.used_at = b.used_at /\ view.attempt_count = b.attempt_count
        /\ view.sent_at = b.sent_at /\ view.delivered_at = b.delivered_at
        /\ view.failed_at = b.failed_at
        /\ view.provider_message_id = b.provider_message_id
        /\ b \in Row
    BY <1>1, <1>2, <1>3, <2>1, FlushType DEF Assigned
  <2> QED
    BY <1>1, <2>1, <2>2, RowsEqual
<1>4. Sending!DispatchColumns(d) => view = Flush(seen, d)
  BY <1>3 DEF Sending!DispatchColumns
<1>5. Verifying!VerifyColumns(d) => view = Flush(seen, [Clean EXCEPT !.status = d.status])
  <2>1. PICK e : e = [Clean EXCEPT !.status = d.status]
    OBVIOUS
  <2>2. /\ e \in Dirty /\ e.used_at = NULL /\ e.attempt_count = NULL
        /\ e.delivered_at = NULL /\ e.status = d.status /\ e.sent_at = NULL
        /\ e.failed_at = NULL /\ e.provider_message_id = NULL
    BY <2>1 DEF Clean, Dirty, TimeOrNull
  <2> QED
    BY <1>3, <2>1, <2>2 DEF Verifying!VerifyColumns
<1>6. ASSUME NEW t \in Nat, Settling!PollColumns(d, t), d.status # NULL
      PROVE  view = Flush(seen, Sending!Receipt(d.status, t))
  <2>1. PICK e : e = Sending!Receipt(d.status, t)
    OBVIOUS
  <2>2. /\ e \in Dirty /\ e.used_at = NULL /\ e.attempt_count = NULL
        /\ e.delivered_at = NULL /\ e.status = d.status /\ e.sent_at = NULL
        /\ e.failed_at = d.failed_at /\ e.provider_message_id = NULL
    BY <1>6, <2>1, SameClean DEF Sending!Receipt, Clean, Dirty, TimeOrNull, Settling!PollColumns
  <2> QED
    BY <1>3, <1>6, <2>1, <2>2 DEF Settling!PollColumns
<1>7. ASSUME d.status = NULL, d.sent_at = NULL, d.failed_at = NULL,
             d.provider_message_id = NULL
      PROVE  view = seen
  <2>1. /\ view.status = seen.status /\ view.sent_at = seen.sent_at
        /\ view.failed_at = seen.failed_at
        /\ view.provider_message_id = seen.provider_message_id
    BY <1>2, <1>7 DEF Assigned
  <2> QED
    BY <1>1, <1>2, <2>1, RowsEqual
<1>8. ASSUME NEW t \in Nat, Settling!PollColumns(d, t), d.status = NULL
      PROVE  view = seen
  BY <1>7, <1>8, StatusNames DEF Settling!PollColumns
<1>9. Verifying!VerifyColumns(d) /\ d.status = NULL => view = seen
  BY <1>7 DEF Verifying!VerifyColumns
<1> QED
  BY <1>4, <1>5, <1>6, <1>8, <1>9 DEF seen, view

(***************************************************************************)
(* The tables.                                                             *)
(***************************************************************************)
\* A table is its rows.
LEMMA TablesEqual ==
    ASSUME NEW a, NEW b, IsTable(a), IsTable(b), DOMAIN a = DOMAIN b,
           \A id \in DOMAIN a : a[id] = b[id]
    PROVE  a = b
<1>1. a \in [DOMAIN a -> Row] /\ b \in [DOMAIN a -> Row]
  BY DEF IsTable
<1> QED
  BY <1>1

\* A table seen is a table of the same rows.
LEMMA ViewIsTable ==
    ASSUME NEW rows, IsTable(rows)
    PROVE  /\ IsTable(ServiceRows(rows)) /\ IsTable(DeliveryRows(rows))
           /\ DOMAIN ServiceRows(rows) = DOMAIN rows
           /\ DOMAIN DeliveryRows(rows) = DOMAIN rows
           /\ \A id \in DOMAIN rows :
                 /\ rows[id] \in Row
                 /\ ServiceRows(rows)[id] = WithoutDelivery(rows[id])
                 /\ DeliveryRows(rows)[id] = WithoutVerification(rows[id])
<1>1. /\ rows \in [DOMAIN rows -> Row] /\ DOMAIN rows \subseteq Ids
      /\ \A id \in DOMAIN rows : rows[id] \in Row
  BY DEF IsTable
<1>2. /\ ServiceRows(rows) \in [DOMAIN rows -> Row]
      /\ \A id \in DOMAIN rows : ServiceRows(rows)[id] = WithoutDelivery(rows[id])
  BY <1>1, ServiceColumns DEF ServiceRows
<1>3. /\ DeliveryRows(rows) \in [DOMAIN rows -> Row]
      /\ \A id \in DOMAIN rows : DeliveryRows(rows)[id] = WithoutVerification(rows[id])
  BY <1>1, DeliveryColumns DEF DeliveryRows
<1> QED
  BY <1>1, <1>2, <1>3 DEF IsTable

\* The row _latest_active_otp finds is the same.
LEMMA SameLatest ==
    ASSUME NEW rows, IsTable(rows), NEW r
    PROVE  LatestActive(ServiceRows(rows), r) = LatestActive(rows, r)
<1>1. /\ DOMAIN ServiceRows(rows) = DOMAIN rows
      /\ \A id \in DOMAIN rows :
            /\ ServiceRows(rows)[id].recipient = rows[id].recipient
            /\ ServiceRows(rows)[id].status = rows[id].status
            /\ ServiceRows(rows)[id].created_at = rows[id].created_at
  BY ViewIsTable, ServiceColumns
<1>2. ActiveIds(ServiceRows(rows), r) = ActiveIds(rows, r)
  BY <1>1 DEF ActiveIds
<1>3. ActiveIds(rows, r) \subseteq DOMAIN rows
  BY DEF ActiveIds
<1> QED
  BY <1>1, <1>2, <1>3 DEF LatestActive

\* A new row has nothing to hide.
LEMMA ViewOfInsert ==
    ASSUME NEW rows, IsTable(rows), NEW id \in Ids, NEW row \in Row,
           row.used_at = NULL, row.attempt_count = 0, row.sent_at = NULL,
           row.delivered_at = NULL, row.failed_at = NULL,
           row.provider_message_id = NULL
    PROVE  /\ ServiceRows(Insert(rows, id, row)) = Insert(ServiceRows(rows), id, row)
           /\ DeliveryRows(Insert(rows, id, row)) = Insert(DeliveryRows(rows), id, row)
<1>1. WithoutDelivery(row) = row /\ WithoutVerification(row) = row
  BY DEF Row, WithoutDelivery, WithoutVerification
<1>2. PICK new : new = Insert(rows, id, row)
  OBVIOUS
<1>3. /\ IsTable(new) /\ DOMAIN new = DOMAIN rows \cup {id} /\ new[id] = row
      /\ \A i \in DOMAIN rows \ {id} : new[i] = rows[i]
  <2>1. /\ IsTable(Insert(rows, id, row))
        /\ DOMAIN Insert(rows, id, row) = DOMAIN rows \cup {id}
        /\ Insert(rows, id, row)[id] = row
        /\ \A i \in DOMAIN rows \ {id} : Insert(rows, id, row)[i] = rows[i]
    BY InsertType
  <2> QED
    BY <1>2, <2>1
<1>4. ServiceRows(new) = Insert(ServiceRows(rows), id, row)
  <2>1. PICK a, b : a = ServiceRows(new) /\ b = Insert(ServiceRows(rows), id, row)
    OBVIOUS
  <2>2. /\ IsTable(a) /\ IsTable(b) /\ DOMAIN a = DOMAIN new /\ DOMAIN b = DOMAIN new
        /\ a[id] = row /\ b[id] = row
        /\ \A i \in DOMAIN rows \ {id} : /\ a[i] = WithoutDelivery(rows[i])
                                         /\ b[i] = WithoutDelivery(rows[i])
    BY <1>1, <1>3, <2>1, ViewIsTable, InsertType
  <2> QED
    BY <1>3, <2>1, <2>2, TablesEqual
<1>5. DeliveryRows(new) = Insert(DeliveryRows(rows), id, row)
  <2>1. PICK a, b : a = DeliveryRows(new) /\ b = Insert(DeliveryRows(rows), id, row)
    OBVIOUS
  <2>2. /\ IsTable(a) /\ IsTable(b) /\ DOMAIN a = DOMAIN new /\ DOMAIN b = DOMAIN new
        /\ a[id] = row /\ b[id] = row
        /\ \A i \in DOMAIN rows \ {id} : /\ a[i] = WithoutVerification(rows[i])
                                         /\ b[i] = WithoutVerification(rows[i])
    BY <1>1, <1>3, <2>1, ViewIsTable, InsertType
  <2> QED
    BY <1>3, <2>1, <2>2, TablesEqual
<1> QED
  BY <1>2, <1>4, <1>5

\* The service sees the commit of one row as one.
LEMMA ServiceSeesCommit ==
    ASSUME NEW rows, IsTable(rows), NEW new, IsTable(new), DOMAIN new = DOMAIN rows,
           NEW id \in DOMAIN rows, \A i \in DOMAIN rows \ {id} : new[i] = rows[i],
           NEW e \in Dirty, WithoutDelivery(new[id]) = Flush(WithoutDelivery(rows[id]), e)
    PROVE  ServiceRows(new) = [ServiceRows(rows) EXCEPT ![id] = Flush(@, e)]
<1>1. PICK seen, a, b : /\ seen = ServiceRows(rows) /\ a = ServiceRows(new)
                        /\ b = [seen EXCEPT ![id] = Flush(@, e)]
  OBVIOUS
<1>2. /\ IsTable(a) /\ DOMAIN a = DOMAIN rows
      /\ \A i \in DOMAIN rows : a[i] = WithoutDelivery(new[i])
      /\ IsTable(seen) /\ DOMAIN seen = DOMAIN rows
      /\ \A i \in DOMAIN rows : seen[i] = WithoutDelivery(rows[i])
  BY <1>1, ViewIsTable
<1>3. /\ IsTable(b) /\ DOMAIN b = DOMAIN seen /\ b[id] = Flush(seen[id], e)
      /\ \A i \in DOMAIN seen \ {id} : b[i] = seen[i]
  BY <1>1, <1>2, CommitType
<1>4. DOMAIN a = DOMAIN b /\ \A i \in DOMAIN a : a[i] = b[i]
  BY <1>2, <1>3
<1> QED
  BY ZenonT(60), <1>1, <1>2, <1>3, <1>4, TablesEqual

\* So does dispatch.
LEMMA DeliverySeesCommit ==
    ASSUME NEW rows, IsTable(rows), NEW new, IsTable(new), DOMAIN new = DOMAIN rows,
           NEW id \in DOMAIN rows, \A i \in DOMAIN rows \ {id} : new[i] = rows[i],
           NEW e \in Dirty, WithoutVerification(new[id]) = Flush(WithoutVerification(rows[id]), e)
    PROVE  DeliveryRows(new) = [DeliveryRows(rows) EXCEPT ![id] = Flush(@, e)]
<1>1. PICK seen, a, b : /\ seen = DeliveryRows(rows) /\ a = DeliveryRows(new)
                        /\ b = [seen EXCEPT ![id] = Flush(@, e)]
  OBVIOUS
<1>2. /\ IsTable(a) /\ DOMAIN a = DOMAIN rows
      /\ \A i \in DOMAIN rows : a[i] = WithoutVerification(new[i])
      /\ IsTable(seen) /\ DOMAIN seen = DOMAIN rows
      /\ \A i \in DOMAIN rows : seen[i] = WithoutVerification(rows[i])
  BY <1>1, ViewIsTable
<1>3. /\ IsTable(b) /\ DOMAIN b = DOMAIN seen /\ b[id] = Flush(seen[id], e)
      /\ \A i \in DOMAIN seen \ {id} : b[i] = seen[i]
  BY <1>1, <1>2, CommitType
<1>4. DOMAIN a = DOMAIN b /\ \A i \in DOMAIN a : a[i] = b[i]
  BY <1>2, <1>3
<1> QED
  BY ZenonT(60), <1>1, <1>2, <1>3, <1>4, TablesEqual

\* The service sees the commit of several rows as one.
LEMMA ServiceSeesBatch ==
    ASSUME NEW rows, IsTable(rows), NEW new, IsTable(new), DOMAIN new = DOMAIN rows,
           NEW e, DOMAIN e \subseteq DOMAIN rows,
           \A id \in DOMAIN e : /\ e[id] \in Dirty
                                /\ WithoutDelivery(new[id]) = Flush(WithoutDelivery(rows[id]), e[id]),
           \A id \in DOMAIN rows \ DOMAIN e : WithoutDelivery(new[id]) = WithoutDelivery(rows[id])
    PROVE  ServiceRows(new) = FlushAll(ServiceRows(rows), e)
<1>1. PICK seen, a, b : seen = ServiceRows(rows) /\ a = ServiceRows(new) /\ b = FlushAll(seen, e)
  OBVIOUS
<1>2. /\ IsTable(a) /\ DOMAIN a = DOMAIN rows
      /\ \A i \in DOMAIN rows : a[i] = WithoutDelivery(new[i])
      /\ IsTable(seen) /\ DOMAIN seen = DOMAIN rows
      /\ \A i \in DOMAIN rows : seen[i] = WithoutDelivery(rows[i])
  BY <1>1, ViewIsTable
<1>3. /\ IsTable(b) /\ DOMAIN b = DOMAIN seen
      /\ \A i \in DOMAIN seen : /\ i \in DOMAIN e => b[i] = Flush(seen[i], e[i])
                                /\ i \notin DOMAIN e => b[i] = seen[i]
  BY <1>1, <1>2, CommitAllType
<1>4. DOMAIN a = DOMAIN b /\ \A i \in DOMAIN a : a[i] = b[i]
  BY <1>2, <1>3
<1> QED
  BY <1>1, <1>2, <1>3, <1>4, TablesEqual

\* So does dispatch.
LEMMA DeliverySeesBatch ==
    ASSUME NEW rows, IsTable(rows), NEW new, IsTable(new), DOMAIN new = DOMAIN rows,
           NEW e, DOMAIN e \subseteq DOMAIN rows,
           \A id \in DOMAIN e : /\ e[id] \in Dirty
                                /\ WithoutVerification(new[id]) = Flush(WithoutVerification(rows[id]), e[id]),
           \A id \in DOMAIN rows \ DOMAIN e : WithoutVerification(new[id]) = WithoutVerification(rows[id])
    PROVE  DeliveryRows(new) = FlushAll(DeliveryRows(rows), e)
<1>1. PICK seen, a, b : seen = DeliveryRows(rows) /\ a = DeliveryRows(new) /\ b = FlushAll(seen, e)
  OBVIOUS
<1>2. /\ IsTable(a) /\ DOMAIN a = DOMAIN rows
      /\ \A i \in DOMAIN rows : a[i] = WithoutVerification(new[i])
      /\ IsTable(seen) /\ DOMAIN seen = DOMAIN rows
      /\ \A i \in DOMAIN rows : seen[i] = WithoutVerification(rows[i])
  BY <1>1, ViewIsTable
<1>3. /\ IsTable(b) /\ DOMAIN b = DOMAIN seen
      /\ \A i \in DOMAIN seen : /\ i \in DOMAIN e => b[i] = Flush(seen[i], e[i])
                                /\ i \notin DOMAIN e => b[i] = seen[i]
  BY <1>1, <1>2, CommitAllType
<1>4. DOMAIN a = DOMAIN b /\ \A i \in DOMAIN a : a[i] = b[i]
  BY <1>2, <1>3
<1> QED
  BY <1>1, <1>2, <1>3, <1>4, TablesEqual

\* The components, as the views instantiate them, use the same words.
LEMMA SameWords ==
    /\ ServiceView!Clean = Clean /\ Verifying!Clean = Clean
    /\ DeliveryView!Clean = Clean /\ Sending!Clean = Clean
    /\ ServiceView!Idle = Verifying!Idle /\ DeliveryView!Idle = Sending!Idle
    /\ ServiceView!EmptyTable = EmptyTable /\ DeliveryView!EmptyTable = EmptyTable
    /\ \A v, n, st : ServiceView!Reply(v, n, st) = Verifying!Reply(v, n, st)
    /\ \A rows, r : /\ ServiceView!LatestActive(rows, r) = LatestActive(rows, r)
                    /\ Verifying!LatestActive(rows, r) = LatestActive(rows, r)
    /\ \A code, h : ServiceView!verify_code(code, h) <=> Verifying!verify_code(code, h)
    /\ \A row, d : /\ ServiceView!Flush(row, d) = Flush(row, d)
                   /\ DeliveryView!Flush(row, d) = Flush(row, d)
    /\ \A rows, d : /\ ServiceView!FlushAll(rows, d) = FlushAll(rows, d)
                    /\ DeliveryView!FlushAll(rows, d) = FlushAll(rows, d)
                    /\ Settling!FlushAll(rows, d) = FlushAll(rows, d)
    /\ \A st, t : DeliveryView!Receipt(st, t) = Sending!Receipt(st, t)
<1>1. /\ ServiceView!Clean = Clean /\ Verifying!Clean = Clean
      /\ DeliveryView!Clean = Clean /\ Sending!Clean = Clean
      /\ ServiceView!Idle = Verifying!Idle /\ DeliveryView!Idle = Sending!Idle
      /\ ServiceView!EmptyTable = EmptyTable /\ DeliveryView!EmptyTable = EmptyTable
      /\ \A v, n, st : ServiceView!Reply(v, n, st) = Verifying!Reply(v, n, st)
  BY Zenon DEF ServiceView!Clean, Verifying!Clean, DeliveryView!Clean, Sending!Clean,
     Clean, ServiceView!Idle, Verifying!Idle, DeliveryView!Idle, Sending!Idle,
     ServiceView!EmptyTable, DeliveryView!EmptyTable, EmptyTable, ServiceView!Reply,
     Verifying!Reply
<1>2. \A rows, r : /\ ServiceView!LatestActive(rows, r) = LatestActive(rows, r)
                   /\ Verifying!LatestActive(rows, r) = LatestActive(rows, r)
  BY Zenon DEF ServiceView!LatestActive, Verifying!LatestActive, LatestActive,
     ServiceView!ActiveIds, Verifying!ActiveIds, ActiveIds, ServiceView!Active,
     Verifying!Active, Active
<1>3. \A code, h : ServiceView!verify_code(code, h) <=> Verifying!verify_code(code, h)
  BY Zenon DEF ServiceView!verify_code, Verifying!verify_code, ServiceView!hash_code,
     Verifying!hash_code
<1>4. \A row, d : /\ ServiceView!Flush(row, d) = Flush(row, d)
                  /\ DeliveryView!Flush(row, d) = Flush(row, d)
                  /\ Settling!Flush(row, d) = Flush(row, d)
  BY ZenonT(60) DEF ServiceView!Flush, DeliveryView!Flush, Settling!Flush, Flush,
     ServiceView!Assigned, DeliveryView!Assigned, Settling!Assigned, Assigned
<1>5. \A rows, d : /\ ServiceView!FlushAll(rows, d) = FlushAll(rows, d)
                   /\ DeliveryView!FlushAll(rows, d) = FlushAll(rows, d)
                   /\ Settling!FlushAll(rows, d) = FlushAll(rows, d)
  BY <1>4 DEF ServiceView!FlushAll, DeliveryView!FlushAll, Settling!FlushAll, FlushAll
<1>6. \A st, t : DeliveryView!Receipt(st, t) = Sending!Receipt(st, t)
  BY Zenon DEF DeliveryView!Receipt, Sending!Receipt, DeliveryView!Clean, Sending!Clean
<1> QED
  BY <1>1, <1>2, <1>3, <1>4, <1>5, <1>6

(***************************************************************************)
(* The calls.                                                              *)
(***************************************************************************)
\* What the steps use of a call.
LEMMA CallFacts ==
    ASSUME PlInv, NEW s \in Sessions
    PROVE  /\ DOMAIN calls = Sessions
           /\ calls[s] \in Verifying!Call
           /\ calls[s].pc = "idle" => calls[s] = Verifying!Idle
           /\ calls[s].pc # "idle" => /\ calls[s].id \in DOMAIN otps
                                      /\ calls[s].row \in Row
           /\ calls[s].dirty \in Dirty /\ Verifying!VerifyColumns(calls[s].dirty)
  BY SameRows DEF PlInv, ServiceHolds, Verifying!IInv, Verifying!TypeOK,
     Verifying!CallShape, Verifying!Call, Verifying!Verifies

\* The service sees all of a call but the delivery columns of its copy.
LEMMA CallSeen ==
    ASSUME PlInv, NEW s \in Sessions
    PROVE  LET call == calls[s]
               seen == ServiceCalls(calls)[s]
           IN /\ seen = CallView(call)
              /\ seen.pc = call.pc /\ seen.id = call.id /\ seen.code = call.code
              /\ seen.dirty = call.dirty /\ seen.reply = call.reply
              /\ call.pc = "idle" => seen = call
              /\ call.pc # "idle" =>
                    /\ seen.row.expires_at = call.row.expires_at
                    /\ seen.row.used_at = call.row.used_at
                    /\ seen.row.attempt_count = call.row.attempt_count
                    /\ seen.row.status = call.row.status
                    /\ seen.row.code_hash = call.row.code_hash
<1>1. /\ calls[s] \in Verifying!Call /\ ServiceCalls(calls)[s] = CallView(calls[s])
      /\ calls[s].pc # "idle" => calls[s].row \in Row
  BY CallFacts DEF ServiceCalls
<1>2. CASE calls[s].pc = "idle"
  BY <1>1, <1>2 DEF CallView
<1>3. CASE calls[s].pc # "idle"
  <2>1. ServiceCalls(calls)[s] = [calls[s] EXCEPT !.row = WithoutDelivery(calls[s].row)]
    BY <1>1, <1>3 DEF CallView
  <2> QED
    BY <1>1, <1>3, <2>1, ServiceColumns DEF Verifying!Call
<1> QED
  BY <1>2, <1>3

\* A step of one handler is seen as one of that handler.
LEMMA CallsSeen ==
    ASSUME PlInv, NEW s \in Sessions, NEW call, calls' = [calls EXCEPT ![s] = call]
    PROVE  ServiceCalls(calls)' = [ServiceCalls(calls) EXCEPT ![s] = CallView(call)]
<1>1. DOMAIN calls = Sessions
  BY CallFacts
<1>2. \A t \in Sessions : calls'[t] = IF t = s THEN call ELSE calls[t]
  BY <1>1
<1>3. PICK seen : seen = ServiceCalls(calls)
  OBVIOUS
<1>4. seen = [t \in Sessions |-> CallView(calls[t])]
  BY <1>3 DEF ServiceCalls
<1>5. [seen EXCEPT ![s] = CallView(call)]
         = [t \in Sessions |-> IF t = s THEN CallView(call) ELSE CallView(calls[t])]
  BY <1>4
<1>6. ServiceCalls(calls)'
         = [t \in Sessions |-> IF t = s THEN CallView(call) ELSE CallView(calls[t])]
  BY <1>2 DEF ServiceCalls
<1> QED
  BY <1>3, <1>5, <1>6

\* A handler that ends its call is seen to end it.
LEMMA IdleSeen ==
    ASSUME PlInv, NEW s \in Sessions, calls' = [calls EXCEPT ![s] = Verifying!Idle]
    PROVE  ServiceCalls(calls)' = [ServiceCalls(calls) EXCEPT ![s] = ServiceView!Idle]
<1>1. CallView(Verifying!Idle) = ServiceView!Idle
  BY SameWords DEF CallView, Verifying!Idle
<1> QED
  BY <1>1, CallsSeen

\* What a handler decides of its copy it decides of the copy as the service knows it.
LEMMA DecideSeen ==
    ASSUME PlInv, NEW s \in Sessions, NEW d, NEW reply,
           calls[s].pc = "loaded", Verifying!Decide(s, d, reply)
    PROVE  ServiceView!Decide(s, d, reply)
<1>1. /\ calls[s] \in Verifying!Call /\ calls[s].row \in Row
      /\ ServiceCalls(calls)[s] = CallView(calls[s])
  BY CallFacts, CallSeen
<1>2. PICK call : call = [calls[s] EXCEPT !.pc = "flushing", !.dirty = d, !.reply = reply]
  OBVIOUS
<1>3. calls' = [calls EXCEPT ![s] = call] /\ UNCHANGED <<otps, now, wins, misses>>
  BY <1>2, CallFacts DEF Verifying!Decide
<1>4. CallView(call) = [ServiceCalls(calls)[s] EXCEPT !.pc = "flushing", !.dirty = d,
                                                      !.reply = reply]
  BY <1>1, <1>2 DEF CallView, Verifying!Call
<1>5. ServiceCalls(calls)' = [ServiceCalls(calls) EXCEPT ![s] = CallView(call)]
  BY <1>3, CallsSeen
<1>6. s \in DOMAIN ServiceCalls(calls)
  BY DEF ServiceCalls
<1> QED
  BY <1>3, <1>4, <1>5, <1>6 DEF ServiceView!Decide

\* A handler's step, seen by the service.
LEMMA ServeSeen ==
    ASSUME PlInv, NEW s \in Sessions, Verifying!Serve(s)
    PROVE  ServiceView!Serve(s)
<1> DEFINE call == calls[s]
           seen == ServiceCalls(calls)[s]
<1>1. /\ IsTable(otps) /\ DOMAIN calls = Sessions
      /\ calls[s].pc # "idle" => calls[s].id \in DOMAIN otps
      /\ calls[s].dirty \in Dirty /\ Verifying!VerifyColumns(calls[s].dirty)
  BY Facts, CallFacts
<1>2. /\ seen.pc = call.pc /\ seen.id = call.id /\ seen.code = call.code
      /\ seen.dirty = call.dirty /\ seen.reply = call.reply
      /\ call.pc # "idle" => /\ seen.row.expires_at = call.row.expires_at
                             /\ seen.row.used_at = call.row.used_at
                             /\ seen.row.attempt_count = call.row.attempt_count
                             /\ seen.row.status = call.row.status
                             /\ seen.row.code_hash = call.row.code_hash
  BY CallSeen
<1>3. /\ ServiceView!Loaded(s) <=> Verifying!Loaded(s)
      /\ ServiceView!InTime(s) <=> Verifying!InTime(s)
      /\ ServiceView!Unused(s) <=> Verifying!Unused(s)
      /\ ServiceView!BelowCap(s) <=> Verifying!BelowCap(s)
      /\ call.pc # "idle" => (ServiceView!Matches(s) <=> Verifying!Matches(s))
  BY <1>2, SameWords
  DEF ServiceView!Loaded, ServiceView!InTime, ServiceView!Unused, ServiceView!BelowCap,
      ServiceView!Matches, Verifying!Loaded, Verifying!InTime, Verifying!Unused,
      Verifying!BelowCap, Verifying!Matches
<1>4. ASSUME NEW d, NEW reply, Verifying!Loaded(s), Verifying!Decide(s, d, reply)
      PROVE  ServiceView!Decide(s, d, reply)
  BY <1>4, DecideSeen DEF Verifying!Loaded
<1>5. ASSUME UNCHANGED <<otps, now, wins, misses>>
      PROVE  UNCHANGED <<ServiceRows(otps), now, wins, misses>>
  BY <1>5
<1>6. ASSUME NEW r \in Recipients, Verifying!SelectNone(s, r)
      PROVE  ServiceView!SelectNone(s, r)
  BY <1>1, <1>2, <1>6, SameWords, SameLatest
  DEF Verifying!SelectNone, ServiceView!SelectNone, Verifying!vars, ServiceView!vars
<1>7. ASSUME NEW r \in Recipients, NEW code \in Codes, Verifying!Select(s, r, code)
      PROVE  ServiceView!Select(s, r, code)
  <2>1. PICK id \in LatestActive(otps, r) :
           calls' = [calls EXCEPT ![s] = [Verifying!Idle EXCEPT !.pc = "loaded",
                                            !.id = id, !.code = code, !.row = otps[id]]]
    BY <1>7, SameWords DEF Verifying!Select
  <2>2. PICK new : new = [Verifying!Idle EXCEPT !.pc = "loaded", !.id = id,
                                                !.code = code, !.row = otps[id]]
    OBVIOUS
  <2>3. id \in DOMAIN otps /\ id \in LatestActive(ServiceRows(otps), r)
    BY <1>1, SameLatest DEF LatestActive, ActiveIds
  <2>4. CallView(new) = [ServiceView!Idle EXCEPT !.pc = "loaded", !.id = id,
                                     !.code = code, !.row = ServiceRows(otps)[id]]
    <3>1. ServiceRows(otps)[id] = WithoutDelivery(otps[id])
      BY <1>1, <2>3, ViewIsTable
    <3> QED
      BY <2>2, <3>1, SameWords DEF CallView, Verifying!Idle
  <2>5. ServiceCalls(calls)' = [ServiceCalls(calls) EXCEPT ![s] = CallView(new)]
    BY <2>1, <2>2, CallsSeen
  <2>6. seen.pc = "idle" /\ UNCHANGED <<otps, now, wins, misses>>
    BY <1>2, <1>7 DEF Verifying!Select
  <2> QED
    BY <1>5, <2>3, <2>4, <2>5, <2>6, SameWords DEF ServiceView!Select
<1>8. Verifying!Expired(s) => ServiceView!Expired(s)
  BY <1>3, <1>4, SameWords DEF Verifying!Expired, ServiceView!Expired
<1>9. Verifying!AlreadyUsed(s) => ServiceView!AlreadyUsed(s)
  BY <1>3, <1>5, IdleSeen DEF Verifying!AlreadyUsed, ServiceView!AlreadyUsed
<1>10. Verifying!LockedOut(s) => ServiceView!LockedOut(s)
  BY <1>3, <1>4, SameWords
  DEF Verifying!LockedOut, ServiceView!LockedOut, Verifying!Unused, Verifying!InTime
<1>11. Verifying!Match(s) => ServiceView!Match(s)
  <2> HAVE Verifying!Match(s)
  <2>1. /\ Verifying!BelowCap(s) /\ Verifying!Matches(s) /\ Verifying!Loaded(s)
        /\ Verifying!Decide(s, [Clean EXCEPT !.status = "verified", !.used_at = now],
              Verifying!Reply(TRUE, MAX_OTP_ATTEMPTS - call.row.attempt_count, "verified"))
    BY SameWords
    DEF Verifying!Match, Verifying!BelowCap, Verifying!Unused, Verifying!InTime
  <2>2. call.pc # "idle"
    BY <2>1 DEF Verifying!Loaded
  <2> QED
    BY <1>2, <1>3, <1>4, <2>1, <2>2, SameWords DEF ServiceView!Match
<1>12. Verifying!Miss(s) => ServiceView!Miss(s)
  <2> HAVE Verifying!Miss(s)
  <2> DEFINE count == call.row.attempt_count + 1
  <2>1. /\ Verifying!BelowCap(s) /\ ~Verifying!Matches(s) /\ Verifying!Loaded(s)
    BY DEF Verifying!Miss, Verifying!BelowCap, Verifying!Unused, Verifying!InTime
  <2>2. IF count >= MAX_OTP_ATTEMPTS
        THEN Verifying!Decide(s, [Clean EXCEPT !.attempt_count = count,
                                               !.status = "expired"],
                              Verifying!Reply(FALSE, 0, "expired"))
        ELSE Verifying!Decide(s, [Clean EXCEPT !.attempt_count = count],
                              Verifying!Reply(FALSE, MAX_OTP_ATTEMPTS - count,
                                              call.row.status))
    BY SameWords DEF Verifying!Miss
  <2>3. call.pc # "idle"
    BY <2>1 DEF Verifying!Loaded
  <2> QED
    BY <1>2, <1>3, <1>4, <2>1, <2>2, <2>3, SameWords DEF ServiceView!Miss
<1>13. ASSUME call.pc = "flushing", otps' = Verifying!Flushed(s)
       PROVE  ServiceRows(otps)' = ServiceView!Flushed(s)
  <2>1. PICK id \in DOMAIN otps, d \in Dirty : id = call.id /\ d = call.dirty
    BY <1>1, <1>13
  <2>2. otps' = [otps EXCEPT ![id] = Flush(@, d)]
    BY <1>13, <2>1, SameRows DEF Verifying!Flushed
  <2>3. Verifying!VerifyColumns(d) /\ otps[id] \in Row
    BY <1>1, <2>1 DEF IsTable
  <2>4. ServiceRows(otps') = [ServiceRows(otps) EXCEPT ![id] = Flush(@, d)]
    <3>1. /\ IsTable(otps') /\ DOMAIN otps' = DOMAIN otps
          /\ otps'[id] = Flush(otps[id], d)
          /\ \A i \in DOMAIN otps \ {id} : otps'[i] = otps[i]
      BY <1>1, <2>2, CommitType
    <3>2. WithoutDelivery(otps'[id]) = Flush(WithoutDelivery(otps[id]), d)
      BY <2>3, <3>1, ServiceFlush
    <3> QED
      BY <1>1, <3>1, <3>2, ServiceSeesCommit
  <2> QED
    BY <1>2, <2>1, <2>4, SameWords DEF ServiceView!Flushed
<1>14. Verifying!Commit(s) => ServiceView!Commit(s)
  BY <1>2, <1>13, IdleSeen DEF Verifying!Commit, ServiceView!Commit
<1>15. Verifying!CommitUnanswered(s) => ServiceView!CommitUnanswered(s)
  BY <1>2, <1>13, IdleSeen DEF Verifying!CommitUnanswered, ServiceView!CommitUnanswered
<1>16. Verifying!Abandon(s) => ServiceView!Abandon(s)
  BY <1>2, <1>5, IdleSeen DEF Verifying!Abandon, ServiceView!Abandon
<1> QED
  BY <1>6, <1>7, <1>8, <1>9, <1>10, <1>11, <1>12, <1>14, <1>15, <1>16
  DEF Verifying!Serve, ServiceView!Serve

\* A commit of dispatch or of the poll, seen by the service: the statuses of a batch,
\* or nothing.
LEMMA OthersSeen ==
    ASSUME PlInv, UNCHANGED <<now, calls, wins, misses>>,
           IsTable(otps'), DOMAIN otps' = DOMAIN otps,
           \A id \in DOMAIN otps :
              \/ otps'[id] = otps[id]
              \/ \E d \in Dirty : /\ otps'[id] = Flush(otps[id], d)
                                  /\ d.used_at = NULL /\ d.attempt_count = NULL
                                  /\ d.status \in {NULL, "sent", "delivered", "failed"}
    PROVE  [ServiceView!Next]_(ServiceView!vars)
<1> DEFINE ids == {id \in DOMAIN otps :
                      WithoutDelivery(otps'[id]) # WithoutDelivery(otps[id])}
           status == [id \in ids |-> otps'[id].status]
           e == [id \in ids |-> [Clean EXCEPT !.status = status[id]]]
<1>1. /\ IsTable(otps) /\ DOMAIN ServiceRows(otps) = DOMAIN otps
      /\ \A id \in DOMAIN otps : /\ otps[id] \in Row /\ otps[id].status # "blocked"
                                 /\ ServiceRows(otps)[id].status = otps[id].status
  BY Facts, ViewIsTable, ServiceColumns DEF PlInv, RowsHold, NoneIsBlocked
<1>2. ASSUME NEW id \in ids
      PROVE  /\ status[id] \in {"sent", "delivered", "failed"}
             /\ e[id] \in Dirty
             /\ WithoutDelivery(otps'[id]) = Flush(WithoutDelivery(otps[id]), e[id])
  <2>1. PICK d \in Dirty : /\ otps'[id] = Flush(otps[id], d)
                           /\ d.used_at = NULL /\ d.attempt_count = NULL
                           /\ d.status \in {NULL, "sent", "delivered", "failed"}
    OBVIOUS
  <2>2. /\ d.status # NULL
        /\ WithoutDelivery(otps'[id])
              = Flush(WithoutDelivery(otps[id]), [Clean EXCEPT !.status = d.status])
    BY <1>1, <2>1, ServiceFlush
  <2>3. status[id] = d.status
    BY <1>1, <2>1, <2>2, FlushType DEF Assigned
  <2>4. e[id] = [Clean EXCEPT !.status = d.status]
    BY <2>3
  <2>5. [Clean EXCEPT !.status = d.status] \in Dirty
    BY CleanType DEF Dirty
  <2> QED
    BY <2>1, <2>2, <2>3, <2>4, <2>5
<1>3. DOMAIN e = ids /\ ids \subseteq DOMAIN otps
  OBVIOUS
<1>4. status \in [ids -> {"sent", "delivered", "failed"}]
  BY <1>2
<1>5. ServiceRows(otps)' = FlushAll(ServiceRows(otps), e)
  <2>1. \A id \in DOMAIN otps \ ids : WithoutDelivery(otps'[id]) = WithoutDelivery(otps[id])
    OBVIOUS
  <2> HIDE DEF ids, status, e
  <2> QED
    BY <1>1, <1>2, <1>3, <2>1, ServiceSeesBatch
<1>6. CASE ids = {}
  <2>1. ServiceRows(otps)' = ServiceRows(otps)
    <3>1. \A id \in DOMAIN otps : WithoutDelivery(otps'[id]) = WithoutDelivery(otps[id])
      BY <1>6
    <3> QED
      BY <3>1 DEF ServiceRows
  <2> QED
    BY <2>1 DEF ServiceView!vars
<1>7. CASE ids # {}
  <2>1. UNCHANGED <<now, ServiceCalls(calls), wins, misses>>
    OBVIOUS
  <2>2. e = [id \in ids |-> [ServiceView!Clean EXCEPT !.status = status[id]]]
    BY SameWords
  <2> HIDE DEF ids, status, e
  <2>3. ServiceRows(otps)' = ServiceView!FlushAll(ServiceRows(otps), e)
    BY <1>5, SameWords
  <2>4. ServiceView!DeliveryCommit(ids)
    BY <1>1, <1>3, <1>4, <1>7, <2>1, <2>2, <2>3 DEF ServiceView!DeliveryCommit
  <2> QED
    BY <1>1, <1>3, <2>4 DEF ServiceView!Next
<1> QED
  BY <1>6, <1>7

\* A request, seen by the service: create_otp, whose queries and commit are one step.
LEMMA RequestSeen ==
    ASSUME PlInv, NEW id \in Ids, NEW r \in Recipients, request_otp(id, r)
    PROVE  ServiceView!Next /\ DeliveryView!Next
<1>1. IsTable(otps) /\ now \in Nat
  BY Facts
<1>2. /\ Sending!request_otp(id, r) /\ UNCHANGED <<calls, wins, misses, ticks, fate, crashes>>
      /\ Delivery!request_otp(id, r)
  BY SameDelivery DEF request_otp, serviceVars, pollVars
<1>3. /\ UNCHANGED <<now, queue, workers, carried, issued, misread, dropped,
                     redeliveries>>
      /\ requests' = requests \cup {id}
      /\ id \in FreshIds(otps) /\ id \notin DOMAIN otps
  BY <1>2, SameRows DEF Sending!request_otp, Sending!provider, FreshIds
<1>4. PICK code \in Codes :
         otps' = Insert(otps, id, NewRow(r, Sending!Channel(r), code, "pending",
                                         now, now + OTP_TTL_SECONDS))
  BY <1>2, SameInsert
<1>5. PICK row : row = NewRow(r, Sending!Channel(r), code, "pending",
                              now, now + OTP_TTL_SECONDS)
  OBVIOUS
<1>6. /\ row \in Row /\ row.used_at = NULL /\ row.attempt_count = 0 /\ row.sent_at = NULL
      /\ row.delivered_at = NULL /\ row.failed_at = NULL
      /\ row.provider_message_id = NULL
  <2>1. PICK ch, expires, st :
           /\ ch = Sending!Channel(r) /\ expires = now + OTP_TTL_SECONDS
           /\ st = "pending"
    OBVIOUS
  <2>2. ch \in Channels /\ expires \in Nat /\ st \in Statuses
    BY <1>1, <2>1, Given, StatusNames DEF Sending!Channel, Channels
  <2>3. LET new == NewRow(r, ch, code, st, now, expires)
        IN /\ new \in Row /\ new.used_at = NULL /\ new.attempt_count = 0
           /\ new.sent_at = NULL /\ new.delivered_at = NULL
           /\ new.failed_at = NULL /\ new.provider_message_id = NULL
    BY <1>1, <2>2, NewRowType
  <2> QED
    BY <1>5, <2>1, <2>3
<1>7. /\ ServiceRows(otps)' = Insert(ServiceRows(otps), id, row)
      /\ DeliveryRows(otps)' = Insert(DeliveryRows(otps), id, row)
  BY <1>1, <1>4, <1>5, <1>6, ViewOfInsert
<1>8. id \in FreshIds(ServiceRows(otps)) /\ id \in FreshIds(DeliveryRows(otps))
  BY <1>1, <1>3, ViewIsTable DEF FreshIds
<1>9. \A rows, i, x : /\ ServiceView!Insert(rows, i, x) = Insert(rows, i, x)
                      /\ DeliveryView!Insert(rows, i, x) = Insert(rows, i, x)
  BY Zenon DEF ServiceView!Insert, DeliveryView!Insert, Insert
<1>10. \A c, created, expires, st :
          /\ ServiceView!NewRow(r, ServiceView!Channel(r), c, st, created, expires)
                = NewRow(r, Sending!Channel(r), c, st, created, expires)
          /\ DeliveryView!NewRow(r, DeliveryView!Channel(r), c, st, created, expires)
                = NewRow(r, Sending!Channel(r), c, st, created, expires)
  BY Zenon DEF ServiceView!NewRow, DeliveryView!NewRow, NewRow, ServiceView!hash_code,
     DeliveryView!hash_code, hash_code, ServiceView!Channel, DeliveryView!Channel,
     Sending!Channel
<1>11. ServiceView!create_otp(id, r, code)
  <2>1. now \in ServiceView!CreatedAt
    BY <1>1 DEF ServiceView!CreatedAt
  <2>2. UNCHANGED <<now, ServiceCalls(calls), wins, misses>>
    BY <1>2, <1>3
  <2>3. ServiceRows(otps)'
          = ServiceView!Insert(ServiceRows(otps), id,
               ServiceView!NewRow(r, ServiceView!Channel(r), code, "pending",
                                  now, now + OTP_TTL_SECONDS))
    BY <1>5, <1>7, <1>9, <1>10
  <2>4. id \in ServiceView!FreshIds(ServiceRows(otps))
    BY <1>8 DEF ServiceView!FreshIds, FreshIds
  <2> QED
    BY <2>1, <2>2, <2>3, <2>4 DEF ServiceView!create_otp
<1>12. DeliveryView!request_otp(id, r)
  <2>1. DeliveryRows(otps)'
          = DeliveryView!Insert(DeliveryRows(otps), id,
               DeliveryView!NewRow(r, DeliveryView!Channel(r), code, "pending",
                                   now, now + OTP_TTL_SECONDS))
    BY <1>5, <1>7, <1>9, <1>10
  <2>2. id \in DeliveryView!FreshIds(DeliveryRows(otps))
    BY <1>8 DEF DeliveryView!FreshIds, FreshIds
  <2> QED
    BY <1>3, <2>1, <2>2 DEF DeliveryView!request_otp, DeliveryView!provider
<1> QED
  BY <1>11, <1>12 DEF ServiceView!Next, DeliveryView!Next

\* A step of a worker, seen by dispatch.
LEMMA WorkSeen ==
    ASSUME PlInv, NEW w \in Workers, Sending!Work(w)
    PROVE  DeliveryView!Work(w)
<1>1. /\ IsTable(otps) /\ DOMAIN DeliveryRows(otps) = DOMAIN otps
      /\ workers[w].pc # "idle" => workers[w].msg.id \in DOMAIN otps
      /\ workers[w].dirty \in Dirty /\ Sending!DispatchColumns(workers[w].dirty)
      /\ \A id \in DOMAIN otps :
            /\ otps[id] \in Row
            /\ DeliveryRows(otps)[id].status = otps[id].status
            /\ DeliveryRows(otps)[id].channel = otps[id].channel
  BY Facts, ViewIsTable, DeliveryColumns, SameRows
  DEF PlInv, DispatchHolds, Sending!DInv, Sending!WorkerShape, Sending!TypeOK,
      Sending!Worker, Sending!Dispatches
<1>2. ASSUME UNCHANGED Sending!table
      PROVE  UNCHANGED DeliveryView!table
  BY <1>2 DEF Sending!table, DeliveryView!table
<1>3. /\ DeliveryView!Target(w) = Sending!Target(w)
      /\ \A pc : /\ DeliveryView!At(w, pc) <=> Sending!At(w, pc)
                 /\ DeliveryView!Goto(w, pc) <=> Sending!Goto(w, pc)
      /\ DeliveryView!Fails(w) <=> Sending!Fails(w)
      /\ \A msg : DeliveryView!Publish(msg) <=> Sending!Publish(msg)
  BY Zenon DEF DeliveryView!Target, Sending!Target, DeliveryView!At, Sending!At,
     DeliveryView!Goto, Sending!Goto, DeliveryView!Fails, Sending!Fails,
     DeliveryView!Publish, Sending!Publish,
     DeliveryView!SetToBag, Sending!SetToBag, DeliveryView!BagToSet, Sending!BagToSet,
     DeliveryView!IsABag, Sending!IsABag, DeliveryView!(+), Sending!(+)
<1>4. Sending!Reserve(w) => DeliveryView!Reserve(w)
  BY Zenon, <1>2 DEF DeliveryView!Reserve, Sending!Reserve, DeliveryView!At, Sending!At,
     DeliveryView!Idle, Sending!Idle, DeliveryView!Clean, Sending!Clean,
     DeliveryView!SetToBag, Sending!SetToBag, DeliveryView!BagToSet, Sending!BagToSet,
     DeliveryView!IsABag, Sending!IsABag, DeliveryView!(-), Sending!(-),
     DeliveryView!provider, Sending!provider
<1>5. Sending!Load(w) => DeliveryView!Load(w)
  <2> HAVE Sending!Load(w)
  <2>1. DeliveryRows(otps)[Sending!Target(w)].status = otps[Sending!Target(w)].status
    BY <1>1 DEF Sending!Load, Sending!At, Sending!Target
  <2> QED
    BY <1>2, <1>3, <2>1 DEF DeliveryView!Load, Sending!Load, DeliveryView!provider,
                            Sending!provider
<1>6. Sending!Send(w) => DeliveryView!Send(w)
  <2> HAVE Sending!Send(w)
  <2>1. PICK ch : /\ ch = otps[Sending!Target(w)].channel
                  /\ ch = DeliveryRows(otps)[DeliveryView!Target(w)].channel
    BY <1>1, <1>3 DEF Sending!Send, Sending!At, Sending!Target
  <2>2. ASSUME NEW answer
        PROVE  /\ DeliveryView!send(ch, answer) = Sending!send(ch, answer)
               /\ DeliveryView!Accepted(w, ch, answer) <=> Sending!Accepted(w, ch, answer)
               /\ DeliveryView!Refused(w, ch, answer) <=> Sending!Refused(w, ch, answer)
               /\ DeliveryView!Transient(w, ch, answer) <=> Sending!Transient(w, ch, answer)
               /\ DeliveryView!Raises(w, ch, answer) <=> Sending!Raises(w, ch, answer)
    <3>1. DeliveryView!send(ch, answer) = Sending!send(ch, answer)
      BY Zenon DEF DeliveryView!send, Sending!send, DeliveryView!sms_send,
         Sending!sms_send, DeliveryView!email_send, Sending!email_send,
         DeliveryView!NoHttp, Sending!NoHttp, DeliveryView!_classify, Sending!_classify,
         DeliveryView!Succeeds, Sending!Succeeds, DeliveryView!Throttles,
         Sending!Throttles, DeliveryView!ServerFails, Sending!ServerFails,
         DeliveryView!Denies, Sending!Denies
    <3>2. /\ DeliveryView!Sent = Sending!Sent /\ DeliveryView!Failed = Sending!Failed
          /\ \A d : DeliveryView!Decide(w, d) <=> Sending!Decide(w, d)
          /\ DeliveryView!NamesMessage(ch, answer) <=> Sending!NamesMessage(ch, answer)
      BY Zenon DEF DeliveryView!Sent, Sending!Sent, DeliveryView!Failed, Sending!Failed,
         DeliveryView!Clean, Sending!Clean, DeliveryView!Decide, Sending!Decide,
         DeliveryView!NamesMessage, Sending!NamesMessage
    <3>3. DeliveryView!Accepted(w, ch, answer) <=> Sending!Accepted(w, ch, answer)
      BY Zenon, <1>3, <3>1, <3>2 DEF DeliveryView!Accepted, Sending!Accepted
    <3>4. /\ DeliveryView!Refused(w, ch, answer) <=> Sending!Refused(w, ch, answer)
          /\ DeliveryView!Transient(w, ch, answer) <=> Sending!Transient(w, ch, answer)
          /\ DeliveryView!Raises(w, ch, answer) <=> Sending!Raises(w, ch, answer)
      BY Zenon, <1>3, <3>1, <3>2 DEF DeliveryView!Refused, Sending!Refused,
         DeliveryView!Transient, Sending!Transient, DeliveryView!Raises, Sending!Raises
    <3> QED
      BY <3>1, <3>3, <3>4
  <2>3. \A answer :
           /\ DeliveryView!MayHaveTaken(ch, answer) = Sending!MayHaveTaken(ch, answer)
           /\ DeliveryView!Misreads(ch, answer) <=> Sending!Misreads(ch, answer)
    BY <2>2 DEF DeliveryView!MayHaveTaken, Sending!MayHaveTaken,
       DeliveryView!Throttles, Sending!Throttles, DeliveryView!Misreads, Sending!Misreads
  <2>4. /\ DeliveryView!Protocol(ch) = Sending!Protocol(ch)
        /\ DeliveryView!Carry(w) <=> Sending!Carry(w)
    BY Zenon DEF DeliveryView!Protocol, Sending!Protocol, DeliveryView!Carry,
       Sending!Carry, DeliveryView!Target, Sending!Target
  <2>5. PICK answer \in Answers :
           /\ answer.protocol = Sending!Protocol(ch)
           /\ \E taken \in Sending!MayHaveTaken(ch, answer) :
                 IF taken THEN Sending!Carry(w) ELSE UNCHANGED carried
           /\ misread' = misread \cup {id \in {Sending!Target(w)} :
                                          Sending!Misreads(ch, answer)}
           /\ \/ Sending!Accepted(w, ch, answer) \/ Sending!Refused(w, ch, answer)
              \/ Sending!Transient(w, ch, answer) \/ Sending!Raises(w, ch, answer)
    BY <2>1 DEF Sending!Send
  <2>6. /\ answer.protocol = DeliveryView!Protocol(ch)
        /\ \E taken \in DeliveryView!MayHaveTaken(ch, answer) :
              IF taken THEN DeliveryView!Carry(w) ELSE UNCHANGED carried
        /\ misread' = misread \cup {id \in {DeliveryView!Target(w)} :
                                       DeliveryView!Misreads(ch, answer)}
        /\ \/ DeliveryView!Accepted(w, ch, answer) \/ DeliveryView!Refused(w, ch, answer)
           \/ DeliveryView!Transient(w, ch, answer) \/ DeliveryView!Raises(w, ch, answer)
    BY Zenon, <1>3, <2>2, <2>3, <2>4, <2>5
  <2>7. /\ DeliveryView!At(w, "sending") /\ UNCHANGED DeliveryView!table
        /\ UNCHANGED <<requests, queue, redeliveries>>
    BY <1>2, <1>3 DEF Sending!Send
  <2> QED
    BY <2>1, <2>6, <2>7 DEF DeliveryView!Send
<1>7. Sending!Commit(w) => DeliveryView!Commit(w)
  <2> HAVE Sending!Commit(w)
  <2>1. PICK id \in DOMAIN otps, d \in Dirty :
           id = Sending!Target(w) /\ d = workers[w].dirty
    BY <1>1 DEF Sending!Commit, Sending!At, Sending!Target
  <2>2. otps' = [otps EXCEPT ![id] = Flush(@, d)]
    BY <2>1, SameRows DEF Sending!Commit
  <2>3. /\ IsTable(otps') /\ DOMAIN otps' = DOMAIN otps
        /\ otps'[id] = Flush(otps[id], d)
        /\ \A i \in DOMAIN otps \ {id} : otps'[i] = otps[i]
    BY <1>1, <2>2, CommitType
  <2>4. WithoutVerification(otps'[id]) = Flush(WithoutVerification(otps[id]), d)
    <3>1. otps[id] \in Row /\ Sending!DispatchColumns(d)
      BY <1>1, <2>1
    <3> QED
      BY <2>3, <3>1, DeliveryFlush
  <2>5. DeliveryRows(otps') = [DeliveryRows(otps) EXCEPT ![id] = Flush(@, d)]
    BY <1>1, <2>3, <2>4, DeliverySeesCommit
  <2> QED
    BY <1>3, <2>1, <2>5, SameWords DEF DeliveryView!Commit, Sending!Commit,
       DeliveryView!provider, Sending!provider
<1>8. Sending!CommitFails(w) => DeliveryView!CommitFails(w)
  BY Zenon, <1>2, <1>3 DEF DeliveryView!CommitFails, Sending!CommitFails,
     DeliveryView!provider, Sending!provider
<1>9. Sending!Retry(w) => DeliveryView!Retry(w)
  BY Zenon, <1>2, <1>3 DEF DeliveryView!Retry, Sending!Retry, DeliveryView!provider,
     Sending!provider
<1>10. Sending!GiveUp(w) => DeliveryView!GiveUp(w)
  BY Zenon, <1>2, <1>3 DEF DeliveryView!GiveUp, Sending!GiveUp, DeliveryView!provider,
     Sending!provider
<1>11. Sending!Ack(w) => DeliveryView!Ack(w)
  BY Zenon, <1>2, <1>3, SameWords DEF DeliveryView!Ack, Sending!Ack,
     DeliveryView!provider, Sending!provider
<1>12. Sending!LoadFails(w) => DeliveryView!LoadFails(w)
  BY Zenon, <1>2, <1>3 DEF DeliveryView!LoadFails, Sending!LoadFails,
     DeliveryView!provider, Sending!provider
<1>13. Sending!RetryFails(w) => DeliveryView!RetryFails(w)
  BY Zenon, <1>2, <1>3 DEF DeliveryView!RetryFails, Sending!RetryFails,
     DeliveryView!provider, Sending!provider
<1> QED
  BY <1>4, <1>5, <1>6, <1>7, <1>8, <1>9, <1>10, <1>11, <1>12, <1>13
  DEF Sending!Work, DeliveryView!Work

\* A step around the workers that leaves the table alone, seen by dispatch.
LEMMA BrokerSeen ==
    ASSUME PlInv, \/ Sending!Api
                  \/ \E w \in Workers : Sending!Crash(w)
                  \/ \E id \in Ids : Sending!Replay(id)
    PROVE  DeliveryView!Next
<1>1. /\ UNCHANGED Sending!table /\ UNCHANGED DeliveryView!table
      /\ DOMAIN DeliveryRows(otps) = DOMAIN otps
  <2>1. UNCHANGED Sending!table
    BY DEF Sending!Api, Sending!Enqueue, Sending!EnqueueFails, Sending!Crash,
           Sending!Replay
  <2> QED
    BY <2>1, Facts, ViewIsTable DEF Sending!table, DeliveryView!table
<1>2. \A msg : DeliveryView!Publish(msg) <=> Sending!Publish(msg)
  BY Zenon DEF DeliveryView!Publish, Sending!Publish,
     DeliveryView!SetToBag, Sending!SetToBag, DeliveryView!BagToSet, Sending!BagToSet,
     DeliveryView!IsABag, Sending!IsABag, DeliveryView!(+), Sending!(+)
<1>3. Sending!Api => DeliveryView!Api
  BY Zenon, <1>1, <1>2 DEF Sending!Api, DeliveryView!Api, Sending!Enqueue,
     DeliveryView!Enqueue, Sending!EnqueueFails, DeliveryView!EnqueueFails,
     Sending!provider, DeliveryView!provider
<1>4. ASSUME NEW w \in Workers, Sending!Crash(w)
      PROVE  DeliveryView!Crash(w)
  BY Zenon, <1>1, <1>2, <1>4, SameWords DEF Sending!Crash, DeliveryView!Crash,
     Sending!At, DeliveryView!At, Sending!provider, DeliveryView!provider
<1>5. ASSUME NEW id \in Ids, Sending!Replay(id)
      PROVE  DeliveryView!Replay(id)
  BY Zenon, <1>1, <1>2, <1>5 DEF Sending!Replay, DeliveryView!Replay,
     Sending!provider, DeliveryView!provider
<1> QED
  BY <1>3, <1>4, <1>5 DEF DeliveryView!Next

\* A commit of verify_otp, seen by dispatch: a row's status, or nothing.
LEMMA VerifySeen ==
    ASSUME PlInv, NEW s \in Sessions, verify_otp(s)
    PROVE  [DeliveryView!Next]_(DeliveryView!vars)
<1>1. /\ Verifying!Serve(s)
      /\ UNCHANGED <<requests, queue, workers, carried, issued, misread, dropped,
                     redeliveries>>
      /\ IsTable(otps) /\ Verifying!IInv
      /\ \A t \in Sessions : Verifying!Verifies(t)
  BY SameService, Facts DEF verify_otp, deliveryVars, PlInv, ServiceHolds
<1>2. /\ now' = now
      /\ \/ UNCHANGED otps
         \/ \E id \in DOMAIN otps, d \in Verifying!Dirty :
               /\ otps' = [otps EXCEPT ![id] = Verifying!Flush(@, d)]
               /\ Verifying!VerifyColumns(d)
  BY <1>1, Given, Verifying!ServeVerifies
<1>3. CASE UNCHANGED otps
  BY <1>1, <1>2, <1>3 DEF DeliveryView!vars, DeliveryView!table, DeliveryView!provider
<1>4. CASE ~ UNCHANGED otps
  <2>1. PICK id \in DOMAIN otps, d \in Dirty :
           otps' = [otps EXCEPT ![id] = Flush(@, d)] /\ Verifying!VerifyColumns(d)
    BY <1>2, <1>4, SameRows
  <2>2. /\ IsTable(otps') /\ DOMAIN otps' = DOMAIN otps /\ id \in Ids /\ otps[id] \in Row
        /\ otps'[id] = Flush(otps[id], d)
        /\ \A i \in DOMAIN otps \ {id} : otps'[i] = otps[i]
    BY <1>1, <2>1, CommitType
  <2>3. CASE d.status = NULL
    <3>1. WithoutVerification(otps'[id]) = WithoutVerification(otps[id])
      BY <2>1, <2>2, <2>3, DeliveryFlush
    <3>2. DeliveryRows(otps)' = DeliveryRows(otps)
      BY <2>2, <3>1 DEF DeliveryRows
    <3> QED
      BY <1>1, <1>2, <3>2 DEF DeliveryView!vars, DeliveryView!table, DeliveryView!provider
  <2>4. CASE d.status # NULL
    <3>1. PICK e : e = [Clean EXCEPT !.status = d.status]
      OBVIOUS
    <3>2. e \in Dirty /\ d.status \in {"verified", "expired"}
      BY <2>1, <2>4, <3>1, CleanType DEF Dirty, Verifying!VerifyColumns
    <3>3. WithoutVerification(otps'[id]) = Flush(WithoutVerification(otps[id]), e)
      BY <2>1, <2>2, <2>4, <3>1, DeliveryFlush
    <3>4. DeliveryRows(otps') = [DeliveryRows(otps) EXCEPT ![id] = Flush(@, e)]
      BY <1>1, <2>2, <3>2, <3>3, DeliverySeesCommit
    <3>5. id \in DOMAIN DeliveryRows(otps)
      BY <1>1, ViewIsTable
    <3>6. DeliveryView!VerifyCommit(id)
      BY <1>1, <1>2, <3>1, <3>2, <3>4, <3>5, SameWords
      DEF DeliveryView!VerifyCommit, DeliveryView!provider
    <3> QED
      BY <2>2, <3>6 DEF DeliveryView!Next
  <2> QED
    BY <2>3, <2>4
<1> QED
  BY <1>3, <1>4

\* A step of the service's neighbours, seen by the service.
LEMMA NeighboursSeen ==
    ASSUME PlInv, Dispatching \/ Reconciling
    PROVE  [ServiceView!Next]_(ServiceView!vars)
<1>1. UNCHANGED <<calls, wins, misses>> /\ IsTable(otps)
  BY Facts DEF Dispatching, Reconciling, serviceVars
<1>2. CASE Dispatching
  <2>1. now' = now /\ \/ UNCHANGED otps
                      \/ \E id \in DOMAIN otps, d \in Dirty :
                            /\ Sending!DispatchColumns(d)
                            /\ otps' = [otps EXCEPT ![id] = Flush(@, d)]
    BY <1>2, DispatchWrites
  <2>2. CASE UNCHANGED otps
    BY <1>1, <2>1, <2>2 DEF ServiceView!vars
  <2>3. CASE ~ UNCHANGED otps
    <3>1. PICK id \in DOMAIN otps, d \in Dirty :
             Sending!DispatchColumns(d) /\ otps' = [otps EXCEPT ![id] = Flush(@, d)]
      BY <2>1, <2>3
    <3>2. /\ IsTable(otps') /\ DOMAIN otps' = DOMAIN otps
          /\ otps'[id] = Flush(otps[id], d)
          /\ \A i \in DOMAIN otps \ {id} : otps'[i] = otps[i]
      BY <1>1, <3>1, CommitType
    <3> QED
      BY <1>1, <2>1, <3>1, <3>2, OthersSeen DEF Sending!DispatchColumns
  <2> QED
    BY <2>2, <2>3
<1>3. CASE Reconciling
  <2>1. PICK w \in Pollers : /\ Settling!TypeOK' /\ now' = now
                             /\ Settling!WritesOnly(ticks[w]) /\ AssignedIsTrue(w)
                             /\ Settling!IsTickOfRows(ticks[w])
    BY <1>3, TickWrites
  <2>2. IsTable(otps') /\ DOMAIN otps' = DOMAIN otps
    BY <2>1, SameRows DEF Settling!TypeOK, Settling!WritesOnly
  <2>3. ASSUME NEW id \in DOMAIN otps, otps'[id] # otps[id]
        PROVE  \E d \in Dirty : /\ otps'[id] = Flush(otps[id], d)
                                /\ d.used_at = NULL /\ d.attempt_count = NULL
                                /\ d.status \in {NULL, "sent", "delivered", "failed"}
    <3>1. id \in DOMAIN ticks[w].dirty /\ otps'[id] = Flush(otps[id], ticks[w].dirty[id])
      BY <2>1, <2>3, SameRows DEF Settling!WritesOnly
    <3>2. /\ ticks[w].dirty[id] \in Dirty
          /\ Settling!PollColumns(ticks[w].dirty[id], ticks[w].started)
      BY <2>1, <3>1, SameRows DEF AssignedIsTrue, Settling!IsTickOfRows
    <3> QED
      BY <3>1, <3>2 DEF Settling!PollColumns
  <2> QED
    BY <1>1, <2>1, <2>2, <2>3, OthersSeen
<1> QED
  BY <1>2, <1>3

\* A step of the reconciliation, seen by dispatch: the receipts of a batch, or nothing.
LEMMA ReceiptsSeen ==
    ASSUME PlInv, Reconciling
    PROVE  [DeliveryView!Next]_(DeliveryView!vars)
<1>1. PICK w \in Pollers : /\ Settling!TypeOK' /\ now' = now
                           /\ Settling!WritesOnly(ticks[w]) /\ AssignedIsTrue(w)
                           /\ Settling!IsTickOfRows(ticks[w])
  BY TickWrites
<1>2. UNCHANGED <<requests, queue, workers, carried, issued, misread, dropped,
                  redeliveries>>
  BY DEF Reconciling, deliveryVars
<1> DEFINE t == ticks[w].started
           ids == {id \in DOMAIN otps :
                      WithoutVerification(otps'[id]) # WithoutVerification(otps[id])}
           status == [id \in ids |-> otps'[id].status]
           e == [id \in ids |-> Sending!Receipt(status[id], t)]
<1>3. /\ IsTable(otps) /\ DOMAIN DeliveryRows(otps) = DOMAIN otps
      /\ \A id \in DOMAIN otps :
            /\ otps[id] \in Row
            /\ DeliveryRows(otps)[id].provider_message_id = otps[id].provider_message_id
      /\ IsTable(otps') /\ DOMAIN otps' = DOMAIN otps
  BY <1>1, Facts, ViewIsTable, DeliveryColumns, SameRows
  DEF Settling!TypeOK, Settling!WritesOnly
<1>4. t \in Nat /\ t \in 0..now
  BY <1>1, Facts DEF PlInv, PollHolds, Settling!IsTickOfRows, Settling!Time
<1>5. ASSUME NEW id \in ids
      PROVE  /\ status[id] \in {"delivered", "failed"}
             /\ e[id] \in Dirty
             /\ otps[id].provider_message_id # NULL
             /\ WithoutVerification(otps'[id])
                   = Flush(WithoutVerification(otps[id]), e[id])
  <2>1. PICK d : d = ticks[w].dirty[id]
    OBVIOUS
  <2>2. id \in DOMAIN ticks[w].dirty /\ otps'[id] = Flush(otps[id], d)
    BY <1>1, <2>1, SameRows DEF Settling!WritesOnly
  <2>3. d \in Dirty /\ Settling!PollColumns(d, t) /\ otps[id].provider_message_id # NULL
    BY <1>1, <2>1, <2>2, SameRows DEF AssignedIsTrue, Settling!IsTickOfRows
  <2>4. /\ d.status \in {"delivered", "failed"}
        /\ WithoutVerification(otps'[id])
              = Flush(WithoutVerification(otps[id]), Sending!Receipt(d.status, t))
    <3>1. otps[id] \in Row
      BY <1>3
    <3>2. WithoutVerification(Flush(otps[id], d))
             = IF d.status = NULL THEN WithoutVerification(otps[id])
               ELSE Flush(WithoutVerification(otps[id]), Sending!Receipt(d.status, t))
      BY <1>4, <2>3, <3>1, DeliveryFlush
    <3>3. d.status \in {NULL, "delivered", "failed"}
      BY <2>3 DEF Settling!PollColumns
    <3> QED
      BY <2>2, <3>2, <3>3
  <2>5. status[id] = d.status
    BY <1>3, <2>2, <2>3, <2>4, StatusNames, FlushType DEF Assigned
  <2>6. Sending!Receipt(d.status, t) \in Dirty
    BY <1>4, <2>3, SameClean DEF Sending!Receipt, Clean, Dirty, TimeOrNull
  <2> QED
    BY <2>3, <2>4, <2>5, <2>6
<1>6. DOMAIN e = ids /\ ids \subseteq DOMAIN otps
  OBVIOUS
<1>7. status \in [ids -> {"delivered", "failed"}]
  BY <1>5
<1>8. DeliveryRows(otps)' = FlushAll(DeliveryRows(otps), e)
  <2>1. \A id \in DOMAIN otps \ ids :
           WithoutVerification(otps'[id]) = WithoutVerification(otps[id])
    OBVIOUS
  <2> HIDE DEF ids, status, e
  <2> QED
    BY <1>3, <1>5, <1>6, <2>1, DeliverySeesBatch
<1>9. CASE ids = {}
  <2>1. DeliveryRows(otps)' = DeliveryRows(otps)
    <3>1. \A id \in DOMAIN otps : WithoutVerification(otps'[id]) = WithoutVerification(otps[id])
      BY <1>9
    <3> QED
      BY <1>3, <3>1 DEF DeliveryRows
  <2> QED
    BY <1>1, <1>2, <2>1 DEF DeliveryView!vars, DeliveryView!table, DeliveryView!provider
<1>10. CASE ids # {}
  <2>1. e = [id \in ids |-> DeliveryView!Receipt(status[id], t)]
    BY SameWords
  <2> HIDE DEF ids, status, e, t
  <2>2. DeliveryRows(otps)' = DeliveryView!FlushAll(DeliveryRows(otps), e)
    BY <1>8, SameWords
  <2>3. DeliveryView!PollCommit(ids)
    BY <1>1, <1>2, <1>3, <1>4, <1>5, <1>6, <1>7, <1>10, <2>1, <2>2
    DEF DeliveryView!PollCommit, DeliveryView!provider
  <2> QED
    BY <1>3, <1>6, <2>3 DEF DeliveryView!Next
<1> QED
  BY <1>9, <1>10

\* A step of dispatch, seen by itself.
LEMMA DispatchSeen ==
    ASSUME PlInv, Dispatching
    PROVE  DeliveryView!Next
<1>1. \/ Sending!Api
      \/ \E w \in Workers : Sending!Work(w) \/ Sending!Crash(w)
      \/ \E id \in Ids : Sending!Replay(id)
  BY SameDelivery DEF Dispatching
<1> QED
  BY <1>1, WorkSeen, BrokerSeen DEF DeliveryView!Next

\* The carrier settles a message, the clock moves, or nothing happens.
LEMMA OthersUnseen ==
    ASSUME (\E p \in Providers : Carrier(p)) \/ Tick \/ UNCHANGED vars
    PROVE  /\ [ServiceView!Next]_(ServiceView!vars)
           /\ [DeliveryView!Next]_(DeliveryView!vars)
<1>1. UNCHANGED <<otps, calls, wins, misses, requests, queue, workers, carried,
                  issued, misread, dropped, redeliveries>>
  BY DEF Carrier, Tick, Service!Tick, vars, serviceVars, deliveryVars, pollVars
<1>2. CASE Tick
  <2>1. now < Horizon /\ now' = now + 1
    BY <1>2 DEF Tick, Service!Tick
  <2>2. ServiceView!Tick
    BY <1>1, <2>1 DEF ServiceView!Tick
  <2>3. DeliveryView!Tick
    BY <1>1, <2>1 DEF DeliveryView!Tick, DeliveryView!provider
  <2> QED
    BY <2>2, <2>3 DEF ServiceView!Next, DeliveryView!Next
<1>3. CASE ~ Tick
  <2>1. UNCHANGED now
    BY <1>3 DEF Carrier, vars
  <2> QED
    BY <1>1, <2>1 DEF ServiceView!vars, DeliveryView!vars, DeliveryView!table,
                      DeliveryView!provider
<1> QED
  BY <1>2, <1>3

\* The empty table looks the same to everyone.
LEMMA InitSeen == Init => ServiceView!Init /\ DeliveryView!Init
<1> SUFFICES ASSUME Init PROVE ServiceView!Init /\ DeliveryView!Init
  OBVIOUS
<1>1. Verifying!Init /\ Sending!Init
  BY SameService, SameDelivery DEF Init
<1>2. otps = EmptyTable /\ DOMAIN otps = {}
  BY <1>1, SameRows, EmptyType DEF Sending!Init
<1>3. ServiceRows(otps) = EmptyTable /\ DeliveryRows(otps) = EmptyTable
  BY <1>2 DEF ServiceRows, DeliveryRows, EmptyTable
<1>4. ServiceCalls(calls) = [s \in Sessions |-> ServiceView!Idle]
  BY <1>1, SameWords DEF Verifying!Init, Verifying!Idle, ServiceCalls, CallView
<1>5. ServiceView!Init
  BY <1>1, <1>3, <1>4, SameWords DEF Verifying!Init, ServiceView!Init
<1>6. DeliveryView!EmptyBag = Sending!EmptyBag
  BY Zenon DEF DeliveryView!EmptyBag, Sending!EmptyBag, DeliveryView!SetToBag,
     Sending!SetToBag
<1>7. DeliveryView!Init
  BY <1>1, <1>3, <1>6, SameWords DEF Sending!Init, DeliveryView!Init
<1> QED
  BY <1>5, <1>7

\* Every step of the platform, as the service and as dispatch see it.
LEMMA StepsSeen ==
    ASSUME PlInv, [Next]_vars
    PROVE  /\ [ServiceView!Next]_(ServiceView!vars)
           /\ [DeliveryView!Next]_(DeliveryView!vars)
<1>1. CASE \E id \in Ids, r \in Recipients : request_otp(id, r)
  BY <1>1, RequestSeen
<1>2. CASE \E s \in Sessions : verify_otp(s)
  <2>1. PICK s \in Sessions : verify_otp(s)
    BY <1>2
  <2>2. ServiceView!Serve(s)
    BY <2>1, SameService, ServeSeen DEF verify_otp
  <2> QED
    BY <2>1, <2>2, VerifySeen DEF ServiceView!Next
<1>3. CASE Dispatching
  BY <1>3, NeighboursSeen, DispatchSeen
<1>4. CASE Reconciling
  BY <1>4, NeighboursSeen, ReceiptsSeen
<1> QED
  BY <1>1, <1>2, <1>3, <1>4, OthersUnseen DEF Next

(***************************************************************************)
(* The theorems.                                                           *)
(***************************************************************************)
\* The invariant of the platform holds in every reachable state, and every step
\* goes onward.
THEOREM Invariance == Spec => []PlInv /\ [][PlInv /\ Onward]_vars
<1>1. Init => PlInv
  BY InitHolds
<1>2. PlInv /\ [Next]_vars => PlInv'
  BY NextKeeps
<1>3. PlInv /\ [Next]_vars => [PlInv /\ Onward]_vars
  BY NextKeeps
<1> QED
  BY <1>1, <1>2, <1>3, PTL DEF Spec

\* Type correctness of the three components on their one table.
THEOREM TypeCorrect == Spec => []TypeOK
<1>1. PlInv => TypeOK
  BY SameService, SameDelivery, SamePolling
  DEF PlInv, ServiceHolds, DispatchHolds, PollHolds, Verifying!IInv, Sending!DInv, TypeOK
<1> QED
  BY <1>1, Invariance, PTL

\* Nobody is let in with a code that was not sent, however handlers, workers, ticks
\* and redeliveries interleave.
THEOREM CodesWereCarried == Spec => []VerifiedWasCarried
<1>1. PlInv => VerifiedWasCarried
  BY DEF PlInv, RowsHold
<1> QED
  BY <1>1, Invariance, PTL

\* DELIVERED is said only of a row one of whose messages arrived.
THEOREM DeliveriesAreTrue == Spec => []DeliveredIsTrue
<1>1. PlInv => DeliveredIsTrue
  BY DEF PlInv, RowsHold
<1> QED
  BY <1>1, Invariance, PTL

\* What was proved of verify_otp with the delivery tasks as stubs holds in their
\* company: the cap on attempt_count, the TTL, the durable acceptance and the one
\* acceptance per handler.
THEOREM ServiceInvariantsHold ==
    Spec => [](/\ Service!AttemptsWithinCap /\ Service!UsedInTime
               /\ Service!AcceptanceIsDurable /\ Service!AcceptedOncePerHandler)
<1>1. PlInv => /\ Service!AttemptsWithinCap /\ Service!UsedInTime
               /\ Service!AcceptanceIsDurable /\ Service!AcceptedOncePerHandler
  BY DEF PlInv, ServiceHolds, Verifying!IInv, Service!AttemptsWithinCap,
     Verifying!AttemptsWithinCap, Service!UsedInTime, Verifying!UsedInTime,
     Service!AcceptanceIsDurable, Verifying!AcceptanceIsDurable,
     Service!AcceptedOncePerHandler, Verifying!AcceptedOncePerHandler
<1> QED
  BY <1>1, Invariance, PTL

\* What was proved of dispatch with verify_otp and the poll as stubs holds in their
\* company: no PENDING row is forgotten, SENT means a message was carried or the one
\* refusal the adapter misreads, and the id the poll asks about is the row's own.
THEOREM DispatchInvariantsHold ==
    Spec => [](/\ Delivery!PendingIsAccountedFor /\ Delivery!SentWasAnswered
               /\ Delivery!ProviderIdIsOwn)
<1>1. ASSUME PlInv
      PROVE  Delivery!PendingIsAccountedFor
  <2>1. Sending!DInv
    BY <1>1 DEF PlInv, DispatchHolds
  <2>2. ASSUME NEW id \in DOMAIN otps, otps[id].status = "pending", id \notin dropped
        PROVE  Delivery!InFlight(id)
    <3>1. Sending!Awaited(id)
      BY <2>1, <2>2 DEF Sending!DInv
    <3> QED
      BY <2>2, <3>1 DEF Sending!Awaited, Sending!Works, Delivery!InFlight, Delivery!At,
         Delivery!Target, Delivery!BagToSet, Sending!BagToSet
  <2> QED
    BY <2>2 DEF Delivery!PendingIsAccountedFor
<1>2. PlInv => Delivery!SentWasAnswered /\ Delivery!ProviderIdIsOwn
  BY DEF PlInv, DispatchHolds, Sending!DInv, Delivery!SentWasAnswered,
     Sending!SentWasAnswered, Delivery!SaysSent, Sending!SaysSent,
     Delivery!ProviderIdIsOwn, Sending!ProviderIdIsOwn
<1> QED
  BY <1>1, <1>2, Invariance, PTL

\* A step that goes onward drops no row from an aggregate of the dashboard.
LEMMA CountsGrow ==
    ASSUME PlInv, Onward, IsFiniteSet(DOMAIN otps'), NEW ch
    PROVE  LET m == delivery_metrics(otps, ch)
           IN /\ m.total     <= delivery_metrics(otps, ch)'.total
              /\ m.delivered <= delivery_metrics(otps, ch)'.delivered
              /\ m.failed    <= delivery_metrics(otps, ch)'.failed
<1>1. /\ Aggregated(otps, ch) \subseteq Aggregated(otps, ch)'
      /\ Delivered(otps, ch) \subseteq Delivered(otps, ch)'
      /\ Failed(otps, ch) \subseteq Failed(otps, ch)'
  BY DEF Onward, RowGoesOn, Aggregated, Delivered, Failed
<1>2. /\ IsFiniteSet(Aggregated(otps, ch)') /\ IsFiniteSet(Delivered(otps, ch)')
      /\ IsFiniteSet(Failed(otps, ch)')
  <2>1. /\ Aggregated(otps, ch)' \subseteq DOMAIN otps'
        /\ Delivered(otps, ch)' \subseteq DOMAIN otps'
        /\ Failed(otps, ch)' \subseteq DOMAIN otps'
    BY DEF Aggregated, Delivered, Failed
  <2> QED
    BY <2>1, FS_Subset
<1>3. /\ Cardinality(Aggregated(otps, ch)) <= Cardinality(Aggregated(otps, ch)')
      /\ Cardinality(Delivered(otps, ch)) <= Cardinality(Delivered(otps, ch)')
      /\ Cardinality(Failed(otps, ch)) <= Cardinality(Failed(otps, ch)')
  BY <1>1, <1>2, FS_Subset
<1> QED
  BY <1>3 DEF delivery_metrics

\* No count of GET /otp/metrics ever goes down.
THEOREM MetricsNeverShrink == Spec => MetricsAreStable
<1>1. ASSUME PlInv, PlInv', [PlInv /\ Onward]_vars
      PROVE  [\A ch \in Channels :
                 LET m == delivery_metrics(otps, ch)
                 IN /\ m.total     <= delivery_metrics(otps, ch)'.total
                    /\ m.delivered <= delivery_metrics(otps, ch)'.delivered
                    /\ m.failed    <= delivery_metrics(otps, ch)'.failed]_vars
  <2>1. IsFiniteSet(DOMAIN otps')
    BY <1>1 DEF PlInv, RowsHold
  <2> QED
    BY <1>1, <2>1, CountsGrow
<1> QED
  BY <1>1, Invariance, PTL DEF MetricsAreStable

\* The platform implements OtpService: whatever dispatch, its redeliveries and the
\* poll commit, in batches of any size, is to verify_otp one of the status changes
\* OtpService allows a neighbour, and every step of verify_otp is one of its own.
THEOREM ServiceRefines == Spec => ServiceInContext
<1>1. Init => ServiceView!Init
  BY InitSeen
<1>2. PlInv /\ [Next]_vars => [ServiceView!Next]_(ServiceView!vars)
  BY StepsSeen
<1> QED
  BY <1>1, <1>2, Invariance, PTL DEF Spec, ServiceInContext, ServiceView!Spec

\* The platform implements Dispatch: verify_otp settles a row's status and the poll
\* writes receipts only into rows whose provider id dispatch stored, so all a worker
\* relies on between its SELECT and its COMMIT is kept by the code beside it.
THEOREM DeliveryRefines == Spec => DeliveryInContext
<1>1. Init => DeliveryView!Init
  BY InitSeen
<1>2. PlInv /\ [Next]_vars => [DeliveryView!Next]_(DeliveryView!vars)
  BY StepsSeen
<1> QED
  BY <1>1, <1>2, Invariance, PTL DEF Spec, DeliveryInContext, DeliveryView!Spec

-----------------------------------------------------------------------------
(***************************************************************************)
(* What the components' proofs say, said of the platform.  Its two views   *)
(* satisfy the components' specifications, so they satisfy the components' *)
(* theorems: even those whose counting arguments would be hard to repeat   *)
(* here.                                                                   *)
(***************************************************************************)
\* The theorems of the two components, about what they are shown of the platform.
ServiceProved == INSTANCE OtpRefinementProofs WITH
    otps <- ServiceRows(otps), calls <- ServiceCalls(calls),
    DeliveryStatuses <- {"sent", "delivered", "failed"}, RequestSpan <- 0

DeliveryProved == INSTANCE DispatchProofs WITH
    otps <- DeliveryRows(otps), DatabaseMayFail <- TRUE, EnqueuesMayFail <- FALSE,
    ServiceStatuses <- {"verified", "expired"}, PollStatuses <- {"delivered", "failed"}

\* The instance the platform refines and the one with the service's theorems agree.
LEMMA SameServiceView ==
    /\ ServiceView!Init <=> ServiceProved!Init
    /\ [ServiceView!Next]_(ServiceView!vars) <=> [ServiceProved!Next]_(ServiceProved!vars)
<1>1. ServiceView!Init <=> ServiceProved!Init
  BY Zenon DEF ServiceView!Init, ServiceProved!Init, ServiceView!EmptyTable,
     ServiceProved!EmptyTable, ServiceView!Idle, ServiceProved!Idle, ServiceView!Clean,
     ServiceProved!Clean
<1>2. \A id \in Ids, r \in Recipients, code \in Codes :
         /\ ServiceView!create_otp(id, r, code) <=> ServiceProved!create_otp(id, r, code)
         /\ ServiceView!record_blocked(id, r, code)
                <=> ServiceProved!record_blocked(id, r, code)
  BY ZenonT(60) DEF ServiceView!create_otp, ServiceProved!create_otp,
     ServiceView!record_blocked, ServiceProved!record_blocked, ServiceView!FreshIds,
     ServiceProved!FreshIds, ServiceView!CreatedAt, ServiceProved!CreatedAt,
     ServiceView!Insert, ServiceProved!Insert, ServiceView!NewRow, ServiceProved!NewRow,
     ServiceView!Channel, ServiceProved!Channel, ServiceView!hash_code,
     ServiceProved!hash_code
<1>3. \A s \in Sessions : ServiceView!Serve(s) <=> ServiceProved!Serve(s)
  BY ZenonT(60) DEF ServiceView!Serve, ServiceProved!Serve, ServiceView!SelectNone,
     ServiceProved!SelectNone, ServiceView!Select, ServiceProved!Select,
     ServiceView!Expired, ServiceProved!Expired, ServiceView!AlreadyUsed,
     ServiceProved!AlreadyUsed, ServiceView!LockedOut, ServiceProved!LockedOut,
     ServiceView!Match, ServiceProved!Match, ServiceView!Miss, ServiceProved!Miss,
     ServiceView!Commit, ServiceProved!Commit, ServiceView!CommitUnanswered,
     ServiceProved!CommitUnanswered, ServiceView!Abandon, ServiceProved!Abandon,
     ServiceView!LatestActive, ServiceProved!LatestActive, ServiceView!vars,
     ServiceProved!vars, ServiceView!Idle, ServiceProved!Idle, ServiceView!Loaded,
     ServiceProved!Loaded, ServiceView!InTime, ServiceProved!InTime, ServiceView!Decide,
     ServiceProved!Decide, ServiceView!Clean, ServiceProved!Clean, ServiceView!Reply,
     ServiceProved!Reply, ServiceView!Unused, ServiceProved!Unused,
     ServiceView!BelowCap, ServiceProved!BelowCap, ServiceView!Matches,
     ServiceProved!Matches, ServiceView!Flushed, ServiceProved!Flushed,
     ServiceView!ActiveIds, ServiceProved!ActiveIds, ServiceView!verify_code,
     ServiceProved!verify_code, ServiceView!Flush, ServiceProved!Flush,
     ServiceView!Active, ServiceProved!Active, ServiceView!hash_code,
     ServiceProved!hash_code, ServiceView!Assigned, ServiceProved!Assigned,
     ServiceView!vars, ServiceProved!vars
<1>4. \A ids : ServiceView!DeliveryCommit(ids) <=> ServiceProved!DeliveryCommit(ids)
  BY Zenon DEF ServiceView!DeliveryCommit, ServiceProved!DeliveryCommit,
     ServiceView!FlushAll, ServiceProved!FlushAll, ServiceView!Clean,
     ServiceProved!Clean, ServiceView!Flush, ServiceProved!Flush, ServiceView!Assigned,
     ServiceProved!Assigned
<1>5. /\ ServiceView!Tick <=> ServiceProved!Tick
      /\ ServiceView!vars = ServiceProved!vars
  BY Zenon DEF ServiceView!Tick, ServiceProved!Tick, ServiceView!vars,
     ServiceProved!vars
<1>6. ServiceView!Next <=> ServiceProved!Next
  BY Zenon, <1>2, <1>3, <1>4, <1>5 DEF ServiceView!Next, ServiceProved!Next
<1> QED
  BY Zenon, <1>1, <1>5, <1>6 DEF ServiceView!vars, ServiceProved!vars

\* They mean the same one-time code.
LEMMA SameCode ==
    /\ ServiceView!Abs!Init <=> ServiceProved!Abs!Init
    /\ [ServiceView!Abs!Next]_(ServiceView!Abs!vars)
          <=> [ServiceProved!Abs!Next]_(ServiceProved!Abs!vars)
  BY Zenon DEF ServiceView!JudgedInTime, ServiceProved!JudgedInTime, ServiceView!IsDead,
     ServiceProved!IsDead, ServiceView!Phase, ServiceProved!Phase, ServiceView!Abs!Init,
     ServiceProved!Abs!Init, ServiceView!Abs!Next, ServiceProved!Abs!Next,
     ServiceView!Abs!vars, ServiceProved!Abs!vars, ServiceView!Abs!Issue,
     ServiceProved!Abs!Issue, ServiceView!Abs!IssueDead, ServiceProved!Abs!IssueDead,
     ServiceView!Abs!Accept, ServiceProved!Abs!Accept, ServiceView!Abs!Miss,
     ServiceProved!Abs!Miss, ServiceView!Abs!Expire, ServiceProved!Abs!Expire

\* So do the instances of dispatch.
LEMMA SameDeliveryView ==
    /\ DeliveryView!Init <=> DeliveryProved!Init
    /\ [DeliveryView!Next]_(DeliveryView!vars) <=> [DeliveryProved!Next]_(DeliveryProved!vars)
<1>1. \A id \in Ids, r \in Recipients :
             DeliveryView!request_otp(id, r) <=> DeliveryProved!request_otp(id, r)
  BY Zenon DEF DeliveryView!request_otp, DeliveryProved!request_otp,
     DeliveryView!FreshIds, DeliveryProved!FreshIds, DeliveryView!Insert,
     DeliveryProved!Insert, DeliveryView!NewRow, DeliveryProved!NewRow,
     DeliveryView!Channel, DeliveryProved!Channel, DeliveryView!hash_code,
     DeliveryProved!hash_code, DeliveryView!provider, DeliveryProved!provider
<1>2. DeliveryView!Api <=> DeliveryProved!Api
  BY Zenon DEF DeliveryView!Api, DeliveryProved!Api, DeliveryView!Enqueue,
     DeliveryProved!Enqueue, DeliveryView!EnqueueFails, DeliveryProved!EnqueueFails,
     DeliveryView!Publish, DeliveryProved!Publish, DeliveryView!SetToBag,
     DeliveryProved!SetToBag, DeliveryView!BagToSet, DeliveryProved!BagToSet,
     DeliveryView!IsABag, DeliveryProved!IsABag, DeliveryView!(+), DeliveryProved!(+),
     DeliveryView!table, DeliveryProved!table, DeliveryView!provider,
     DeliveryProved!provider
<1>3. ASSUME NEW w \in Workers
      PROVE  DeliveryView!Work(w) <=> DeliveryProved!Work(w)
  <2>1. DeliveryView!Reserve(w) <=> DeliveryProved!Reserve(w)
    BY Zenon DEF DeliveryView!Reserve, DeliveryProved!Reserve, DeliveryView!At,
       DeliveryProved!At, DeliveryView!Idle, DeliveryProved!Idle, DeliveryView!Clean,
       DeliveryProved!Clean, DeliveryView!SetToBag, DeliveryProved!SetToBag,
       DeliveryView!BagToSet, DeliveryProved!BagToSet, DeliveryView!IsABag,
       DeliveryProved!IsABag, DeliveryView!(-), DeliveryProved!(-), DeliveryView!table,
       DeliveryProved!table, DeliveryView!provider, DeliveryProved!provider
  <2>2. DeliveryView!Load(w) <=> DeliveryProved!Load(w)
    BY Zenon DEF DeliveryView!Load, DeliveryProved!Load, DeliveryView!At,
       DeliveryProved!At, DeliveryView!Goto, DeliveryProved!Goto, DeliveryView!Target,
       DeliveryProved!Target, DeliveryView!table, DeliveryProved!table,
       DeliveryView!provider, DeliveryProved!provider
  <2>3. DeliveryView!Send(w) <=> DeliveryProved!Send(w)
    BY Zenon DEF DeliveryView!Send, DeliveryProved!Send, DeliveryView!At,
       DeliveryProved!At, DeliveryView!Goto, DeliveryProved!Goto, DeliveryView!Target,
       DeliveryProved!Target, DeliveryView!Carry, DeliveryProved!Carry,
       DeliveryView!Decide, DeliveryProved!Decide, DeliveryView!Accepted,
       DeliveryProved!Accepted, DeliveryView!Refused, DeliveryProved!Refused,
       DeliveryView!Transient, DeliveryProved!Transient, DeliveryView!Raises,
       DeliveryProved!Raises, DeliveryView!Sent, DeliveryProved!Sent,
       DeliveryView!Failed, DeliveryProved!Failed, DeliveryView!Clean,
       DeliveryProved!Clean, DeliveryView!send, DeliveryProved!send,
       DeliveryView!sms_send, DeliveryProved!sms_send, DeliveryView!email_send,
       DeliveryProved!email_send, DeliveryView!NoHttp, DeliveryProved!NoHttp,
       DeliveryView!_classify, DeliveryProved!_classify, DeliveryView!Succeeds,
       DeliveryProved!Succeeds, DeliveryView!Throttles, DeliveryProved!Throttles,
       DeliveryView!ServerFails, DeliveryProved!ServerFails, DeliveryView!Denies,
       DeliveryProved!Denies, DeliveryView!Protocol, DeliveryProved!Protocol,
       DeliveryView!NamesMessage, DeliveryProved!NamesMessage,
       DeliveryView!MayHaveTaken, DeliveryProved!MayHaveTaken, DeliveryView!table,
       DeliveryProved!table, DeliveryView!provider, DeliveryProved!provider,
       DeliveryView!Misreads, DeliveryProved!Misreads, DeliveryView!Fails,
       DeliveryProved!Fails
  <2>4. DeliveryView!Commit(w) <=> DeliveryProved!Commit(w)
    BY Zenon DEF DeliveryView!Commit, DeliveryProved!Commit, DeliveryView!At,
       DeliveryProved!At, DeliveryView!Goto, DeliveryProved!Goto, DeliveryView!Target,
       DeliveryProved!Target, DeliveryView!Flush, DeliveryProved!Flush,
       DeliveryView!Assigned, DeliveryProved!Assigned, DeliveryView!table,
       DeliveryProved!table, DeliveryView!provider, DeliveryProved!provider
  <2>5. DeliveryView!CommitFails(w) <=> DeliveryProved!CommitFails(w)
    BY Zenon DEF DeliveryView!CommitFails, DeliveryProved!CommitFails, DeliveryView!At,
       DeliveryProved!At, DeliveryView!Goto, DeliveryProved!Goto, DeliveryView!Target,
       DeliveryProved!Target, DeliveryView!table, DeliveryProved!table,
       DeliveryView!provider, DeliveryProved!provider, DeliveryView!Fails,
       DeliveryProved!Fails
  <2>6. DeliveryView!Retry(w) <=> DeliveryProved!Retry(w)
    BY Zenon DEF DeliveryView!Retry, DeliveryProved!Retry, DeliveryView!At,
       DeliveryProved!At, DeliveryView!Goto, DeliveryProved!Goto, DeliveryView!Target,
       DeliveryProved!Target, DeliveryView!Publish, DeliveryProved!Publish,
       DeliveryView!SetToBag, DeliveryProved!SetToBag, DeliveryView!BagToSet,
       DeliveryProved!BagToSet, DeliveryView!IsABag, DeliveryProved!IsABag,
       DeliveryView!(+), DeliveryProved!(+), DeliveryView!table, DeliveryProved!table,
       DeliveryView!provider, DeliveryProved!provider
  <2>7. DeliveryView!GiveUp(w) <=> DeliveryProved!GiveUp(w)
    BY Zenon DEF DeliveryView!GiveUp, DeliveryProved!GiveUp, DeliveryView!At,
       DeliveryProved!At, DeliveryView!Goto, DeliveryProved!Goto, DeliveryView!Target,
       DeliveryProved!Target, DeliveryView!table, DeliveryProved!table,
       DeliveryView!provider, DeliveryProved!provider, DeliveryView!Fails,
       DeliveryProved!Fails
  <2>8. DeliveryView!Ack(w) <=> DeliveryProved!Ack(w)
    BY Zenon DEF DeliveryView!Ack, DeliveryProved!Ack, DeliveryView!At,
       DeliveryProved!At, DeliveryView!Idle, DeliveryProved!Idle, DeliveryView!Clean,
       DeliveryProved!Clean, DeliveryView!table, DeliveryProved!table,
       DeliveryView!provider, DeliveryProved!provider
  <2>9. DeliveryView!LoadFails(w) <=> DeliveryProved!LoadFails(w)
    BY Zenon DEF DeliveryView!LoadFails, DeliveryProved!LoadFails, DeliveryView!At,
       DeliveryProved!At, DeliveryView!Goto, DeliveryProved!Goto, DeliveryView!Target,
       DeliveryProved!Target, DeliveryView!Fails, DeliveryProved!Fails,
       DeliveryView!table, DeliveryProved!table, DeliveryView!provider,
       DeliveryProved!provider
  <2>10. DeliveryView!RetryFails(w) <=> DeliveryProved!RetryFails(w)
    BY Zenon DEF DeliveryView!RetryFails, DeliveryProved!RetryFails, DeliveryView!At,
       DeliveryProved!At, DeliveryView!Goto, DeliveryProved!Goto, DeliveryView!Target,
       DeliveryProved!Target, DeliveryView!Fails, DeliveryProved!Fails,
       DeliveryView!table, DeliveryProved!table, DeliveryView!provider,
       DeliveryProved!provider
  <2> QED
    BY Zenon, <2>1, <2>2, <2>3, <2>4, <2>5, <2>6, <2>7, <2>8, <2>9, <2>10
    DEF DeliveryView!Work, DeliveryProved!Work
<1>4. \A w \in Workers : DeliveryView!Crash(w) <=> DeliveryProved!Crash(w)
  BY Zenon DEF DeliveryView!Crash, DeliveryProved!Crash, DeliveryView!At,
     DeliveryProved!At, DeliveryView!Publish, DeliveryProved!Publish,
     DeliveryView!SetToBag, DeliveryProved!SetToBag, DeliveryView!BagToSet,
     DeliveryProved!BagToSet, DeliveryView!IsABag, DeliveryProved!IsABag,
     DeliveryView!(+), DeliveryProved!(+), DeliveryView!Idle, DeliveryProved!Idle,
     DeliveryView!Clean, DeliveryProved!Clean, DeliveryView!table, DeliveryProved!table,
     DeliveryView!provider, DeliveryProved!provider
<1>5. \A id \in Ids : DeliveryView!Replay(id) <=> DeliveryProved!Replay(id)
  BY Zenon DEF DeliveryView!Replay, DeliveryProved!Replay, DeliveryView!Publish,
     DeliveryProved!Publish, DeliveryView!SetToBag, DeliveryProved!SetToBag,
     DeliveryView!BagToSet, DeliveryProved!BagToSet, DeliveryView!IsABag,
     DeliveryProved!IsABag, DeliveryView!(+), DeliveryProved!(+), DeliveryView!table,
     DeliveryProved!table, DeliveryView!provider, DeliveryProved!provider
<1>6. DeliveryView!Init <=> DeliveryProved!Init
  BY Zenon DEF DeliveryView!Init, DeliveryProved!Init, DeliveryView!EmptyTable,
     DeliveryProved!EmptyTable, DeliveryView!Idle, DeliveryProved!Idle,
     DeliveryView!Clean, DeliveryProved!Clean, DeliveryView!EmptyBag,
     DeliveryProved!EmptyBag, DeliveryView!SetToBag, DeliveryProved!SetToBag
<1>7. \A id \in Ids : DeliveryView!VerifyCommit(id) <=> DeliveryProved!VerifyCommit(id)
  BY Zenon DEF DeliveryView!VerifyCommit, DeliveryProved!VerifyCommit,
     DeliveryView!Clean, DeliveryProved!Clean, DeliveryView!Flush, DeliveryProved!Flush,
     DeliveryView!Assigned, DeliveryProved!Assigned, DeliveryView!provider,
     DeliveryProved!provider
<1>8. \A ids : DeliveryView!PollCommit(ids) <=> DeliveryProved!PollCommit(ids)
  BY Zenon DEF DeliveryView!PollCommit, DeliveryProved!PollCommit, DeliveryView!Receipt,
     DeliveryProved!Receipt, DeliveryView!Clean, DeliveryProved!Clean,
     DeliveryView!FlushAll, DeliveryProved!FlushAll, DeliveryView!Flush,
     DeliveryProved!Flush, DeliveryView!Assigned, DeliveryProved!Assigned,
     DeliveryView!provider, DeliveryProved!provider
<1>9. /\ DeliveryView!Tick <=> DeliveryProved!Tick
      /\ DeliveryView!vars = DeliveryProved!vars
  BY Zenon DEF DeliveryView!Tick, DeliveryProved!Tick, DeliveryView!vars,
     DeliveryProved!vars, DeliveryView!table, DeliveryProved!table,
     DeliveryView!provider, DeliveryProved!provider
<1>10. DeliveryView!Next <=> DeliveryProved!Next
  BY Zenon, <1>1, <1>2, <1>3, <1>4, <1>5, <1>7, <1>8, <1>9 DEF DeliveryView!Next,
     DeliveryProved!Next
<1> QED
  BY Zenon, <1>6, <1>9, <1>10 DEF DeliveryView!vars, DeliveryProved!vars,
     DeliveryView!table, DeliveryProved!table, DeliveryView!provider,
     DeliveryProved!provider

\* The constants of the views are what their modules assume.
LEMMA GivenInViews ==
    /\ NULL \notin ServiceProved!Statuses /\ NULL \notin DeliveryProved!Statuses
    /\ NULL \notin DeliveryProved!Message
    /\ {"sent", "delivered", "failed"} \subseteq {"sent", "delivered", "failed"}
    /\ {"verified", "expired"} \subseteq {"verified", "expired"}
    /\ {"delivered", "failed"} \subseteq {"delivered", "failed"}
  BY Given DEF Verifying!Statuses, Verifying!Active, Verifying!Terminal,
     ServiceProved!Statuses, ServiceProved!Active, ServiceProved!Terminal,
     Sending!Message, DeliveryProved!Statuses, DeliveryProved!Active,
     DeliveryProved!Terminal, DeliveryProved!Message

\* When verify calls are served one after another the whole platform is a one-time
\* code: whatever workers, retries, redeliveries and polls write around verify_otp,
\* a code is accepted at most once, never after its TTL, and never after the last
\* allowed wrong guess.
THEOREM PlatformIsOneTimeCode ==
    (\A s, t \in Sessions : s = t) => (Spec => OneTimeCodeInContext)
<1> SUFFICES ASSUME \A s, t \in Sessions : s = t PROVE Spec => OneTimeCodeInContext
  OBVIOUS
<1>1. ServiceProved!Spec => ServiceProved!ImplementsOneTimeCode
  BY Given, GivenInViews, ServiceProved!OneTimeCodeWhenSerial
<1> QED
  BY <1>1, SameServiceView, SameCode, ServiceRefines, PTL DEF ServiceInContext,
     ServiceView!Spec, ServiceProved!Spec, OneTimeCodeInContext,
     ServiceView!ImplementsOneTimeCode, ServiceProved!ImplementsOneTimeCode,
     ServiceView!Abs!Spec, ServiceProved!Abs!Spec

\* Served serially, verify_otp accepts a code once, counts every wrong guess it
\* answers, and refuses the right code after the last one, in the platform too.
THEOREM SerialCallsInContext ==
    ASSUME \A s, t \in Sessions : s = t
    PROVE  Spec => /\ [](Service!AcceptedOnce /\ Service!MissesAreCounted)
                   /\ Service!LockoutHolds
<1>1. ServiceProved!Spec => /\ []ServiceProved!AcceptedOnce
                            /\ []ServiceProved!MissesAreCounted
                            /\ ServiceProved!LockoutHolds
  BY Given, GivenInViews, ServiceProved!SingleUseWhenSerial,
     ServiceProved!MissesCountedWhenSerial, ServiceProved!LockoutHoldsWhenSerial
<1>2. ASSUME [\A s \in Sessions, id \in Ids :
                 wins'[s][id] # wins[s][id] =>
                     misses[id] < MAX_OTP_ATTEMPTS]_(ServiceProved!vars)
      PROVE  [\A s \in Sessions, id \in Ids :
                 wins'[s][id] # wins[s][id] =>
                     misses[id] < MAX_OTP_ATTEMPTS]_(Service!vars)
  BY <1>2 DEF ServiceProved!vars
<1>3. ServiceProved!AcceptedOnce => Service!AcceptedOnce
  BY DEF ServiceProved!AcceptedOnce, Service!AcceptedOnce
<1>4. PlInv /\ ServiceProved!MissesAreCounted => Service!MissesAreCounted
  BY Facts, ViewIsTable, ServiceColumns DEF ServiceProved!MissesAreCounted,
     Service!MissesAreCounted
<1> QED
  BY <1>1, <1>2, <1>3, <1>4, SameServiceView, ServiceRefines, Invariance, PTL DEF
     ServiceInContext, ServiceView!Spec, ServiceProved!Spec, ServiceProved!LockoutHolds,
     Service!LockoutHolds

\* Two handlers answer at most 2 + 3 + ... + (MAX_OTP_ATTEMPTS + 1) wrong guesses for
\* a code, whatever the delivery tasks commit between their awaits.
THEOREM GuessesBoundedInContext ==
    ASSUME NEW a \in Sessions, NEW b \in Sessions, Sessions = {a, b}
    PROVE  Spec => []Service!GuessesWithinPairBudget
<1>1. ServiceProved!Spec => []ServiceProved!GuessesWithinPairBudget
  BY Given, GivenInViews, ServiceProved!GuessesBoundedForPairs
<1>2. ServiceProved!GuessesWithinPairBudget => Service!GuessesWithinPairBudget
  BY DEF ServiceProved!GuessesWithinPairBudget, Service!GuessesWithinPairBudget
<1> QED
  BY <1>1, <1>2, SameServiceView, ServiceRefines, PTL DEF ServiceInContext,
     ServiceView!Spec, ServiceProved!Spec

\* A code is sent at most MaxRetries + 1 times for each of its chains of messages:
\* neither verify_otp nor a receipt makes a row PENDING again for a redelivery to send.
THEOREM SendsBoundedInContext == Spec => []Delivery!SendsAreBounded
<1>1. DeliveryProved!Spec => []DeliveryProved!SendsAreBounded
  BY Given, GivenInViews, DeliveryProved!SendsBounded
<1>2. DeliveryProved!SendsAreBounded => Delivery!SendsAreBounded
  BY DEF DeliveryProved!SendsAreBounded, Delivery!SendsAreBounded
<1> QED
  BY <1>1, <1>2, SameDeliveryView, DeliveryRefines, PTL DEF DeliveryInContext,
     DeliveryView!Spec, DeliveryProved!Spec
=============================================================================
