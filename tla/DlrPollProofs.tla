---------------------------- MODULE DlrPollProofs ----------------------------
(***************************************************************************)
(* Machine-checked theorems about DlrPoll: what a receipt on a row means,  *)
(* for any number of overlapping pollers and of dispatches of a row, and   *)
(* what the rows and the dashboard keep when ticks do not overlap.         *)
(***************************************************************************)
EXTENDS DlrPoll, OtpRowsProofs, FiniteSetTheorems, SequenceTheorems

(***************************************************************************)
(* The inductive invariant.  What a row says of its message comes from an  *)
(* outcome dispatch committed to it, though not always from a single one;  *)
(* so does what a tick has seen of it; and the columns a tick has assigned *)
(* are those of a true receipt or of a message past the timeout.           *)
(***************************************************************************)
WasSentAt(id, t) == \E i \in DOMAIN dispatched[id] : dispatched[id][i].sent_at = t

RowIsDispatched(id) ==
    /\ dispatched[id] # <<>>
    /\ otps[id].provider_message_id # NULL =>
          otps[id].provider_message_id \in Issued(id) /\ otps[id].sent_at # NULL
    /\ otps[id].sent_at # NULL => WasSentAt(id, otps[id].sent_at)

SeenWasDispatched(w) ==
    \A id \in DOMAIN ticks[w].seen :
        /\ id \in DOMAIN otps
        /\ ticks[w].seen[id].provider_message_id \in Issued(id)
        /\ WasSentAt(id, ticks[w].seen[id].sent_at)

IsDeserved(id, dirty, t) ==
    /\ id \in DOMAIN otps
    /\ \/ dirty = Clean
       \/ dirty = DeliveredAt(t) /\ WasDelivered(id)
       \/ dirty = FailedAt(t) /\ FailureDeserved(id, t)

AssignedIsDeserved(w) ==
    \A id \in DOMAIN ticks[w].dirty :
        IsDeserved(id, ticks[w].dirty[id], ticks[w].started)

PInv == /\ TypeOK
        /\ \A id \in DOMAIN otps : RowIsDispatched(id)
        /\ \A w \in Pollers : SeenWasDispatched(w) /\ AssignedIsDeserved(w)
        /\ DeliveredIsTrue
        /\ FailedIsDeserved

(***************************************************************************)
(* The columns of a receipt.                                               *)
(***************************************************************************)
\* What a tick assigns is a unit of work that leaves sent_at, the provider's id
\* and the count of wrong guesses alone.
LEMMA ReceiptType ==
    ASSUME NEW t \in Time
    PROVE  /\ DeliveredAt(t) \in Dirty /\ FailedAt(t) \in Dirty /\ Clean \in Dirty
           /\ DeliveredAt(t).status = "delivered" /\ DeliveredAt(t).delivered_at = t
           /\ DeliveredAt(t).failed_at = NULL
           /\ FailedAt(t).status = "failed" /\ FailedAt(t).failed_at = t
           /\ FailedAt(t).delivered_at = NULL
           /\ Clean.status = NULL /\ Clean.delivered_at = NULL
           /\ Clean.failed_at = NULL
           /\ \A d \in {DeliveredAt(t), FailedAt(t), Clean} :
                 d.sent_at = NULL /\ d.provider_message_id = NULL
<1>1. Clean \in Dirty /\ t \in TimeOrNull /\ {"delivered", "failed"} \subseteq Statuses
  BY CleanType, StatusNames DEF Time, TimeOrNull
<1>2. DeliveredAt(t) \in Dirty /\ FailedAt(t) \in Dirty
  BY <1>1 DEF DeliveredAt, FailedAt, Dirty
<1>3. /\ Clean.status = NULL /\ Clean.delivered_at = NULL /\ Clean.failed_at = NULL
      /\ Clean.sent_at = NULL /\ Clean.provider_message_id = NULL
  BY DEF Clean
<1>4. /\ DeliveredAt(t).status = "delivered" /\ DeliveredAt(t).delivered_at = t
      /\ DeliveredAt(t).failed_at = NULL /\ DeliveredAt(t).sent_at = NULL
      /\ DeliveredAt(t).provider_message_id = NULL
  BY DEF DeliveredAt, Clean
<1>5. /\ FailedAt(t).status = "failed" /\ FailedAt(t).failed_at = t
      /\ FailedAt(t).delivered_at = NULL /\ FailedAt(t).sent_at = NULL
      /\ FailedAt(t).provider_message_id = NULL
  BY DEF FailedAt, Clean
<1> QED
  BY <1>1, <1>2, <1>3, <1>4, <1>5

(***************************************************************************)
(* What the past says is not unsaid: outcomes are only added, and the      *)
(* carrier decides once.                                                   *)
(***************************************************************************)
Remembers(id) ==
    /\ \A i \in DOMAIN dispatched[id] :
          i \in DOMAIN dispatched'[id] /\ dispatched'[id][i] = dispatched[id][i]
    /\ \A p \in Providers : fate[p] # "transit" => fate'[p] = fate[p]

\* What a row or a tick may rest on stays true.
LEMMA PastHolds ==
    ASSUME TypeOK, NEW id \in Ids, Remembers(id)
    PROVE  /\ Issued(id) \subseteq Issued(id)'
           /\ \A t : WasSentAt(id, t) => WasSentAt(id, t)'
           /\ WasDelivered(id) => WasDelivered(id)'
           /\ \A t : FailureDeserved(id, t) => FailureDeserved(id, t)'
<1>1. \A i \in DOMAIN dispatched[id] :
         /\ i \in DOMAIN dispatched'[id] /\ dispatched'[id][i] = dispatched[id][i]
         /\ dispatched[id][i].provider_message_id # NULL =>
               dispatched[id][i].provider_message_id \in Providers
  <2>1. \A i \in DOMAIN dispatched[id] : dispatched[id][i] \in Dirty
    BY DEF TypeOK
  <2> QED
    BY <2>1 DEF Remembers, Dirty
<1>2. \A p \in Providers : /\ fate[p] = "delivered" => fate'[p] = "delivered"
                           /\ fate[p] = "failed" => fate'[p] = "failed"
  BY DEF Remembers
<1>3. Issued(id) \subseteq Issued(id)'
  BY <1>1 DEF Issued
<1>4. \A t : WasSentAt(id, t) => WasSentAt(id, t)'
  BY <1>1 DEF WasSentAt
<1>5. WasDelivered(id) => WasDelivered(id)'
  <2>1. Issued(id) \subseteq Providers
    BY DEF Issued
  <2> QED
    BY <1>2, <1>3, <2>1 DEF WasDelivered
<1>6. ASSUME NEW t, FailureDeserved(id, t)
      PROVE  FailureDeserved(id, t)'
  <2>1. PICK i \in DOMAIN dispatched[id] :
           LET d == dispatched[id][i]
           IN \/ d.failed_at = t
              \/ d.provider_message_id # NULL /\ fate[d.provider_message_id] = "failed"
              \/ d.sent_at # NULL /\ d.sent_at < t - DLR_TIMEOUT_SECONDS
    BY <1>6 DEF FailureDeserved
  <2> QED
    BY <1>1, <1>2, <2>1 DEF FailureDeserved
<1> QED
  BY <1>3, <1>4, <1>5, <1>6

(***************************************************************************)
(* Steps that touch one tick and nothing else.                             *)
(***************************************************************************)
\* The invariant survives if that tick keeps its part of it.
LEMMA LocalStep ==
    ASSUME PInv, NEW w \in Pollers,
           DOMAIN ticks' = Pollers,
           \A v \in Pollers \ {w} : ticks'[v] = ticks[v],
           UNCHANGED <<table, fate>>, crashes' \in 0..MaxCrashes,
           IsTickOfRows(ticks'[w]),
           SeenWasDispatched(w)', AssignedIsDeserved(w)'
    PROVE  PInv'
<1>1. UNCHANGED <<otps, now, dispatched, fate>>
  BY DEF table
<1>2. TypeOK'
  BY <1>1 DEF PInv, TypeOK
<1>3. ASSUME NEW v \in Pollers
      PROVE  SeenWasDispatched(v)' /\ AssignedIsDeserved(v)'
  <2>1. CASE v = w
    BY <2>1
  <2>2. CASE v # w
    BY <1>1, <2>2 DEF PInv, SeenWasDispatched, AssignedIsDeserved, IsDeserved,
                      WasSentAt, Issued, WasDelivered, FailureDeserved
  <2> QED
    BY <2>1, <2>2
<1>4. DeliveredIsTrue' /\ FailedIsDeserved'
  BY <1>1 DEF PInv, DeliveredIsTrue, FailedIsDeserved, WasDelivered, Issued,
              FailureDeserved
<1>5. \A id \in DOMAIN otps' : RowIsDispatched(id)'
  BY <1>1 DEF PInv, RowIsDispatched, WasSentAt, Issued
<1> QED
  BY <1>2, <1>3, <1>4, <1>5 DEF PInv

\* A tick that ends or has only taken its clock has seen and assigned nothing.
LEMMA EmptyTick ==
    ASSUME PInv, NEW w \in Pollers, NEW tick,
           ticks' = [ticks EXCEPT ![w] = tick],
           tick.pc \in {"idle", "started", "querying"}, tick.started \in Time,
           tick.seen = Nothing, tick.dirty = Nothing,
           UNCHANGED <<table, fate>>, crashes' \in 0..MaxCrashes
    PROVE  PInv'
<1>1. DOMAIN Nothing = {}
  BY DEF Nothing
<1>2. /\ DOMAIN ticks' = Pollers /\ ticks'[w] = tick
      /\ \A v \in Pollers \ {w} : ticks'[v] = ticks[v]
  BY DEF PInv, TypeOK
<1>3. Nothing \in [DOMAIN Nothing -> Copy] /\ Nothing \in [DOMAIN Nothing -> Dirty]
  BY DEF Nothing
<1>4. IsTickOfRows(ticks'[w]) /\ SeenWasDispatched(w)' /\ AssignedIsDeserved(w)'
  BY <1>1, <1>2, <1>3 DEF IsTickOfRows, SeenWasDispatched, AssignedIsDeserved
<1> QED
  BY <1>2, <1>4, LocalStep

\* The end of a tick by any of its early exits, and its start.
LEMMA BareSteps ==
    ASSUME PInv, NEW w \in Pollers,
           \/ Start(w) \/ SelectNone(w) \/ Crash(w)
           \/ \E id \in Ids : Garbled(w, id)
    PROVE  PInv'
<1>1. now \in Time /\ crashes \in 0..MaxCrashes /\ MaxCrashes \in Nat
  BY PollAssumption DEF PInv, TypeOK, Time
<1>2. /\ Idle.pc = "idle" /\ Idle.started = 0
      /\ Idle.seen = Nothing /\ Idle.dirty = Nothing /\ 0 \in Time
  BY DEF Idle, Time
<1>3. CASE Start(w)
  <2> DEFINE tick == [Idle EXCEPT !.pc = "started", !.started = now]
  <2>1. /\ tick.pc = "started" /\ tick.started = now
        /\ tick.seen = Nothing /\ tick.dirty = Nothing
    BY DEF Idle
  <2>2. /\ ticks' = [ticks EXCEPT ![w] = tick] /\ UNCHANGED <<table, fate>>
        /\ crashes' \in 0..MaxCrashes
    BY <1>1, <1>3 DEF Start
  <2> HIDE DEF tick
  <2> QED
    BY <1>1, <2>1, <2>2, EmptyTick
<1>4. CASE SelectNone(w) \/ Crash(w) \/ \E id \in Ids : Garbled(w, id)
  <2>1. /\ ticks' = [ticks EXCEPT ![w] = Idle] /\ UNCHANGED <<table, fate>>
        /\ crashes' \in 0..MaxCrashes
    BY <1>1, <1>4 DEF SelectNone, Crash, Garbled
  <2> QED
    BY <1>2, <2>1, EmptyTick
<1> QED
  BY <1>3, <1>4

\* The batch: what is copied of a row is what the row holds.
LEMMA SelectStep ==
    ASSUME PInv, NEW w \in Pollers, Select(w)
    PROVE  PInv'
<1>1. PICK batch \in SUBSET InFlightSms :
         ticks' = [ticks EXCEPT
                     ![w].pc = "querying",
                     ![w].seen = [id \in batch |->
                        [sent_at             |-> otps[id].sent_at,
                         provider_message_id |-> otps[id].provider_message_id]]]
  BY DEF Select
<1> DEFINE seen == [id \in batch |->
                      [sent_at             |-> otps[id].sent_at,
                       provider_message_id |-> otps[id].provider_message_id]]
<1>2. /\ IsTable(otps) /\ DOMAIN ticks = Pollers /\ IsTickOfRows(ticks[w])
      /\ AssignedIsDeserved(w)
  BY DEF PInv, TypeOK
<1>3. \A id \in batch : /\ id \in DOMAIN otps /\ id \in Ids /\ otps[id] \in Row
                        /\ RowIsDispatched(id)
                        /\ otps[id].provider_message_id # NULL
  BY <1>2 DEF InFlightSms, IsTable, PInv
<1>4. \A id \in batch : /\ otps[id].sent_at \in Time
                        /\ otps[id].provider_message_id \in Providers
                        /\ otps[id].provider_message_id \in Issued(id)
                        /\ WasSentAt(id, otps[id].sent_at)
  BY <1>3 DEF Row, TimeOrNull, Time, RowIsDispatched
<1>5. DOMAIN seen = batch /\ batch \subseteq Ids /\ seen \in [DOMAIN seen -> Copy]
  BY <1>3, <1>4 DEF Copy
<1>6. \A id \in DOMAIN seen :
         /\ seen[id].sent_at = otps[id].sent_at
         /\ seen[id].provider_message_id = otps[id].provider_message_id
  OBVIOUS
<1>7. ticks' = [ticks EXCEPT ![w] = [ticks[w] EXCEPT !.pc = "querying", !.seen = seen]]
  BY <1>1, <1>2
<1> HIDE DEF seen
<1>8. DOMAIN ticks' = Pollers /\ \A v \in Pollers \ {w} : ticks'[v] = ticks[v]
  BY <1>2, <1>7
<1>9. /\ ticks'[w].pc = "querying" /\ ticks'[w].started = ticks[w].started
      /\ ticks'[w].seen = seen /\ ticks'[w].dirty = ticks[w].dirty
  BY <1>2, <1>7
<1>10. /\ UNCHANGED <<table, fate>> /\ UNCHANGED <<otps, dispatched>>
       /\ crashes' \in 0..MaxCrashes
  BY DEF Select, PInv, TypeOK, table
<1>11. IsTickOfRows(ticks'[w])
  BY <1>2, <1>5, <1>9 DEF IsTickOfRows
<1>12. SeenWasDispatched(w)'
  BY <1>3, <1>4, <1>5, <1>6, <1>9, <1>10 DEF SeenWasDispatched, WasSentAt, Issued
<1>13. AssignedIsDeserved(w)'
  BY <1>2, <1>9, <1>10
  DEF AssignedIsDeserved, IsDeserved, WasDelivered, FailureDeserved, Issued
<1> QED
  BY <1>8, <1>10, <1>11, <1>12, <1>13, LocalStep

(***************************************************************************)
(* The loop: one row at a time.                                            *)
(***************************************************************************)
\* The row asked about is one the tick has seen, with an id dispatch stored on it.
LEMMA NextRow ==
    ASSUME PInv, NEW w \in Pollers, NEW id \in Ids, IsNext(w, id)
    PROVE  /\ id \in DOMAIN ticks[w].seen /\ id \in DOMAIN otps
           /\ ticks[w].seen[id].provider_message_id \in Issued(id)
           /\ ticks[w].seen[id].sent_at \in Time
           /\ WasSentAt(id, ticks[w].seen[id].sent_at)
           /\ ticks[w].started \in Time
<1>1. id \in DOMAIN ticks[w].seen /\ IsTickOfRows(ticks[w]) /\ SeenWasDispatched(w)
  BY DEF IsNext, PInv, TypeOK
<1>2. ticks[w].seen[id] \in Copy /\ ticks[w].started \in Time
  BY <1>1 DEF IsTickOfRows
<1> QED
  BY <1>1, <1>2 DEF SeenWasDispatched, Copy

\* Assigning what the row deserves.
LEMMA AssignStep ==
    ASSUME PInv, NEW w \in Pollers, NEW id \in Ids, NEW d, d \in Dirty,
           Assign(w, id, d), IsDeserved(id, d, ticks[w].started),
           UNCHANGED <<table, fate, crashes>>
    PROVE  PInv'
<1> DEFINE seen == [i \in DOMAIN ticks[w].seen \ {id} |-> ticks[w].seen[i]]
           dirty == [i \in DOMAIN ticks[w].dirty \cup {id} |->
                        IF i = id THEN d ELSE ticks[w].dirty[i]]
<1>1. /\ DOMAIN ticks = Pollers /\ IsTickOfRows(ticks[w])
      /\ SeenWasDispatched(w) /\ AssignedIsDeserved(w)
      /\ crashes' \in 0..MaxCrashes /\ UNCHANGED <<otps, dispatched, fate>>
  BY DEF PInv, TypeOK, table
<1>2. ticks' = [ticks EXCEPT ![w] = [ticks[w] EXCEPT !.seen = seen, !.dirty = dirty]]
  BY <1>1 DEF Assign
<1>3. /\ DOMAIN seen = DOMAIN ticks[w].seen \ {id}
      /\ \A i \in DOMAIN seen : seen[i] = ticks[w].seen[i]
      /\ DOMAIN seen \subseteq Ids /\ seen \in [DOMAIN seen -> Copy]
  BY <1>1 DEF IsTickOfRows
<1>4. /\ DOMAIN dirty = DOMAIN ticks[w].dirty \cup {id}
      /\ \A i \in DOMAIN dirty : dirty[i] = IF i = id THEN d ELSE ticks[w].dirty[i]
      /\ DOMAIN dirty \subseteq Ids /\ dirty \in [DOMAIN dirty -> Dirty]
  BY <1>1 DEF IsTickOfRows
<1> HIDE DEF seen, dirty
<1>5. /\ DOMAIN ticks' = Pollers /\ \A v \in Pollers \ {w} : ticks'[v] = ticks[v]
      /\ ticks'[w].pc = ticks[w].pc /\ ticks'[w].started = ticks[w].started
      /\ ticks'[w].seen = seen /\ ticks'[w].dirty = dirty
  BY <1>1, <1>2 DEF IsTickOfRows
<1>6. IsTickOfRows(ticks'[w])
  BY <1>1, <1>3, <1>4, <1>5 DEF IsTickOfRows
<1>7. SeenWasDispatched(w)'
  BY <1>1, <1>3, <1>5 DEF SeenWasDispatched, WasSentAt, Issued
<1>8. AssignedIsDeserved(w)'
  <2>1. \A i \in DOMAIN dirty : IsDeserved(i, dirty[i], ticks[w].started)
    BY <1>1, <1>4 DEF AssignedIsDeserved
  <2>2. \A i, e, t : IsDeserved(i, e, t) => IsDeserved(i, e, t)'
    BY <1>1 DEF IsDeserved, WasDelivered, FailureDeserved, Issued
  <2> QED
    BY <1>5, <2>1, <2>2 DEF AssignedIsDeserved
<1> QED
  BY <1>1, <1>5, <1>6, <1>7, <1>8, LocalStep

\* The sweep fails a row of which a message is past the timeout.
LEMMA SweepStep ==
    ASSUME PInv, NEW w \in Pollers, NEW id \in Ids, Sweep(w, id)
    PROVE  PInv'
<1>1. IsNext(w, id) /\ TooOld(w, id) /\ Assign(w, id, FailedAt(ticks[w].started))
      /\ UNCHANGED <<table, fate, crashes>>
  BY DEF Sweep
<1>2. FailureDeserved(id, ticks[w].started)
  <2>1. PICK i \in DOMAIN dispatched[id] :
           dispatched[id][i].sent_at = ticks[w].seen[id].sent_at
    BY <1>1, NextRow DEF WasSentAt
  <2>2. dispatched[id][i].sent_at # NULL
    BY <1>1, <2>1, NextRow, NullAssumption DEF Time
  <2>3. dispatched[id][i].sent_at < ticks[w].started - DLR_TIMEOUT_SECONDS
    BY <1>1, <2>1 DEF TooOld, Cutoff
  <2> QED
    BY <2>2, <2>3 DEF FailureDeserved
<1> QED
  BY <1>1, <1>2, NextRow, ReceiptType, AssignStep DEF IsDeserved

\* A receipt the adapter reads as final is one the carrier has earned.
LEMMA FinalIsTrue ==
    ASSUME NEW answer, answer.status \in Nat, NEW end, Truthful(answer, end)
    PROVE  /\ query_dlr(answer) = "delivered" => end = "delivered"
           /\ query_dlr(answer) = "failed" => end = "failed"
<1>1. CASE answer = NoHttp
  BY <1>1 DEF query_dlr
<1>2. CASE answer # NoHttp /\ answer.status >= 400
  BY <1>2 DEF query_dlr
<1>3. CASE answer # NoHttp /\ answer.status < 400
  <2>1. query_dlr(answer) = "error" \/ query_dlr(answer) = _DLR_STATUS_MAP(answer.body)
    BY <1>3 DEF query_dlr
  <2>2. \A token :
           /\ _DLR_STATUS_MAP(token) = "delivered" => token \in DeliveredTokens
           /\ _DLR_STATUS_MAP(token) = "failed" => token \in FailedTokens
    BY DEF _DLR_STATUS_MAP
  <2> QED
    BY <1>3, <2>1, <2>2 DEF Truthful
<1> QED
  BY <1>1, <1>2, <1>3

\* A receipt is recorded in the tick as query_dlr classified it.
LEMMA ReceiptStep ==
    ASSUME PInv, NEW w \in Pollers, NEW id \in Ids, Receipt(w, id)
    PROVE  PInv'
<1> DEFINE p == ticks[w].seen[id].provider_message_id
<1>1. PICK answer \in Receipts :
         /\ Answered(w, id, answer)
         /\ \/ /\ query_dlr(answer) = "delivered"
               /\ Assign(w, id, DeliveredAt(ticks[w].started))
            \/ /\ query_dlr(answer) = "failed"
               /\ Assign(w, id, FailedAt(ticks[w].started))
            \/ /\ query_dlr(answer) \in {"pending", "unknown"}
               /\ Assign(w, id, Clean)
  BY DEF Receipt
<1>2. /\ IsNext(w, id) /\ answer.status \in Nat /\ Truthful(answer, fate[p])
      /\ UNCHANGED <<table, fate, crashes>>
  BY <1>1, PollAssumption DEF Answered, Receipt
<1>3. /\ query_dlr(answer) = "delivered" => fate[p] = "delivered"
      /\ query_dlr(answer) = "failed" => fate[p] = "failed"
  BY <1>2, FinalIsTrue
<1>4. p \in Issued(id) /\ p \in Providers /\ p # NULL
  BY <1>2, NextRow, NullAssumption DEF Issued
<1>5. /\ fate[p] = "delivered" => WasDelivered(id)
      /\ fate[p] = "failed" => FailureDeserved(id, ticks[w].started)
  BY <1>4 DEF WasDelivered, FailureDeserved, Issued
<1> HIDE DEF p
<1>6. PICK d : /\ d \in {DeliveredAt(ticks[w].started), FailedAt(ticks[w].started), Clean}
               /\ Assign(w, id, d) /\ IsDeserved(id, d, ticks[w].started)
  BY <1>1, <1>2, <1>3, <1>5, NextRow DEF IsDeserved
<1> QED
  BY <1>2, <1>6, NextRow, ReceiptType, AssignStep

(***************************************************************************)
(* The commit of a tick.                                                   *)
(***************************************************************************)
\* Row by row it writes the columns assigned, and no others.
LEMMA CommitAllRows ==
    ASSUME PInv, NEW w \in Pollers, CommitAll(w)
    PROVE  /\ IsTable(otps') /\ DOMAIN otps' = DOMAIN otps
           /\ \A id \in DOMAIN otps :
                 \/ otps'[id] = otps[id]
                 \/ \E d \in Dirty :
                       /\ id \in DOMAIN ticks[w].dirty /\ d = ticks[w].dirty[id]
                       /\ otps'[id] = Flush(otps[id], d)
<1>1. /\ IsTable(otps) /\ IsTickOfRows(ticks[w])
      /\ otps' = FlushAll(otps, ticks[w].dirty)
  BY DEF PInv, TypeOK, CommitAll
<1>2. \A id \in DOMAIN ticks[w].dirty : ticks[w].dirty[id] \in Dirty
  BY <1>1 DEF IsTickOfRows
<1> QED
  BY <1>1, <1>2, CommitAllType

\* What a deserved unit of work makes of a row.
LEMMA DeservedRow ==
    ASSUME PInv, NEW w \in Pollers, NEW id \in DOMAIN otps,
           id \in DOMAIN ticks[w].dirty, NEW d \in Dirty, d = ticks[w].dirty[id]
    PROVE  LET new == Flush(otps[id], d)
           IN /\ new.sent_at = otps[id].sent_at
              /\ new.provider_message_id = otps[id].provider_message_id
              /\ ticks[w].started \in Time
              /\ \/ /\ new.status = otps[id].status
                    /\ new.delivered_at = otps[id].delivered_at
                    /\ new.failed_at = otps[id].failed_at
                 \/ /\ WasDelivered(id)
                    /\ new.status = "delivered"
                    /\ new.delivered_at = ticks[w].started
                    /\ new.failed_at = otps[id].failed_at
                 \/ /\ FailureDeserved(id, ticks[w].started)
                    /\ new.status = "failed"
                    /\ new.failed_at = ticks[w].started
                    /\ new.delivered_at = otps[id].delivered_at
<1>1. /\ otps[id] \in Row /\ ticks[w].started \in Time
      /\ IsDeserved(id, d, ticks[w].started)
  BY DEF PInv, TypeOK, IsTable, IsTickOfRows, AssignedIsDeserved
<1>2. ticks[w].started # NULL /\ "delivered" # NULL /\ "failed" # NULL
  BY <1>1, NullAssumption, StatusNames DEF Time
<1>3. \/ d = Clean
      \/ d = DeliveredAt(ticks[w].started) /\ WasDelivered(id)
      \/ d = FailedAt(ticks[w].started) /\ FailureDeserved(id, ticks[w].started)
  BY <1>1 DEF IsDeserved
<1>4. d.sent_at = NULL /\ d.provider_message_id = NULL
  BY <1>1, <1>3, ReceiptType
<1>5. CASE d = Clean
  BY <1>1, <1>4, <1>5, ReceiptType, FlushType DEF Assigned
<1>6. CASE d = DeliveredAt(ticks[w].started) /\ WasDelivered(id)
  <2>1. d.status = "delivered" /\ d.delivered_at = ticks[w].started /\ d.failed_at = NULL
    BY <1>1, <1>6, ReceiptType
  <2> QED
    BY <1>1, <1>2, <1>4, <1>6, <2>1, FlushType DEF Assigned
<1>7. CASE d = FailedAt(ticks[w].started) /\ FailureDeserved(id, ticks[w].started)
  BY <1>1, <1>2, <1>4, <1>7, ReceiptType, FlushType DEF Assigned
<1> QED
  BY <1>3, <1>5, <1>6, <1>7

\* A change of the table, of the outcomes or of the fates that forgets nothing keeps
\* what the ticks know; whether the rows keep theirs is left to show.
LEMMA TableStep ==
    ASSUME PInv, TypeOK', DOMAIN otps \subseteq DOMAIN otps',
           \A id \in Ids : Remembers(id),
           \A id \in DOMAIN otps' : RowIsDispatched(id)',
           \A w \in Pollers : \/ ticks'[w] = ticks[w]
                              \/ ticks'[w] = Idle,
           DeliveredIsTrue', FailedIsDeserved'
    PROVE  PInv'
<1>1. DOMAIN otps \subseteq Ids /\ TypeOK
  BY DEF PInv, TypeOK, IsTable
<1>2. ASSUME NEW w \in Pollers
      PROVE  SeenWasDispatched(w)' /\ AssignedIsDeserved(w)'
  <2>1. CASE ticks'[w] = ticks[w]
    <3>1. SeenWasDispatched(w)'
      BY <1>1, <2>1, PastHolds DEF PInv, SeenWasDispatched
    <3>2. \A id \in DOMAIN otps : \A d, t : IsDeserved(id, d, t) => IsDeserved(id, d, t)'
      BY <1>1, PastHolds DEF IsDeserved, DeliveredAt, FailedAt
    <3>3. \A id \in DOMAIN ticks[w].dirty :
             id \in DOMAIN otps /\ IsDeserved(id, ticks[w].dirty[id], ticks[w].started)
      BY DEF PInv, AssignedIsDeserved, IsDeserved
    <3> QED
      BY <2>1, <3>1, <3>2, <3>3 DEF AssignedIsDeserved
  <2>2. CASE ticks'[w] = Idle
    BY <2>2 DEF Idle, Nothing, SeenWasDispatched, AssignedIsDeserved
  <2> QED
    BY <2>1, <2>2
<1> QED
  BY <1>2 DEF PInv

\* The single commit of a tick, over rows others have written since.
LEMMA CommitAllStep ==
    ASSUME PInv, NEW w \in Pollers, CommitAll(w)
    PROVE  PInv'
<1>1. /\ ticks' = [ticks EXCEPT ![w] = Idle]
      /\ UNCHANGED <<now, dispatched, fate, crashes>> /\ DOMAIN ticks = Pollers
  BY DEF CommitAll, PInv, TypeOK
<1>2. /\ ticks'[w] = Idle /\ DOMAIN ticks' = Pollers
      /\ \A v \in Pollers \ {w} : ticks'[v] = ticks[v]
  BY <1>1
<1>3. IsTickOfRows(Idle)
  BY DEF Idle, Nothing, IsTickOfRows, Time
<1>4. TypeOK'
  BY <1>1, <1>2, <1>3, CommitAllRows DEF PInv, TypeOK
<1>5. \A id \in DOMAIN otps :
         /\ otps'[id].sent_at = otps[id].sent_at
         /\ otps'[id].provider_message_id = otps[id].provider_message_id
         /\ \/ otps'[id].delivered_at = otps[id].delivered_at
            \/ WasDelivered(id)
         /\ \/ otps'[id].failed_at = otps[id].failed_at
            \/ FailureDeserved(id, otps'[id].failed_at)
  BY CommitAllRows, DeservedRow
<1>6. DOMAIN otps' = DOMAIN otps /\ DOMAIN otps \subseteq Ids
  BY CommitAllRows DEF PInv, TypeOK, IsTable
<1>7. \A id \in Ids : Remembers(id)
  BY <1>1 DEF Remembers
<1>8. DeliveredIsTrue'
  BY <1>1, <1>5, <1>6 DEF PInv, DeliveredIsTrue, WasDelivered, Issued
<1>9. FailedIsDeserved'
  BY <1>1, <1>5, <1>6 DEF PInv, FailedIsDeserved, FailureDeserved
<1>10. \A id \in DOMAIN otps' : RowIsDispatched(id)'
  BY <1>1, <1>5, <1>6 DEF PInv, RowIsDispatched, WasSentAt, Issued
<1> QED
  BY <1>1, <1>2, <1>4, <1>6, <1>7, <1>8, <1>9, <1>10, TableStep

(***************************************************************************)
(* The others: dispatch, verify_otp, the carrier and the clock.            *)
(***************************************************************************)
\* An outcome of a send assigns a status with a moment of its own: SENT with
\* sent_at and perhaps an id, or FAILED with failed_at.
LEMMA OutcomeType ==
    ASSUME now \in Nat, NEW ch \in Channels, NEW d \in DispatchOutcomes(ch)
    PROVE  /\ d \in Dirty /\ d.delivered_at = NULL
           /\ \/ /\ d.sent_at = now /\ d.failed_at = NULL
              \/ /\ d.sent_at = NULL /\ d.failed_at = now
                 /\ d.provider_message_id = NULL /\ d.status = "failed"
<1>1. CASE d = RefusedNow
  BY <1>1, StatusNames DEF RefusedNow, Clean, Dirty, TimeOrNull
<1>2. ASSUME NEW p \in Providers \cup {NULL}, d = SentNow(p)
      PROVE  d \in Dirty /\ d.delivered_at = NULL /\ d.sent_at = now /\ d.failed_at = NULL
  BY <1>2, StatusNames DEF SentNow, Clean, Dirty, TimeOrNull
<1> QED
  BY <1>1, <1>2 DEF DispatchOutcomes, WithoutId, FreeProviders, NextId

\* A commit of dispatch: an outcome recorded, over a new row or over whatever the
\* row holds.
Commits(id, old, d) ==
    /\ old \in Row /\ d \in Dirty /\ d.delivered_at = NULL
    /\ \/ d.sent_at = now /\ d.failed_at = NULL
       \/ /\ d.sent_at = NULL /\ d.failed_at = now
          /\ d.provider_message_id = NULL /\ d.status = "failed"
    /\ \/ id \in DOMAIN otps /\ old = otps[id]
       \/ /\ id \notin DOMAIN otps /\ old.provider_message_id = NULL
          /\ old.sent_at = NULL /\ old.delivered_at = NULL /\ old.failed_at = NULL
    /\ Record(id, d)
    /\ IsTable(otps') /\ DOMAIN otps' = DOMAIN otps \cup {id}
    /\ otps'[id] = Flush(old, d)
    /\ \A i \in DOMAIN otps \ {id} : otps'[i] = otps[i]
    /\ UNCHANGED <<now, ticks, fate>> /\ crashes' \in 0..MaxCrashes

\* Both actions of dispatch are such commits.
LEMMA DispatchCommits ==
    ASSUME TypeOK, NEW id \in Ids, DispatchCommit(id) \/ DispatchAgain(id)
    PROVE  \E old, d : Commits(id, old, d)
<1>1. IsTable(otps) /\ now \in Nat /\ crashes \in 0..MaxCrashes /\ MaxCrashes \in Nat
  BY PollAssumption DEF TypeOK
<1>2. CASE DispatchCommit(id)
  <2>1. PICK r \in Recipients, ch \in Channels, code \in Codes :
           \E d \in DispatchOutcomes(ch) :
              /\ otps' = Insert(otps, id,
                                Flush(NewRow(r, ch, code, "pending",
                                             now, now + OTP_TTL_SECONDS), d))
              /\ Record(id, d)
    BY <1>2 DEF DispatchCommit
  <2> DEFINE old == NewRow(r, ch, code, "pending", now, now + OTP_TTL_SECONDS)
  <2>2. PICK d \in DispatchOutcomes(ch) :
           otps' = Insert(otps, id, Flush(old, d)) /\ Record(id, d)
    BY <2>1
  <2>3. now + OTP_TTL_SECONDS \in Nat
    BY <1>1, SettingsAssumption
  <2>4. /\ old \in Row /\ old.provider_message_id = NULL
        /\ old.sent_at = NULL /\ old.delivered_at = NULL /\ old.failed_at = NULL
    BY <1>1, <2>3, StatusNames, NewRowType
  <2> HIDE DEF old
  <2>5. /\ d \in Dirty /\ d.delivered_at = NULL
        /\ \/ d.sent_at = now /\ d.failed_at = NULL
           \/ /\ d.sent_at = NULL /\ d.failed_at = now
              /\ d.provider_message_id = NULL /\ d.status = "failed"
    BY <1>1, OutcomeType
  <2>6. Flush(old, d) \in Row
    BY <2>4, <2>5, FlushType
  <2>7. /\ id \notin DOMAIN otps
        /\ UNCHANGED <<now, ticks, fate>> /\ crashes' \in 0..MaxCrashes
    BY <1>1, <1>2 DEF DispatchCommit, FreshIds
  <2>8. /\ IsTable(otps') /\ DOMAIN otps' = DOMAIN otps \cup {id}
        /\ otps'[id] = Flush(old, d)
        /\ \A i \in DOMAIN otps \ {id} : otps'[i] = otps[i]
    <3> DEFINE row == Flush(old, d)
    <3>1. row \in Row /\ otps' = Insert(otps, id, row)
      BY <2>2, <2>6
    <3> HIDE DEF row
    <3>2. /\ IsTable(Insert(otps, id, row))
          /\ DOMAIN Insert(otps, id, row) = DOMAIN otps \cup {id}
          /\ Insert(otps, id, row)[id] = row
          /\ \A i \in DOMAIN otps \ {id} : Insert(otps, id, row)[i] = otps[i]
      BY ZenonT(60), <1>1, <3>1, InsertType
    <3>3. otps'[id] = row
      BY <3>1, <3>2
    <3> QED
      BY <3>1, <3>2, <3>3 DEF row
  <2> QED
    BY <2>2, <2>4, <2>5, <2>7, <2>8 DEF Commits
<1>3. CASE DispatchAgain(id)
  <2>1. /\ id \in DOMAIN otps
        /\ UNCHANGED <<now, ticks, fate>> /\ crashes' \in 0..MaxCrashes
    BY <1>1, <1>3 DEF DispatchAgain
  <2>2. otps[id] \in Row /\ otps[id].channel \in Channels
    BY <1>1, <2>1 DEF IsTable, Row
  <2>3. PICK d \in DispatchOutcomes(otps[id].channel) :
           otps' = [otps EXCEPT ![id] = Flush(@, d)] /\ Record(id, d)
    BY <1>3 DEF DispatchAgain
  <2>4. /\ d \in Dirty /\ d.delivered_at = NULL
        /\ \/ d.sent_at = now /\ d.failed_at = NULL
           \/ /\ d.sent_at = NULL /\ d.failed_at = now
              /\ d.provider_message_id = NULL /\ d.status = "failed"
    BY <1>1, <2>2, OutcomeType
  <2>5. /\ IsTable(otps') /\ DOMAIN otps' = DOMAIN otps
        /\ otps'[id] = Flush(otps[id], d)
        /\ \A i \in DOMAIN otps \ {id} : otps'[i] = otps[i]
    BY <1>1, <2>1, <2>3, <2>4, CommitType
  <2>6. DOMAIN otps' = DOMAIN otps \cup {id}
    BY <2>1, <2>5
  <2> QED
    BY <2>1, <2>2, <2>3, <2>4, <2>5, <2>6 DEF Commits
<1> QED
  BY <1>2, <1>3

\* The outcome is the last of the row's, and the earlier ones are still there.
LEMMA Recorded ==
    ASSUME TypeOK, NEW id \in Ids, NEW d \in Dirty, Record(id, d)
    PROVE  /\ dispatched' \in [Ids -> Seq(Dirty)]
           /\ \A i \in Ids \ {id} : dispatched'[i] = dispatched[i]
           /\ Len(dispatched[id]) \in Nat
           /\ Len(dispatched'[id]) = Len(dispatched[id]) + 1
           /\ dispatched'[id] # <<>>
           /\ Len(dispatched'[id]) \in DOMAIN dispatched'[id]
           /\ dispatched'[id][Len(dispatched'[id])] = d
           /\ \A i \in DOMAIN dispatched[id] :
                 i \in DOMAIN dispatched'[id] /\ dispatched'[id][i] = dispatched[id][i]
<1>1. /\ dispatched \in [Ids -> Seq(Dirty)] /\ dispatched[id] \in Seq(Dirty)
      /\ dispatched' = [dispatched EXCEPT ![id] = Append(@, d)]
  BY DEF TypeOK, Record
<1>2. dispatched'[id] = Append(dispatched[id], d)
  BY <1>1
<1>3. /\ Append(dispatched[id], d) \in Seq(Dirty)
      /\ Len(Append(dispatched[id], d)) = Len(dispatched[id]) + 1
      /\ \A i \in 1..Len(dispatched[id]) : Append(dispatched[id], d)[i] = dispatched[id][i]
      /\ Append(dispatched[id], d)[Len(dispatched[id]) + 1] = d
  BY <1>1, AppendProperties
<1>4. /\ DOMAIN dispatched[id] = 1..Len(dispatched[id]) /\ Len(dispatched[id]) \in Nat
      /\ DOMAIN dispatched'[id] = 1..(Len(dispatched[id]) + 1)
  BY <1>1, <1>2, <1>3, LenProperties
<1>5. dispatched' \in [Ids -> Seq(Dirty)] /\ \A i \in Ids \ {id} : dispatched'[i] = dispatched[i]
  BY <1>1, <1>2, <1>3
<1>6. dispatched'[id] # <<>>
  <2>1. Len(dispatched'[id]) # 0
    BY <1>2, <1>3, <1>4
  <2>2. Len(<<>>) = 0
    OBVIOUS
  <2> QED
    BY <2>1, <2>2
<1> QED
  BY <1>2, <1>3, <1>4, <1>5, <1>6

\* A commit of dispatch, the first of a row or not, keeps the invariant.
LEMMA DispatchStep ==
    ASSUME PInv, NEW id \in Ids, DispatchCommit(id) \/ DispatchAgain(id)
    PROVE  PInv'
<1>1. TypeOK
  BY DEF PInv
<1>2. PICK old, d : Commits(id, old, d)
  BY <1>1, DispatchCommits
<1>3. /\ old \in Row /\ d \in Dirty /\ Record(id, d)
      /\ otps'[id] = Flush(old, d) /\ IsTable(otps')
      /\ DOMAIN otps' = DOMAIN otps \cup {id}
      /\ \A i \in DOMAIN otps \ {id} : otps'[i] = otps[i]
      /\ UNCHANGED <<now, ticks, fate>> /\ crashes' \in 0..MaxCrashes
  BY <1>2 DEF Commits
<1>4. \A i \in Ids : Remembers(i)
  BY <1>1, <1>3, Recorded DEF Remembers
<1>5. TypeOK'
  BY <1>3, <1>1, Recorded DEF TypeOK
<1>6. PICK n \in DOMAIN dispatched'[id] : dispatched'[id][n] = d
  BY <1>1, <1>3, Recorded
<1>7. DOMAIN otps \subseteq Ids
  BY <1>1 DEF TypeOK, IsTable
<1>8. /\ otps'[id].sent_at = Assigned(d.sent_at, old.sent_at)
      /\ otps'[id].provider_message_id
            = Assigned(d.provider_message_id, old.provider_message_id)
      /\ otps'[id].delivered_at = Assigned(d.delivered_at, old.delivered_at)
      /\ otps'[id].failed_at = Assigned(d.failed_at, old.failed_at)
  BY <1>3, FlushType
<1>9. /\ old.provider_message_id # NULL =>
             old.provider_message_id \in Issued(id)' /\ old.sent_at # NULL
      /\ old.sent_at # NULL => WasSentAt(id, old.sent_at)'
      /\ old.delivered_at # NULL => WasDelivered(id)'
      /\ old.failed_at # NULL => FailureDeserved(id, old.failed_at)'
  <2>1. CASE id \in DOMAIN otps /\ old = otps[id]
    BY <1>1, <1>4, <2>1, PastHolds
    DEF PInv, RowIsDispatched, DeliveredIsTrue, FailedIsDeserved
  <2>2. CASE /\ old.provider_message_id = NULL /\ old.sent_at = NULL
             /\ old.delivered_at = NULL /\ old.failed_at = NULL
    BY <2>2
  <2> QED
    BY <1>2, <2>1, <2>2 DEF Commits
<1>10. /\ d.provider_message_id # NULL =>
              d.provider_message_id \in Issued(id)' /\ d.sent_at # NULL
       /\ d.sent_at # NULL => WasSentAt(id, d.sent_at)'
       /\ d.delivered_at = NULL
       /\ d.failed_at # NULL => FailureDeserved(id, d.failed_at)'
  <2>1. now \in Nat
    BY <1>1, PollAssumption DEF TypeOK
  <2>2. d.provider_message_id # NULL => d.provider_message_id \in Issued(id)'
    BY <1>3, <1>6 DEF Issued, Dirty
  <2>3. d.provider_message_id # NULL => d.sent_at # NULL
    BY <1>2, <2>1, NullAssumption DEF Commits
  <2>4. d.sent_at # NULL => WasSentAt(id, d.sent_at)'
    BY <1>6 DEF WasSentAt
  <2>5. d.failed_at # NULL => FailureDeserved(id, d.failed_at)'
    BY <1>6 DEF FailureDeserved
  <2> QED
    BY <1>2, <2>2, <2>3, <2>4, <2>5 DEF Commits
<1>11. RowIsDispatched(id)'
  BY <1>1, <1>3, <1>8, <1>9, <1>10, Recorded DEF RowIsDispatched, Assigned
<1>12. /\ otps'[id].delivered_at # NULL => WasDelivered(id)'
       /\ otps'[id].failed_at # NULL => FailureDeserved(id, otps[id].failed_at)'
  BY <1>8, <1>9, <1>10 DEF Assigned
<1>13. ASSUME NEW i \in DOMAIN otps \ {id}
       PROVE  /\ RowIsDispatched(i)'
              /\ otps'[i].delivered_at # NULL => WasDelivered(i)'
              /\ otps'[i].failed_at # NULL => FailureDeserved(i, otps[i].failed_at)'
  <2>1. otps'[i] = otps[i] /\ dispatched'[i] = dispatched[i] /\ i \in Ids
    BY <1>1, <1>3, <1>7, Recorded
  <2> QED
    BY <1>1, <1>4, <2>1, PastHolds
    DEF PInv, RowIsDispatched, DeliveredIsTrue, FailedIsDeserved
<1>14. DeliveredIsTrue' /\ FailedIsDeserved'
  BY <1>3, <1>12, <1>13 DEF DeliveredIsTrue, FailedIsDeserved
<1>15. \A i \in DOMAIN otps' : RowIsDispatched(i)'
  BY <1>3, <1>11, <1>13
<1> QED
  BY <1>3, <1>4, <1>5, <1>14, <1>15, TableStep

\* verify_otp leaves the delivery columns of a row alone.
LEMMA VerifyRow ==
    ASSUME PInv, NEW id \in Ids, VerifyCommit(id)
    PROVE  /\ IsTable(otps') /\ DOMAIN otps' = DOMAIN otps
           /\ UNCHANGED <<now, dispatched, ticks, fate, crashes>>
           /\ \A i \in DOMAIN otps :
                 /\ otps'[i].sent_at = otps[i].sent_at
                 /\ otps'[i].provider_message_id = otps[i].provider_message_id
                 /\ otps'[i].delivered_at = otps[i].delivered_at
                 /\ otps'[i].failed_at = otps[i].failed_at
                 /\ otps'[i].channel = otps[i].channel
                 /\ \/ otps'[i].status = otps[i].status
                    \/ otps'[i].status \in {"verified", "expired"}
<1>1. IsTable(otps) /\ id \in DOMAIN otps
  BY DEF PInv, TypeOK, VerifyCommit
<1>2. PICK st \in ServiceStatuses :
         otps' = [otps EXCEPT ![id] = Flush(@, [Clean EXCEPT !.status = st])]
  BY DEF VerifyCommit
<1> DEFINE d == [Clean EXCEPT !.status = st]
<1>3. st \in {"verified", "expired"} /\ st \in Statuses
  BY PollAssumption, StatusNames
<1>4. /\ d \in Dirty /\ d.status = st /\ d.sent_at = NULL
      /\ d.provider_message_id = NULL /\ d.delivered_at = NULL /\ d.failed_at = NULL
  BY <1>3, CleanType DEF Clean, Dirty
<1> HIDE DEF d
<1>5. /\ IsTable(otps') /\ DOMAIN otps' = DOMAIN otps /\ otps[id] \in Row
      /\ otps'[id] = Flush(otps[id], d)
      /\ \A i \in DOMAIN otps \ {id} : otps'[i] = otps[i]
  BY <1>1, <1>2, <1>4, CommitType DEF d
<1>6. /\ otps'[id].sent_at = otps[id].sent_at
      /\ otps'[id].provider_message_id = otps[id].provider_message_id
      /\ otps'[id].delivered_at = otps[id].delivered_at
      /\ otps'[id].failed_at = otps[id].failed_at
      /\ otps'[id].channel = otps[id].channel
      /\ otps'[id].status \in {otps[id].status, st}
  BY <1>4, <1>5, FlushType DEF Assigned
<1> QED
  BY <1>3, <1>5, <1>6 DEF VerifyCommit

\* A commit of verify_otp keeps the invariant.
LEMMA VerifyStep ==
    ASSUME PInv, NEW id \in Ids, VerifyCommit(id)
    PROVE  PInv'
<1>1. TypeOK'
  BY VerifyRow DEF PInv, TypeOK
<1>2. \A i \in Ids : Remembers(i)
  BY VerifyRow DEF Remembers
<1>3. DeliveredIsTrue' /\ FailedIsDeserved'
  BY VerifyRow DEF PInv, DeliveredIsTrue, FailedIsDeserved, WasDelivered, Issued,
                   FailureDeserved
<1>4. \A i \in DOMAIN otps' : RowIsDispatched(i)'
  BY VerifyRow DEF PInv, RowIsDispatched, WasSentAt, Issued
<1> QED
  BY <1>1, <1>2, <1>3, <1>4, VerifyRow, TableStep

\* The carrier decides once, and time passes: a receipt earned stays earned.
LEMMA CarrierStep ==
    ASSUME PInv, (\E p \in Providers : Carrier(p)) \/ Clock \/ UNCHANGED vars
    PROVE  PInv'
<1>1. /\ UNCHANGED <<otps, dispatched, ticks, crashes>>
      /\ now' \in 0..Horizon
      /\ fate' \in [Providers -> {"transit", "delivered", "failed"}]
      /\ \A q \in Providers : fate[q] # "transit" => fate'[q] = fate[q]
  BY PollAssumption DEF Carrier, Clock, vars, table, Decided, PInv, TypeOK
<1>2. TypeOK /\ TypeOK' /\ DOMAIN otps \subseteq Ids
  BY <1>1 DEF PInv, TypeOK, IsTable
<1>3. \A id \in Ids : Remembers(id)
  BY <1>1 DEF Remembers
<1>4. ASSUME NEW id \in DOMAIN otps
      PROVE  /\ RowIsDispatched(id)'
             /\ otps'[id].delivered_at # NULL => WasDelivered(id)'
             /\ otps'[id].failed_at # NULL => FailureDeserved(id, otps[id].failed_at)'
  BY <1>1, <1>2, <1>3, PastHolds
  DEF PInv, RowIsDispatched, DeliveredIsTrue, FailedIsDeserved
<1>5. DeliveredIsTrue' /\ FailedIsDeserved'
  BY <1>1, <1>4 DEF DeliveredIsTrue, FailedIsDeserved
<1> QED
  BY <1>1, <1>2, <1>3, <1>4, <1>5, TableStep

\* An empty table and idle pollers satisfy the invariant.
LEMMA InitHolds == Init => PInv
<1> SUFFICES ASSUME Init PROVE PInv
  OBVIOUS
<1>1. DOMAIN otps = {} /\ IsTable(otps)
  BY EmptyType DEF Init
<1>2. \A w \in Pollers : ticks[w] = Idle
  BY DEF Init
<1>3. IsTickOfRows(Idle) /\ DOMAIN Idle.seen = {} /\ DOMAIN Idle.dirty = {}
  BY DEF Idle, Nothing, IsTickOfRows, Time
<1>4. dispatched \in [Ids -> Seq(Dirty)]
  BY EmptySeq DEF Init
<1>5. TypeOK
  BY <1>1, <1>2, <1>3, <1>4, PollAssumption DEF Init, TypeOK
<1> QED
  BY <1>1, <1>2, <1>3, <1>5
  DEF PInv, SeenWasDispatched, AssignedIsDeserved, DeliveredIsTrue, FailedIsDeserved

\* Every step of the poll or around it keeps the invariant.
LEMMA NextKeeps == PInv /\ [Next]_vars => PInv'
<1> SUFFICES ASSUME PInv, [Next]_vars PROVE PInv'
  OBVIOUS
<1>1. ASSUME NEW id \in Ids, DispatchCommit(id) \/ DispatchAgain(id) \/ VerifyCommit(id)
      PROVE  PInv'
  BY <1>1, DispatchStep, VerifyStep
<1>2. CASE (\E p \in Providers : Carrier(p)) \/ Clock \/ UNCHANGED vars
  BY <1>2, CarrierStep
<1>3. ASSUME NEW w \in Pollers, Poll(w) \/ Crash(w)
      PROVE  PInv'
  BY <1>3, BareSteps, SelectStep, CommitAllStep, SweepStep, ReceiptStep DEF Poll
<1> QED
  BY <1>1, <1>2, <1>3 DEF Next

(***************************************************************************)
(* The theorems.                                                           *)
(***************************************************************************)
THEOREM Invariance == Spec => []PInv
<1>1. Init => PInv
  BY InitHolds
<1>2. PInv /\ [Next]_vars => PInv'
  BY NextKeeps
<1> QED
  BY <1>1, <1>2, PTL DEF Spec

\* Every variable keeps its type.
THEOREM TypeCorrect == Spec => []TypeOK
<1>1. PInv => TypeOK
  BY DEF PInv
<1> QED
  BY <1>1, Invariance, PTL

\* A delivery receipt on a row is true of a message of that row, however many ticks
\* overlap, however often it was dispatched and whatever the endpoint answers.
THEOREM ReceiptsAreTrue == Spec => []DeliveredIsTrue
<1>1. PInv => DeliveredIsTrue
  BY DEF PInv
<1> QED
  BY <1>1, Invariance, PTL

\* A failure receipt is earned by a refusal, by the carrier or by the timeout, however
\* late the tick that judged it commits.
THEOREM FailuresAreDeserved == Spec => []FailedIsDeserved
<1>1. PInv => FailedIsDeserved
  BY DEF PInv
<1> QED
  BY <1>1, Invariance, PTL

(***************************************************************************)
(* One poller.  A row dispatch committed once gets one receipt at most,    *)
(* because what a tick has seen or assigned had none, and nobody else      *)
(* writes receipts meanwhile.                                              *)
(***************************************************************************)
SentOnce(id) == Len(dispatched[id]) <= 1

NoReceiptYet(id) == otps[id].delivered_at = NULL /\ otps[id].failed_at = NULL

AtMostOne(id) ==
    SentOnce(id) =>
        /\ otps[id].delivered_at = NULL \/ otps[id].failed_at = NULL
        /\ otps[id].status = "sent" => NoReceiptYet(id)

Untouched(w) ==
    \A id \in DOMAIN ticks[w].seen \cup DOMAIN ticks[w].dirty :
        SentOnce(id) => NoReceiptYet(id)

QInv == /\ PInv
        /\ IsFiniteSet(DOMAIN otps)
        /\ \A id \in DOMAIN otps : AtMostOne(id)
        /\ \A w \in Pollers : Untouched(w)

\* Steps that leave the table alone and add to a tick rows without a receipt.
LEMMA SerialTickStep ==
    ASSUME QInv, PInv', NEW w \in Pollers, UNCHANGED <<otps, dispatched>>,
           \A v \in Pollers \ {w} : ticks'[v] = ticks[v],
           \A id \in DOMAIN ticks'[w].seen \cup DOMAIN ticks'[w].dirty :
              \/ id \in DOMAIN ticks[w].seen \cup DOMAIN ticks[w].dirty
              \/ id \in InFlightSms
    PROVE  QInv'
<1>1. \A id \in InFlightSms : SentOnce(id) => NoReceiptYet(id)
  BY DEF QInv, AtMostOne, InFlightSms
<1>2. Untouched(w)'
  BY <1>1 DEF QInv, Untouched, NoReceiptYet, SentOnce
<1>3. \A v \in Pollers \ {w} : Untouched(v)'
  BY DEF QInv, Untouched, NoReceiptYet, SentOnce
<1> QED
  BY <1>2, <1>3 DEF QInv, AtMostOne, NoReceiptYet, SentOnce

\* The steps of the only poller keep the serial invariant.
LEMMA SerialTickSteps ==
    ASSUME QInv, PInv', NEW w \in Pollers,
           \/ Start(w) \/ SelectNone(w) \/ Select(w) \/ Crash(w)
           \/ \E id \in Ids : Sweep(w, id) \/ Receipt(w, id) \/ Garbled(w, id)
    PROVE  QInv'
<1>1. DOMAIN ticks = Pollers /\ UNCHANGED <<otps, dispatched>>
  BY DEF table, QInv, PInv, TypeOK, Start, SelectNone, Select, Crash, Sweep, Receipt, Garbled
<1>2. Idle.seen = Nothing /\ Idle.dirty = Nothing /\ DOMAIN Nothing = {}
  BY DEF Idle, Nothing
<1>3. CASE Start(w) \/ SelectNone(w) \/ Crash(w) \/ \E id \in Ids : Garbled(w, id)
  <2>1. /\ \A v \in Pollers \ {w} : ticks'[v] = ticks[v]
        /\ ticks'[w].seen = Nothing /\ ticks'[w].dirty = Nothing
    BY <1>1, <1>2, <1>3 DEF Start, SelectNone, Crash, Garbled, Idle
  <2> QED
    BY <1>1, <1>2, <2>1, SerialTickStep
<1>4. CASE Select(w)
  <2>1. PICK batch \in SUBSET InFlightSms :
           /\ \A v \in Pollers \ {w} : ticks'[v] = ticks[v]
           /\ DOMAIN ticks'[w].seen = batch
           /\ ticks'[w].dirty = ticks[w].dirty
    <3>1. PICK batch \in SUBSET InFlightSms :
             ticks' = [ticks EXCEPT
                         ![w].pc = "querying",
                         ![w].seen = [id \in batch |->
                            [sent_at             |-> otps[id].sent_at,
                             provider_message_id |-> otps[id].provider_message_id]]]
      BY <1>4 DEF Select
    <3> DEFINE seen == [id \in batch |->
                          [sent_at             |-> otps[id].sent_at,
                           provider_message_id |-> otps[id].provider_message_id]]
    <3>2. /\ DOMAIN seen = batch
          /\ ticks' = [ticks EXCEPT ![w] = [@ EXCEPT !.pc = "querying", !.seen = seen]]
      BY <3>1
    <3>3. IsTickOfRows(ticks[w])
      BY DEF QInv, PInv, TypeOK
    <3> HIDE DEF seen
    <3>4. /\ \A v \in Pollers \ {w} : ticks'[v] = ticks[v]
          /\ ticks'[w].seen = seen /\ ticks'[w].dirty = ticks[w].dirty
      BY <1>1, <3>2
    <3> QED
      BY <3>2, <3>4
  <2> QED
    BY <1>1, <2>1, SerialTickStep
<1>5. ASSUME NEW id \in Ids, Sweep(w, id) \/ Receipt(w, id)
      PROVE  QInv'
  <2>1. PICK d : Assign(w, id, d) /\ IsNext(w, id)
    BY <1>5 DEF Sweep, Receipt, Answered
  <2> DEFINE seen == [i \in DOMAIN ticks[w].seen \ {id} |-> ticks[w].seen[i]]
             dirty == [i \in DOMAIN ticks[w].dirty \cup {id} |->
                          IF i = id THEN d ELSE ticks[w].dirty[i]]
  <2>2. /\ ticks' = [ticks EXCEPT ![w] = [@ EXCEPT !.seen = seen, !.dirty = dirty]]
        /\ DOMAIN seen = DOMAIN ticks[w].seen \ {id}
        /\ DOMAIN dirty = DOMAIN ticks[w].dirty \cup {id}
    BY <2>1 DEF Assign
  <2> HIDE DEF seen, dirty
  <2>3. /\ \A v \in Pollers \ {w} : ticks'[v] = ticks[v]
        /\ ticks'[w].seen = seen /\ ticks'[w].dirty = dirty
        /\ id \in DOMAIN ticks[w].seen
    BY <1>1, <2>1, <2>2 DEF IsNext
  <2> QED
    BY <1>1, <2>2, <2>3, SerialTickStep
<1> QED
  BY <1>3, <1>4, <1>5

\* The commit of the only tick: a row it writes a receipt to had none.
LEMMA SerialCommitStep ==
    ASSUME \A v, w \in Pollers : v = w,
           QInv, PInv', NEW w \in Pollers, CommitAll(w)
    PROVE  QInv'
<1>1. ticks'[w] = Idle /\ DOMAIN Idle.seen = {} /\ DOMAIN Idle.dirty = {}
  BY DEF CommitAll, QInv, PInv, TypeOK, Idle, Nothing
<1>2. \A v \in Pollers : Untouched(v)'
  BY <1>1 DEF Untouched
<1>3. DOMAIN otps' = DOMAIN otps /\ UNCHANGED dispatched
  BY CommitAllRows DEF QInv, CommitAll
<1>4. ASSUME NEW id \in DOMAIN otps, SentOnce(id)
      PROVE  /\ otps'[id].delivered_at = NULL \/ otps'[id].failed_at = NULL
             /\ otps'[id].status = "sent" =>
                   otps'[id].delivered_at = NULL /\ otps'[id].failed_at = NULL
  <2>1. AtMostOne(id) /\ (id \in DOMAIN ticks[w].dirty => NoReceiptYet(id))
    BY <1>4 DEF QInv, Untouched
  <2>2. \/ otps'[id] = otps[id]
        \/ /\ id \in DOMAIN ticks[w].dirty
           /\ \/ /\ otps'[id].status = otps[id].status
                 /\ otps'[id].delivered_at = otps[id].delivered_at
                 /\ otps'[id].failed_at = otps[id].failed_at
              \/ /\ otps'[id].status = "delivered"
                 /\ otps'[id].failed_at = otps[id].failed_at
              \/ /\ otps'[id].status = "failed"
                 /\ otps'[id].delivered_at = otps[id].delivered_at
    BY CommitAllRows, DeservedRow DEF QInv
  <2> QED
    BY <1>4, <2>1, <2>2 DEF AtMostOne, NoReceiptYet
<1>5. \A id \in DOMAIN otps : AtMostOne(id)'
  BY <1>3, <1>4 DEF AtMostOne, NoReceiptYet, SentOnce
<1> QED
  BY <1>2, <1>3, <1>5 DEF QInv

\* Dispatch is done with one receipt at most when it commits a row for the first
\* time, and with a row that counts no more when it commits one again.
LEMMA SerialDispatchStep ==
    ASSUME QInv, PInv', NEW id \in Ids, DispatchCommit(id) \/ DispatchAgain(id)
    PROVE  QInv'
<1>1. TypeOK
  BY DEF QInv, PInv
<1>2. PICK old, d : Commits(id, old, d)
  BY <1>1, DispatchCommits
<1>3. /\ DOMAIN otps' = DOMAIN otps \cup {id} /\ UNCHANGED ticks
      /\ \A i \in DOMAIN otps \ {id} : otps'[i] = otps[i] /\ dispatched'[i] = dispatched[i]
  BY <1>1, <1>2, Recorded DEF Commits, TypeOK, IsTable
<1>4. id \in DOMAIN otps => ~SentOnce(id)'
  <2>1. SUFFICES ASSUME id \in DOMAIN otps PROVE Len(dispatched'[id]) > 1
    BY DEF SentOnce
  <2>2. dispatched[id] # <<>> /\ dispatched[id] \in Seq(Dirty)
    BY <2>1, <1>1 DEF QInv, PInv, RowIsDispatched, TypeOK
  <2>3. Len(dispatched[id]) \in Nat /\ Len(dispatched[id]) # 0
    BY <2>2, EmptySeq, LenProperties
  <2> QED
    BY <1>1, <1>2, <2>3, Recorded DEF Commits
<1>5. AtMostOne(id)'
  <2>1. CASE id \in DOMAIN otps
    BY <1>4, <2>1 DEF AtMostOne
  <2>2. CASE id \notin DOMAIN otps
    <3>1. /\ old \in Row /\ d \in Dirty /\ otps'[id] = Flush(old, d)
          /\ old.delivered_at = NULL /\ old.failed_at = NULL /\ d.delivered_at = NULL
          /\ d.failed_at = NULL \/ d.status = "failed"
      BY <1>2, <2>2 DEF Commits
    <3>2. /\ otps'[id].delivered_at = NULL
          /\ otps'[id].failed_at = NULL \/ otps'[id].status = "failed"
      BY <3>1, FlushType, NullAssumption, StatusNames DEF Assigned
    <3> QED
      BY <3>2 DEF AtMostOne, NoReceiptYet
  <2> QED
    BY <2>1, <2>2
<1>6. \A i \in DOMAIN otps' : AtMostOne(i)'
  BY <1>3, <1>5 DEF QInv, AtMostOne, NoReceiptYet, SentOnce
<1>7. ASSUME NEW w \in Pollers
      PROVE  Untouched(w)'
  <2>1. \A i \in DOMAIN ticks[w].seen \cup DOMAIN ticks[w].dirty :
           i \in DOMAIN otps /\ (SentOnce(i) => NoReceiptYet(i))
    BY DEF QInv, PInv, SeenWasDispatched, AssignedIsDeserved, IsDeserved, Untouched
  <2> QED
    BY <1>3, <1>4, <2>1 DEF Untouched, NoReceiptYet, SentOnce
<1>8. IsFiniteSet(DOMAIN otps')
  BY <1>3, FS_AddElement DEF QInv
<1> QED
  BY <1>6, <1>7, <1>8 DEF QInv

\* verify_otp, the carrier and the clock write no receipt and revive no row to SENT.
LEMMA SerialOtherSteps ==
    ASSUME QInv, PInv',
           \/ \E id \in Ids : VerifyCommit(id)
           \/ \E p \in Providers : Carrier(p)
           \/ Clock \/ UNCHANGED vars
    PROVE  QInv'
<1>1. CASE (\E p \in Providers : Carrier(p)) \/ Clock \/ UNCHANGED vars
  <2>1. UNCHANGED <<otps, dispatched, ticks>>
    BY <1>1 DEF Carrier, Clock, vars, table
  <2> QED
    BY <2>1 DEF QInv, AtMostOne, Untouched, NoReceiptYet, SentOnce
<1>2. ASSUME NEW id \in Ids, VerifyCommit(id)
      PROVE  QInv'
  <2>1. PInv
    BY DEF QInv
  <2>2. \A i \in DOMAIN otps : AtMostOne(i)'
    BY <1>2, <2>1, VerifyRow DEF QInv, AtMostOne, NoReceiptYet, SentOnce
  <2>3. ASSUME NEW w \in Pollers
        PROVE  Untouched(w)'
    <3>1. \A i \in DOMAIN ticks[w].seen \cup DOMAIN ticks[w].dirty :
             i \in DOMAIN otps /\ (SentOnce(i) => NoReceiptYet(i))
      BY DEF QInv, PInv, SeenWasDispatched, AssignedIsDeserved, IsDeserved, Untouched
    <3> QED
      BY <1>2, <2>1, <3>1, VerifyRow DEF Untouched, NoReceiptYet, SentOnce
  <2> QED
    BY <1>2, <2>1, <2>2, <2>3, VerifyRow DEF QInv
<1> QED
  BY <1>1, <1>2

\* The serial invariant holds at first.
LEMMA SerialInit == Init => QInv
<1> SUFFICES ASSUME Init PROVE QInv
  OBVIOUS
<1>1. PInv /\ DOMAIN otps = {}
  BY InitHolds, EmptyType DEF Init
<1>2. \A w \in Pollers : DOMAIN ticks[w].seen = {} /\ DOMAIN ticks[w].dirty = {}
  BY DEF Init, Idle, Nothing
<1> QED
  BY <1>1, <1>2, FS_EmptySet DEF QInv, Untouched

\* With one poller every step keeps the serial invariant.
LEMMA SerialNextKeeps ==
    ASSUME \A v, w \in Pollers : v = w
    PROVE  QInv /\ [Next]_vars => QInv'
<1> SUFFICES ASSUME QInv, [Next]_vars PROVE QInv'
  OBVIOUS
<1>1. PInv'
  BY NextKeeps DEF QInv
<1>2. ASSUME NEW w \in Pollers, Poll(w) \/ Crash(w)
      PROVE  QInv'
  BY <1>1, <1>2, SerialTickSteps, SerialCommitStep DEF Poll
<1>3. ASSUME NEW id \in Ids, DispatchCommit(id) \/ DispatchAgain(id)
      PROVE  QInv'
  BY <1>1, <1>3, SerialDispatchStep
<1>4. CASE \/ \E id \in Ids : VerifyCommit(id)
           \/ \E p \in Providers : Carrier(p)
           \/ Clock \/ UNCHANGED vars
  BY <1>1, <1>4, SerialOtherSteps
<1> QED
  BY <1>2, <1>3, <1>4 DEF Next

\* Only a row dispatch committed again is counted twice.
LEMMA ReceiptsNearlyAddUp ==
    ASSUME QInv, NEW ch \in Channels
    PROVE  Cardinality(AwaitingReceipt(otps, ch)) - delivery_metrics(otps, ch).in_flight
              \in 0..Cardinality(Redispatched(ch))
<1> DEFINE T == Aggregated(otps, ch)
           D == Delivered(otps, ch)
           F == Failed(otps, ch)
           A == AwaitingReceipt(otps, ch)
           R == Redispatched(ch)
<1>1. /\ T \subseteq DOMAIN otps /\ D \subseteq T /\ F \subseteq T /\ A \subseteq T
      /\ T = (D \cup F) \cup A /\ R \subseteq T
  BY DEF Aggregated, Delivered, Failed, AwaitingReceipt, Redispatched
<1>2. (D \cup F) \cap A = {}
  BY DEF Delivered, Failed, AwaitingReceipt
<1>3. D \cap F \subseteq R
  <2>1. ASSUME NEW id \in D \cap F
        PROVE  id \in T /\ ~SentOnce(id) /\ Len(dispatched[id]) \in Nat
    <3>1. id \in T /\ id \in DOMAIN otps /\ id \in Ids
      BY <1>1 DEF QInv, PInv, TypeOK, IsTable
    <3>2. ~SentOnce(id)
      BY <3>1 DEF QInv, AtMostOne, Delivered, Failed
    <3>3. dispatched[id] \in Seq(Dirty)
      BY <3>1 DEF QInv, PInv, TypeOK
    <3> QED
      BY <3>1, <3>2, <3>3, LenProperties
  <2> QED
    BY <2>1 DEF Redispatched, SentOnce
<1>4. delivery_metrics(otps, ch).in_flight
         = Cardinality(T) - (Cardinality(D) + Cardinality(F))
  BY DEF delivery_metrics
<1> HIDE DEF T, D, F, A, R
<1>5. IsFiniteSet(DOMAIN otps)
  BY DEF QInv
<1>6. IsFiniteSet(T)
  BY <1>1, <1>5, FS_Subset
<1>7. /\ IsFiniteSet(D) /\ IsFiniteSet(F) /\ IsFiniteSet(A) /\ IsFiniteSet(R)
  BY <1>1, <1>6, FS_Subset
<1>8. IsFiniteSet(D \cup F)
      /\ Cardinality(D \cup F) = Cardinality(D) + Cardinality(F) - Cardinality(D \cap F)
  BY <1>7, FS_Union
<1>9. Cardinality(T) = Cardinality(D \cup F) + Cardinality(A)
                          - Cardinality((D \cup F) \cap A)
  BY <1>1, <1>7, <1>8, FS_Union
<1>10. Cardinality((D \cup F) \cap A) = 0
  BY <1>2, FS_EmptySet
<1>11. IsFiniteSet(D \cap F) /\ Cardinality(D \cap F) <= Cardinality(R)
  BY <1>3, <1>7, FS_Subset
<1>12. /\ Cardinality(D) \in Nat /\ Cardinality(F) \in Nat /\ Cardinality(A) \in Nat
       /\ Cardinality(D \cap F) \in Nat /\ Cardinality(R) \in Nat
  BY <1>7, <1>11, FS_CardinalityType
<1>13. Cardinality(A) - (Cardinality(T) - (Cardinality(D) + Cardinality(F)))
          \in 0..Cardinality(R)
  BY <1>8, <1>9, <1>10, <1>11, <1>12
<1> QED
  BY <1>4, <1>13 DEF A, R

\* The dashboard is off by the rows dispatch committed again and no others, when ticks
\* do not overlap.
THEOREM DashboardNearlyAddsUpWhenSerial ==
    (\A v, w \in Pollers : v = w) => (Spec => []MetricsNearlyAddUp)
<1> SUFFICES ASSUME \A v, w \in Pollers : v = w PROVE Spec => []MetricsNearlyAddUp
  OBVIOUS
<1>1. Init => QInv
  BY SerialInit
<1>2. QInv /\ [Next]_vars => QInv'
  BY SerialNextKeeps
<1>3. QInv => MetricsNearlyAddUp
  BY ReceiptsNearlyAddUp DEF MetricsNearlyAddUp
<1> QED
  BY <1>1, <1>2, <1>3, PTL DEF Spec

\* "delivered_at / failed_at are write-once": so they are on the rows dispatch committed
\* once, when ticks do not overlap.
THEOREM WriteOnceWhenSerial ==
    (\A v, w \in Pollers : v = w) => (Spec => WriteOnceUnlessRedispatched)
<1> SUFFICES ASSUME \A v, w \in Pollers : v = w PROVE Spec => WriteOnceUnlessRedispatched
  OBVIOUS
<1> DEFINE Kept == \A id \in DOMAIN otps : Len(dispatched'[id]) = 1 => KeepsReceipts(id)
<1>1. Init => QInv
  BY SerialInit
<1>2. QInv /\ [Next]_vars => QInv'
  BY SerialNextKeeps
<1>3. ASSUME QInv, [Next]_vars
      PROVE  Kept
  <2>1. PInv /\ TypeOK /\ DOMAIN otps \subseteq Ids
    BY <1>3 DEF QInv, PInv, TypeOK, IsTable
  <2>2. CASE \E w \in Pollers : CommitAll(w)
    <3>1. PICK w \in Pollers : CommitAll(w)
      BY <2>2
    <3>2. UNCHANGED dispatched /\ \A id \in DOMAIN otps :
             otps'[id] = otps[id] \/ id \in DOMAIN ticks[w].dirty
      BY <2>1, <3>1, CommitAllRows DEF CommitAll
    <3>3. \A id \in DOMAIN otps : Len(dispatched'[id]) = 1 => SentOnce(id)
      BY <3>2 DEF SentOnce
    <3> QED
      BY <1>3, <3>2, <3>3 DEF QInv, Untouched, NoReceiptYet, KeepsReceipts
  <2>3. CASE \E id \in Ids : VerifyCommit(id)
    BY <2>1, <2>3, VerifyRow DEF KeepsReceipts
  <2>4. ASSUME NEW id \in Ids, DispatchCommit(id) \/ DispatchAgain(id)
        PROVE  Kept
    <3>1. PICK old, d : Commits(id, old, d)
      BY <2>1, <2>4, DispatchCommits
    <3>2. id \in DOMAIN otps => Len(dispatched'[id]) # 1
      <4>1. Len(dispatched'[id]) = Len(dispatched[id]) + 1 /\ Len(dispatched[id]) \in Nat
        BY <2>1, <3>1, Recorded DEF Commits
      <4>2. SUFFICES ASSUME id \in DOMAIN otps PROVE Len(dispatched[id]) # 0
        BY <4>1
      <4>3. dispatched[id] # <<>> /\ dispatched[id] \in Seq(Dirty)
        BY <2>1, <4>2 DEF PInv, RowIsDispatched, TypeOK
      <4> QED
        BY <4>3, EmptySeq
    <3>3. \A i \in DOMAIN otps \ {id} : otps'[i] = otps[i]
      BY <3>1 DEF Commits
    <3> QED
      BY <3>2, <3>3 DEF KeepsReceipts
  <2>5. CASE UNCHANGED otps
    BY <2>5 DEF KeepsReceipts
  <2> QED
    BY <1>3, <2>2, <2>3, <2>4, <2>5
    DEF Next, Poll, Start, SelectNone, Select, Sweep, Receipt, Garbled, Crash,
        Carrier, Clock, vars, table
<1> QED
  BY <1>1, <1>2, <1>3, PTL DEF Spec, WriteOnceUnlessRedispatched

(***************************************************************************)
(* What the proofs about the whole platform need of the poll: what a tick  *)
(* may come to see of the rows, to assign and to write in one step.        *)
(***************************************************************************)
PollColumns(d, t) ==
    /\ d.used_at = NULL /\ d.attempt_count = NULL
    /\ d.sent_at = NULL /\ d.provider_message_id = NULL
    /\ d.status \in {NULL, "delivered", "failed"}
    /\ d.failed_at = IF d.status = "failed" THEN t ELSE NULL

\* It takes its clock when it starts.
StartsOnly(old, new) == new.started \in {old.started, now, 0}

\* It copies the provider's id of a row that bears one.
SeesOnly(old, new) ==
    \A id \in DOMAIN new.seen :
        \/ id \in DOMAIN old.seen /\ new.seen[id] = old.seen[id]
        \/ /\ id \in DOMAIN otps /\ otps[id].provider_message_id # NULL
           /\ new.seen[id].provider_message_id = otps[id].provider_message_id

\* It assigns delivered_at for a message the carrier delivered, and failed_at with
\* FAILED: its own clock.
AssignsOnly(old, new) ==
    \A id \in DOMAIN new.dirty :
        \/ /\ id \in DOMAIN old.dirty /\ new.dirty[id] = old.dirty[id]
           /\ new.started = old.started
        \/ /\ id \in DOMAIN old.seen /\ PollColumns(new.dirty[id], new.started)
           /\ new.dirty[id].delivered_at # NULL =>
                 fate[old.seen[id].provider_message_id] = "delivered"

\* It commits what it had assigned.
WritesOnly(tick) ==
    /\ DOMAIN otps' = DOMAIN otps
    /\ \A id \in DOMAIN otps :
          \/ otps'[id] = otps[id]
          \/ /\ id \in DOMAIN tick.dirty
             /\ otps'[id] = Flush(otps[id], tick.dirty[id])

\* The columns of a receipt.
LEMMA ReceiptColumns ==
    ASSUME NEW t
    PROVE  /\ PollColumns(DeliveredAt(t), t) /\ PollColumns(FailedAt(t), t)
           /\ PollColumns(Clean, t)
           /\ FailedAt(t).delivered_at = NULL /\ Clean.delivered_at = NULL
  BY StatusNames DEF DeliveredAt, FailedAt, Clean, PollColumns

\* A tick that starts or ends.
LEMMA BareTick ==
    ASSUME TypeOK, NEW w \in Pollers, NEW tick, ticks' = [ticks EXCEPT ![w] = tick],
           tick.pc \in {"idle", "started", "querying"}, tick.started \in Time,
           tick.seen = Nothing, tick.dirty = Nothing, tick.started \in {now, 0},
           IsTable(otps'), UNCHANGED <<now, dispatched, fate>>, crashes' \in 0..MaxCrashes
    PROVE  /\ TypeOK' /\ \A v \in Pollers \ {w} : ticks'[v] = ticks[v]
           /\ SeesOnly(ticks[w], ticks'[w]) /\ AssignsOnly(ticks[w], ticks'[w])
           /\ StartsOnly(ticks[w], ticks'[w])
<1>1. DOMAIN Nothing = {}
  BY DEF Nothing
<1>2. /\ DOMAIN ticks' = Pollers /\ ticks'[w] = tick
      /\ \A v \in Pollers \ {w} : ticks'[v] = ticks[v]
  BY DEF TypeOK
<1>3. Nothing \in [DOMAIN Nothing -> Copy] /\ Nothing \in [DOMAIN Nothing -> Dirty]
  BY DEF Nothing
<1>4. IsTickOfRows(ticks'[w])
  BY <1>1, <1>2, <1>3 DEF IsTickOfRows
<1>5. TypeOK'
  BY <1>2, <1>4 DEF TypeOK
<1>6. SeesOnly(ticks[w], ticks'[w]) /\ AssignsOnly(ticks[w], ticks'[w])
      /\ StartsOnly(ticks[w], ticks'[w])
  BY <1>1, <1>2 DEF SeesOnly, AssignsOnly, StartsOnly
<1> QED
  BY <1>2, <1>5, <1>6

\* The batch.
LEMMA SelectsOnly ==
    ASSUME TypeOK, NEW w \in Pollers, Select(w),
           \A id \in DOMAIN otps :
              otps[id].provider_message_id # NULL => otps[id].sent_at # NULL
    PROVE  /\ TypeOK' /\ \A v \in Pollers \ {w} : ticks'[v] = ticks[v]
           /\ SeesOnly(ticks[w], ticks'[w]) /\ AssignsOnly(ticks[w], ticks'[w])
           /\ StartsOnly(ticks[w], ticks'[w])
<1>1. PICK batch \in SUBSET InFlightSms :
         ticks' = [ticks EXCEPT
                     ![w].pc = "querying",
                     ![w].seen = [id \in batch |->
                        [sent_at             |-> otps[id].sent_at,
                         provider_message_id |-> otps[id].provider_message_id]]]
  BY DEF Select
<1> DEFINE seen == [id \in batch |->
                      [sent_at             |-> otps[id].sent_at,
                       provider_message_id |-> otps[id].provider_message_id]]
<1>2. IsTable(otps) /\ DOMAIN ticks = Pollers /\ IsTickOfRows(ticks[w])
  BY DEF TypeOK
<1>3. \A id \in batch : /\ id \in DOMAIN otps /\ id \in Ids /\ otps[id] \in Row
                        /\ otps[id].sent_at # NULL
                        /\ otps[id].provider_message_id # NULL
  BY <1>2 DEF InFlightSms, IsTable
<1>4. \A id \in batch : /\ otps[id].sent_at \in Time
                        /\ otps[id].provider_message_id \in Providers
  BY <1>3 DEF Row, TimeOrNull, Time
<1>5. DOMAIN seen = batch /\ batch \subseteq Ids /\ seen \in [DOMAIN seen -> Copy]
  BY <1>3, <1>4 DEF Copy
<1>6. \A id \in DOMAIN seen :
         seen[id].provider_message_id = otps[id].provider_message_id
  OBVIOUS
<1>7. ticks' = [ticks EXCEPT ![w] = [ticks[w] EXCEPT !.pc = "querying", !.seen = seen]]
  BY <1>1, <1>2
<1> HIDE DEF seen
<1>8. DOMAIN ticks' = Pollers /\ \A v \in Pollers \ {w} : ticks'[v] = ticks[v]
  BY <1>2, <1>7
<1>9. /\ ticks'[w].pc = "querying" /\ ticks'[w].started = ticks[w].started
      /\ ticks'[w].seen = seen /\ ticks'[w].dirty = ticks[w].dirty
  BY <1>2, <1>7
<1>10. IsTickOfRows(ticks'[w])
  BY <1>2, <1>5, <1>9 DEF IsTickOfRows
<1>11. TypeOK'
  BY <1>8, <1>10 DEF Select, TypeOK, table
<1>12. SeesOnly(ticks[w], ticks'[w]) /\ AssignsOnly(ticks[w], ticks'[w])
       /\ StartsOnly(ticks[w], ticks'[w])
  BY <1>3, <1>5, <1>6, <1>9 DEF SeesOnly, AssignsOnly, StartsOnly
<1> QED
  BY <1>8, <1>11, <1>12

\* One row of the batch is done with.
LEMMA AssignsRow ==
    ASSUME TypeOK, NEW w \in Pollers, NEW id \in Ids, NEW d \in Dirty,
           Assign(w, id, d), id \in DOMAIN ticks[w].seen,
           PollColumns(d, ticks[w].started),
           d.delivered_at # NULL =>
              fate[ticks[w].seen[id].provider_message_id] = "delivered",
           UNCHANGED <<table, fate, crashes>>
    PROVE  /\ TypeOK' /\ \A v \in Pollers \ {w} : ticks'[v] = ticks[v]
           /\ SeesOnly(ticks[w], ticks'[w]) /\ AssignsOnly(ticks[w], ticks'[w])
           /\ StartsOnly(ticks[w], ticks'[w])
<1> DEFINE seen == [i \in DOMAIN ticks[w].seen \ {id} |-> ticks[w].seen[i]]
           dirty == [i \in DOMAIN ticks[w].dirty \cup {id} |->
                        IF i = id THEN d ELSE ticks[w].dirty[i]]
<1>1. DOMAIN ticks = Pollers /\ IsTickOfRows(ticks[w])
  BY DEF TypeOK
<1>2. ticks' = [ticks EXCEPT ![w] = [ticks[w] EXCEPT !.seen = seen, !.dirty = dirty]]
  BY <1>1 DEF Assign
<1>3. /\ DOMAIN seen = DOMAIN ticks[w].seen \ {id}
      /\ \A i \in DOMAIN seen : seen[i] = ticks[w].seen[i]
      /\ DOMAIN seen \subseteq Ids /\ seen \in [DOMAIN seen -> Copy]
  BY <1>1 DEF IsTickOfRows
<1>4. /\ DOMAIN dirty = DOMAIN ticks[w].dirty \cup {id}
      /\ \A i \in DOMAIN dirty : dirty[i] = IF i = id THEN d ELSE ticks[w].dirty[i]
      /\ DOMAIN dirty \subseteq Ids /\ dirty \in [DOMAIN dirty -> Dirty]
  BY <1>1 DEF IsTickOfRows
<1> HIDE DEF seen, dirty
<1>5. /\ DOMAIN ticks' = Pollers /\ \A v \in Pollers \ {w} : ticks'[v] = ticks[v]
      /\ ticks'[w].pc = ticks[w].pc /\ ticks'[w].started = ticks[w].started
      /\ ticks'[w].seen = seen /\ ticks'[w].dirty = dirty
  BY <1>1, <1>2 DEF IsTickOfRows
<1>6. IsTickOfRows(ticks'[w])
  BY <1>1, <1>3, <1>4, <1>5 DEF IsTickOfRows
<1>7. TypeOK'
  BY <1>5, <1>6 DEF TypeOK, table
<1>8. SeesOnly(ticks[w], ticks'[w])
  BY <1>3, <1>5 DEF SeesOnly
<1>9. AssignsOnly(ticks[w], ticks'[w]) /\ StartsOnly(ticks[w], ticks'[w])
  BY <1>4, <1>5 DEF AssignsOnly, StartsOnly
<1> QED
  BY <1>5, <1>7, <1>8, <1>9

\* Every step of a tick.
LEMMA PollWrites ==
    ASSUME TypeOK, NEW w \in Pollers, Poll(w) \/ Crash(w),
           \A id \in DOMAIN otps :
              otps[id].provider_message_id # NULL => otps[id].sent_at # NULL
    PROVE  /\ TypeOK' /\ UNCHANGED <<now, dispatched, fate>>
           /\ \A v \in Pollers \ {w} : ticks'[v] = ticks[v]
           /\ SeesOnly(ticks[w], ticks'[w]) /\ AssignsOnly(ticks[w], ticks'[w])
           /\ StartsOnly(ticks[w], ticks'[w])
           /\ WritesOnly(ticks[w])
<1>1. /\ IsTable(otps) /\ now \in Time /\ IsTickOfRows(ticks[w])
      /\ crashes \in 0..MaxCrashes /\ MaxCrashes \in Nat
  BY PollAssumption DEF TypeOK, Time
<1>2. /\ Idle.pc = "idle" /\ Idle.started = 0
      /\ Idle.seen = Nothing /\ Idle.dirty = Nothing /\ 0 \in Time
  BY DEF Idle, Time
<1>3. UNCHANGED otps => IsTable(otps') /\ WritesOnly(ticks[w])
  BY <1>1 DEF WritesOnly
<1>4. CASE Start(w)
  <2> DEFINE tick == [Idle EXCEPT !.pc = "started", !.started = now]
  <2>1. /\ tick.pc = "started" /\ tick.started = now
        /\ tick.seen = Nothing /\ tick.dirty = Nothing
    BY DEF Idle
  <2>2. /\ ticks' = [ticks EXCEPT ![w] = tick] /\ UNCHANGED <<table, fate>>
        /\ crashes' \in 0..MaxCrashes
    BY <1>1, <1>4 DEF Start
  <2> HIDE DEF tick
  <2> QED
    BY <1>1, <1>3, <2>1, <2>2, BareTick DEF table
<1>5. CASE SelectNone(w) \/ Crash(w) \/ \E id \in Ids : Garbled(w, id)
  <2>1. /\ ticks' = [ticks EXCEPT ![w] = Idle] /\ UNCHANGED <<table, fate>>
        /\ crashes' \in 0..MaxCrashes
    BY <1>1, <1>5 DEF SelectNone, Crash, Garbled
  <2> QED
    BY <1>2, <1>3, <2>1, BareTick DEF table
<1>6. CASE Select(w)
  <2>1. UNCHANGED <<table, fate>>
    BY <1>6 DEF Select
  <2> QED
    BY <1>3, <1>6, <2>1, SelectsOnly DEF table
<1>7. ASSUME NEW id \in Ids, Sweep(w, id) \/ Receipt(w, id)
      PROVE  /\ TypeOK' /\ UNCHANGED <<table, fate>>
             /\ \A v \in Pollers \ {w} : ticks'[v] = ticks[v]
             /\ SeesOnly(ticks[w], ticks'[w]) /\ AssignsOnly(ticks[w], ticks'[w])
             /\ StartsOnly(ticks[w], ticks'[w])
  <2>1. UNCHANGED <<table, fate, crashes>>
    BY <1>7 DEF Sweep, Receipt
  <2>2. id \in DOMAIN ticks[w].seen
    BY <1>7 DEF Sweep, Receipt, Answered, IsNext
  <2>3. \E d \in Dirty : /\ Assign(w, id, d) /\ PollColumns(d, ticks[w].started)
                         /\ d.delivered_at # NULL =>
                               fate[ticks[w].seen[id].provider_message_id] = "delivered"
    <3>1. ticks[w].started \in Time
      BY <1>1 DEF IsTickOfRows
    <3>2. CASE Sweep(w, id)
      BY <3>1, <3>2, ReceiptType, ReceiptColumns DEF Sweep
    <3>3. CASE Receipt(w, id)
      <4>1. PICK answer \in Receipts :
               /\ Answered(w, id, answer)
               /\ \/ /\ query_dlr(answer) = "delivered"
                     /\ Assign(w, id, DeliveredAt(ticks[w].started))
                  \/ /\ query_dlr(answer) = "failed"
                     /\ Assign(w, id, FailedAt(ticks[w].started))
                  \/ /\ query_dlr(answer) \in {"pending", "unknown"}
                     /\ Assign(w, id, Clean)
        BY <3>3 DEF Receipt
      <4>2. /\ answer.status \in Nat
            /\ Truthful(answer, fate[ticks[w].seen[id].provider_message_id])
        BY <4>1, PollAssumption DEF Answered
      <4>3. query_dlr(answer) = "delivered" =>
               fate[ticks[w].seen[id].provider_message_id] = "delivered"
        BY <4>2, FinalIsTrue
      <4> QED
        BY <3>1, <4>1, <4>3, ReceiptType, ReceiptColumns
    <3> QED
      BY <1>7, <3>2, <3>3
  <2> QED
    BY <2>1, <2>2, <2>3, AssignsRow
<1>8. CASE CommitAll(w)
  <2>1. /\ otps' = [id \in DOMAIN otps |->
                      IF id \in DOMAIN ticks[w].dirty
                      THEN Flush(otps[id], ticks[w].dirty[id]) ELSE otps[id]]
        /\ ticks' = [ticks EXCEPT ![w] = Idle] /\ UNCHANGED <<now, dispatched, fate, crashes>>
    BY <1>8 DEF CommitAll, FlushAll
  <2>2. WritesOnly(ticks[w])
    BY <2>1 DEF WritesOnly
  <2>3. ASSUME NEW id \in DOMAIN otps
        PROVE  otps'[id] \in Row
    <3>1. otps[id] \in Row
      BY <1>1 DEF IsTable
    <3>2. CASE id \in DOMAIN ticks[w].dirty
      <4>1. ticks[w].dirty[id] \in Dirty
        BY <1>1, <3>2 DEF IsTickOfRows
      <4>2. otps'[id] = Flush(otps[id], ticks[w].dirty[id])
        BY <2>1, <3>2
      <4> QED
        BY <3>1, <4>1, <4>2, FlushType
    <3>3. CASE id \notin DOMAIN ticks[w].dirty
      BY <2>1, <3>1, <3>3
    <3> QED
      BY <3>2, <3>3
  <2>4. DOMAIN otps' = DOMAIN otps /\ otps' \in [DOMAIN otps -> Row]
    BY <2>1, <2>3
  <2>5. IsTable(otps')
    BY <1>1, <2>4 DEF IsTable
  <2> QED
    BY <1>1, <1>2, <2>1, <2>2, <2>5, BareTick
<1> QED
  BY <1>3, <1>4, <1>5, <1>6, <1>7, <1>8 DEF Poll, table
=============================================================================
