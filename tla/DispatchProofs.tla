--------------------------- MODULE DispatchProofs ---------------------------
(***************************************************************************)
(* Machine-checked theorems about Dispatch, for any number of rows and     *)
(* workers, any bound on retries, crashes and replays, and any answers the *)
(* providers may give.                                                     *)
(***************************************************************************)
EXTENDS Dispatch, OtpRowsProofs, FiniteSetTheorems

(***************************************************************************)
(* The inductive invariant.  A worker that holds a message is at work for  *)
(* a row of the table; what it is about to write, the provider has done.   *)
(***************************************************************************)
WorkerShape(w) ==
    /\ workers[w].pc = "idle" <=> workers[w].msg = NULL
    /\ workers[w].pc # "idle" =>
          workers[w].msg \in Message /\ workers[w].msg.id \in DOMAIN otps

OutcomeIsTrue(w) ==
    workers[w].pc = "flushing" =>
        LET id == workers[w].msg.id
            d  == workers[w].dirty
        IN /\ d.status \in {"sent", "failed"}
           /\ d.status = "sent" \/ d.sent_at # NULL => carried[id] > 0 \/ id \in misread
           /\ d.provider_message_id # NULL =>
                 d.sent_at # NULL /\ issued[d.provider_message_id] = id

\* Somebody is still going to act on the row, or has given it up.
Works(w, id) == /\ workers[w].pc \notin {"idle", "acking"}
                /\ workers[w].msg.id = id

Awaited(id) == \/ id \in requests
               \/ id \in dropped
               \/ \E msg \in BagToSet(queue) : msg.id = id
               \/ \E w \in Workers : Works(w, id)

DInv == /\ TypeOK
        /\ \A msg \in BagToSet(queue) : msg.id \in DOMAIN otps
        /\ \A w \in Workers : WorkerShape(w) /\ OutcomeIsTrue(w)
        /\ \A id \in DOMAIN otps : otps[id].status = "pending" => Awaited(id)
        /\ SentWasAnswered
        /\ ProviderIdIsOwn

(***************************************************************************)
(* The queue is a bag: publishing a message adds it, handing one out takes *)
(* away one copy of it at most.                                            *)
(***************************************************************************)
LEMMA PublishType ==
    ASSUME NEW q, IsABag(q), NEW msg
    PROVE  /\ IsABag(q (+) SetToBag({msg}))
           /\ BagToSet(q (+) SetToBag({msg})) = BagToSet(q) \cup {msg}
  BY DEF IsABag, BagToSet, SetToBag, (+)

\* Taking a message leaves a bag of messages.
LEMMA TakeType ==
    ASSUME NEW q, IsABag(q), NEW msg, msg \in BagToSet(q)
    PROVE  /\ IsABag(q (-) SetToBag({msg}))
           /\ BagToSet(q (-) SetToBag({msg})) \subseteq BagToSet(q)
           /\ BagToSet(q) \subseteq BagToSet(q (-) SetToBag({msg})) \cup {msg}
  BY DEF IsABag, BagToSet, SetToBag, (-)

\* An empty queue.
LEMMA EmptyQueue == IsABag(EmptyBag) /\ BagToSet(EmptyBag) = {}
  BY DEF IsABag, BagToSet, SetToBag, EmptyBag

\* The columns dispatch assigns.
LEMMA OutcomeType ==
    ASSUME now \in Nat
    PROVE  /\ Sent \in Dirty /\ Sent.status = "sent" /\ Sent.sent_at = now
           /\ Sent.sent_at # NULL /\ Sent.provider_message_id = NULL
           /\ Failed \in Dirty /\ Failed.status = "failed"
           /\ Failed.sent_at = NULL /\ Failed.provider_message_id = NULL
           /\ \A p \in Providers :
                 LET d == [Sent EXCEPT !.provider_message_id = p]
                 IN /\ d \in Dirty /\ d.status = "sent" /\ d.sent_at # NULL
                    /\ d.provider_message_id = p
<1>1. /\ Clean \in Dirty /\ now \in TimeOrNull /\ now # NULL
      /\ {"sent", "failed"} \subseteq Statuses
  BY CleanType, StatusNames, NullAssumption DEF TimeOrNull
<1>2. Sent \in Dirty /\ Failed \in Dirty
  BY <1>1 DEF Sent, Failed, Dirty
<1>3. /\ Sent.status = "sent" /\ Sent.sent_at = now /\ Sent.provider_message_id = NULL
      /\ Failed.status = "failed" /\ Failed.sent_at = NULL
      /\ Failed.provider_message_id = NULL
  BY DEF Sent, Failed, Clean
<1>4. ASSUME NEW p \in Providers
      PROVE  LET d == [Sent EXCEPT !.provider_message_id = p]
             IN /\ d \in Dirty /\ d.status = "sent" /\ d.sent_at = now
                /\ d.provider_message_id = p
  <2>1. [Sent EXCEPT !.provider_message_id = p] \in Dirty
    BY <1>2 DEF Dirty
  <2> QED
    BY <2>1 DEF Sent, Clean
<1> QED
  BY <1>1, <1>2, <1>3, <1>4

(***************************************************************************)
(* Steps of one worker that leave the table alone.                         *)
(***************************************************************************)
\* The invariant survives if the worker keeps its part, what providers have done
\* is only added to, and nobody stops waiting for a row without a successor.
LEMMA WorkerStep ==
    ASSUME DInv, NEW w \in Workers, NEW new \in Worker,
           workers' = [workers EXCEPT ![w] = new],
           UNCHANGED <<otps, now, requests>>,
           redeliveries' \in 0..MaxRedeliveries,
           IsABag(queue'), BagToSet(queue') \subseteq Message,
           \A msg \in BagToSet(queue') : msg.id \in DOMAIN otps,
           dropped \subseteq dropped', dropped' \subseteq Ids,
           carried' \in [Ids -> Nat], \A id \in Ids : carried'[id] >= carried[id],
           misread \subseteq misread', misread' \subseteq Ids,
           issued' \in [Providers -> Ids \cup {NULL}],
           \A p \in Providers : issued[p] # NULL => issued'[p] = issued[p],
           WorkerShape(w)', OutcomeIsTrue(w)',
           \A msg \in BagToSet(queue) : msg \in BagToSet(queue') \/ Works(w, msg.id)',
           \A id \in DOMAIN otps : Works(w, id) =>
              \/ otps[id].status # "pending"
              \/ id \in dropped'
              \/ \E msg \in BagToSet(queue') : msg.id = id
              \/ Works(w, id)'
    PROVE  DInv'
<1>1. /\ workers' \in [Workers -> Worker] /\ workers'[w] = new
      /\ \A v \in Workers \ {w} : workers'[v] = workers[v]
  BY DEF DInv, TypeOK
<1>2. ASSUME NEW v \in Workers \ {w}
      PROVE  WorkerShape(v)' /\ OutcomeIsTrue(v)'
  <2>1. WorkerShape(v) /\ OutcomeIsTrue(v) /\ workers'[v] = workers[v]
        /\ workers[v] \in Worker
    BY <1>1 DEF DInv, TypeOK
  <2>2. WorkerShape(v)'
    BY <2>1 DEF WorkerShape
  <2>3. CASE workers[v].pc = "flushing"
    <3>1. PICK id, d : id = workers[v].msg.id /\ d = workers[v].dirty
      OBVIOUS
    <3>2. /\ d \in Dirty /\ id \in Ids /\ id # NULL
      BY <2>1, <2>3, <3>1, NullAssumption, NoneAssumption
         DEF Worker, WorkerShape, Message
    <3>3. /\ d.status \in {"sent", "failed"}
          /\ d.status = "sent" \/ d.sent_at # NULL => carried[id] > 0 \/ id \in misread
          /\ d.provider_message_id # NULL =>
                d.sent_at # NULL /\ issued[d.provider_message_id] = id
      BY <2>1, <2>3, <3>1 DEF OutcomeIsTrue
    <3>4. d.provider_message_id # NULL => d.provider_message_id \in Providers
      BY <3>2 DEF Dirty
    <3>5. carried[id] \in Nat /\ carried'[id] \in Nat /\ carried'[id] >= carried[id]
      BY <3>2 DEF DInv, TypeOK
    <3>6. /\ d.status = "sent" \/ d.sent_at # NULL => carried'[id] > 0 \/ id \in misread'
          /\ d.provider_message_id # NULL =>
                d.sent_at # NULL /\ issued'[d.provider_message_id] = id
      BY <3>2, <3>3, <3>4, <3>5
    <3> QED
      BY <2>1, <2>2, <3>1, <3>3, <3>6 DEF OutcomeIsTrue
  <2>4. CASE workers[v].pc # "flushing"
    BY <2>1, <2>2, <2>4 DEF OutcomeIsTrue
  <2> QED
    BY <2>3, <2>4
<1>3. \A v \in Workers : WorkerShape(v)' /\ OutcomeIsTrue(v)'
  BY <1>2
<1>4. TypeOK'
  BY <1>1, <1>3 DEF DInv, TypeOK, WorkerShape, At
<1>5. ASSUME NEW id \in DOMAIN otps, otps[id].status = "pending"
      PROVE  Awaited(id)'
  <2>1. Awaited(id)
    BY <1>5 DEF DInv
  <2>2. ASSUME NEW v \in Workers, Works(v, id)
        PROVE  Awaited(id)'
    <3>1. CASE v = w
      BY <1>5, <2>2, <3>1 DEF Awaited
    <3>2. CASE v # w
      BY <1>1, <2>2, <3>2 DEF Works, Awaited
    <3> QED
      BY <3>1, <3>2
  <2>3. CASE \E msg \in BagToSet(queue) : msg.id = id
    BY <2>3 DEF Awaited
  <2>4. CASE id \in requests \/ id \in dropped
    BY <2>4 DEF Awaited
  <2> QED
    BY <2>1, <2>2, <2>3, <2>4 DEF Awaited
<1>6. SentWasAnswered'
  <2> SUFFICES ASSUME NEW id \in DOMAIN otps,
                      SaysSent(id)
               PROVE  carried'[id] > 0 \/ id \in misread'
    BY DEF SentWasAnswered, SaysSent
  <2>1. id \in Ids /\ (carried[id] > 0 \/ id \in misread)
    BY DEF DInv, SentWasAnswered, TypeOK, IsTable
  <2> QED
    BY <2>1 DEF DInv, TypeOK
<1>7. ProviderIdIsOwn'
  <2> SUFFICES ASSUME NEW id \in DOMAIN otps, otps[id].provider_message_id # NULL
               PROVE  /\ issued'[otps[id].provider_message_id] = id
                      /\ otps[id].sent_at # NULL
    BY DEF ProviderIdIsOwn
  <2>1. id \in Ids /\ otps[id] \in Row
    BY DEF DInv, TypeOK, IsTable
  <2>2. otps[id].provider_message_id \in Providers
    BY <2>1 DEF Row
  <2> QED
    BY <2>1, <2>2, NullAssumption, NoneAssumption DEF DInv, ProviderIdIsOwn
<1> QED
  BY <1>3, <1>4, <1>5, <1>6, <1>7 DEF DInv

\* What providers have done, and what was given up, is as it was.
NothingElseChanged ==
    /\ carried' \in [Ids -> Nat] /\ \A id \in Ids : carried'[id] >= carried[id]
    /\ misread \subseteq misread' /\ misread' \subseteq Ids
    /\ issued' \in [Providers -> Ids \cup {NULL}]
    /\ \A p \in Providers : issued[p] # NULL => issued'[p] = issued[p]
    /\ dropped \subseteq dropped' /\ dropped' \subseteq Ids

\* What every worker step finds.
LEMMA Holding ==
    ASSUME DInv, NEW w \in Workers
    PROVE  /\ workers[w] \in Worker /\ workers \in [Workers -> Worker]
           /\ WorkerShape(w) /\ OutcomeIsTrue(w)
           /\ IsABag(queue) /\ BagToSet(queue) \subseteq Message
           /\ \A msg \in BagToSet(queue) : msg.id \in DOMAIN otps
           /\ dropped \subseteq Ids /\ misread \subseteq Ids /\ carried \in [Ids -> Nat]
           /\ issued \in [Providers -> Ids \cup {NULL}]
           /\ redeliveries \in 0..MaxRedeliveries /\ redeliveries \in Nat
           /\ IsTable(otps) /\ now \in Nat
  BY DispatchAssumption DEF DInv, TypeOK

\* Nothing is sent, taken or put back: the worker moves on, having perhaps given
\* the row up.
LEMMA GotoStep ==
    ASSUME DInv, NEW w \in Workers, NEW pc \in {"sending", "retrying", "acking"},
           workers[w].pc # "idle", Goto(w, pc),
           UNCHANGED <<otps, now, requests, queue, issued, redeliveries>>,
           carried' \in [Ids -> Nat], \A id \in Ids : carried'[id] >= carried[id],
           misread \subseteq misread', misread' \subseteq Ids,
           dropped \subseteq dropped', dropped' \subseteq Ids,
           Target(w) \in DOMAIN otps =>
              \/ pc # "acking" \/ workers[w].pc = "acking"
              \/ otps[Target(w)].status # "pending" \/ Target(w) \in dropped'
    PROVE  DInv'
<1> DEFINE new == [workers[w] EXCEPT !.pc = pc]
<1>1. /\ new \in Worker /\ new.pc = pc /\ new.msg = workers[w].msg
      /\ workers' = [workers EXCEPT ![w] = new]
  BY Holding DEF Goto, Worker
<1> HIDE DEF new
<1>2. workers'[w] = new
  BY <1>1, Holding
<1>3. WorkerShape(w)' /\ OutcomeIsTrue(w)'
  BY <1>1, <1>2, Holding DEF WorkerShape, OutcomeIsTrue
<1>4. \A id \in DOMAIN otps : Works(w, id) =>
         otps[id].status # "pending" \/ id \in dropped' \/ Works(w, id)'
  BY <1>1, <1>2 DEF Works, Target
<1> QED
  BY <1>1, <1>3, <1>4, Holding, WorkerStep

\* A row that is no longer PENDING is left alone; the task ends.
LEMMA LoadStep ==
    ASSUME DInv, NEW w \in Workers, Load(w)
    PROVE  DInv'
<1>1. PICK pc \in {"sending", "acking"} :
         /\ Goto(w, pc)
         /\ pc = "acking" => otps[Target(w)].status # "pending"
  BY DEF Load
<1>2. /\ workers[w].pc # "idle"
      /\ UNCHANGED <<otps, now, requests, queue, issued, redeliveries, carried, misread,
                     dropped>>
  BY DEF Load, At, table, provider
<1> QED
  BY <1>1, <1>2, Holding, GotoStep

\* The task fails or runs out of retries: the row is given up for all to see.
LEMMA GivingUpSteps ==
    ASSUME DInv, NEW w \in Workers,
           LoadFails(w) \/ CommitFails(w) \/ RetryFails(w) \/ GiveUp(w)
    PROVE  DInv'
<1>1. /\ Goto(w, "acking") /\ workers[w].pc # "idle"
      /\ dropped' = dropped \cup {Target(w)}
      /\ UNCHANGED <<otps, now, requests, queue, issued, redeliveries, carried, misread>>
  BY DEF LoadFails, CommitFails, RetryFails, GiveUp, Fails, At, table, provider
<1>2. Target(w) \in Ids
  BY <1>1, Holding DEF WorkerShape, Target, Message
<1> QED
  BY <1>1, <1>2, Holding, GotoStep

\* The broker hands out a message: the worker works for its row from now on.
LEMMA ReserveStep ==
    ASSUME DInv, NEW w \in Workers, Reserve(w)
    PROVE  DInv'
<1>1. PICK msg \in BagToSet(queue) :
         /\ workers' = [workers EXCEPT ![w] = [Idle EXCEPT !.pc = "reserved",
                                                           !.msg = msg]]
         /\ queue' = queue (-) SetToBag({msg})
  BY DEF Reserve
<1> DEFINE new == [Idle EXCEPT !.pc = "reserved", !.msg = msg]
<1>2. workers[w].pc = "idle" /\ UNCHANGED <<otps, now, requests, issued, redeliveries,
                                            carried, misread, dropped>>
  BY DEF Reserve, At, table, provider
<1>3. msg \in Message /\ msg.id \in DOMAIN otps
  BY <1>1, Holding
<1>4. new \in Worker /\ new.pc = "reserved" /\ new.msg = msg
  BY <1>3, CleanType DEF Idle, Worker
<1>5. workers' = [workers EXCEPT ![w] = new]
  BY <1>1
<1> HIDE DEF new
<1>6. workers'[w] = new
  BY <1>5, Holding
<1>7. /\ IsABag(queue (-) SetToBag({msg}))
      /\ BagToSet(queue (-) SetToBag({msg})) \subseteq BagToSet(queue)
      /\ BagToSet(queue) \subseteq BagToSet(queue (-) SetToBag({msg})) \cup {msg}
  BY Holding, TakeType
<1>8. /\ IsABag(queue') /\ BagToSet(queue') \subseteq BagToSet(queue)
      /\ BagToSet(queue) \subseteq BagToSet(queue') \cup {msg}
  BY <1>1, <1>7
<1>9. WorkerShape(w)' /\ OutcomeIsTrue(w)'
  BY <1>2, <1>3, <1>4, <1>6, NullAssumption, NoneAssumption DEF WorkerShape, OutcomeIsTrue
<1>10. Works(w, msg.id)'
  BY <1>4, <1>6 DEF Works
<1>11. \A id \in DOMAIN otps : ~Works(w, id)
  BY <1>2 DEF Works
<1> QED
  <2>1. /\ \A m \in BagToSet(queue) : m \in BagToSet(queue') \/ Works(w, m.id)'
        /\ BagToSet(queue') \subseteq Message
        /\ \A m \in BagToSet(queue') : m.id \in DOMAIN otps
    BY <1>8, <1>10, Holding
  <2>2. NothingElseChanged
    BY <1>2, Holding DEF NothingElseChanged
  <2>3. redeliveries' \in 0..MaxRedeliveries
    BY <1>2, Holding
  <2> QED
    BY <1>2, <1>4, <1>5, <1>8, <1>9, <1>11, <2>1, <2>2, <2>3, WorkerStep
    DEF NothingElseChanged

\* A message is published by a worker that moves to pc: the row has a successor.
LEMMA PublishStep ==
    ASSUME DInv, NEW w \in Workers, NEW new \in Worker, NEW msg \in Message,
           workers[w].pc # "idle", msg.id = Target(w), Publish(msg),
           workers' = [workers EXCEPT ![w] = new], WorkerShape(w)',
           new.pc \in {"idle", "acking"},
           UNCHANGED <<otps, now, requests, provider, dropped>>,
           redeliveries' \in 0..MaxRedeliveries
    PROVE  DInv'
<1>1. /\ IsABag(queue (+) SetToBag({msg}))
      /\ BagToSet(queue (+) SetToBag({msg})) = BagToSet(queue) \cup {msg}
  BY Holding, PublishType
<1>2. IsABag(queue') /\ BagToSet(queue') = BagToSet(queue) \cup {msg}
  BY <1>1 DEF Publish
<1>3. msg.id \in DOMAIN otps
  BY Holding DEF WorkerShape, Target
<1>4. workers'[w] = new /\ UNCHANGED <<carried, issued, misread>>
  BY Holding DEF provider
<1>5. OutcomeIsTrue(w)'
  BY <1>4 DEF OutcomeIsTrue
<1>6. \A id \in DOMAIN otps : Works(w, id) => id = msg.id
  BY DEF Works, Target
<1> QED
  <2>1. /\ BagToSet(queue) \subseteq BagToSet(queue')
        /\ BagToSet(queue') \subseteq Message
        /\ \A m \in BagToSet(queue') : m.id \in DOMAIN otps
        /\ \A id \in DOMAIN otps :
              Works(w, id) => \E m \in BagToSet(queue') : m.id = id
    BY <1>2, <1>3, <1>6, Holding
  <2>2. NothingElseChanged
    BY <1>4, Holding DEF NothingElseChanged
  <2> QED
    BY <1>2, <1>5, <2>1, <2>2, WorkerStep DEF NothingElseChanged

\* Publishing the next attempt keeps the row's message on its way.
LEMMA RetryStep ==
    ASSUME DInv, NEW w \in Workers, Retry(w)
    PROVE  DInv'
<1> DEFINE new == [workers[w] EXCEPT !.pc = "acking"]
           msg == [id |-> Target(w), retries |-> workers[w].msg.retries + 1]
<1>1. /\ workers[w].pc = "retrying" /\ workers[w].msg.retries < MaxRetries
      /\ Publish(msg) /\ Goto(w, "acking")
      /\ UNCHANGED <<otps, now, requests, provider, dropped, redeliveries>>
  BY DEF Retry, At, table
<1>2. workers[w].msg \in Message
  BY <1>1, Holding DEF WorkerShape
<1>3. msg \in Message /\ msg.id = Target(w)
  BY <1>1, <1>2, DispatchAssumption DEF Message, Target
<1>4. /\ new \in Worker /\ new.pc = "acking" /\ new.msg = workers[w].msg
      /\ workers' = [workers EXCEPT ![w] = new]
  BY <1>1, Holding DEF Goto, Worker
<1> HIDE DEF new, msg
<1>5. WorkerShape(w)'
  BY <1>1, <1>4, Holding DEF WorkerShape
<1> QED
  BY <1>1, <1>3, <1>4, <1>5, Holding, PublishStep

\* A worker that dies gives back what it had not acknowledged.
LEMMA CrashStep ==
    ASSUME DInv, NEW w \in Workers, Crash(w)
    PROVE  DInv'
<1>1. /\ workers[w].pc # "idle" /\ Publish(workers[w].msg)
      /\ workers' = [workers EXCEPT ![w] = Idle]
      /\ UNCHANGED <<otps, now, requests, provider, dropped>>
      /\ redeliveries' = redeliveries + 1 /\ redeliveries < MaxRedeliveries
  BY DEF Crash, At, table
<1>2. workers[w].msg \in Message /\ workers[w].msg.id = Target(w)
  BY <1>1, Holding DEF WorkerShape, Target
<1>3. Idle \in Worker /\ Idle.pc = "idle" /\ Idle.msg = NULL
  BY CleanType DEF Idle, Worker
<1>4. WorkerShape(w)'
  BY <1>1, <1>3, Holding DEF WorkerShape
<1>5. redeliveries' \in 0..MaxRedeliveries
  BY <1>1, Holding, DispatchAssumption
<1> QED
  BY <1>1, <1>2, <1>3, <1>4, <1>5, PublishStep

\* The end of a task: whoever else works for the row goes on doing so.
LEMMA AckStep ==
    ASSUME DInv, NEW w \in Workers, Ack(w)
    PROVE  DInv'
<1>1. /\ workers[w].pc = "acking" /\ workers' = [workers EXCEPT ![w] = Idle]
      /\ UNCHANGED <<otps, now, requests, queue, carried, issued, misread, dropped,
                     redeliveries>>
  BY DEF Ack, At, table, provider
<1>2. Idle \in Worker /\ Idle.pc = "idle" /\ Idle.msg = NULL
  BY CleanType DEF Idle, Worker
<1>3. WorkerShape(w)' /\ OutcomeIsTrue(w)'
  BY <1>1, <1>2, Holding DEF WorkerShape, OutcomeIsTrue
<1>4. \A id \in DOMAIN otps : ~Works(w, id)
  BY <1>1 DEF Works
<1> QED
  <2>1. NothingElseChanged
    BY <1>1, Holding DEF NothingElseChanged
  <2> QED
    BY <1>1, <1>2, <1>3, <1>4, <2>1, Holding, WorkerStep DEF NothingElseChanged

(***************************************************************************)
(* The send.                                                               *)
(***************************************************************************)
\* A success means the provider took the message, unless its body refuses it.
LEMMA SuccessIsTaken ==
    ASSUME NEW channel, NEW answer,
           send(channel, answer) = "accepted", ~Misreads(channel, answer)
    PROVE  MayHaveTaken(channel, answer) = {TRUE}
  BY DEF MayHaveTaken

\* The worker has an outcome to commit, and the provider has done what it says.
LEMMA DecideStep ==
    ASSUME DInv, NEW w \in Workers, NEW d \in Dirty,
           workers[w].pc = "sending", Decide(w, d),
           UNCHANGED <<otps, now, requests, queue, dropped, redeliveries>>,
           carried' \in [Ids -> Nat], \A id \in Ids : carried'[id] >= carried[id],
           misread \subseteq misread', misread' \subseteq Ids,
           issued' \in [Providers -> Ids \cup {NULL}],
           \A p \in Providers : issued[p] # NULL => issued'[p] = issued[p],
           d.status \in {"sent", "failed"},
           d.status = "sent" \/ d.sent_at # NULL =>
              carried'[Target(w)] > 0 \/ Target(w) \in misread',
           d.provider_message_id # NULL =>
              d.sent_at # NULL /\ issued'[d.provider_message_id] = Target(w)
    PROVE  DInv'
<1> DEFINE new == [workers[w] EXCEPT !.pc = "flushing", !.dirty = d]
<1>1. /\ new \in Worker /\ new.pc = "flushing" /\ new.msg = workers[w].msg
      /\ new.dirty = d /\ workers' = [workers EXCEPT ![w] = new]
  BY Holding DEF Decide, Worker
<1> HIDE DEF new
<1>2. workers'[w] = new
  BY <1>1, Holding
<1>3. WorkerShape(w)'
  BY <1>1, <1>2, Holding DEF WorkerShape
<1>4. OutcomeIsTrue(w)'
  BY <1>1, <1>2 DEF OutcomeIsTrue, Target
<1>5. \A id \in DOMAIN otps : Works(w, id) => Works(w, id)'
  BY <1>1, <1>2 DEF Works
<1>6. redeliveries' \in 0..MaxRedeliveries /\ dropped' \subseteq Ids
  BY Holding
<1> QED
  BY <1>1, <1>3, <1>4, <1>5, <1>6, Holding, WorkerStep

\* What a provider answers is recorded, whatever it answers.
LEMMA SendStep ==
    ASSUME DInv, NEW w \in Workers, Send(w)
    PROVE  DInv'
<1>1. PICK channel, answer, taken :
         /\ taken \in MayHaveTaken(channel, answer)
         /\ IF taken THEN Carry(w) ELSE UNCHANGED carried
         /\ misread' = misread \cup {id \in {Target(w)} : Misreads(channel, answer)}
         /\ \/ Accepted(w, channel, answer)
            \/ Refused(w, channel, answer)
            \/ Transient(w, channel, answer)
            \/ Raises(w, channel, answer)
  BY DEF Send
<1>2. /\ workers[w].pc = "sending" /\ workers[w].pc # "idle"
      /\ UNCHANGED <<otps, now, requests, queue, redeliveries>>
  BY DEF Send, At, table
<1>3. Target(w) \in Ids /\ Target(w) \in DOMAIN otps /\ Target(w) # NULL
  BY <1>2, Holding, NullAssumption, NoneAssumption DEF WorkerShape, Target, Message
<1>4. /\ carried' \in [Ids -> Nat] /\ \A id \in Ids : carried'[id] >= carried[id]
      /\ taken => carried'[Target(w)] > 0
      /\ misread \subseteq misread' /\ misread' \subseteq Ids
      /\ Misreads(channel, answer) => Target(w) \in misread'
  <2>0. /\ misread \subseteq misread' /\ misread' \subseteq Ids
        /\ Misreads(channel, answer) => Target(w) \in misread'
    BY <1>1, <1>3, Holding
  <2>1. CASE taken
    <3>1. carried' = [carried EXCEPT ![Target(w)] = @ + 1]
      BY <1>1, <2>1 DEF Carry
    <3> QED
      BY <1>3, <2>0, <3>1, Holding
  <2>2. CASE ~taken
    BY <1>1, <2>0, <2>2, Holding
  <2> QED
    BY <2>0, <2>1, <2>2
<1>5. CASE Accepted(w, channel, answer)
  <2>1. (taken \/ Misreads(channel, answer)) /\ dropped' = dropped
    <3>1. send(channel, answer) = "accepted" /\ dropped' = dropped
      BY <1>5 DEF Accepted
    <3>2. ~Misreads(channel, answer) => taken \in {TRUE}
      BY <1>1, <3>1, SuccessIsTaken
    <3> QED
      BY <3>1, <3>2
  <2>2. CASE NamesMessage(channel, answer)
    <3>1. PICK p \in Providers :
             /\ issued[p] = NULL /\ issued' = [issued EXCEPT ![p] = Target(w)]
             /\ Decide(w, [Sent EXCEPT !.provider_message_id = p])
      BY <1>5, <2>2 DEF Accepted
    <3> DEFINE d == [Sent EXCEPT !.provider_message_id = p]
    <3>2. /\ d \in Dirty /\ d.status = "sent" /\ d.sent_at # NULL
          /\ d.provider_message_id = p /\ Decide(w, d)
      BY <3>1, Holding, OutcomeType
    <3>3. /\ issued' \in [Providers -> Ids \cup {NULL}]
          /\ \A q \in Providers : issued[q] # NULL => issued'[q] = issued[q]
          /\ issued'[p] = Target(w)
      BY <1>3, <3>1, Holding
    <3> HIDE DEF d
    <3> QED
      BY <1>2, <1>4, <2>1, <3>2, <3>3, DecideStep
  <2>3. CASE ~NamesMessage(channel, answer)
    <3>1. Decide(w, Sent) /\ UNCHANGED issued
      BY <1>5, <2>3 DEF Accepted
    <3> QED
      BY <1>2, <1>4, <2>1, <3>1, Holding, OutcomeType, DecideStep
  <2> QED
    BY <2>2, <2>3
<1>6. CASE Refused(w, channel, answer)
  <2>1. Decide(w, Failed) /\ UNCHANGED <<issued, dropped>>
    BY <1>6 DEF Refused
  <2> QED
    BY <1>2, <1>4, <2>1, Holding, OutcomeType, DecideStep
<1>7. CASE Transient(w, channel, answer)
  <2>1. Goto(w, "retrying") /\ UNCHANGED <<issued, dropped>>
    BY <1>7 DEF Transient
  <2> QED
    BY <1>2, <1>4, <2>1, Holding, GotoStep
<1>8. CASE Raises(w, channel, answer)
  <2>1. Goto(w, "acking") /\ UNCHANGED issued /\ dropped' = dropped \cup {Target(w)}
    BY <1>8 DEF Raises, Fails
  <2> QED
    BY <1>2, <1>3, <1>4, <2>1, Holding, GotoStep
<1> QED
  BY <1>1, <1>5, <1>6, <1>7, <1>8

(***************************************************************************)
(* The API and the operator.                                               *)
(***************************************************************************)
\* Publishing the message of a row, for the first time or once more, or giving
\* it up.
LEMMA ApiSteps ==
    ASSUME DInv, NEW id \in Ids, Enqueue(id) \/ EnqueueFails(id) \/ Replay(id)
    PROVE  DInv'
<1>1. /\ UNCHANGED <<otps, now, workers, carried, issued, misread>>
      /\ requests' \subseteq requests /\ id \in DOMAIN otps
      /\ dropped \subseteq dropped' /\ dropped' \subseteq Ids
      /\ redeliveries' \in 0..MaxRedeliveries
  <2>1. requests \subseteq DOMAIN otps /\ dropped \subseteq Ids
        /\ redeliveries \in 0..MaxRedeliveries
    BY DEF DInv, TypeOK
  <2>2. CASE Enqueue(id) \/ EnqueueFails(id)
    BY <2>1, <2>2 DEF Enqueue, EnqueueFails, table, provider
  <2>3. CASE Replay(id)
    BY <2>1, <2>3, DispatchAssumption DEF Replay, table, provider
  <2> QED
    BY <2>2, <2>3
<1>2. /\ IsABag(queue') /\ BagToSet(queue) \subseteq BagToSet(queue')
      /\ \A msg \in BagToSet(queue') : msg \in Message /\ msg.id \in DOMAIN otps
      /\ \A i \in requests \ requests' :
            i \in dropped' \/ \E msg \in BagToSet(queue') : msg.id = i
  <2>1. IsABag(queue) /\ BagToSet(queue) \subseteq Message
        /\ \A msg \in BagToSet(queue) : msg.id \in DOMAIN otps
    BY DEF DInv, TypeOK
  <2>2. CASE Enqueue(id) \/ Replay(id)
    <3> DEFINE msg == [id |-> id, retries |-> 0]
    <3>1. /\ Publish(msg) /\ requests \ requests' \subseteq {id}
      BY <2>2 DEF Enqueue, Replay
    <3>2. msg \in Message /\ msg.id = id
      BY DispatchAssumption DEF Message
    <3> HIDE DEF msg
    <3>3. /\ IsABag(queue (+) SetToBag({msg}))
          /\ BagToSet(queue (+) SetToBag({msg})) = BagToSet(queue) \cup {msg}
      BY <2>1, PublishType
    <3>4. IsABag(queue') /\ BagToSet(queue') = BagToSet(queue) \cup {msg}
      BY <3>1, <3>3 DEF Publish
    <3> QED
      BY <1>1, <2>1, <3>1, <3>2, <3>4
  <2>3. CASE EnqueueFails(id)
    BY <2>1, <2>3 DEF EnqueueFails
  <2> QED
    BY <2>2, <2>3
<1>3. TypeOK'
  BY <1>1, <1>2 DEF DInv, TypeOK, At
<1>4. \A w \in Workers : WorkerShape(w)' /\ OutcomeIsTrue(w)'
  BY <1>1 DEF DInv, WorkerShape, OutcomeIsTrue
<1>5. \A i \in DOMAIN otps : Awaited(i) => Awaited(i)'
  BY <1>1, <1>2 DEF Awaited, Works
<1>6. SentWasAnswered' /\ ProviderIdIsOwn'
  BY <1>1 DEF DInv, SentWasAnswered, SaysSent, ProviderIdIsOwn
<1> QED
  BY <1>1, <1>2, <1>3, <1>4, <1>5, <1>6 DEF DInv

\* A request inserts a PENDING row and waits for the broker with it.
LEMMA RequestStep ==
    ASSUME DInv, NEW id \in Ids, NEW r \in Recipients, request_otp(id, r)
    PROVE  DInv'
<1>1. /\ id \notin DOMAIN otps /\ requests' = requests \cup {id}
      /\ UNCHANGED <<now, queue, workers, carried, issued, misread, dropped, redeliveries>>
  BY DEF request_otp, FreshIds, provider
<1>2. IsTable(otps) /\ now \in Nat
  BY DispatchAssumption DEF DInv, TypeOK
<1>3. PICK row \in Row : /\ otps' = Insert(otps, id, row) /\ row.status = "pending"
                         /\ row.sent_at = NULL /\ row.provider_message_id = NULL
  <2>1. PICK code \in Codes :
           otps' = Insert(otps, id, NewRow(r, Channel(r), code, "pending",
                                           now, now + OTP_TTL_SECONDS))
    BY DEF request_otp
  <2>2. now + OTP_TTL_SECONDS \in Nat /\ Channel(r) \in Channels
    BY <1>2, SettingsAssumption DEF Channel, Channels
  <2> QED
    BY <1>2, <2>1, <2>2, StatusNames, NewRowType
<1>4. /\ IsTable(Insert(otps, id, row))
      /\ DOMAIN Insert(otps, id, row) = DOMAIN otps \cup {id}
      /\ Insert(otps, id, row)[id] = row
      /\ \A i \in DOMAIN otps \ {id} : Insert(otps, id, row)[i] = otps[i]
  BY ZenonT(60), <1>2, InsertType
<1>5. /\ IsTable(otps') /\ DOMAIN otps' = DOMAIN otps \cup {id} /\ otps'[id] = row
      /\ \A i \in DOMAIN otps : otps'[i] = otps[i]
  BY <1>1, <1>3, <1>4
<1>6. TypeOK'
  BY <1>1, <1>5 DEF DInv, TypeOK, At
<1>7. /\ \A msg \in BagToSet(queue') : msg.id \in DOMAIN otps'
      /\ \A w \in Workers : WorkerShape(w)' /\ OutcomeIsTrue(w)'
  BY <1>1, <1>5 DEF DInv, WorkerShape, OutcomeIsTrue
<1>8. \A i \in DOMAIN otps' : otps'[i].status = "pending" => Awaited(i)'
  BY <1>1, <1>5 DEF DInv, Awaited, Works
<1>9. SentWasAnswered' /\ ProviderIdIsOwn'
  BY <1>1, <1>3, <1>5 DEF DInv, SentWasAnswered, SaysSent, ProviderIdIsOwn
<1> QED
  BY <1>6, <1>7, <1>8, <1>9 DEF DInv

(***************************************************************************)
(* Commits to a row.                                                       *)
(***************************************************************************)
\* Any commit that leaves the row not PENDING and says of it what was done.
LEMMA TableStep ==
    ASSUME DInv, NEW id \in DOMAIN otps, NEW d \in Dirty,
           otps' = [otps EXCEPT ![id] = Flush(@, d)],
           d.status # NULL, d.status # "pending",
           d.status = "sent" \/ d.sent_at # NULL => carried[id] > 0 \/ id \in misread,
           d.provider_message_id # NULL =>
              d.sent_at # NULL /\ issued[d.provider_message_id] = id,
           UNCHANGED <<now, requests, queue, carried, issued, misread, dropped,
                       redeliveries>>,
           workers' \in [Workers -> Worker],
           \A w \in Workers : /\ workers'[w].msg = workers[w].msg
                              /\ workers'[w].dirty = workers[w].dirty
                              /\ \/ workers'[w].pc = workers[w].pc
                                 \/ /\ workers[w].pc = "flushing"
                                    /\ workers'[w].pc = "acking"
                                    /\ workers[w].msg.id = id
    PROVE  DInv'
<1>1. IsTable(otps)
  BY DEF DInv, TypeOK
<1>2. /\ IsTable(otps') /\ DOMAIN otps' = DOMAIN otps /\ otps[id] \in Row /\ id \in Ids
      /\ otps'[id] = Flush(otps[id], d)
      /\ \A i \in DOMAIN otps \ {id} : otps'[i] = otps[i]
  BY <1>1, CommitType
<1>3. /\ otps'[id].status = d.status
      /\ otps'[id].sent_at = Assigned(d.sent_at, otps[id].sent_at)
      /\ otps'[id].provider_message_id
            = Assigned(d.provider_message_id, otps[id].provider_message_id)
  BY <1>2, FlushType DEF Assigned
<1>4. \A w \in Workers : WorkerShape(w)' /\ OutcomeIsTrue(w)'
  <2> SUFFICES ASSUME NEW w \in Workers PROVE WorkerShape(w)' /\ OutcomeIsTrue(w)'
    OBVIOUS
  <2>1. WorkerShape(w) /\ OutcomeIsTrue(w)
    BY DEF DInv
  <2> QED
    BY <1>2, <2>1 DEF WorkerShape, OutcomeIsTrue
<1>5. TypeOK'
  BY <1>2, <1>4 DEF DInv, TypeOK, WorkerShape, At
<1>6. ASSUME NEW i \in DOMAIN otps, otps'[i].status = "pending"
      PROVE  Awaited(i)'
  <2>1. i # id /\ Awaited(i)
    BY <1>2, <1>3, <1>6 DEF DInv
  <2>2. \A w \in Workers : Works(w, i) => Works(w, i)'
    BY <2>1 DEF Works
  <2> QED
    BY <2>1, <2>2 DEF Awaited
<1>7. SentWasAnswered'
  BY <1>2, <1>3 DEF DInv, SentWasAnswered, SaysSent, Assigned
<1>8. ProviderIdIsOwn'
  BY <1>2, <1>3 DEF DInv, ProviderIdIsOwn, Assigned
<1>9. \A msg \in BagToSet(queue') : msg.id \in DOMAIN otps'
  BY <1>2 DEF DInv
<1> QED
  BY <1>2, <1>4, <1>5, <1>6, <1>7, <1>8, <1>9 DEF DInv

\* The worker's own commit.
LEMMA CommitStep ==
    ASSUME DInv, NEW w \in Workers, Commit(w)
    PROVE  DInv'
<1>1. PICK id, d : id = Target(w) /\ d = workers[w].dirty
  OBVIOUS
<1>2. /\ workers[w].pc = "flushing" /\ workers' = [workers EXCEPT ![w].pc = "acking"]
      /\ otps' = [otps EXCEPT ![id] = Flush(@, d)]
      /\ UNCHANGED <<now, requests, queue, carried, issued, misread, dropped, redeliveries>>
  BY <1>1 DEF Commit, At, Goto, provider
<1>3. /\ id \in DOMAIN otps /\ d \in Dirty /\ d.status \in {"sent", "failed"}
      /\ d.status = "sent" \/ d.sent_at # NULL => carried[id] > 0 \/ id \in misread
      /\ d.provider_message_id # NULL =>
            d.sent_at # NULL /\ issued[d.provider_message_id] = id
  BY <1>1, <1>2, Holding DEF WorkerShape, OutcomeIsTrue, Target, Worker
<1>4. d.status # NULL /\ d.status # "pending"
  BY <1>3, StatusNames
<1>5. /\ workers' \in [Workers -> Worker]
      /\ \A v \in Workers :
            /\ workers'[v].msg = workers[v].msg
            /\ workers'[v].dirty = workers[v].dirty
            /\ v # w => workers'[v].pc = workers[v].pc
            /\ v = w => workers'[v].pc = "acking"
  BY <1>2, Holding DEF Worker
<1>6. \A v \in Workers : /\ workers'[v].msg = workers[v].msg
                         /\ workers'[v].dirty = workers[v].dirty
                         /\ \/ workers'[v].pc = workers[v].pc
                            \/ /\ workers[v].pc = "flushing"
                               /\ workers'[v].pc = "acking"
                               /\ workers[v].msg.id = id
  <2>1. workers[w].msg.id = id
    BY <1>1 DEF Target
  <2> QED
    BY <1>2, <1>5, <2>1
<1>7. workers' \in [Workers -> Worker]
  BY <1>5
<1> QED
  BY ZenonT(60), <1>2, <1>3, <1>4, <1>6, <1>7, TableStep

\* Others may write any column but sent_at and the provider's id, and a status
\* unless it is PENDING or SENT.
LEMMA OthersWrite ==
    ASSUME DInv, IsTable(otps'), DOMAIN otps' = DOMAIN otps,
           \A id \in DOMAIN otps :
              /\ otps'[id].sent_at = otps[id].sent_at
              /\ otps'[id].provider_message_id = otps[id].provider_message_id
              /\ \/ otps'[id].status = otps[id].status
                 \/ otps'[id].status \notin {"pending", "sent"},
           UNCHANGED <<now, requests, queue, workers, provider, dropped, redeliveries>>
    PROVE  DInv'
<1>1. UNCHANGED <<now, requests, queue, workers, carried, issued, misread, dropped,
                  redeliveries>>
  BY DEF provider
<1>2. TypeOK'
  BY <1>1 DEF DInv, TypeOK, At
<1>3. \A w \in Workers : WorkerShape(w)' /\ OutcomeIsTrue(w)'
  BY <1>1 DEF DInv, WorkerShape, OutcomeIsTrue
<1>4. ASSUME NEW id \in DOMAIN otps', otps'[id].status = "pending"
      PROVE  Awaited(id)'
  <2>1. Awaited(id)
    BY <1>4 DEF DInv
  <2> QED
    BY <1>1, <2>1 DEF Awaited, Works
<1>5. SentWasAnswered'
  BY <1>1 DEF DInv, SentWasAnswered, SaysSent
<1>6. ProviderIdIsOwn'
  BY <1>1 DEF DInv, ProviderIdIsOwn
<1>7. \A msg \in BagToSet(queue') : msg.id \in DOMAIN otps'
  BY <1>1 DEF DInv
<1> QED
  BY <1>2, <1>3, <1>4, <1>5, <1>6, <1>7 DEF DInv

\* The poll's commit of a batch is that: each row of it gets a receipt.
LEMMA PollRows ==
    ASSUME IsTable(otps), now \in Nat, NEW ids \in SUBSET DOMAIN otps, PollCommit(ids)
    PROVE  /\ UNCHANGED <<now, requests, queue, workers, provider, dropped, redeliveries>>
           /\ IsTable(otps') /\ DOMAIN otps' = DOMAIN otps
           /\ \A i \in DOMAIN otps :
                 /\ otps'[i].sent_at = otps[i].sent_at
                 /\ otps'[i].provider_message_id = otps[i].provider_message_id
                 /\ \/ otps'[i].status = otps[i].status
                    \/ otps'[i].status \notin {"pending", "sent"}
<1>1. PICK status \in [ids -> PollStatuses], t \in 0..now :
         otps' = FlushAll(otps, [id \in ids |-> Receipt(status[id], t)])
  BY DEF PollCommit
<1> DEFINE d == [id \in ids |-> Receipt(status[id], t)]
<1>2. ASSUME NEW id \in ids
      PROVE  /\ d[id] \in Dirty
             /\ d[id].sent_at = NULL /\ d[id].provider_message_id = NULL
             /\ d[id].status \notin {"pending", "sent"} /\ d[id].status # NULL
  <2>1. status[id] \in PollStatuses /\ t \in TimeOrNull
    BY <1>1 DEF TimeOrNull
  <2>2. /\ status[id] \in {"delivered", "failed"} /\ status[id] \in Statuses
        /\ status[id] # NULL
    BY <2>1, DispatchAssumption, StatusNames
  <2> QED
    BY <2>1, <2>2, CleanType DEF Receipt, Clean, Dirty
<1>3. DOMAIN d = ids /\ otps' = FlushAll(otps, d)
  BY <1>1
<1> HIDE DEF d
<1>4. /\ IsTable(otps') /\ DOMAIN otps' = DOMAIN otps
      /\ \A i \in DOMAIN otps :
            /\ otps[i] \in Row
            /\ i \in ids => otps'[i] = Flush(otps[i], d[i])
            /\ i \notin ids => otps'[i] = otps[i]
  BY <1>2, <1>3, CommitAllType
<1>5. ASSUME NEW i \in ids
      PROVE  /\ otps'[i].sent_at = otps[i].sent_at
             /\ otps'[i].provider_message_id = otps[i].provider_message_id
             /\ otps'[i].status \notin {"pending", "sent"}
  BY <1>2, <1>4, FlushType DEF Assigned
<1>6. UNCHANGED <<now, requests, queue, workers, provider, dropped, redeliveries>>
  BY DEF PollCommit
<1> QED
  BY <1>4, <1>5, <1>6

\* verify_otp's commit is that as well: a status it assigns is not PENDING or SENT.
LEMMA VerifyRow ==
    ASSUME IsTable(otps), NEW id \in Ids, VerifyCommit(id)
    PROVE  /\ UNCHANGED <<now, requests, queue, workers, provider, dropped, redeliveries>>
           /\ IsTable(otps') /\ DOMAIN otps' = DOMAIN otps
           /\ \A i \in DOMAIN otps :
                 /\ otps'[i].sent_at = otps[i].sent_at
                 /\ otps'[i].provider_message_id = otps[i].provider_message_id
                 /\ \/ otps'[i].status = otps[i].status
                    \/ otps'[i].status \notin {"pending", "sent"}
<1>1. PICK st \in ServiceStatuses :
         otps' = [otps EXCEPT ![id] = Flush(@, [Clean EXCEPT !.status = st])]
  BY DEF VerifyCommit
<1> DEFINE d == [Clean EXCEPT !.status = st]
<1>2. /\ d \in Dirty /\ d.sent_at = NULL /\ d.provider_message_id = NULL
      /\ d.status \notin {"pending", "sent"} /\ d.status # NULL
  <2>1. st \in {"verified", "expired"} /\ st \in Statuses /\ st # NULL
    BY DispatchAssumption, StatusNames
  <2> QED
    BY <2>1, CleanType DEF Clean, Dirty
<1>3. id \in DOMAIN otps /\ otps' = [otps EXCEPT ![id] = Flush(@, d)]
  BY <1>1 DEF VerifyCommit
<1> HIDE DEF d
<1>4. /\ IsTable(otps') /\ DOMAIN otps' = DOMAIN otps
      /\ otps[id] \in Row /\ otps'[id] = Flush(otps[id], d)
      /\ \A i \in DOMAIN otps \ {id} : otps'[i] = otps[i]
  BY <1>2, <1>3, CommitType
<1>5. /\ otps'[id].sent_at = otps[id].sent_at
      /\ otps'[id].provider_message_id = otps[id].provider_message_id
      /\ otps'[id].status \notin {"pending", "sent"}
  BY <1>2, <1>4, FlushType DEF Assigned
<1>6. UNCHANGED <<now, requests, queue, workers, provider, dropped, redeliveries>>
  BY DEF VerifyCommit
<1> QED
  BY <1>4, <1>5, <1>6

\* So neither disturbs what the workers are doing.
LEMMA OutsideSteps ==
    ASSUME DInv,
           \/ \E id \in Ids : VerifyCommit(id)
           \/ \E ids \in SUBSET DOMAIN otps : PollCommit(ids)
    PROVE  DInv'
<1>1. IsTable(otps) /\ now \in Nat
  BY DispatchAssumption DEF DInv, TypeOK
<1> QED
  BY <1>1, VerifyRow, PollRows, OthersWrite

(***************************************************************************)
(* The theorems.                                                           *)
(***************************************************************************)
\* The clock, and a step that changes nothing.
LEMMA ClockStep ==
    ASSUME DInv, Tick \/ UNCHANGED vars
    PROVE  DInv'
<1>1. /\ UNCHANGED <<otps, requests, queue, workers, carried, issued, misread, dropped,
                     redeliveries>>
      /\ now' \in 0..Horizon
  BY DispatchAssumption DEF Tick, vars, table, provider, DInv, TypeOK
<1> QED
  BY <1>1 DEF DInv, TypeOK, At, WorkerShape, OutcomeIsTrue, Awaited, Works,
              SentWasAnswered, SaysSent, ProviderIdIsOwn

\* An empty table and an idle pool of workers satisfy the invariant.
LEMMA InitHolds == Init => DInv
<1> SUFFICES ASSUME Init PROVE DInv
  OBVIOUS
<1>1. IsTable(otps) /\ DOMAIN otps = {}
  BY EmptyType DEF Init
<1>2. IsABag(queue) /\ BagToSet(queue) = {}
  BY EmptyQueue DEF Init
<1>3. \A w \in Workers : workers[w] = Idle
  BY DEF Init
<1>4. Idle \in Worker /\ Idle.pc = "idle" /\ Idle.msg = NULL
  BY CleanType DEF Idle, Worker
<1>5. TypeOK
  BY <1>1, <1>2, <1>3, <1>4, DispatchAssumption DEF Init, TypeOK, At
<1> QED
  BY <1>1, <1>2, <1>3, <1>4, <1>5
  DEF DInv, WorkerShape, OutcomeIsTrue, SentWasAnswered, SaysSent, ProviderIdIsOwn

\* Every step of the API, a worker or its surroundings keeps the invariant.
LEMMA NextKeeps == DInv /\ [Next]_vars => DInv'
<1> SUFFICES ASSUME DInv, [Next]_vars PROVE DInv'
  OBVIOUS
<1>1. ASSUME NEW w \in Workers, Work(w) \/ Crash(w)
      PROVE  DInv'
  BY <1>1, ReserveStep, LoadStep, SendStep, CommitStep, GivingUpSteps, RetryStep,
     AckStep, CrashStep DEF Work
<1>2. ASSUME NEW id \in Ids, Enqueue(id) \/ EnqueueFails(id) \/ Replay(id)
      PROVE  DInv'
  BY <1>2, ApiSteps
<1>3. CASE \/ \E id \in Ids : VerifyCommit(id)
           \/ \E ids \in SUBSET DOMAIN otps : PollCommit(ids)
  BY <1>3, OutsideSteps
<1>4. ASSUME NEW id \in Ids, NEW r \in Recipients, request_otp(id, r)
      PROVE  DInv'
  BY <1>4, RequestStep
<1>5. CASE Tick \/ UNCHANGED vars
  BY <1>5, ClockStep
<1> QED
  BY <1>1, <1>2, <1>3, <1>4, <1>5 DEF Next, Api

\* The inductive invariant of the path from the API to the provider.
THEOREM Invariance == Spec => []DInv
<1>1. Init => DInv
  BY InitHolds
<1>2. DInv /\ [Next]_vars => DInv'
  BY NextKeeps
<1> QED
  BY <1>1, <1>2, PTL DEF Spec

\* Every variable keeps its type.
THEOREM TypeCorrect == Spec => []TypeOK
<1>1. DInv => TypeOK
  BY DEF DInv
<1> QED
  BY <1>1, Invariance, PTL

\* No row is PENDING with nobody left to act on it: whatever workers crash, a
\* message is in the broker or in a worker's hands, or the row was given up.
THEOREM NothingIsForgotten == Spec => []PendingIsAccountedFor
<1>1. DInv => PendingIsAccountedFor
  <2> SUFFICES ASSUME DInv, NEW id \in DOMAIN otps, otps[id].status = "pending"
               PROVE  InFlight(id) \/ id \in dropped
    BY DEF PendingIsAccountedFor
  <2>1. Awaited(id)
    BY DEF DInv
  <2> QED
    BY <2>1 DEF Awaited, Works, InFlight, At, Target
<1> QED
  BY <1>1, Invariance, PTL

\* A row that says SENT was taken by a provider, or turned down by one in an answer
\* the adapter takes for a success.
THEOREM SentIsTrue == Spec => []SentWasAnswered
<1>1. DInv => SentWasAnswered
  BY DEF DInv
<1> QED
  BY <1>1, Invariance, PTL

\* The id a row bears names a message of that row.
THEOREM ProviderIdsAreOwn == Spec => []ProviderIdIsOwn
<1>1. DInv => ProviderIdIsOwn
  BY DEF DInv
<1> QED
  BY <1>1, Invariance, PTL

(***************************************************************************)
(* How often a code may be sent.  Attempts are counted as members of sets: *)
(* every copy of a message in the queue stands for the attempts it and its *)
(* successors may still make, and so does the message of a worker.  A      *)
(* chain of retries starts when a row is enqueued, and one more with every *)
(* crash and every replay; none makes more than MaxRetries + 1 attempts.   *)
(***************************************************************************)
Queued(q, id) ==
    {t \in (Message \X Nat) \X (0..MaxRetries) :
        /\ t[1][1] \in BagToSet(q) /\ t[1][1].id = id
        /\ 1 <= t[1][2] /\ t[1][2] <= q[t[1][1]]
        /\ t[1][1].retries <= t[2]}

\* The attempts a worker in state s may still make for id, itself or by retrying.
FirstLeft(s) == IF s.pc = "retrying" THEN s.msg.retries + 1 ELSE s.msg.retries

Left(s, id) == IF s.pc \in {"reserved", "sending", "retrying"} /\ s.msg.id = id
               THEN FirstLeft(s)..MaxRetries
               ELSE {}

Held(ws, id) == {t \in Workers \X (0..MaxRetries) : t[2] \in Left(ws[t[1]], id)}

Chains(id) == redeliveries + IF id \in DOMAIN otps /\ id \notin requests THEN 1 ELSE 0

Counted(id) == /\ IsFiniteSet(Queued(queue, id)) /\ IsFiniteSet(Held(workers, id))
               /\ carried[id] + Cardinality(Queued(queue, id))
                              + Cardinality(Held(workers, id))
                     <= (MaxRetries + 1) * Chains(id)

CInv == DInv /\ \A id \in Ids : Counted(id)

\* A block of attempts.
LEMMA BlockSize ==
    ASSUME NEW x, NEW a \in Nat, a <= MaxRetries + 1
    PROVE  /\ IsFiniteSet({x} \X (a..MaxRetries))
           /\ Cardinality({x} \X (a..MaxRetries)) = MaxRetries + 1 - a
<1>1. MaxRetries \in Nat
  BY DispatchAssumption
<1>2. /\ IsFiniteSet(a..MaxRetries)
      /\ Cardinality(a..MaxRetries) = MaxRetries + 1 - a
  BY <1>1, FS_Interval
<1>3. IsFiniteSet({x}) /\ Cardinality({x}) = 1
  BY FS_Singleton
<1>4. /\ IsFiniteSet({x} \X (a..MaxRetries))
      /\ Cardinality({x} \X (a..MaxRetries)) = Cardinality({x}) * Cardinality(a..MaxRetries)
  BY <1>2, <1>3, FS_Product
<1> QED
  BY <1>1, <1>2, <1>3, <1>4

\* A set and a block outside it.
LEMMA DisjointUnion ==
    ASSUME NEW S, NEW B, IsFiniteSet(S), IsFiniteSet(B), S \cap B = {}
    PROVE  /\ IsFiniteSet(S \cup B)
           /\ Cardinality(S \cup B) = Cardinality(S) + Cardinality(B)
           /\ Cardinality(S) \in Nat /\ Cardinality(B) \in Nat
<1>1. Cardinality(S) \in Nat /\ Cardinality(B) \in Nat
  BY FS_CardinalityType
<1>2. /\ IsFiniteSet(S \cup B)
      /\ Cardinality(S \cup B) = Cardinality(S) + Cardinality(B) - Cardinality(S \cap B)
  BY FS_Union
<1>3. Cardinality(S \cap B) = 0
  BY FS_EmptySet
<1> QED
  BY <1>1, <1>2, <1>3

\* Publishing a message of id adds the attempts it may make, and none for others.
LEMMA PublishCounts ==
    ASSUME NEW q, IsABag(q), NEW m \in Message, NEW id \in Ids, IsFiniteSet(Queued(q, id))
    PROVE  LET new == Queued(q (+) SetToBag({m}), id)
           IN /\ IsFiniteSet(new)
              /\ Cardinality(new) = Cardinality(Queued(q, id))
                                    + IF m.id = id THEN MaxRetries + 1 - m.retries ELSE 0
<1> DEFINE p == q (+) SetToBag({m})
<1>1. /\ BagToSet(p) = BagToSet(q) \cup {m}
      /\ \A x \in BagToSet(q) \ {m} : p[x] = q[x]
      /\ \A x \in BagToSet(q) : q[x] \in Nat
  BY DEF IsABag, BagToSet, SetToBag, (+)
<1>2. PICK n \in Nat : /\ m \in BagToSet(q) => q[m] = n
                       /\ m \notin BagToSet(q) => n = 0
                       /\ p[m] = n + 1
  <2>1. CASE m \in BagToSet(q)
    <3>1. p[m] = q[m] + 1 /\ q[m] \in Nat
      BY <2>1 DEF IsABag, BagToSet, SetToBag, (+)
    <3> QED
      BY <2>1, <3>1
  <2>2. CASE m \notin BagToSet(q)
    <3>1. p[m] = 1
      BY <2>2 DEF IsABag, BagToSet, SetToBag, (+)
    <3> QED
      BY <2>2, <3>1
  <2> QED
    BY <2>1, <2>2
<1> HIDE DEF p
<1>3. CASE m.id # id
  <2>1. Queued(p, id) = Queued(q, id)
    BY <1>1, <1>3 DEF Queued
  <2> QED
    BY <1>3, <2>1, FS_CardinalityType DEF p
<1>4. CASE m.id = id
  <2> DEFINE B == {<<m, n + 1>>} \X (m.retries..MaxRetries)
  <2>1. MaxRetries \in Nat /\ m.retries \in 0..MaxRetries
    BY DispatchAssumption DEF Message
  <2>2. IsFiniteSet(B) /\ Cardinality(B) = MaxRetries + 1 - m.retries
    <3>1. m.retries \in Nat /\ m.retries <= MaxRetries + 1
      BY <2>1
    <3>2. \A x : /\ IsFiniteSet({x} \X (m.retries..MaxRetries))
                  /\ Cardinality({x} \X (m.retries..MaxRetries)) = MaxRetries + 1 - m.retries
      BY <3>1, BlockSize
    <3> QED
      BY <3>2
  <2>3. Queued(p, id) = Queued(q, id) \cup B
    <3>1. B \subseteq Queued(p, id)
      BY <1>1, <1>2, <1>4, <2>1 DEF Queued
    <3>2. Queued(q, id) \subseteq Queued(p, id)
      BY <1>1, <1>2 DEF Queued
    <3>3. ASSUME NEW t \in Queued(p, id), t \notin Queued(q, id)
          PROVE  t \in B
      <4>1. PICK x \in Message, c \in Nat, k \in 0..MaxRetries :
               /\ t = <<<<x, c>>, k>> /\ x \in BagToSet(p) /\ x.id = id
               /\ 1 <= c /\ c <= p[x] /\ x.retries <= k
        BY <3>3 DEF Queued
      <4>2. ~(x \in BagToSet(q) /\ c <= q[x])
        BY <3>3, <4>1 DEF Queued
      <4>3. x = m /\ c = n + 1
        BY <1>1, <1>2, <4>1, <4>2
      <4> QED
        BY <2>1, <4>1, <4>3
    <3> QED
      BY <3>1, <3>2, <3>3
  <2>4. Queued(q, id) \cap B = {}
    BY <1>1, <1>2 DEF Queued
  <2> HIDE DEF B
  <2>5. /\ IsFiniteSet(Queued(p, id))
        /\ Cardinality(Queued(p, id)) = Cardinality(Queued(q, id)) + Cardinality(B)
    BY <2>2, <2>3, <2>4, DisjointUnion
  <2> QED
    BY <1>4, <2>2, <2>5 DEF p
<1> QED
  BY <1>3, <1>4

\* Handing a message out takes the attempts it may make from the queue.
LEMMA TakeCounts ==
    ASSUME NEW q, IsABag(q), NEW m \in Message, m \in BagToSet(q), NEW id \in Ids,
           IsFiniteSet(Queued(q, id))
    PROVE  LET rest == Queued(q (-) SetToBag({m}), id)
           IN /\ IsFiniteSet(rest)
              /\ Cardinality(Queued(q, id)) = Cardinality(rest)
                                    + IF m.id = id THEN MaxRetries + 1 - m.retries ELSE 0
<1> DEFINE p == q (-) SetToBag({m})
<1>1. IsABag(p) /\ BagToSet(p) \subseteq BagToSet(q)
  BY TakeType
<1>2. \A x \in BagToSet(p) : p[x] \in Nat /\ q[x] \in Nat /\ p[x] <= q[x]
  BY DEF IsABag, BagToSet, SetToBag, (-)
<1>3. p (+) SetToBag({m}) = q
  <2> DEFINE r == p (+) SetToBag({m})
  <2>1. /\ r \in [BagToSet(q) -> Nat] /\ q \in [BagToSet(q) -> Nat]
    <3>1. r \in [BagToSet(p) \cup {m} -> Nat]
      BY <1>1 DEF IsABag, BagToSet, SetToBag, (+)
    <3>2. BagToSet(q) = BagToSet(p) \cup {m}
      BY <1>1, TakeType
    <3> QED
      BY <3>1, <3>2 DEF IsABag, BagToSet
  <2>2. \A x \in BagToSet(q) : r[x] = q[x]
    BY DEF IsABag, BagToSet, SetToBag, (-), (+)
  <2> QED
    BY <2>1, <2>2
<1> HIDE DEF p
<1>4. Queued(p, id) \subseteq Queued(q, id)
  BY <1>1, <1>2 DEF Queued
<1>5. IsFiniteSet(Queued(p, id))
  BY <1>4, FS_Subset
<1>6. Cardinality(Queued(p (+) SetToBag({m}), id))
         = Cardinality(Queued(p, id)) + IF m.id = id THEN MaxRetries + 1 - m.retries ELSE 0
  BY <1>1, <1>5, PublishCounts
<1> QED
  BY <1>3, <1>5, <1>6 DEF p

\* How many attempts a worker in state s has left for id.
LeftCount(s, id) == IF s.pc \in {"reserved", "sending", "retrying"} /\ s.msg.id = id
                    THEN MaxRetries + 1 - FirstLeft(s)
                    ELSE 0

\* They are finitely many, and that many.
LEMMA LeftSize ==
    ASSUME NEW w, NEW s \in Worker, s.pc # "idle" => s.msg \in Message, NEW id \in Ids
    PROVE  /\ IsFiniteSet({w} \X Left(s, id))
           /\ Cardinality({w} \X Left(s, id)) = LeftCount(s, id)
           /\ LeftCount(s, id) \in Nat
<1>1. CASE s.pc \in {"reserved", "sending", "retrying"} /\ s.msg.id = id
  <2>1. /\ FirstLeft(s) \in Nat /\ FirstLeft(s) <= MaxRetries + 1 /\ MaxRetries \in Nat
        /\ Left(s, id) = FirstLeft(s)..MaxRetries
        /\ LeftCount(s, id) = MaxRetries + 1 - FirstLeft(s)
    BY <1>1, DispatchAssumption DEF FirstLeft, Message, Left, LeftCount
  <2>2. /\ IsFiniteSet({w} \X (FirstLeft(s)..MaxRetries))
        /\ Cardinality({w} \X (FirstLeft(s)..MaxRetries)) = MaxRetries + 1 - FirstLeft(s)
    BY <2>1, BlockSize
  <2> QED
    BY <2>1, <2>2
<1>2. CASE ~(s.pc \in {"reserved", "sending", "retrying"} /\ s.msg.id = id)
  <2>1. {w} \X Left(s, id) = {} /\ LeftCount(s, id) = 0
    BY <1>2 DEF Left, LeftCount
  <2> QED
    BY <2>1, FS_EmptySet
<1> QED
  BY <1>1, <1>2

\* A worker that goes from one state to another changes its own count.
LEMMA HeldCounts ==
    ASSUME NEW ws \in [Workers -> Worker], NEW w \in Workers, NEW new \in Worker,
           ws[w].pc # "idle" => ws[w].msg \in Message,
           new.pc # "idle" => new.msg \in Message,
           NEW id \in Ids, IsFiniteSet(Held(ws, id))
    PROVE  LET after == Held([ws EXCEPT ![w] = new], id)
           IN /\ IsFiniteSet(after)
              /\ Cardinality(after) + LeftCount(ws[w], id)
                    = Cardinality(Held(ws, id)) + LeftCount(new, id)
<1> DEFINE after == Held([ws EXCEPT ![w] = new], id)
           rest == {t \in Held(ws, id) : t[1] # w}
<1>1. /\ IsFiniteSet({w} \X Left(ws[w], id)) /\ IsFiniteSet({w} \X Left(new, id))
      /\ Cardinality({w} \X Left(ws[w], id)) = LeftCount(ws[w], id)
      /\ Cardinality({w} \X Left(new, id)) = LeftCount(new, id)
  BY ZenonT(60), LeftSize
<1>2. \A s \in Worker : (s.pc # "idle" => s.msg \in Message)
                           => Left(s, id) \subseteq 0..MaxRetries
  BY DispatchAssumption DEF Left, FirstLeft, Message
<1>3. Held(ws, id) = rest \cup ({w} \X Left(ws[w], id))
  BY <1>2 DEF Held
<1>4. after = rest \cup ({w} \X Left(new, id))
  <2>1. \A v \in Workers : v # w => [ws EXCEPT ![w] = new][v] = ws[v]
    OBVIOUS
  <2>2. [ws EXCEPT ![w] = new][w] = new
    OBVIOUS
  <2>3. Left(new, id) \subseteq 0..MaxRetries
    BY <1>2
  <2> QED
    BY <2>1, <2>2, <2>3 DEF Held
<1>5. rest \cap ({w} \X Left(ws[w], id)) = {} /\ rest \cap ({w} \X Left(new, id)) = {}
  OBVIOUS
<1>6. IsFiniteSet(rest)
  BY FS_Subset
<1> HIDE DEF rest, after
<1>7. /\ Cardinality(Held(ws, id)) = Cardinality(rest) + LeftCount(ws[w], id)
      /\ IsFiniteSet(after)
      /\ Cardinality(after) = Cardinality(rest) + LeftCount(new, id)
      /\ Cardinality(rest) \in Nat
  BY <1>1, <1>3, <1>4, <1>5, <1>6, DisjointUnion
<1>8. LeftCount(ws[w], id) \in Nat /\ LeftCount(new, id) \in Nat
  BY LeftSize
<1> QED
  BY <1>7, <1>8 DEF after

Total(id) == carried[id] + Cardinality(Queued(queue, id)) + Cardinality(Held(workers, id))

\* The budget grows with the chains.
LEMMA Budget ==
    ASSUME NEW n \in Nat, NEW a \in Nat, NEW b \in Nat, a <= b
    PROVE  n * a <= n * b /\ n * (a + 1) = n * a + n /\ n * a \in Nat
<1>1. PICK d \in Nat : b = a + d
  <2>1. b - a \in Nat /\ b = a + (b - a)
    OBVIOUS
  <2> QED
    BY <2>1
<1>2. n * (a + d) = n * a + n * d /\ n * d \in Nat /\ n * a \in Nat
  OBVIOUS
<1>3. n * a <= n * a + n * d
  BY <1>2
<1>4. n * (a + 1) = n * a + n
  OBVIOUS
<1> QED
  BY <1>1, <1>2, <1>3, <1>4

\* What a step has to show: what is added to the total is paid by a new chain.
LEMMA Recount ==
    ASSUME NEW id \in Ids, Counted(id), DInv, DInv', Chains(id)' >= Chains(id),
           IsFiniteSet(Queued(queue, id)'), IsFiniteSet(Held(workers, id)'),
           \/ Total(id)' <= Total(id)
           \/ /\ Total(id)' <= Total(id) + MaxRetries + 1
              /\ Chains(id)' >= Chains(id) + 1
    PROVE  Counted(id)'
<1>1. Chains(id) \in Nat /\ Chains(id)' \in Nat /\ MaxRetries + 1 \in Nat
  <2>1. redeliveries \in Nat /\ redeliveries' \in Nat /\ MaxRetries \in Nat
    BY DispatchAssumption DEF DInv, TypeOK
  <2>2. /\ Chains(id) = redeliveries \/ Chains(id) = redeliveries + 1
        /\ Chains(id)' = redeliveries' \/ Chains(id)' = redeliveries' + 1
    BY <2>1 DEF Chains
  <2> QED
    BY <2>1, <2>2
<1>2. Total(id) \in Nat /\ Total(id)' \in Nat
  <2>1. carried[id] \in Nat /\ carried'[id] \in Nat
    BY DEF DInv, TypeOK
  <2>2. /\ Cardinality(Queued(queue, id)) \in Nat /\ Cardinality(Held(workers, id)) \in Nat
        /\ Cardinality(Queued(queue', id)) \in Nat
        /\ Cardinality(Held(workers', id)) \in Nat
    <3>1. /\ IsFiniteSet(Queued(queue, id)) /\ IsFiniteSet(Held(workers, id))
          /\ IsFiniteSet(Queued(queue', id)) /\ IsFiniteSet(Held(workers', id))
      BY DEF Counted
    <3> QED
      BY <3>1, FS_CardinalityType
  <2> QED
    BY <2>1, <2>2 DEF Total
<1> DEFINE N == MaxRetries + 1
<1>3. Total(id) <= N * Chains(id)
  BY DEF Counted, Total
<1>4. N * Chains(id) <= N * Chains(id)' /\ N * Chains(id) \in Nat /\ N * Chains(id)' \in Nat
  BY <1>1, Budget
<1>5. Chains(id)' >= Chains(id) + 1 => N * Chains(id) + N <= N * Chains(id)'
  <2> SUFFICES ASSUME Chains(id)' >= Chains(id) + 1
               PROVE  N * Chains(id) + N <= N * Chains(id)'
    OBVIOUS
  <2>1. N * (Chains(id) + 1) <= N * Chains(id)'
    BY <1>1, Budget
  <2>2. N * (Chains(id) + 1) = N * Chains(id) + N
    BY <1>1, Budget
  <2> QED
    BY <2>1, <2>2
<1>6. Total(id)' <= N * Chains(id)'
  <2>1. PICK x, y, n : x = N * Chains(id) /\ y = N * Chains(id)' /\ n = N
    OBVIOUS
  <2>2. /\ x \in Nat /\ y \in Nat /\ n \in Nat /\ n = MaxRetries + 1 /\ MaxRetries \in Nat
        /\ Total(id) <= x /\ x <= y
        /\ Chains(id)' >= Chains(id) + 1 => x + n <= y
    BY <1>1, <1>3, <1>4, <1>5, <2>1, DispatchAssumption
  <2>3. CASE Total(id)' <= Total(id)
    BY <1>2, <2>2, <2>1, <2>3
  <2>4. CASE Total(id)' <= Total(id) + MaxRetries + 1 /\ Chains(id)' >= Chains(id) + 1
    <3>1. x + n <= y /\ Total(id)' <= Total(id) + n
      BY <1>2, <2>2, <2>4
    <3>2. Total(id)' <= y
      BY <1>2, <2>2, <3>1
    <3> QED
      BY <2>1, <3>2
  <2> QED
    BY <2>3, <2>4
<1> QED
  BY <1>6 DEF Counted, Total

\* What every step finds.
LEMMA Counting ==
    ASSUME CInv, NEW id \in Ids
    PROVE  /\ DInv /\ Counted(id)
           /\ IsFiniteSet(Queued(queue, id)) /\ IsFiniteSet(Held(workers, id))
           /\ Cardinality(Queued(queue, id)) \in Nat
           /\ Cardinality(Held(workers, id)) \in Nat
           /\ carried[id] \in Nat /\ IsABag(queue) /\ Chains(id) \in Nat
           /\ MaxRetries \in Nat
<1>1. DInv /\ Counted(id)
  BY DEF CInv
<1>2. IsFiniteSet(Queued(queue, id)) /\ IsFiniteSet(Held(workers, id))
  BY <1>1 DEF Counted
<1>3. carried[id] \in Nat /\ IsABag(queue) /\ Chains(id) \in Nat
  BY <1>1, DispatchAssumption DEF DInv, TypeOK, Chains
<1> QED
  BY <1>1, <1>2, <1>3, FS_CardinalityType, DispatchAssumption

\* Steps that move no message and send nothing: requests, commits of others, the
\* clock, and an enqueue the broker refuses.
LEMMA QuietCounts ==
    ASSUME CInv, DInv', UNCHANGED <<queue, workers, carried>>,
           NEW id \in Ids, Chains(id)' >= Chains(id)
    PROVE  Counted(id)'
<1>1. Queued(queue, id)' = Queued(queue, id) /\ Held(workers, id)' = Held(workers, id)
  OBVIOUS
<1>2. Total(id)' = Total(id) /\ Total(id) \in Nat
  BY Counting DEF Total
<1> QED
  BY <1>1, <1>2, Counting, Recount

\* Publishing the first attempt of a chain.
LEMMA ChainCounts ==
    ASSUME CInv, DInv', NEW i \in Ids, Enqueue(i) \/ Replay(i), NEW id \in Ids
    PROVE  Counted(id)'
<1> DEFINE m == [id |-> i, retries |-> 0]
<1>1. /\ queue' = queue (+) SetToBag({m}) /\ UNCHANGED <<workers, carried, otps>>
      /\ m \in Message /\ m.id = i /\ m.retries = 0
  BY DispatchAssumption DEF Enqueue, Replay, Publish, Message, table, provider
<1>2. Chains(id)' >= Chains(id) /\ (id = i => Chains(id)' = Chains(id) + 1)
  <2>1. redeliveries \in Nat /\ requests \subseteq DOMAIN otps
    BY Counting, DispatchAssumption DEF DInv, TypeOK
  <2>2. CASE Enqueue(i)
    BY <2>1, <2>2 DEF Enqueue, Chains, table
  <2>3. CASE Replay(i)
    BY <2>1, <2>3 DEF Replay, Chains, table
  <2> QED
    BY <2>2, <2>3
<1> HIDE DEF m
<1>3. /\ IsFiniteSet(Queued(queue', id))
      /\ Cardinality(Queued(queue', id)) = Cardinality(Queued(queue, id))
                                 + IF m.id = id THEN MaxRetries + 1 - m.retries ELSE 0
  BY <1>1, Counting, PublishCounts
<1>4. Total(id)' = Total(id) + IF i = id THEN MaxRetries + 1 ELSE 0
  BY <1>1, <1>3, Counting DEF Total
<1>5. Total(id) \in Nat
  BY Counting DEF Total
<1> QED
  BY <1>1, <1>2, <1>3, <1>4, <1>5, Counting, Recount

\* A worker goes on to state new: what it sends is paid by the attempt it uses up.
LEMMA WorkerCounts ==
    ASSUME CInv, DInv', NEW w \in Workers, NEW new \in Worker,
           workers' = [workers EXCEPT ![w] = new],
           UNCHANGED <<requests, queue, redeliveries>>, DOMAIN otps' = DOMAIN otps,
           NEW id \in Ids,
           carried'[id] + LeftCount(new, id) <= carried[id] + LeftCount(workers[w], id)
    PROVE  Counted(id)'
<1>1. /\ workers \in [Workers -> Worker]
      /\ workers[w].pc # "idle" => workers[w].msg \in Message
      /\ new.pc # "idle" => new.msg \in Message
  <2>1. WorkerShape(w) /\ WorkerShape(w)' /\ workers \in [Workers -> Worker]
    BY DEF CInv, DInv, TypeOK
  <2> QED
    BY <2>1 DEF WorkerShape
<1>2. /\ IsFiniteSet(Held([workers EXCEPT ![w] = new], id))
      /\ Cardinality(Held([workers EXCEPT ![w] = new], id)) + LeftCount(workers[w], id)
            = Cardinality(Held(workers, id)) + LeftCount(new, id)
  BY <1>1, Counting, HeldCounts
<1>3. /\ IsFiniteSet(Held(workers, id)')
      /\ Cardinality(Held(workers, id)') + LeftCount(workers[w], id)
            = Cardinality(Held(workers, id)) + LeftCount(new, id)
      /\ Cardinality(Held(workers, id)') \in Nat
  BY <1>2, FS_CardinalityType
<1>4. LeftCount(workers[w], id) \in Nat /\ LeftCount(new, id) \in Nat
  BY <1>1, LeftSize
<1>5. Queued(queue, id)' = Queued(queue, id) /\ Chains(id)' = Chains(id)
  BY DEF Chains
<1>6. carried'[id] \in Nat
  BY DEF DInv, TypeOK
<1>7. Total(id)' <= Total(id)
  BY <1>3, <1>4, <1>5, <1>6, Counting DEF Total
<1>8. /\ IsFiniteSet(Queued(queue, id)') /\ Chains(id)' >= Chains(id)
      /\ Counted(id) /\ DInv
  BY <1>5, Counting
<1> QED
  BY <1>3, <1>7, <1>8, Recount

\* Steps that use up, keep or give up what the worker has left, one by one.
LEMMA WorkCounts ==
    ASSUME CInv, DInv', NEW w \in Workers, NEW id \in Ids,
           \/ Load(w) \/ Send(w) \/ Commit(w) \/ Ack(w)
           \/ LoadFails(w) \/ CommitFails(w) \/ RetryFails(w) \/ GiveUp(w)
    PROVE  Counted(id)'
<1>1. /\ workers[w] \in Worker /\ workers \in [Workers -> Worker]
      /\ workers[w].pc # "idle" => workers[w].msg \in Message /\ Target(w) \in Ids
      /\ carried \in [Ids -> Nat] /\ carried' \in [Ids -> Nat]
      /\ LeftCount(workers[w], id) \in Nat /\ MaxRetries \in Nat
  <2>1. /\ WorkerShape(w) /\ workers[w] \in Worker /\ workers \in [Workers -> Worker]
        /\ carried \in [Ids -> Nat] /\ carried' \in [Ids -> Nat]
    BY DEF CInv, DInv, TypeOK
  <2>2. workers[w].pc # "idle" => workers[w].msg \in Message
    BY <2>1 DEF WorkerShape
  <2>3. LeftCount(workers[w], id) \in Nat
    BY <2>1, <2>2, LeftSize
  <2> QED
    BY <2>1, <2>2, <2>3, DispatchAssumption DEF Message, Target
<1>2. CASE Load(w)
  <2>1. PICK pc \in {"sending", "acking"} : Goto(w, pc)
    BY <1>2 DEF Load
  <2> DEFINE new == [workers[w] EXCEPT !.pc = pc]
  <2>2. /\ workers' = [workers EXCEPT ![w] = new] /\ new \in Worker
        /\ workers[w].pc = "reserved" /\ new.pc = pc /\ new.msg = workers[w].msg
        /\ UNCHANGED <<otps, requests, queue, redeliveries, carried>>
    BY <1>1, <1>2, <2>1 DEF Load, Goto, At, Worker, table, provider
  <2> HIDE DEF new
  <2>3. LeftCount(new, id) <= LeftCount(workers[w], id) /\ LeftCount(new, id) \in Nat
    BY <1>1, <2>2 DEF LeftCount, FirstLeft
  <2>4. carried'[id] + LeftCount(new, id) <= carried[id] + LeftCount(workers[w], id)
    BY <1>1, <2>2, <2>3
  <2> QED
    BY <2>2, <2>4, WorkerCounts
<1>3. CASE \/ Commit(w) \/ Ack(w)
           \/ LoadFails(w) \/ CommitFails(w) \/ RetryFails(w) \/ GiveUp(w)
  <2>1. PICK new \in Worker : /\ workers' = [workers EXCEPT ![w] = new]
                              /\ new.pc \in {"idle", "acking"}
    <3>1. CASE Ack(w)
      <4>1. Idle \in Worker /\ Idle.pc = "idle"
        BY CleanType DEF Idle, Worker
      <4> QED
        BY <3>1, <4>1 DEF Ack
    <3>2. CASE \/ Commit(w)
               \/ LoadFails(w) \/ CommitFails(w) \/ RetryFails(w) \/ GiveUp(w)
      <4>1. Goto(w, "acking")
        BY <3>2 DEF Commit, LoadFails, CommitFails, RetryFails, GiveUp, Fails
      <4>2. [workers[w] EXCEPT !.pc = "acking"] \in Worker
        BY <1>1 DEF Worker
      <4>3. [workers[w] EXCEPT !.pc = "acking"].pc = "acking"
        BY <1>1 DEF Worker
      <4> QED
        BY <4>1, <4>2, <4>3 DEF Goto
    <3> QED
      BY <1>3, <3>1, <3>2
  <2>2. UNCHANGED <<queue, requests, redeliveries, carried>> /\ LeftCount(new, id) = 0
    BY <1>3, <2>1
       DEF Commit, LoadFails, CommitFails, RetryFails, GiveUp, Ack, table, provider,
           LeftCount
  <2>3. DOMAIN otps' = DOMAIN otps
    BY <1>3 DEF Commit, LoadFails, CommitFails, RetryFails, GiveUp, Ack, table
  <2>4. carried'[id] + LeftCount(new, id) <= carried[id] + LeftCount(workers[w], id)
    BY <1>1, <2>2
  <2> QED
    BY <2>1, <2>2, <2>3, <2>4, WorkerCounts
<1>4. CASE Send(w)
  <2>1. /\ workers[w].pc = "sending"
        /\ UNCHANGED <<otps, requests, queue, redeliveries>>
        /\ carried' = [carried EXCEPT ![Target(w)] = @ + 1] \/ carried' = carried
    BY <1>4 DEF Send, At, Carry, table
  <2>2. PICK new \in Worker : /\ workers' = [workers EXCEPT ![w] = new]
                              /\ new.pc \in {"flushing", "retrying", "acking"}
                              /\ new.msg = workers[w].msg
    <3>1. ASSUME NEW pc \in {"retrying", "acking"}, Goto(w, pc)
          PROVE  \E new \in Worker : /\ workers' = [workers EXCEPT ![w] = new]
                                     /\ new.pc = pc /\ new.msg = workers[w].msg
      <4> DEFINE new == [workers[w] EXCEPT !.pc = pc]
      <4>1. new \in Worker /\ new.pc = pc /\ new.msg = workers[w].msg
        BY <1>1 DEF Worker
      <4> QED
        BY <3>1, <4>1 DEF Goto
    <3>2. ASSUME NEW d, Decide(w, d)
          PROVE  \E new \in Worker : /\ workers' = [workers EXCEPT ![w] = new]
                                     /\ new.pc = "flushing" /\ new.msg = workers[w].msg
      <4> DEFINE new == [workers[w] EXCEPT !.pc = "flushing", !.dirty = d]
      <4>1. workers' = [workers EXCEPT ![w] = new]
        BY <1>1, <3>2 DEF Decide, Worker
      <4>2. workers'[w] = new /\ workers'[w] \in Worker
        BY <1>1, <4>1 DEF DInv, TypeOK
      <4>3. new.pc = "flushing" /\ new.msg = workers[w].msg
        BY <1>1 DEF Worker
      <4> QED
        BY <4>1, <4>2, <4>3
    <3>3. PICK channel, answer : \/ Accepted(w, channel, answer)
                                 \/ Refused(w, channel, answer)
                                 \/ Transient(w, channel, answer)
                                 \/ Raises(w, channel, answer)
      BY <1>4 DEF Send
    <3>4. CASE Accepted(w, channel, answer) \/ Refused(w, channel, answer)
      <4>1. \E d : Decide(w, d)
        BY <3>4 DEF Accepted, Refused
      <4> QED
        BY <3>2, <4>1
    <3>5. CASE Transient(w, channel, answer) \/ Raises(w, channel, answer)
      <4>1. \E pc \in {"retrying", "acking"} : Goto(w, pc)
        BY <3>5 DEF Transient, Raises, Fails
      <4> QED
        BY <3>1, <4>1
    <3> QED
      BY <3>3, <3>4, <3>5
  <2>3. /\ workers[w].msg.id # id => carried'[id] = carried[id]
        /\ carried'[id] <= carried[id] + 1
    BY <1>1, <2>1 DEF Target
  <2>4. workers[w].msg.retries \in 0..MaxRetries
    BY <1>1, <2>1 DEF Message
  <2>5. CASE workers[w].msg.id # id
    <3>1. LeftCount(new, id) = 0 /\ LeftCount(workers[w], id) = 0
      BY <2>2, <2>5 DEF LeftCount
    <3>2. carried'[id] + LeftCount(new, id) <= carried[id] + LeftCount(workers[w], id)
      BY <1>1, <2>3, <2>5, <3>1
    <3> QED
      BY <2>1, <2>2, <3>2, WorkerCounts
  <2>6. CASE workers[w].msg.id = id
    <3>1. /\ LeftCount(workers[w], id) = MaxRetries + 1 - workers[w].msg.retries
          /\ LeftCount(new, id) <= MaxRetries - workers[w].msg.retries
          /\ LeftCount(new, id) \in Nat
      BY <1>1, <2>1, <2>2, <2>4, <2>6 DEF LeftCount, FirstLeft
    <3>2. carried'[id] + LeftCount(new, id) <= carried[id] + LeftCount(workers[w], id)
      BY <1>1, <2>3, <2>4, <3>1
    <3> QED
      BY <2>1, <2>2, <3>2, WorkerCounts
  <2> QED
    BY <2>5, <2>6
<1> QED
  BY <1>2, <1>3, <1>4

\* A message goes from the queue to a worker, and its attempts with it.
LEMMA ReserveCounts ==
    ASSUME CInv, DInv', NEW w \in Workers, Reserve(w), NEW id \in Ids
    PROVE  Counted(id)'
<1>1. PICK m \in BagToSet(queue) :
         /\ workers' = [workers EXCEPT ![w] = [Idle EXCEPT !.pc = "reserved", !.msg = m]]
         /\ queue' = queue (-) SetToBag({m})
  BY DEF Reserve
<1> DEFINE new == [Idle EXCEPT !.pc = "reserved", !.msg = m]
<1>2. /\ workers[w] \in Worker /\ workers \in [Workers -> Worker] /\ m \in Message
      /\ workers[w].pc = "idle" /\ IsABag(queue) /\ MaxRetries \in Nat
      /\ UNCHANGED <<otps, requests, redeliveries, carried>>
  BY DispatchAssumption DEF CInv, DInv, TypeOK, Reserve, At, table, provider
<1>3. new \in Worker /\ new.pc = "reserved" /\ new.msg = m
  BY <1>2, CleanType DEF Idle, Worker
<1>4. workers' = [workers EXCEPT ![w] = new]
  BY <1>1
<1> HIDE DEF new
<1>5. LeftCount(workers[w], id) = 0
  BY <1>2 DEF LeftCount
<1>6. LeftCount(new, id) = IF m.id = id THEN MaxRetries + 1 - m.retries ELSE 0
  BY <1>3 DEF LeftCount, FirstLeft
<1>7. /\ IsFiniteSet(Queued(queue', id))
      /\ Cardinality(Queued(queue, id)) = Cardinality(Queued(queue', id))
                                 + IF m.id = id THEN MaxRetries + 1 - m.retries ELSE 0
      /\ Cardinality(Queued(queue', id)) \in Nat
  <2>1. IsFiniteSet(Queued(queue, id))
    BY Counting
  <2>2. /\ IsFiniteSet(Queued(queue (-) SetToBag({m}), id))
        /\ Cardinality(Queued(queue, id)) = Cardinality(Queued(queue (-) SetToBag({m}), id))
                                 + IF m.id = id THEN MaxRetries + 1 - m.retries ELSE 0
    BY <1>1, <1>2, <2>1, TakeCounts
  <2> QED
    BY <1>1, <2>2, FS_CardinalityType
<1>8. /\ IsFiniteSet(Held(workers', id))
      /\ Cardinality(Held(workers', id)) + LeftCount(workers[w], id)
            = Cardinality(Held(workers, id)) + LeftCount(new, id)
      /\ Cardinality(Held(workers', id)) \in Nat
  <2>1. IsFiniteSet(Held(workers, id))
    BY Counting
  <2>2. /\ IsFiniteSet(Held([workers EXCEPT ![w] = new], id))
        /\ Cardinality(Held([workers EXCEPT ![w] = new], id)) + LeftCount(workers[w], id)
              = Cardinality(Held(workers, id)) + LeftCount(new, id)
    BY <1>2, <1>3, <2>1, HeldCounts
  <2> QED
    BY <1>4, <2>2, FS_CardinalityType
<1>9. m.retries \in 0..MaxRetries
  BY <1>2 DEF Message
<1>10. Total(id)' = Total(id) /\ Total(id) \in Nat
  BY <1>2, <1>5, <1>6, <1>7, <1>8, <1>9, Counting DEF Total
<1>11. Chains(id)' = Chains(id)
  BY <1>2 DEF Chains
<1>12. Chains(id)' >= Chains(id) /\ Total(id)' <= Total(id)
  BY <1>10, <1>11, Counting
<1> QED
  BY <1>7, <1>8, <1>12, Counting, Recount

\* A worker publishes a message and holds none of its attempts any more.
LEMMA HandBackCounts ==
    ASSUME CInv, DInv', NEW w \in Workers, NEW new \in Worker, NEW m \in Message,
           workers[w].pc # "idle", new.pc \in {"idle", "acking"},
           new.pc # "idle" => new.msg \in Message,
           workers' = [workers EXCEPT ![w] = new], Publish(m), m.id = Target(w),
           UNCHANGED <<otps, requests, carried>>,
           NEW id \in Ids,
           \/ /\ redeliveries' = redeliveries
              /\ workers[w].pc = "retrying" /\ m.retries = workers[w].msg.retries + 1
           \/ redeliveries' = redeliveries + 1
    PROVE  Counted(id)'
<1>1. /\ workers[w] \in Worker /\ workers \in [Workers -> Worker]
      /\ workers[w].msg \in Message /\ IsABag(queue) /\ MaxRetries \in Nat
      /\ redeliveries \in Nat
  BY DispatchAssumption DEF CInv, DInv, TypeOK, WorkerShape
<1>2. LeftCount(new, id) = 0
  BY DEF LeftCount
<1>3. /\ IsFiniteSet(Queued(queue', id))
      /\ Cardinality(Queued(queue', id)) = Cardinality(Queued(queue, id))
                                 + IF m.id = id THEN MaxRetries + 1 - m.retries ELSE 0
  <2>1. IsFiniteSet(Queued(queue, id))
    BY Counting
  <2> QED
    BY <1>1, <2>1, PublishCounts DEF Publish
<1>4. /\ IsFiniteSet(Held(workers', id))
      /\ Cardinality(Held(workers', id)) + LeftCount(workers[w], id)
            = Cardinality(Held(workers, id)) + LeftCount(new, id)
      /\ Cardinality(Held(workers', id)) \in Nat
  <2>1. IsFiniteSet(Held(workers, id))
    BY Counting
  <2>2. /\ IsFiniteSet(Held([workers EXCEPT ![w] = new], id))
        /\ Cardinality(Held([workers EXCEPT ![w] = new], id)) + LeftCount(workers[w], id)
              = Cardinality(Held(workers, id)) + LeftCount(new, id)
    BY <1>1, <2>1, HeldCounts
  <2> QED
    BY <2>2, FS_CardinalityType
<1>5. LeftCount(workers[w], id) \in Nat
  BY <1>1, LeftSize
<1>6. m.retries \in 0..MaxRetries /\ workers[w].msg.id = m.id
  BY DEF Message, Target
<1>7. Total(id) \in Nat /\ Counted(id) /\ DInv
  BY Counting DEF Total
<1>8. CASE redeliveries' = redeliveries + 1
  <2>1. Chains(id)' = Chains(id) + 1 /\ Chains(id) \in Nat
    <3>1. \/ Chains(id) = redeliveries /\ Chains(id)' = redeliveries'
          \/ Chains(id) = redeliveries + 1 /\ Chains(id)' = redeliveries' + 1
      BY <1>1, <1>8 DEF Chains
    <3> QED
      BY <1>1, <1>8, <3>1
  <2>2. Total(id)' <= Total(id) + MaxRetries + 1
    BY <1>1, <1>2, <1>3, <1>4, <1>5, <1>6, Counting DEF Total
  <2>3. Chains(id)' >= Chains(id) + 1 /\ Chains(id)' >= Chains(id)
    BY <2>1
  <2> QED
    BY <1>3, <1>4, <1>7, <2>2, <2>3, Recount
<1>9. CASE /\ redeliveries' = redeliveries
           /\ workers[w].pc = "retrying" /\ m.retries = workers[w].msg.retries + 1
  <2>1. Chains(id)' = Chains(id) /\ Chains(id) \in Nat
    BY <1>9, Counting DEF Chains
  <2>2. LeftCount(workers[w], id) = IF m.id = id THEN MaxRetries + 1 - m.retries ELSE 0
    BY <1>6, <1>9 DEF LeftCount, FirstLeft
  <2>3. Total(id)' <= Total(id)
    BY <1>1, <1>2, <1>3, <1>4, <1>6, <2>2, Counting DEF Total
  <2>4. Chains(id)' >= Chains(id)
    BY <2>1
  <2> QED
    BY <1>3, <1>4, <1>7, <2>3, <2>4, Recount
<1> QED
  BY <1>8, <1>9

\* A retry passes the rest of its chain on; a crash starts it anew and counts as one
\* redelivery.
LEMMA RetryAndCrashCount ==
    ASSUME CInv, DInv', NEW w \in Workers, NEW id \in Ids, Retry(w) \/ Crash(w)
    PROVE  Counted(id)'
<1>1. /\ workers[w].pc # "idle" /\ workers[w] \in Worker /\ workers[w].msg \in Message
      /\ UNCHANGED <<otps, requests, carried>>
  BY DEF CInv, DInv, TypeOK, WorkerShape, Retry, Crash, At, table, provider
<1>2. CASE Retry(w)
  <2> DEFINE new == [workers[w] EXCEPT !.pc = "acking"]
             m == [id |-> Target(w), retries |-> workers[w].msg.retries + 1]
  <2>1. /\ workers' = [workers EXCEPT ![w] = new] /\ Publish(m)
        /\ redeliveries' = redeliveries /\ workers[w].pc = "retrying"
        /\ workers[w].msg.retries < MaxRetries
    BY <1>2 DEF Retry, Goto, At
  <2>2. /\ new \in Worker /\ new.pc = "acking" /\ new.msg \in Message
        /\ m \in Message /\ m.id = Target(w) /\ m.retries = workers[w].msg.retries + 1
    BY <1>1, <2>1, DispatchAssumption DEF Worker, Message, Target
  <2> HIDE DEF new, m
  <2> QED
    BY <1>1, <2>1, <2>2, HandBackCounts
<1>3. CASE Crash(w)
  <2>1. Idle \in Worker /\ Idle.pc = "idle"
    BY CleanType DEF Idle, Worker
  <2>2. /\ workers' = [workers EXCEPT ![w] = Idle] /\ Publish(workers[w].msg)
        /\ redeliveries' = redeliveries + 1 /\ workers[w].msg.id = Target(w)
    BY <1>3 DEF Crash, Target
  <2> QED
    BY <1>1, <2>1, <2>2, HandBackCounts
<1> QED
  BY <1>2, <1>3

\* Nothing is queued, held or carried in the beginning.
LEMMA InitCounts == Init => CInv
<1> SUFFICES ASSUME Init, NEW id \in Ids PROVE Counted(id)
  BY InitHolds DEF CInv
<1>1. Queued(queue, id) = {} /\ Held(workers, id) = {}
  BY EmptyQueue DEF Init, Queued, Held, Left, Idle
<1>2. carried[id] = 0 /\ redeliveries = 0 /\ DOMAIN otps = {}
  BY EmptyType DEF Init
<1>3. Chains(id) = 0
  BY <1>2 DEF Chains
<1>4. MaxRetries \in Nat
  BY DispatchAssumption
<1>5. /\ IsFiniteSet(Queued(queue, id)) /\ IsFiniteSet(Held(workers, id))
      /\ Cardinality(Queued(queue, id)) = 0 /\ Cardinality(Held(workers, id)) = 0
  BY <1>1, FS_EmptySet
<1> QED
  BY <1>2, <1>3, <1>4, <1>5 DEF Counted

\* A row that is about to be created has no chain yet, and gets one when its
\* message is published or given up.
LEMMA ChainsOnlyGrow ==
    ASSUME CInv, NEW id \in Ids,
           \/ \E i \in Ids : \/ EnqueueFails(i) \/ VerifyCommit(i)
                             \/ \E r \in Recipients : request_otp(i, r)
           \/ \E ids \in SUBSET DOMAIN otps : PollCommit(ids)
           \/ Tick
           \/ UNCHANGED vars
    PROVE  Chains(id)' >= Chains(id) /\ UNCHANGED <<queue, workers, carried>>
<1>1. /\ UNCHANGED <<queue, workers, carried, redeliveries>>
      /\ DOMAIN otps \subseteq DOMAIN otps'
      /\ id \in requests' => id \in requests \/ id \notin DOMAIN otps
  <2>1. CASE \/ \E i \in Ids : EnqueueFails(i) \/ VerifyCommit(i)
             \/ \E ids \in SUBSET DOMAIN otps : PollCommit(ids)
    BY <2>1 DEF EnqueueFails, VerifyCommit, PollCommit, FlushAll, table, provider
  <2>2. CASE \E i \in Ids, r \in Recipients : request_otp(i, r)
    <3>1. PICK i \in Ids : /\ i \in FreshIds(otps) /\ requests' = requests \cup {i}
                           /\ \E row : otps' = Insert(otps, i, row)
      BY <2>2 DEF request_otp
    <3>2. DOMAIN otps' = DOMAIN otps \cup {i} /\ i \notin DOMAIN otps
      BY <3>1 DEF Insert, FreshIds
    <3> QED
      BY <2>2, <3>1, <3>2 DEF request_otp, provider
  <2>3. CASE Tick \/ UNCHANGED vars
    BY <2>3 DEF Tick, vars, table, provider
  <2> QED
    BY <2>1, <2>2, <2>3
<1>2. redeliveries \in Nat
  BY DispatchAssumption DEF CInv, DInv, TypeOK
<1> QED
  BY <1>1, <1>2 DEF Chains

\* Every step keeps the account.
LEMMA NextCounts == CInv /\ [Next]_vars => CInv'
<1> SUFFICES ASSUME CInv, [Next]_vars PROVE CInv'
  OBVIOUS
<1>1. DInv'
  BY NextKeeps DEF CInv
<1> SUFFICES ASSUME NEW id \in Ids PROVE Counted(id)'
  BY <1>1 DEF CInv
<1>2. ASSUME NEW w \in Workers, Work(w) \/ Crash(w)
      PROVE  Counted(id)'
  BY <1>1, <1>2, ReserveCounts, WorkCounts, RetryAndCrashCount DEF Work
<1>3. ASSUME NEW i \in Ids, Enqueue(i) \/ Replay(i)
      PROVE  Counted(id)'
  BY <1>1, <1>3, ChainCounts
<1>4. ASSUME \/ \E i \in Ids : \/ EnqueueFails(i) \/ VerifyCommit(i)
                               \/ \E r \in Recipients : request_otp(i, r)
             \/ \E ids \in SUBSET DOMAIN otps : PollCommit(ids)
             \/ Tick
             \/ UNCHANGED vars
      PROVE  Counted(id)'
  BY <1>1, <1>4, ChainsOnlyGrow, QuietCounts
<1> QED
  BY <1>2, <1>3, <1>4 DEF Next, Api

\* A provider takes at most (MaxRetries + 1) * (MaxRedeliveries + 1) messages for
\* a row, whatever crashes, replays, lost answers and concurrent workers do.
THEOREM SendsBounded == Spec => []SendsAreBounded
<1>1. CInv => SendsAreBounded
  <2> SUFFICES ASSUME CInv, NEW id \in Ids
               PROVE  carried[id] <= (MaxRetries + 1) * (MaxRedeliveries + 1)
    BY DEF SendsAreBounded
  <2>1. redeliveries \in 0..MaxRedeliveries /\ MaxRedeliveries \in Nat /\ MaxRetries \in Nat
    BY DispatchAssumption DEF CInv, DInv, TypeOK
  <2>2. Chains(id) \in Nat /\ Chains(id) <= MaxRedeliveries + 1
    BY <2>1 DEF Chains
  <2>3. (MaxRetries + 1) * Chains(id) <= (MaxRetries + 1) * (MaxRedeliveries + 1)
    BY <2>1, <2>2, Budget
  <2>4. carried[id] <= (MaxRetries + 1) * Chains(id)
    BY <2>1, <2>2, Counting, Budget DEF Counted
  <2> QED
    BY <2>1, <2>2, <2>3, <2>4, Counting, Budget
<1>2. Spec => []CInv
  <2>1. Init => CInv
    BY InitCounts
  <2>2. CInv /\ [Next]_vars => CInv'
    BY NextCounts
  <2> QED
    BY <2>1, <2>2, PTL DEF Spec
<1> QED
  BY <1>1, <1>2, PTL

(***************************************************************************)
(* What the proofs about the whole platform need of dispatch: what the     *)
(* others may write without disturbing it, and what it writes itself.      *)
(***************************************************************************)
\* A worker assigns the status, sent_at, failed_at and the provider's id.
DispatchColumns(d) ==
    /\ d.used_at = NULL /\ d.attempt_count = NULL /\ d.delivered_at = NULL
    /\ d.status \in {NULL, "sent", "failed"}

Dispatches(w) == DispatchColumns(workers[w].dirty)

\* What providers have done is only added to.
ProvidersGoOn ==
    /\ \A id \in Ids : carried[id] > 0 => carried'[id] > 0
    /\ \A p \in Providers : issued[p] # NULL => issued'[p] = issued[p]

\* The columns a worker decides on.
LEMMA OutcomeColumns ==
    /\ DispatchColumns(Clean) /\ DispatchColumns(Sent) /\ DispatchColumns(Failed)
    /\ \A p : DispatchColumns([Sent EXCEPT !.provider_message_id = p])
  BY DEF Clean, Sent, Failed, DispatchColumns

\* Every step of a worker: it assigns no other columns, and commits those it has
\* assigned.
LEMMA WorkDispatches ==
    ASSUME DInv, \A v \in Workers : Dispatches(v), NEW w \in Workers, Work(w) \/ Crash(w)
    PROVE  /\ \A v \in Workers : Dispatches(v)'
           /\ ProvidersGoOn /\ now' = now
           /\ \/ UNCHANGED otps
              \/ \E id \in DOMAIN otps, d \in Dirty :
                    DispatchColumns(d) /\ otps' = [otps EXCEPT ![id] = Flush(@, d)]
<1>1. /\ workers \in [Workers -> Worker] /\ carried \in [Ids -> Nat]
      /\ issued \in [Providers -> Ids \cup {NULL}] /\ WorkerShape(w)
  BY Holding
<1>2. ASSUME NEW new, workers' = [workers EXCEPT ![w] = new], DispatchColumns(new.dirty)
      PROVE  \A v \in Workers : Dispatches(v)'
  BY <1>1, <1>2 DEF Dispatches
<1>3. Idle.dirty = Clean
  BY DEF Idle
<1>4. \A pc : Goto(w, pc) => \A v \in Workers : Dispatches(v)'
  <2> SUFFICES ASSUME NEW pc, Goto(w, pc) PROVE \A v \in Workers : Dispatches(v)'
    OBVIOUS
  <2>1. [workers[w] EXCEPT !.pc = pc].dirty = workers[w].dirty
    BY <1>1 DEF Worker
  <2> QED
    BY <1>2, <2>1 DEF Goto, Dispatches
<1>5. ASSUME NEW d, Decide(w, d), DispatchColumns(d)
      PROVE  \A v \in Workers : Dispatches(v)'
  <2> DEFINE new == [workers[w] EXCEPT !.pc = "flushing", !.dirty = d]
  <2>1. new.dirty = d /\ workers' = [workers EXCEPT ![w] = new]
    BY <1>1, <1>5 DEF Decide, Worker
  <2> HIDE DEF new
  <2> QED
    BY <1>2, <1>5, <2>1
<1>6. CASE Reserve(w) \/ Ack(w) \/ Crash(w)
  <2>1. \E new : workers' = [workers EXCEPT ![w] = new] /\ DispatchColumns(new.dirty)
    <3>1. CASE Reserve(w)
      <4>1. PICK m : workers' = [workers EXCEPT ![w] = [Idle EXCEPT !.pc = "reserved",
                                                                 !.msg = m]]
        BY <3>1 DEF Reserve
      <4> DEFINE new == [Idle EXCEPT !.pc = "reserved", !.msg = m]
      <4>2. new.dirty = Clean
        BY DEF Idle
      <4> HIDE DEF new
      <4>3. workers' = [workers EXCEPT ![w] = new]
        BY <4>1 DEF new
      <4> QED
        BY <4>2, <4>3, OutcomeColumns
    <3>2. CASE Ack(w) \/ Crash(w)
      BY <1>3, <3>2, OutcomeColumns DEF Ack, Crash
    <3> QED
      BY <1>6, <3>1, <3>2
  <2>2. UNCHANGED <<otps, now, carried, issued>>
    BY <1>6 DEF Reserve, Ack, Crash, table, provider
  <2> QED
    BY <1>2, <2>1, <2>2 DEF ProvidersGoOn
<1>7. CASE \/ Load(w) \/ Retry(w)
           \/ LoadFails(w) \/ CommitFails(w) \/ RetryFails(w) \/ GiveUp(w)
  <2>1. /\ \E pc : Goto(w, pc)
        /\ UNCHANGED <<otps, now, carried, issued>>
    BY <1>7 DEF Load, LoadFails, CommitFails, Retry, RetryFails, GiveUp, Fails, table,
                provider
  <2> QED
    BY <1>4, <2>1 DEF ProvidersGoOn
<1>8. CASE Send(w)
  <2>1. PICK channel, answer :
           /\ Carry(w) \/ UNCHANGED carried
           /\ \/ Accepted(w, channel, answer) \/ Refused(w, channel, answer)
              \/ Transient(w, channel, answer) \/ Raises(w, channel, answer)
    BY <1>8 DEF Send
  <2>2. UNCHANGED <<otps, now>>
    BY <1>8 DEF Send, table
  <2>3. \A v \in Workers : Dispatches(v)'
    BY <1>4, <1>5, <2>1, OutcomeColumns DEF Accepted, Refused, Transient, Raises, Fails
  <2>4. \A id \in Ids : carried[id] > 0 => carried'[id] > 0
    BY <1>1, <2>1 DEF Carry
  <2>5. \A p \in Providers : issued[p] # NULL => issued'[p] = issued[p]
    BY <1>1, <2>1 DEF Accepted, Refused, Transient, Raises
  <2> QED
    BY <2>2, <2>3, <2>4, <2>5 DEF ProvidersGoOn
<1>9. CASE Commit(w)
  <2>1. PICK id, d : id = workers[w].msg.id /\ d = workers[w].dirty
    OBVIOUS
  <2>2. otps' = [otps EXCEPT ![id] = Flush(@, d)] /\ UNCHANGED <<now, carried, issued>>
        /\ Goto(w, "acking") /\ workers[w].pc = "flushing"
    BY <1>9, <2>1 DEF Commit, Target, provider, At
  <2>3. id \in DOMAIN otps /\ d \in Dirty /\ DispatchColumns(d)
    BY <1>1, <2>1, <2>2 DEF WorkerShape, Worker, Dispatches
  <2> QED
    BY <1>4, <2>2, <2>3 DEF ProvidersGoOn
<1> QED
  BY <1>6, <1>7, <1>8, <1>9 DEF Work
=============================================================================
