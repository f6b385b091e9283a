-------------------------- MODULE OtpServiceProofs --------------------------
(***************************************************************************)
(* Machine-checked theorems about OtpService, for every number of keys,    *)
(* handlers and codes, every cap, life and clock bound, and every set of   *)
(* statuses the delivery tasks may write.                                  *)
(***************************************************************************)
EXTENDS OtpService, OtpRowsProofs

(***************************************************************************)
(* The strengthening that makes the safety invariants inductive: what the  *)
(* copy of a call in progress, and the columns it is about to write, still *)
(* have to do with the row.                                                *)
(***************************************************************************)
CopyIsFaithful(s) ==
    calls[s].pc # "idle" =>
        /\ calls[s].row.expires_at = otps[calls[s].id].expires_at
        /\ wins[s][calls[s].id] > 0 => calls[s].row.used_at # NULL

DecisionIsSound(s) ==
    calls[s].pc = "flushing" =>
        /\ calls[s].dirty.attempt_count # NULL =>
               calls[s].dirty.attempt_count <= MAX_OTP_ATTEMPTS
        /\ calls[s].dirty.used_at # NULL =>
               calls[s].dirty.used_at < calls[s].row.expires_at
        /\ calls[s].reply.verified =>
               calls[s].dirty.used_at # NULL /\ calls[s].row.used_at = NULL

\* Every conjunct the safety theorems need at once: the state predicates above
\* and what ties the copies of the calls in progress to the table.
IInv == /\ TypeOK
        /\ \A s \in Sessions : CopyIsFaithful(s) /\ DecisionIsSound(s)
        /\ AttemptsWithinCap
        /\ UsedInTime
        /\ AcceptanceIsDurable
        /\ AcceptedOncePerHandler

(***************************************************************************)
(* Lemmas about calls and about single steps.                              *)
(***************************************************************************)
\* An idle handler is a call.
LEMMA IdleType == Idle \in Call
  BY CleanType DEF Idle, Call

\* The commit of columns that respect the cap and the TTL keeps the table's
\* part of the invariant, and never clears used_at.
LEMMA FlushStep ==
    ASSUME IInv, NEW id \in DOMAIN otps, NEW d \in Dirty,
           d.attempt_count # NULL => d.attempt_count <= MAX_OTP_ATTEMPTS,
           d.used_at # NULL => d.used_at < otps[id].expires_at,
           otps' = [otps EXCEPT ![id] = Flush(@, d)]
    PROVE  /\ IsTable(otps') /\ DOMAIN otps' = DOMAIN otps
           /\ \A i \in DOMAIN otps :
                 /\ otps'[i].expires_at = otps[i].expires_at
                 /\ otps[i].used_at # NULL => otps'[i].used_at # NULL
           /\ d.used_at # NULL => otps'[id].used_at # NULL
           /\ AttemptsWithinCap' /\ UsedInTime'
<1>1. IsTable(otps)
  BY DEF IInv, TypeOK
<1>2. /\ IsTable(otps') /\ DOMAIN otps' = DOMAIN otps
      /\ otps[id] \in Row /\ otps'[id] = Flush(otps[id], d)
      /\ \A i \in DOMAIN otps \ {id} : otps'[i] = otps[i]
  BY <1>1, CommitType
<1>3. /\ otps'[id] \in Row
      /\ otps'[id].expires_at = otps[id].expires_at
      /\ otps'[id].attempt_count = Assigned(d.attempt_count, otps[id].attempt_count)
      /\ otps'[id].used_at = Assigned(d.used_at, otps[id].used_at)
  BY <1>2, FlushType
<1>4. \A i \in DOMAIN otps :
         /\ otps'[i].expires_at = otps[i].expires_at
         /\ otps[i].used_at # NULL => otps'[i].used_at # NULL
  BY <1>2, <1>3 DEF Assigned
<1>5. AttemptsWithinCap'
  BY <1>2, <1>3 DEF IInv, AttemptsWithinCap, Assigned
<1>6. UsedInTime'
  BY <1>2, <1>3 DEF IInv, UsedInTime, Assigned
<1> QED
  BY <1>2, <1>3, <1>4, <1>5, <1>6 DEF Assigned

\* An insert of a fresh row, unused and without attempts, keeps the invariant.
LEMMA InsertStep ==
    ASSUME IInv, NEW id \in FreshIds(otps), NEW row \in Row,
           row.used_at = NULL, row.attempt_count = 0,
           otps' = Insert(otps, id, row), UNCHANGED <<now, calls, wins, misses>>
    PROVE  IInv'
<1>1. IsTable(otps) /\ id \in Ids /\ id \notin DOMAIN otps
  BY DEF IInv, TypeOK, FreshIds
<1>2. /\ IsTable(otps')
      /\ DOMAIN otps' = DOMAIN otps \cup {id}
      /\ otps'[id] = row
      /\ \A i \in DOMAIN otps : otps'[i] = otps[i]
  BY <1>1, InsertType
<1>3. TypeOK'
  BY <1>1, <1>2 DEF IInv, TypeOK, CallShape
<1>4. ASSUME NEW s \in Sessions
      PROVE  CopyIsFaithful(s)' /\ DecisionIsSound(s)'
  BY <1>2 DEF IInv, TypeOK, CallShape, CopyIsFaithful, DecisionIsSound
<1>5. AttemptsWithinCap'
  BY <1>2, SettingsAssumption DEF IInv, AttemptsWithinCap
<1>6. UsedInTime'
  BY <1>2 DEF IInv, UsedInTime
<1>7. AcceptanceIsDurable' /\ AcceptedOncePerHandler'
  BY <1>2 DEF IInv, AcceptanceIsDurable, AcceptedOncePerHandler
<1> QED
  BY <1>3, <1>4, <1>5, <1>6, <1>7 DEF IInv

\* A step that only rewrites the call of one handler keeps the invariant when
\* the new call keeps its own part of it.
LEMMA LocalStep ==
    ASSUME IInv, NEW s \in Sessions, DOMAIN calls' = Sessions,
           \A t \in Sessions \ {s} : calls'[t] = calls[t],
           UNCHANGED <<otps, now, wins, misses>>,
           CallShape(s)', CopyIsFaithful(s)', DecisionIsSound(s)'
    PROVE  IInv'
<1>1. ASSUME NEW t \in Sessions
      PROVE  CallShape(t)' /\ CopyIsFaithful(t)' /\ DecisionIsSound(t)'
  <2>1. CASE t = s
    BY <2>1
  <2>2. CASE t # s
    BY <2>2 DEF IInv, TypeOK, CallShape, CopyIsFaithful, DecisionIsSound
  <2> QED
    BY <2>1, <2>2
<1>2. TypeOK'
  BY <1>1 DEF IInv, TypeOK
<1>3. /\ AttemptsWithinCap' /\ UsedInTime'
      /\ AcceptanceIsDurable' /\ AcceptedOncePerHandler'
  BY DEF IInv, AttemptsWithinCap, UsedInTime, AcceptanceIsDurable,
         AcceptedOncePerHandler
<1> QED
  BY <1>1, <1>2, <1>3 DEF IInv

\* Answering without a commit, and a call that dies, leave an idle handler.
LEMMA IdleStep ==
    ASSUME IInv, NEW s \in Sessions, calls' = [calls EXCEPT ![s] = Idle],
           UNCHANGED <<otps, now, wins, misses>>
    PROVE  IInv'
<1>1. /\ DOMAIN calls' = Sessions /\ calls'[s] = Idle
      /\ \A t \in Sessions \ {s} : calls'[t] = calls[t]
  BY DEF IInv, TypeOK
<1>2. CallShape(s)' /\ CopyIsFaithful(s)' /\ DecisionIsSound(s)'
  BY <1>1, IdleType DEF CallShape, CopyIsFaithful, DecisionIsSound, Idle
<1> QED
  BY <1>1, <1>2, LocalStep

\* A decision within the cap and the TTL keeps the invariant.
LEMMA DecideStep ==
    ASSUME IInv, NEW s \in Sessions, Loaded(s),
           NEW d \in Dirty, NEW reply \in VerifyOutcome, Decide(s, d, reply),
           d.attempt_count # NULL => d.attempt_count <= MAX_OTP_ATTEMPTS,
           d.used_at # NULL => d.used_at < calls[s].row.expires_at,
           reply.verified => d.used_at # NULL /\ calls[s].row.used_at = NULL
    PROVE  IInv'
<1>1. /\ calls[s] \in Call /\ calls[s].pc = "loaded"
      /\ calls[s].id \in DOMAIN otps /\ calls[s].code \in Codes
      /\ calls[s].row \in Row /\ DOMAIN calls = Sessions
  BY DEF IInv, TypeOK, CallShape, Loaded
<1>2. /\ DOMAIN calls' = Sessions
      /\ calls'[s] = [calls[s] EXCEPT !.pc = "flushing", !.dirty = d, !.reply = reply]
      /\ \A t \in Sessions \ {s} : calls'[t] = calls[t]
      /\ UNCHANGED <<otps, now, wins, misses>>
  BY <1>1 DEF Decide
<1>3. /\ calls'[s] \in Call /\ calls'[s].pc = "flushing"
      /\ calls'[s].id = calls[s].id /\ calls'[s].code = calls[s].code
      /\ calls'[s].row = calls[s].row
      /\ calls'[s].dirty = d /\ calls'[s].reply = reply
  BY <1>1, <1>2 DEF Call
<1>4. CallShape(s)'
  BY <1>1, <1>2, <1>3 DEF CallShape
<1>5. CopyIsFaithful(s)'
  BY <1>1, <1>2, <1>3 DEF IInv, CopyIsFaithful
<1>6. DecisionIsSound(s)'
  BY <1>3 DEF DecisionIsSound
<1> QED
  BY <1>2, <1>4, <1>5, <1>6, LocalStep

(***************************************************************************)
(* The inductive invariant.                                                *)
(***************************************************************************)
LEMMA InitHolds == Init => IInv
<1> SUFFICES ASSUME Init PROVE IInv
  OBVIOUS
<1>1. DOMAIN otps = {} /\ IsTable(otps)
  BY DEF Init, EmptyTable, IsTable
<1>2. TypeOK
  BY <1>1, IdleType, ServiceAssumption DEF Init, TypeOK, CallShape, Idle
<1>3. \A s \in Sessions : CopyIsFaithful(s) /\ DecisionIsSound(s)
  BY DEF Init, Idle, CopyIsFaithful, DecisionIsSound
<1>4. /\ AttemptsWithinCap /\ UsedInTime
      /\ AcceptanceIsDurable /\ AcceptedOncePerHandler
  BY <1>1 DEF Init, AttemptsWithinCap, UsedInTime, AcceptanceIsDurable,
             AcceptedOncePerHandler
<1> QED
  BY <1>2, <1>3, <1>4 DEF IInv

\* create_otp and record_blocked.
LEMMA IssueSteps ==
    ASSUME IInv, NEW id \in Ids, NEW r \in Recipients, NEW code \in Codes,
           create_otp(id, r, code) \/ record_blocked(id, r, code)
    PROVE  IInv'
<1>1. now \in Nat /\ CreatedAt \subseteq Nat
  BY ServiceAssumption DEF IInv, TypeOK, CreatedAt
<1>2. /\ now + OTP_TTL_SECONDS \in Nat
      /\ "pending" \in Statuses /\ "blocked" \in Statuses
  BY <1>1, SettingsAssumption DEF Statuses, Active, Terminal
<1>3. Channel(r) \in Channels
  BY DEF Channel, Channels
<1>4. CASE create_otp(id, r, code)
  BY <1>1, <1>2, <1>3, <1>4, NewRowType, InsertStep DEF create_otp
<1>5. CASE record_blocked(id, r, code)
  BY <1>1, <1>2, <1>3, <1>5, NewRowType, InsertStep DEF record_blocked
<1> QED
  BY <1>4, <1>5

\* The SELECT of verify_otp: the copy is faithful because it is the row.
LEMMA SelectSteps ==
    ASSUME IInv, NEW s \in Sessions, NEW r \in Recipients, NEW code \in Codes,
           Select(s, r, code)
    PROVE  IInv'
<1>1. PICK id \in LatestActive(otps, r) :
          calls' = [calls EXCEPT ![s] = [Idle EXCEPT !.pc   = "loaded",
                                                     !.id   = id,
                                                     !.code = code,
                                                     !.row  = otps[id]]]
  BY DEF Select
<1>2. id \in DOMAIN otps /\ id \in Ids /\ otps[id] \in Row
  BY DEF LatestActive, ActiveIds, IInv, TypeOK, IsTable
<1>3. /\ DOMAIN calls' = Sessions
      /\ calls'[s] = [pc |-> "loaded", id |-> id, code |-> code, row |-> otps[id],
                      dirty |-> Clean, reply |-> NULL]
      /\ \A t \in Sessions \ {s} : calls'[t] = calls[t]
      /\ UNCHANGED <<otps, now, wins, misses>>
  BY <1>1 DEF Idle, Select, IInv, TypeOK
<1>4. CallShape(s)'
  BY <1>2, <1>3, CleanType DEF CallShape, Call
<1>5. CopyIsFaithful(s)' /\ DecisionIsSound(s)'
  BY <1>2, <1>3 DEF IInv, AcceptanceIsDurable, CopyIsFaithful, DecisionIsSound
<1> QED
  BY <1>3, <1>4, <1>5, LocalStep

\* The decisions of verify_otp: the cap and the TTL are judged on the copy, at
\* the moment of the decision.
LEMMA DecisionSteps ==
    ASSUME IInv, NEW s \in Sessions,
           Expired(s) \/ AlreadyUsed(s) \/ LockedOut(s) \/ Match(s) \/ Miss(s)
    PROVE  IInv'
<1>1. now \in Nat /\ MAX_OTP_ATTEMPTS \in Nat \ {0}
  BY ServiceAssumption, SettingsAssumption DEF IInv, TypeOK
<1>2. Loaded(s) => calls[s].row \in Row /\ calls[s].row.attempt_count \in Nat
                   /\ calls[s].row.status \in Statuses
  BY DEF IInv, TypeOK, CallShape, Loaded, Row
<1>3. "expired" \in Statuses /\ "verified" \in Statuses
  BY DEF Statuses, Terminal
<1>4. /\ Reply(FALSE, 0, "expired") \in VerifyOutcome
      /\ Reply(FALSE, 0, "expired").verified = FALSE
  BY <1>3 DEF Reply, VerifyOutcome
<1>5. /\ [Clean EXCEPT !.status = "expired"] \in Dirty
      /\ [Clean EXCEPT !.status = "expired"].attempt_count = NULL
      /\ [Clean EXCEPT !.status = "expired"].used_at = NULL
  BY <1>3 DEF Clean, Dirty, TimeOrNull
<1>6. CASE Expired(s)
  BY <1>4, <1>5, <1>6, DecideStep DEF Expired
<1>7. CASE AlreadyUsed(s)
  BY <1>7, IdleStep DEF AlreadyUsed
<1>8. CASE LockedOut(s)
  BY <1>4, <1>5, <1>8, DecideStep DEF LockedOut, Unused, InTime
<1>9. CASE Match(s)
  <2> DEFINE d == [Clean EXCEPT !.status = "verified", !.used_at = now]
             reply == Reply(TRUE, MAX_OTP_ATTEMPTS - calls[s].row.attempt_count,
                            "verified")
  <2>1. /\ Loaded(s) /\ now < calls[s].row.expires_at
        /\ calls[s].row.used_at = NULL /\ Decide(s, d, reply)
    BY <1>9 DEF Match, BelowCap, Unused, InTime
  <2>2. d \in Dirty /\ d.attempt_count = NULL /\ d.used_at = now
    BY <1>1, <1>3 DEF Clean, Dirty, TimeOrNull
  <2>3. reply \in VerifyOutcome
    BY <1>1, <1>2, <1>3, <2>1 DEF Reply, VerifyOutcome
  <2>4. now # NULL
    BY <1>1, NullAssumption
  <2> HIDE DEF d, reply
  <2> QED
    BY <2>1, <2>2, <2>3, <2>4, DecideStep
<1>10. CASE Miss(s)
  <2> DEFINE count == calls[s].row.attempt_count + 1
  <2>1. Loaded(s) /\ count \in Nat /\ count <= MAX_OTP_ATTEMPTS
    BY <1>1, <1>2, <1>10 DEF Miss, BelowCap, Unused, InTime
  <2>2. CASE count >= MAX_OTP_ATTEMPTS
    <3> DEFINE d == [Clean EXCEPT !.attempt_count = count, !.status = "expired"]
    <3>1. d \in Dirty /\ d.attempt_count = count /\ d.used_at = NULL
      BY <1>3, <2>1 DEF Clean, Dirty, TimeOrNull
    <3>2. Decide(s, d, Reply(FALSE, 0, "expired"))
      BY <1>10, <2>2 DEF Miss
    <3> HIDE DEF d
    <3> QED
      BY <1>4, <2>1, <3>1, <3>2, DecideStep
  <2>3. CASE ~(count >= MAX_OTP_ATTEMPTS)
    <3> DEFINE d == [Clean EXCEPT !.attempt_count = count]
               reply == Reply(FALSE, MAX_OTP_ATTEMPTS - count, calls[s].row.status)
    <3>1. d \in Dirty /\ d.attempt_count = count /\ d.used_at = NULL
      BY <2>1 DEF Clean, Dirty, TimeOrNull
    <3>2. Decide(s, d, reply)
      BY <1>10, <2>3 DEF Miss
    <3>3. reply \in VerifyOutcome /\ reply.verified = FALSE
      BY <1>1, <1>2, <2>1 DEF Reply, VerifyOutcome
    <3> HIDE DEF d, reply
    <3> QED
      BY <2>1, <3>1, <3>2, <3>3, DecideStep
  <2> QED
    BY <2>2, <2>3
<1> QED
  BY <1>6, <1>7, <1>8, <1>9, <1>10

\* The UPDATE and COMMIT of verify_otp.  A win is recorded only here, by a call
\* whose copy was unused: so the handler had not won the code before, and its
\* later copies of the row are used.
LEMMA CommitSteps ==
    ASSUME IInv, NEW s \in Sessions, Commit(s) \/ CommitUnanswered(s)
    PROVE  IInv'
<1> DEFINE id == calls[s].id
           d  == calls[s].dirty
<1>1. /\ calls[s].pc = "flushing" /\ otps' = [otps EXCEPT ![id] = Flush(@, d)]
      /\ calls' = [calls EXCEPT ![s] = Idle] /\ now' = now
  BY DEF Commit, CommitUnanswered, Flushed
<1>2. /\ id \in DOMAIN otps /\ id \in Ids /\ d \in Dirty
      /\ calls[s].row.expires_at = otps[id].expires_at
  BY <1>1 DEF IInv, TypeOK, CallShape, Call, CopyIsFaithful, IsTable
<1>3. /\ d.attempt_count # NULL => d.attempt_count <= MAX_OTP_ATTEMPTS
      /\ d.used_at # NULL => d.used_at < otps[id].expires_at
  BY <1>1, <1>2 DEF IInv, DecisionIsSound
<1>4. /\ IsTable(otps') /\ DOMAIN otps' = DOMAIN otps
      /\ \A i \in DOMAIN otps :
            /\ otps'[i].expires_at = otps[i].expires_at
            /\ otps[i].used_at # NULL => otps'[i].used_at # NULL
      /\ d.used_at # NULL => otps'[id].used_at # NULL
      /\ AttemptsWithinCap' /\ UsedInTime'
  BY <1>1, <1>2, <1>3, FlushStep
<1>5. /\ wins' \in [Sessions -> [Ids -> Nat]]
      /\ misses' \in [Ids -> Nat]
      /\ \A t \in Sessions, i \in Ids :
            \/ wins'[t][i] = wins[t][i]
            \/ /\ t = s /\ i = id /\ calls[s].reply.verified
               /\ wins'[t][i] = wins[t][i] + 1
  <2>1. wins \in [Sessions -> [Ids -> Nat]] /\ misses \in [Ids -> Nat]
    BY DEF IInv, TypeOK
  <2>2. CASE wins' = [wins EXCEPT ![s][id] = @ + 1] /\ calls[s].reply.verified
    <3>1. wins' \in [Sessions -> [Ids -> Nat]]
      BY <1>2, <2>1, <2>2
    <3>2. \A t \in Sessions, i \in Ids :
             wins'[t][i] = IF t = s /\ i = id THEN wins[t][i] + 1 ELSE wins[t][i]
      BY <1>2, <2>1, <2>2
    <3>3. misses' \in [Ids -> Nat]
      BY <1>2, <2>1 DEF Commit, CommitUnanswered
    <3> QED
      BY <2>2, <3>1, <3>2, <3>3
  <2>3. CASE wins' = wins
    <3>1. misses' \in [Ids -> Nat]
      BY <1>2, <2>1 DEF Commit, CommitUnanswered
    <3> QED
      BY <2>1, <2>3, <3>1
  <2> QED
    BY <2>2, <2>3 DEF Commit, CommitUnanswered
<1>6. calls[s].reply.verified => wins[s][id] = 0 /\ d.used_at # NULL
  BY <1>1, <1>2 DEF IInv, TypeOK, CopyIsFaithful, DecisionIsSound
<1>7. /\ DOMAIN calls' = Sessions /\ calls'[s] = Idle
      /\ \A t \in Sessions \ {s} : calls'[t] = calls[t] /\ wins'[t] = wins[t]
  BY <1>1 DEF IInv, TypeOK, Commit, CommitUnanswered
<1>8. ASSUME NEW t \in Sessions
      PROVE  CallShape(t)' /\ CopyIsFaithful(t)' /\ DecisionIsSound(t)'
  <2>1. CASE t = s
    BY <1>7, <2>1, IdleType DEF CallShape, CopyIsFaithful, DecisionIsSound, Idle
  <2>2. CASE t # s
    <3>1. CallShape(t) /\ CopyIsFaithful(t) /\ DecisionIsSound(t)
      BY DEF IInv, TypeOK
    <3>2. calls'[t] = calls[t] /\ wins'[t] = wins[t]
      BY <1>7, <2>2
    <3>3. CallShape(t)'
      BY <1>4, <3>1, <3>2 DEF CallShape
    <3>4. CopyIsFaithful(t)'
      BY <1>4, <3>1, <3>2 DEF CopyIsFaithful, CallShape
    <3>5. DecisionIsSound(t)'
      BY <3>1, <3>2 DEF DecisionIsSound
    <3> QED
      BY <3>3, <3>4, <3>5
  <2> QED
    BY <2>1, <2>2
<1>9. TypeOK'
  BY <1>1, <1>4, <1>5, <1>7, <1>8 DEF IInv, TypeOK
<1>10. AcceptanceIsDurable'
  <2> SUFFICES ASSUME NEW t \in Sessions, NEW i \in Ids, wins'[t][i] > 0
               PROVE  i \in DOMAIN otps' /\ otps'[i].used_at # NULL
    BY DEF AcceptanceIsDurable
  <2>1. CASE wins'[t][i] = wins[t][i]
    BY <1>4, <2>1 DEF IInv, AcceptanceIsDurable
  <2>2. CASE i = id /\ calls[s].reply.verified
    BY <1>2, <1>4, <1>6, <2>2
  <2> QED
    BY <1>5, <2>1, <2>2
<1>11. AcceptedOncePerHandler'
  BY <1>5, <1>6 DEF IInv, AcceptedOncePerHandler
<1> QED
  BY <1>4, <1>8, <1>9, <1>10, <1>11 DEF IInv

\* A delivery task writes the status of some rows, none of which is or becomes
\* BLOCKED, and nothing else.
LEMMA DeliveryRows ==
    ASSUME IsTable(otps), NEW ids \in SUBSET DOMAIN otps, DeliveryCommit(ids)
    PROVE  /\ UNCHANGED <<now, calls, wins, misses>>
           /\ IsTable(otps') /\ DOMAIN otps' = DOMAIN otps
           /\ \A i \in DOMAIN otps :
                 /\ otps'[i].used_at = otps[i].used_at
                 /\ otps'[i].attempt_count = otps[i].attempt_count
                 /\ otps'[i].expires_at = otps[i].expires_at
                 /\ \/ otps'[i] = otps[i]
                    \/ otps[i].status # "blocked" /\ otps'[i].status # "blocked"
<1>1. PICK status \in [ids -> DeliveryStatuses] :
         otps' = FlushAll(otps, [id \in ids |-> [Clean EXCEPT !.status = status[id]]])
  BY DEF DeliveryCommit
<1> DEFINE d == [id \in ids |-> [Clean EXCEPT !.status = status[id]]]
<1>2. ASSUME NEW id \in ids
      PROVE  /\ d[id] \in Dirty
             /\ d[id].attempt_count = NULL /\ d[id].used_at = NULL
             /\ d[id].status # "blocked" /\ d[id].status # NULL
             /\ otps[id].status # "blocked"
  <2>1. status[id] \in Statuses /\ status[id] # NULL /\ status[id] # "blocked"
    BY <1>1, ServiceAssumption, StatusNames
  <2> QED
    BY <2>1, CleanType DEF Clean, Dirty, DeliveryCommit
<1>3. DOMAIN d = ids /\ otps' = FlushAll(otps, d)
  BY <1>1
<1> HIDE DEF d
<1>4. /\ IsTable(otps') /\ DOMAIN otps' = DOMAIN otps
      /\ \A i \in DOMAIN otps :
            /\ otps[i] \in Row
            /\ i \in ids => otps'[i] = Flush(otps[i], d[i])
            /\ i \notin ids => otps'[i] = otps[i]
  BY <1>2, <1>3, CommitAllType
<1>5. ASSUME NEW i \in ids
      PROVE  /\ otps'[i].used_at = otps[i].used_at
             /\ otps'[i].attempt_count = otps[i].attempt_count
             /\ otps'[i].expires_at = otps[i].expires_at
             /\ otps[i].status # "blocked" /\ otps'[i].status # "blocked"
  BY <1>2, <1>4, FlushType DEF Assigned
<1>6. UNCHANGED <<now, calls, wins, misses>>
  BY DEF DeliveryCommit
<1> QED
  BY <1>4, <1>5, <1>6

\* Others may write any column but the life and the verification of a row.
LEMMA OthersWrite ==
    ASSUME IInv, IsTable(otps'), DOMAIN otps' = DOMAIN otps,
           \A id \in DOMAIN otps : /\ otps'[id].expires_at = otps[id].expires_at
                                   /\ otps'[id].used_at = otps[id].used_at
                                   /\ otps'[id].attempt_count = otps[id].attempt_count,
           UNCHANGED <<now, calls, wins, misses>>
    PROVE  IInv'
<1>1. TypeOK'
  BY DEF IInv, TypeOK, CallShape
<1>2. ASSUME NEW s \in Sessions
      PROVE  CopyIsFaithful(s)' /\ DecisionIsSound(s)'
  BY DEF IInv, TypeOK, CallShape, CopyIsFaithful, DecisionIsSound
<1>3. AttemptsWithinCap' /\ UsedInTime'
  BY DEF IInv, AttemptsWithinCap, UsedInTime
<1>4. AcceptanceIsDurable' /\ AcceptedOncePerHandler'
  BY DEF IInv, AcceptanceIsDurable, AcceptedOncePerHandler
<1> QED
  BY <1>1, <1>2, <1>3, <1>4 DEF IInv

\* So a delivery task keeps the invariant.
LEMMA DeliverySteps ==
    ASSUME IInv, NEW ids \in SUBSET DOMAIN otps, DeliveryCommit(ids)
    PROVE  IInv'
<1>1. IsTable(otps)
  BY DEF IInv, TypeOK
<1> QED
  BY <1>1, DeliveryRows, OthersWrite

\* The clock, and the steps that leave everything alone.
LEMMA OtherSteps ==
    ASSUME IInv, Tick \/ UNCHANGED vars
    PROVE  IInv'
<1>1. UNCHANGED <<otps, calls, wins, misses>> /\ now' \in 0..Horizon
  BY ServiceAssumption DEF Tick, vars, IInv, TypeOK
<1>2. TypeOK'
  BY <1>1 DEF IInv, TypeOK, CallShape
<1>3. \A s \in Sessions : CopyIsFaithful(s)' /\ DecisionIsSound(s)'
  BY <1>1 DEF IInv, CopyIsFaithful, DecisionIsSound
<1>4. /\ AttemptsWithinCap' /\ UsedInTime'
      /\ AcceptanceIsDurable' /\ AcceptedOncePerHandler'
  BY <1>1 DEF IInv, AttemptsWithinCap, UsedInTime, AcceptanceIsDurable,
             AcceptedOncePerHandler
<1> QED
  BY <1>2, <1>3, <1>4 DEF IInv

\* Every step of the service keeps the invariant.
LEMMA NextKeeps == IInv /\ [Next]_vars => IInv'
<1> SUFFICES ASSUME IInv, [Next]_vars PROVE IInv'
  OBVIOUS
<1>1. ASSUME NEW id \in Ids, NEW r \in Recipients, NEW code \in Codes,
             create_otp(id, r, code) \/ record_blocked(id, r, code)
      PROVE  IInv'
  BY <1>1, IssueSteps
<1>2. ASSUME NEW s \in Sessions, Serve(s)
      PROVE  IInv'
  <2>1. ASSUME NEW r \in Recipients, SelectNone(s, r)
        PROVE  IInv'
    BY <2>1, OtherSteps DEF SelectNone
  <2>2. ASSUME NEW r \in Recipients, NEW code \in Codes, Select(s, r, code)
        PROVE  IInv'
    BY <2>2, SelectSteps
  <2>3. CASE Expired(s) \/ AlreadyUsed(s) \/ LockedOut(s) \/ Match(s) \/ Miss(s)
    BY <2>3, DecisionSteps
  <2>4. CASE Commit(s) \/ CommitUnanswered(s)
    BY <2>4, CommitSteps
  <2>5. CASE Abandon(s)
    BY <2>5, IdleStep DEF Abandon
  <2> QED
    BY <1>2, <2>1, <2>2, <2>3, <2>4, <2>5 DEF Serve
<1>3. ASSUME NEW ids \in SUBSET DOMAIN otps, DeliveryCommit(ids)
      PROVE  IInv'
  BY <1>3, DeliverySteps
<1>4. CASE Tick \/ UNCHANGED vars
  BY <1>4, OtherSteps
<1> QED
  BY <1>1, <1>2, <1>3, <1>4 DEF Next

(***************************************************************************)
(* The theorems.                                                           *)
(***************************************************************************)

\* The strengthened invariant holds in every reachable state.
THEOREM Invariance == Spec => []IInv
<1>1. Init => IInv
  BY InitHolds
<1>2. IInv /\ [Next]_vars => IInv'
  BY NextKeeps
<1> QED
  BY <1>1, <1>2, PTL DEF Spec

\* Type correctness: the table holds rows and every call in progress holds what
\* its next step of verify_otp needs.
THEOREM TypeCorrect == Spec => []TypeOK
<1>1. IInv => TypeOK
  BY DEF IInv
<1> QED
  BY <1>1, Invariance, PTL

\* attempt_count stays within MAX_OTP_ATTEMPTS however many calls overlap.
THEOREM AttemptsCapped == Spec => []AttemptsWithinCap
<1>1. IInv => AttemptsWithinCap
  BY DEF IInv
<1> QED
  BY <1>1, Invariance, PTL

\* No code is accepted at or after its expires_at.
THEOREM NeverUsedLate == Spec => []UsedInTime
<1>1. IInv => UsedInTime
  BY DEF IInv
<1> QED
  BY <1>1, Invariance, PTL

\* An answered acceptance is on the row for good.
THEOREM AcceptancesDurable == Spec => []AcceptanceIsDurable
<1>1. IInv => AcceptanceIsDurable
  BY DEF IInv
<1> QED
  BY <1>1, Invariance, PTL

\* A code is accepted at most once by each of the handlers that can overlap.
THEOREM OncePerHandler == Spec => []AcceptedOncePerHandler
<1>1. IInv => AcceptedOncePerHandler
  BY DEF IInv
<1> QED
  BY <1>1, Invariance, PTL

\* When the calls for a code are served one after another, it is accepted once,
\* whatever the delivery tasks write over its row.
THEOREM SingleUseWhenSerial ==
    ASSUME \A s, t \in Sessions : s = t
    PROVE  Spec => []AcceptedOnce
<1>1. IInv => AcceptedOnce
  <2> SUFFICES ASSUME IInv, NEW id \in Ids, NEW s \in Sessions, NEW t \in Sessions,
                      wins[s][id] > 0, wins[t][id] > 0
               PROVE  s = t /\ wins[s][id] = 1
    BY DEF AcceptedOnce
  <2>1. wins[s][id] \in Nat /\ wins[s][id] <= 1
    BY DEF IInv, TypeOK, AcceptedOncePerHandler
  <2> QED
    BY <2>1
<1> QED
  BY <1>1, Invariance, PTL

(***************************************************************************)
(* One handler: nothing writes attempt_count between the SELECT of a call  *)
(* and its commit, so the copy counts every miss.                          *)
(***************************************************************************)
CopyIsCurrent(s) ==
    calls[s].pc # "idle" =>
        calls[s].row.attempt_count = otps[calls[s].id].attempt_count

DecisionCounts(s) ==
    calls[s].pc = "flushing" =>
        /\ calls[s].dirty.attempt_count # NULL =>
               calls[s].dirty.attempt_count = calls[s].row.attempt_count + 1
        /\ calls[s].reply.verified => calls[s].row.attempt_count < MAX_OTP_ATTEMPTS

SInv == /\ IInv
        /\ MissesAreCounted
        /\ \A id \in FreshIds(otps) : misses[id] = 0
        /\ \A s \in Sessions : CopyIsCurrent(s) /\ DecisionCounts(s)

\* The steps that leave the attempts of every row alone.
LEMMA SerialQuietStep ==
    ASSUME SInv, IInv', UNCHANGED misses,
           DOMAIN otps \subseteq DOMAIN otps',
           \A id \in DOMAIN otps : otps'[id].attempt_count = otps[id].attempt_count,
           \A s \in Sessions : CopyIsCurrent(s)' /\ DecisionCounts(s)'
    PROVE  SInv'
<1>1. /\ DOMAIN otps' \subseteq Ids /\ misses \in [Ids -> Nat]
      /\ \A id \in DOMAIN otps' : otps'[id].attempt_count \in Nat
  BY DEF IInv, TypeOK, IsTable, Row
<1>2. MissesAreCounted'
  BY <1>1 DEF SInv, MissesAreCounted, FreshIds
<1>3. \A id \in FreshIds(otps)' : misses'[id] = 0
  BY DEF SInv, FreshIds
<1> QED
  BY <1>2, <1>3 DEF SInv

\* A call that is not rewritten keeps its part.
LEMMA SerialCallKept ==
    ASSUME SInv, NEW s \in Sessions, calls'[s] = calls[s],
           \A id \in DOMAIN otps : otps'[id].attempt_count = otps[id].attempt_count
    PROVE  CopyIsCurrent(s)' /\ DecisionCounts(s)'
<1>1. CallShape(s) /\ CopyIsCurrent(s) /\ DecisionCounts(s)
  BY DEF SInv, IInv, TypeOK
<1> QED
  BY <1>1 DEF CallShape, CopyIsCurrent, DecisionCounts

\* The serial invariant holds at first.
LEMMA SerialInit == Init => SInv
<1> SUFFICES ASSUME Init PROVE SInv
  OBVIOUS
<1>1. IInv
  BY InitHolds
<1>2. MissesAreCounted /\ \A id \in FreshIds(otps) : misses[id] = 0
  BY EmptyType DEF Init, MissesAreCounted, FreshIds
<1>3. \A s \in Sessions : CopyIsCurrent(s) /\ DecisionCounts(s)
  BY DEF Init, Idle, CopyIsCurrent, DecisionCounts
<1> QED
  BY <1>1, <1>2, <1>3 DEF SInv

\* Issuing, the delivery tasks and the clock.
LEMMA SerialOtherSteps ==
    ASSUME SInv, IInv',
           \/ \E id \in Ids, r \in Recipients, code \in Codes :
                 create_otp(id, r, code) \/ record_blocked(id, r, code)
           \/ \E ids \in SUBSET DOMAIN otps : DeliveryCommit(ids)
           \/ Tick \/ UNCHANGED vars
    PROVE  SInv'
<1>1. IsTable(otps)
  BY DEF SInv, IInv, TypeOK
<1>2. /\ UNCHANGED <<calls, misses>>
      /\ DOMAIN otps \subseteq DOMAIN otps'
      /\ \A id \in DOMAIN otps : otps'[id].attempt_count = otps[id].attempt_count
  <2>1. ASSUME NEW id \in Ids, NEW r \in Recipients, NEW code \in Codes,
               create_otp(id, r, code) \/ record_blocked(id, r, code)
        PROVE  /\ UNCHANGED <<calls, misses>>
               /\ DOMAIN otps \subseteq DOMAIN otps'
               /\ \A i \in DOMAIN otps : otps'[i] = otps[i]
    BY <2>1 DEF create_otp, record_blocked, Insert, FreshIds
  <2>2. ASSUME NEW ids \in SUBSET DOMAIN otps, DeliveryCommit(ids)
        PROVE  /\ UNCHANGED <<calls, misses>>
               /\ DOMAIN otps \subseteq DOMAIN otps'
               /\ \A i \in DOMAIN otps : otps'[i].attempt_count = otps[i].attempt_count
    BY <1>1, <2>2, DeliveryRows
  <2>3. ASSUME Tick \/ UNCHANGED vars
        PROVE  UNCHANGED <<otps, calls, misses>>
    BY <2>3 DEF Tick, vars
  <2> QED
    BY <2>1, <2>2, <2>3
<1>3. \A s \in Sessions : CopyIsCurrent(s)' /\ DecisionCounts(s)'
  BY <1>2, SerialCallKept
<1> QED
  BY <1>2, <1>3, SerialQuietStep

\* The steps of a call before its commit.
LEMMA SerialCallSteps ==
    ASSUME SInv, IInv', NEW s \in Sessions,
           \/ \E r \in Recipients, code \in Codes : Select(s, r, code)
           \/ Expired(s) \/ AlreadyUsed(s) \/ LockedOut(s) \/ Match(s) \/ Miss(s)
           \/ Abandon(s)
    PROVE  SInv'
<1>1. /\ UNCHANGED <<otps, misses>> /\ CallShape(s) /\ DOMAIN calls = Sessions
      /\ CopyIsCurrent(s) /\ DecisionCounts(s)
  BY DEF Select, Expired, AlreadyUsed, LockedOut, Match, Miss, Abandon, Decide,
         SInv, IInv, TypeOK
<1>2. \A t \in Sessions \ {s} : calls'[t] = calls[t]
  BY <1>1 DEF Select, Expired, AlreadyUsed, LockedOut, Match, Miss, Abandon, Decide
<1>3. CopyIsCurrent(s)' /\ DecisionCounts(s)'
  <2>1. CASE \E r \in Recipients, code \in Codes : Select(s, r, code)
    <3>0. PICK r \in Recipients, code \in Codes : Select(s, r, code)
      BY <2>1
    <3>1. PICK id \in LatestActive(otps, r) :
             calls' = [calls EXCEPT ![s] = [Idle EXCEPT !.pc   = "loaded",
                                                        !.id   = id,
                                                        !.code = code,
                                                        !.row  = otps[id]]]
      BY <3>0 DEF Select
    <3>2. /\ calls'[s].pc = "loaded" /\ calls'[s].id = id
          /\ calls'[s].row = otps[id]
      BY <1>1, <3>1 DEF Idle
    <3> QED
      BY <1>1, <3>2 DEF CopyIsCurrent, DecisionCounts
  <2>2. CASE AlreadyUsed(s) \/ Abandon(s)
    BY <1>1, <2>2 DEF AlreadyUsed, Abandon, Idle, CopyIsCurrent, DecisionCounts
  <2>3. ASSUME NEW d, NEW reply, Decide(s, d, reply), Loaded(s),
               d.attempt_count # NULL =>
                   d.attempt_count = calls[s].row.attempt_count + 1,
               reply.verified => calls[s].row.attempt_count < MAX_OTP_ATTEMPTS
        PROVE  CopyIsCurrent(s)' /\ DecisionCounts(s)'
    <3>1. /\ calls'[s].id = calls[s].id /\ calls'[s].row = calls[s].row
          /\ calls'[s].dirty = d /\ calls'[s].reply = reply /\ calls[s].pc # "idle"
      BY <1>1, <2>3 DEF Decide, Loaded, CallShape, Call
    <3> QED
      BY <1>1, <2>3, <3>1 DEF CopyIsCurrent, DecisionCounts
  <2>4. [Clean EXCEPT !.status = "expired"].attempt_count = NULL
    BY DEF Clean
  <2>5. CASE Expired(s)
    BY <2>3, <2>4, <2>5 DEF Expired, Reply
  <2>6. CASE LockedOut(s)
    BY <2>3, <2>4, <2>6 DEF LockedOut, Unused, InTime, Reply
  <2>7. CASE Match(s)
    <3>1. [Clean EXCEPT !.status = "verified", !.used_at = now].attempt_count = NULL
      BY DEF Clean
    <3> QED
      BY <2>3, <2>7, <3>1 DEF Match, BelowCap, Unused, InTime, Reply
  <2>8. CASE Miss(s)
    <3> DEFINE count == calls[s].row.attempt_count + 1
    <3>1. /\ [Clean EXCEPT !.attempt_count = count, !.status = "expired"].attempt_count
                = count
          /\ [Clean EXCEPT !.attempt_count = count].attempt_count = count
      BY DEF Clean
    <3>2. \A st, n : ~Reply(FALSE, n, st).verified
      BY DEF Reply
    <3> QED
      BY <2>3, <2>8, <3>1, <3>2 DEF Miss, BelowCap, Unused, InTime
  <2> QED
    BY <2>1, <2>2, <2>5, <2>6, <2>7, <2>8
<1>4. \A t \in Sessions : CopyIsCurrent(t)' /\ DecisionCounts(t)'
  BY <1>1, <1>2, <1>3, SerialCallKept
<1> QED
  BY <1>1, <1>4, SerialQuietStep

\* The commit: the count it writes is the row's own plus the miss it answers.
LEMMA SerialCommitSteps ==
    ASSUME \A s, t \in Sessions : s = t,
           SInv, IInv', NEW s \in Sessions, Commit(s) \/ CommitUnanswered(s)
    PROVE  SInv'
<1>1. PICK id, d : id = calls[s].id /\ d = calls[s].dirty
  OBVIOUS
<1>11. /\ IsTable(otps) /\ DOMAIN calls = Sessions /\ CallShape(s)
      /\ misses \in [Ids -> Nat] /\ calls[s].pc = "flushing"
  BY DEF SInv, IInv, TypeOK, Commit, CommitUnanswered
<1>12. /\ id \in DOMAIN otps /\ id \in Ids /\ d \in Dirty
  BY <1>1, <1>11 DEF CallShape, Call, IsTable
<1>13. /\ otps' = [otps EXCEPT ![id] = Flush(@, d)]
      /\ calls'[s] = Idle
  BY <1>1, <1>11 DEF Commit, CommitUnanswered, Flushed
<1>14. \A i \in Ids :
          \/ misses'[i] = misses[i]
          \/ i = id /\ d.attempt_count # NULL /\ misses'[i] = misses[i] + 1
  <2>1. CASE Commit(s)
    <3>1. misses' = IF d.attempt_count # NULL
                    THEN [misses EXCEPT ![id] = @ + 1] ELSE misses
      BY <1>1, <2>1 DEF Commit
    <3> QED
      BY <1>11, <1>12, <3>1
  <2>2. CASE CommitUnanswered(s)
    <3>1. misses' = misses
      BY <2>2 DEF CommitUnanswered
    <3> QED
      BY <3>1
  <2> QED
    BY <2>1, <2>2
<1>2. /\ IsTable(otps) /\ id \in DOMAIN otps /\ id \in Ids /\ d \in Dirty
      /\ calls[s].pc = "flushing"
      /\ otps' = [otps EXCEPT ![id] = Flush(@, d)]
      /\ calls'[s] = Idle /\ misses \in [Ids -> Nat]
      /\ \A i \in Ids :
            \/ misses'[i] = misses[i]
            \/ i = id /\ d.attempt_count # NULL /\ misses'[i] = misses[i] + 1
  BY <1>11, <1>12, <1>13, <1>14
<1>3. /\ DOMAIN otps' = DOMAIN otps /\ otps[id] \in Row
      /\ otps'[id] = Flush(otps[id], d)
      /\ \A i \in DOMAIN otps \ {id} : otps'[i] = otps[i]
  BY <1>2, CommitType
<1>4. otps'[id].attempt_count = Assigned(d.attempt_count, otps[id].attempt_count)
  BY <1>2, <1>3, FlushType
<1>5. d.attempt_count # NULL => d.attempt_count = otps[id].attempt_count + 1
  BY <1>1, <1>2 DEF SInv, CopyIsCurrent, DecisionCounts
<1>6. otps[id].attempt_count \in Nat /\ misses[id] <= otps[id].attempt_count
  BY <1>2, <1>3 DEF SInv, MissesAreCounted, Row
<1>7. MissesAreCounted'
  <2> SUFFICES ASSUME NEW i \in DOMAIN otps
               PROVE  misses'[i] <= otps'[i].attempt_count
    BY <1>3 DEF MissesAreCounted
  <2>1. i \in Ids /\ misses[i] \in Nat /\ misses[i] <= otps[i].attempt_count
    BY <1>2 DEF SInv, MissesAreCounted, IsTable
  <2>2. CASE i # id
    BY <1>2, <1>3, <2>1, <2>2
  <2>3. CASE i = id
    BY <1>2, <1>4, <1>5, <1>6, <2>1, <2>3 DEF Assigned
  <2> QED
    BY <2>2, <2>3
<1>8. \A i \in FreshIds(otps)' : misses'[i] = 0
  BY <1>2, <1>3 DEF SInv, FreshIds
<1>9. \A t \in Sessions : CopyIsCurrent(t)' /\ DecisionCounts(t)'
  <2>1. CopyIsCurrent(s)' /\ DecisionCounts(s)'
    BY <1>2 DEF Idle, CopyIsCurrent, DecisionCounts
  <2> QED
    BY <2>1
<1> QED
  BY <1>7, <1>8, <1>9 DEF SInv

\* With one handler every step keeps the serial invariant.
LEMMA SerialNextKeeps ==
    ASSUME \A s, t \in Sessions : s = t
    PROVE  SInv /\ [Next]_vars => SInv'
<1> SUFFICES ASSUME SInv, [Next]_vars PROVE SInv'
  OBVIOUS
<1>1. IInv'
  BY NextKeeps DEF SInv
<1>2. ASSUME NEW s \in Sessions, Serve(s)
      PROVE  SInv'
  <2>1. ASSUME NEW r \in Recipients, SelectNone(s, r)
        PROVE  SInv'
    BY <1>1, <2>1, SerialOtherSteps DEF SelectNone
  <2> QED
    BY <1>1, <1>2, <2>1, SerialCallSteps, SerialCommitSteps DEF Serve
<1>3. CASE \/ \E id \in Ids, r \in Recipients, code \in Codes :
                 create_otp(id, r, code) \/ record_blocked(id, r, code)
           \/ \E ids \in SUBSET DOMAIN otps : DeliveryCommit(ids)
           \/ Tick \/ UNCHANGED vars
  BY <1>1, <1>3, SerialOtherSteps
<1> QED
  BY <1>2, <1>3 DEF Next

\* When the calls for a code are served one after another every miss that was
\* answered is on the row, whatever the delivery tasks write over it.
THEOREM MissesCountedWhenSerial ==
    ASSUME \A s, t \in Sessions : s = t
    PROVE  Spec => []MissesAreCounted
<1>1. SInv /\ [Next]_vars => SInv'
  BY SerialNextKeeps
<1>2. SInv => MissesAreCounted
  BY DEF SInv
<1> QED
  BY <1>1, <1>2, SerialInit, PTL DEF Spec

\* And after the last guess MAX_OTP_ATTEMPTS allows the right code is refused.
THEOREM LockoutHoldsWhenSerial ==
    ASSUME \A s, t \in Sessions : s = t
    PROVE  Spec => LockoutHolds
<1>1. SInv /\ [Next]_vars => SInv'
  BY SerialNextKeeps
<1>2. SInv /\ [Next]_vars =>
         \A s \in Sessions, id \in Ids :
            wins'[s][id] # wins[s][id] => misses[id] < MAX_OTP_ATTEMPTS
  <2> SUFFICES ASSUME SInv, [Next]_vars, NEW s \in Sessions, NEW id \in Ids,
                      wins'[s][id] # wins[s][id]
               PROVE  misses[id] < MAX_OTP_ATTEMPTS
    OBVIOUS
  <2>1. PICK t \in Sessions : Commit(t)
    BY DEF Next, vars, create_otp, record_blocked, Serve, SelectNone, Select, Expired,
           AlreadyUsed, LockedOut, Match, Miss, Decide, CommitUnanswered, Abandon,
           DeliveryCommit, Tick
  <2>2. t = s /\ calls[s].id = id /\ calls[s].reply.verified /\ calls[s].pc = "flushing"
    BY <2>1 DEF Commit, SInv, IInv, TypeOK
  <2>3. /\ calls[s].row.attempt_count < MAX_OTP_ATTEMPTS
        /\ calls[s].row.attempt_count = otps[id].attempt_count
        /\ id \in DOMAIN otps /\ misses[id] <= otps[id].attempt_count
        /\ misses[id] \in Nat /\ otps[id].attempt_count \in Nat
    BY <2>2 DEF SInv, IInv, TypeOK, IsTable, Row, CallShape, CopyIsCurrent,
                DecisionCounts, MissesAreCounted
  <2> QED
    BY <2>3, SettingsAssumption
<1> QED
  BY <1>1, <1>2, SerialInit, PTL DEF Spec, LockoutHolds

(***************************************************************************)
(* The audit row of a refused request: no call works on it, and no call    *)
(* blocks a row.                                                           *)
(***************************************************************************)
WorksOnLive(s) ==
    calls[s].pc # "idle" => /\ otps[calls[s].id].status # "blocked"
                            /\ calls[s].dirty.status # "blocked"

BInv == IInv /\ \A s \in Sessions : WorksOnLive(s)

\* A step changes a row by the commit of a call at work on it or of a delivery
\* task, and so only rows that are not BLOCKED, which it does not block either.
LEMMA BlockedRowStep ==
    ASSUME BInv, [Next]_vars
    PROVE  /\ DOMAIN otps \subseteq DOMAIN otps'
           /\ \A id \in DOMAIN otps :
                 /\ otps[id].status = "blocked" => otps'[id] = otps[id]
                 /\ otps[id].status # "blocked" => otps'[id].status # "blocked"
<1>1. IsTable(otps) /\ \A s \in Sessions : CallShape(s)
  BY DEF BInv, IInv, TypeOK
<1>2. ASSUME NEW id \in DOMAIN otps, NEW d \in Dirty, otps[id].status # "blocked",
             d.status # "blocked", otps' = [otps EXCEPT ![id] = Flush(@, d)]
      PROVE  /\ DOMAIN otps' = DOMAIN otps
             /\ \A i \in DOMAIN otps :
                   /\ otps[i].status = "blocked" => otps'[i] = otps[i]
                   /\ otps[i].status # "blocked" => otps'[i].status # "blocked"
  <2>1. /\ DOMAIN otps' = DOMAIN otps /\ otps[id] \in Row
        /\ otps'[id] = Flush(otps[id], d)
        /\ \A i \in DOMAIN otps \ {id} : otps'[i] = otps[i]
    BY <1>1, <1>2, CommitType
  <2>2. otps'[id].status = Assigned(d.status, otps[id].status)
    BY <2>1, FlushType
  <2> QED
    BY <1>2, <2>1, <2>2 DEF Assigned
<1>3. ASSUME NEW id \in Ids, NEW r \in Recipients, NEW code \in Codes,
             create_otp(id, r, code) \/ record_blocked(id, r, code)
      PROVE  /\ DOMAIN otps \subseteq DOMAIN otps'
             /\ \A i \in DOMAIN otps : otps'[i] = otps[i]
  BY <1>3 DEF create_otp, record_blocked, Insert, FreshIds
<1>4. ASSUME NEW s \in Sessions, Commit(s) \/ CommitUnanswered(s)
      PROVE  /\ calls[s].id \in DOMAIN otps /\ calls[s].dirty \in Dirty
             /\ otps[calls[s].id].status # "blocked"
             /\ calls[s].dirty.status # "blocked"
             /\ otps' = [otps EXCEPT ![calls[s].id] = Flush(@, calls[s].dirty)]
  BY <1>1, <1>4 DEF Commit, CommitUnanswered, Flushed, CallShape, Call, BInv,
                    WorksOnLive
<1>5. ASSUME NEW ids \in SUBSET DOMAIN otps, DeliveryCommit(ids)
      PROVE  /\ DOMAIN otps' = DOMAIN otps
             /\ \A i \in DOMAIN otps :
                   /\ otps[i].status = "blocked" => otps'[i] = otps[i]
                   /\ otps[i].status # "blocked" => otps'[i].status # "blocked"
  BY <1>1, <1>5, DeliveryRows
<1>6. ASSUME NEW s \in Sessions, Serve(s), ~Commit(s), ~CommitUnanswered(s)
      PROVE  otps' = otps
  BY <1>6 DEF Serve, SelectNone, vars, Select, Expired, AlreadyUsed, LockedOut,
              Match, Miss, Decide, Abandon
<1>7. CASE Tick \/ UNCHANGED vars
  BY <1>7 DEF Tick, vars
<1> QED
  BY <1>2, <1>3, <1>4, <1>5, <1>6, <1>7 DEF Next

\* A call starts on an active row and never assigns BLOCKED.
LEMMA BlockedCallStep ==
    ASSUME BInv, [Next]_vars, NEW s \in Sessions
    PROVE  \/ calls'[s] = calls[s]
           \/ calls'[s] = Idle
           \/ /\ calls'[s].id \in DOMAIN otps
              /\ otps[calls'[s].id].status # "blocked"
              /\ calls'[s].dirty.status # "blocked"
<1>1. DOMAIN calls = Sessions /\ CallShape(s) /\ WorksOnLive(s)
  BY DEF BInv, IInv, TypeOK
<1>2. Clean.status # "blocked"
  BY StatusNames DEF Clean
<1>3. ASSUME NEW r \in Recipients, NEW code \in Codes, Select(s, r, code)
      PROVE  /\ calls'[s].id \in DOMAIN otps
             /\ otps[calls'[s].id].status # "blocked"
             /\ calls'[s].dirty.status # "blocked"
  <2>1. PICK id \in LatestActive(otps, r) :
           calls' = [calls EXCEPT ![s] = [Idle EXCEPT !.pc   = "loaded",
                                                      !.id   = id,
                                                      !.code = code,
                                                      !.row  = otps[id]]]
    BY <1>3 DEF Select
  <2>2. calls'[s].id = id /\ calls'[s].dirty = Clean
    BY <1>1, <2>1 DEF Idle
  <2>3. id \in DOMAIN otps /\ otps[id].status # "blocked"
    BY DEF LatestActive, ActiveIds, Active
  <2> QED
    BY <1>2, <2>2, <2>3
<1>4. ASSUME NEW d, NEW reply, Decide(s, d, reply), Loaded(s), d.status # "blocked"
      PROVE  /\ calls'[s].id \in DOMAIN otps
             /\ otps[calls'[s].id].status # "blocked"
             /\ calls'[s].dirty.status # "blocked"
  <2>1. calls'[s].id = calls[s].id /\ calls'[s].dirty = d /\ calls[s].pc = "loaded"
    BY <1>1, <1>4 DEF Decide, Loaded, CallShape, Call
  <2> QED
    BY <1>1, <1>4, <2>1 DEF CallShape, WorksOnLive
<1>5. CASE Expired(s) \/ LockedOut(s)
  <2>1. [Clean EXCEPT !.status = "expired"].status # "blocked"
    BY DEF Clean
  <2> QED
    BY <1>4, <1>5, <2>1 DEF Expired, LockedOut, Unused, InTime
<1>6. CASE Match(s)
  <2>1. [Clean EXCEPT !.status = "verified", !.used_at = now].status # "blocked"
    BY DEF Clean
  <2> QED
    BY <1>4, <1>6, <2>1 DEF Match, BelowCap, Unused, InTime
<1>7. CASE Miss(s)
  <2> DEFINE count == calls[s].row.attempt_count + 1
  <2>1. /\ [Clean EXCEPT !.attempt_count = count, !.status = "expired"].status
              # "blocked"
        /\ [Clean EXCEPT !.attempt_count = count].status # "blocked"
    BY <1>2 DEF Clean
  <2> QED
    BY <1>4, <1>7, <2>1 DEF Miss, BelowCap, Unused, InTime
<1>8. ASSUME AlreadyUsed(s) \/ Commit(s) \/ CommitUnanswered(s) \/ Abandon(s)
      PROVE  calls'[s] = Idle
  BY <1>1, <1>8 DEF AlreadyUsed, Commit, CommitUnanswered, Abandon
<1>9. ASSUME NEW t \in Sessions \ {s}, Serve(t)
      PROVE  calls'[s] = calls[s]
  BY <1>1, <1>9 DEF Serve, SelectNone, vars, Select, Expired, AlreadyUsed, LockedOut,
                    Match, Miss, Decide, Commit, CommitUnanswered, Abandon
<1>10. ASSUME Serve(s)
       PROVE  \/ calls'[s] = calls[s]
              \/ calls'[s] = Idle
              \/ /\ calls'[s].id \in DOMAIN otps
                 /\ otps[calls'[s].id].status # "blocked"
                 /\ calls'[s].dirty.status # "blocked"
  <2>1. ASSUME NEW r \in Recipients, SelectNone(s, r)
        PROVE  calls'[s] = calls[s]
    BY <2>1 DEF SelectNone, vars
  <2> QED
    BY <1>3, <1>5, <1>6, <1>7, <1>8, <1>10, <2>1 DEF Serve
<1>11. ASSUME ~ \E t \in Sessions : Serve(t)
       PROVE  calls'[s] = calls[s]
  BY <1>11 DEF Next, vars, create_otp, record_blocked, DeliveryCommit, Tick
<1> QED
  BY <1>9, <1>10, <1>11

\* Every step keeps the invariant.
LEMMA BlockedNextKeeps == BInv /\ [Next]_vars => BInv'
<1> SUFFICES ASSUME BInv, [Next]_vars, NEW s \in Sessions PROVE WorksOnLive(s)'
  BY NextKeeps DEF BInv
<1>1. CallShape(s) /\ WorksOnLive(s)
  BY DEF BInv, IInv, TypeOK
<1>2. CASE calls'[s] = calls[s]
  BY <1>1, <1>2, BlockedRowStep DEF WorksOnLive, CallShape
<1>3. CASE calls'[s] = Idle
  BY <1>3 DEF WorksOnLive, Idle
<1>4. CASE /\ calls'[s].id \in DOMAIN otps
           /\ otps[calls'[s].id].status # "blocked"
           /\ calls'[s].dirty.status # "blocked"
  BY <1>4, BlockedRowStep DEF WorksOnLive
<1> QED
  BY <1>2, <1>3, <1>4, BlockedCallStep

\* The audit row of a refused request stays as it was written: no guess reaches it,
\* and neither a verify call nor a delivery task changes it.
THEOREM BlockedRowsInert == Spec => BlockedIsInert
<1>1. Init => BInv
  BY InitHolds DEF Init, BInv, WorksOnLive, Idle
<1>2. BInv /\ [Next]_vars => BInv'
  BY BlockedNextKeeps
<1>3. BInv /\ [Next]_vars =>
         \A id \in DOMAIN otps :
            otps[id].status = "blocked" =>
                /\ otps'[id] = otps[id]
                /\ \A s \in Sessions : calls[s].id # id
  <2> SUFFICES ASSUME BInv, [Next]_vars, NEW id \in DOMAIN otps,
                      otps[id].status = "blocked", NEW s \in Sessions
               PROVE  otps'[id] = otps[id] /\ calls[s].id # id
    BY BlockedRowStep
  <2>1. id \in Ids /\ CallShape(s) /\ WorksOnLive(s)
    BY DEF BInv, IInv, TypeOK, IsTable
  <2>2. calls[s].id # id
    BY <2>1, NullAssumption DEF CallShape, WorksOnLive, Idle
  <2> QED
    BY <2>2, BlockedRowStep
<1> QED
  BY <1>1, <1>2, <1>3, PTL DEF Spec, BlockedIsInert

(***************************************************************************)
(* Two handlers: how many wrong guesses they can get answered for a row    *)
(* whose count is a, while they hold copies that read p and q.  A call     *)
(* that will not write attempt_count counts as one that read the cap.      *)
(***************************************************************************)
\* Twice the guesses left to two handlers that hold no copy older than count x.
Twice(x) == (MAX_OTP_ATTEMPTS - x) * (MAX_OTP_ATTEMPTS - x + 3)

\* A copy older than the count can take the row back to itself, once the other
\* call has brought the row, or the newer copy, up to the cap.
Worth(a, p, q) ==
    LET older == IF p <= q THEN p ELSE q
        newer == IF p <= q THEN q ELSE p
        from  == IF a <= newer THEN a ELSE newer
    IN IF a <= older
       THEN Twice(a)
       ELSE 2 * (MAX_OTP_ATTEMPTS - from + 1) + Twice(older + 1)

\* The count the call of s has read for id, if it may still write the next one.
Read(s, id) ==
    IF calls[s].id # id THEN MAX_OTP_ATTEMPTS
    ELSE IF calls[s].pc = "loaded" THEN calls[s].row.attempt_count
    ELSE IF calls[s].dirty.attempt_count # NULL THEN calls[s].dirty.attempt_count - 1
    ELSE MAX_OTP_ATTEMPTS

CopyWithinCap(s) ==
    /\ calls[s].pc = "loaded" => calls[s].row.attempt_count <= MAX_OTP_ATTEMPTS
    /\ calls[s].dirty.attempt_count # NULL =>
          /\ calls[s].pc = "flushing"
          /\ calls[s].dirty.attempt_count \in 1..MAX_OTP_ATTEMPTS

WithinBudget(s, t, id) ==
    /\ id \notin DOMAIN otps => misses[id] = 0
    /\ id \in DOMAIN otps =>
          2 * misses[id] + Worth(otps[id].attempt_count, Read(s, id), Read(t, id))
             <= MAX_OTP_ATTEMPTS * (MAX_OTP_ATTEMPTS + 3)

PInv == /\ IInv
        /\ \A s \in Sessions : CopyWithinCap(s)
        /\ \A s, t \in Sessions, id \in Ids : s # t => WithinBudget(s, t, id)

\* The polynomial: its last value, its differences, and that it falls.
LEMMA TwiceFacts ==
    ASSUME NEW x \in 0..MAX_OTP_ATTEMPTS
    PROVE  /\ Twice(x) \in Nat
           /\ x < MAX_OTP_ATTEMPTS =>
                 Twice(x) = Twice(x + 1) + 2 * (MAX_OTP_ATTEMPTS - x + 1)
           /\ \A y \in x..MAX_OTP_ATTEMPTS : Twice(y) <= Twice(x)
<1>1. PICK m \in Nat : m = MAX_OTP_ATTEMPTS
  BY SettingsAssumption
<1>2. PICK k \in Nat : k = m - x
  BY <1>1
<1>3. Twice(x) = k * (k + 3) /\ Twice(x) \in Nat
  BY <1>1, <1>2 DEF Twice
<1>4. x < m => Twice(x) = Twice(x + 1) + 2 * (m - x + 1)
  <2> SUFFICES ASSUME x < m PROVE Twice(x) = Twice(x + 1) + 2 * (m - x + 1)
    OBVIOUS
  <2>1. Twice(x + 1) = (k - 1) * (k + 2)
    <3>1. m - (x + 1) = k - 1 /\ m - (x + 1) + 3 = k + 2
      BY <1>2
    <3> QED
      BY <1>1, <3>1 DEF Twice
  <2>2. k * (k + 3) = (k - 1) * (k + 2) + 2 * (k + 1)
    OBVIOUS
  <2> QED
    BY <1>2, <1>3, <2>1, <2>2
<1>5. ASSUME NEW y \in x..MAX_OTP_ATTEMPTS
      PROVE  Twice(y) <= Twice(x)
  <2>1. PICK j \in Nat, d \in Nat : j = m - y /\ k = j + d
    <3>1. m - y \in Nat /\ y - x \in Nat /\ k = (m - y) + (y - x)
      BY <1>1, <1>2
    <3> QED
      BY <3>1
  <2>2. Twice(y) = j * (j + 3)
    BY <1>1, <2>1 DEF Twice
  <2>3. (j + d) * (j + d + 3) = j * (j + 3) + d * (2 * j + d + 3)
    OBVIOUS
  <2>4. d * (2 * j + d + 3) \in Nat /\ j * (j + 3) \in Nat
    OBVIOUS
  <2> QED
    BY <1>3, <2>1, <2>2, <2>3, <2>4
<1> QED
  BY <1>1, <1>3, <1>4, <1>5

\* Worth is a number, is symmetric, and starts at the budget.
LEMMA WorthFacts ==
    ASSUME NEW a \in 0..MAX_OTP_ATTEMPTS, NEW p \in 0..MAX_OTP_ATTEMPTS,
           NEW q \in 0..MAX_OTP_ATTEMPTS
    PROVE  /\ Worth(a, p, q) \in Nat
           /\ Worth(a, p, q) = Worth(a, q, p)
           /\ Worth(a, p, MAX_OTP_ATTEMPTS) =
                 IF a <= p THEN Twice(a)
                 ELSE 2 * (MAX_OTP_ATTEMPTS - a + 1) + Twice(p + 1)
<1>1. MAX_OTP_ATTEMPTS \in Nat
  BY SettingsAssumption
<1>2. \A x \in 0..MAX_OTP_ATTEMPTS : Twice(x) \in Nat
  BY TwiceFacts
<1>3. Worth(a, p, q) \in Nat
  BY <1>1, <1>2 DEF Worth
<1>4. Worth(a, p, q) = Worth(a, q, p)
  BY DEF Worth
<1>5. Worth(a, p, MAX_OTP_ATTEMPTS) =
         IF a <= p THEN Twice(a) ELSE 2 * (MAX_OTP_ATTEMPTS - a + 1) + Twice(p + 1)
  BY <1>1 DEF Worth
<1> QED
  BY <1>3, <1>4, <1>5

\* A call that gives up its copy gives up what the copy was worth.
LEMMA WorthOfDrop ==
    ASSUME NEW a \in 0..MAX_OTP_ATTEMPTS, NEW p \in 0..MAX_OTP_ATTEMPTS,
           NEW q \in 0..MAX_OTP_ATTEMPTS
    PROVE  Worth(a, MAX_OTP_ATTEMPTS, q) <= Worth(a, p, q)
<1>1. MAX_OTP_ATTEMPTS \in Nat
  BY SettingsAssumption
<1>2. /\ \A x \in 0..MAX_OTP_ATTEMPTS : Twice(x) \in Nat
      /\ \A x, y \in 0..MAX_OTP_ATTEMPTS : x <= y => Twice(y) <= Twice(x)
  BY TwiceFacts
<1>3. Worth(a, MAX_OTP_ATTEMPTS, q) =
         IF a <= q THEN Twice(a) ELSE 2 * (MAX_OTP_ATTEMPTS - a + 1) + Twice(q + 1)
  BY <1>1, WorthFacts
<1>4. CASE a <= p /\ a <= q
  BY <1>2, <1>3, <1>4 DEF Worth
<1>5. CASE p < a /\ p <= q
  <2>1. Worth(a, p, q) = 2 * (MAX_OTP_ATTEMPTS - (IF a <= q THEN a ELSE q) + 1) + Twice(p + 1)
    BY <1>5 DEF Worth
  <2>2. Twice(a) <= Twice(p + 1) /\ (q < a => Twice(q + 1) <= Twice(p + 1))
        /\ Twice(p + 1) \in Nat /\ Twice(a) \in Nat /\ (q < a => Twice(q + 1) \in Nat)
    BY <1>1, <1>2, <1>5
  <2> QED
    BY <1>1, <1>3, <1>5, <2>1, <2>2
<1>6. CASE q < a /\ q < p
  <2>1. Worth(a, p, q) = 2 * (MAX_OTP_ATTEMPTS - (IF a <= p THEN a ELSE p) + 1) + Twice(q + 1)
    BY <1>6 DEF Worth
  <2>2. Twice(q + 1) \in Nat
    BY <1>1, <1>2, <1>6
  <2> QED
    BY <1>1, <1>3, <1>6, <2>1, <2>2
<1> QED
  BY <1>4, <1>5, <1>6

\* Loading the row adds nothing.
LEMMA WorthOfLoad ==
    ASSUME NEW a \in 0..MAX_OTP_ATTEMPTS, NEW q \in 0..MAX_OTP_ATTEMPTS
    PROVE  Worth(a, a, q) = Worth(a, MAX_OTP_ATTEMPTS, q)
<1>1. MAX_OTP_ATTEMPTS \in Nat
  BY SettingsAssumption
<1>2. Worth(a, MAX_OTP_ATTEMPTS, q) =
         IF a <= q THEN Twice(a) ELSE 2 * (MAX_OTP_ATTEMPTS - a + 1) + Twice(q + 1)
  BY <1>1, WorthFacts
<1> QED
  BY <1>1, <1>2 DEF Worth

\* Writing the count read plus one is worth a guess.
LEMMA WorthOfWrite ==
    ASSUME NEW a \in 0..MAX_OTP_ATTEMPTS, NEW p \in 0..MAX_OTP_ATTEMPTS,
           NEW q \in 0..MAX_OTP_ATTEMPTS, p < MAX_OTP_ATTEMPTS
    PROVE  Worth(p + 1, MAX_OTP_ATTEMPTS, q) + 2 <= Worth(a, p, q)
<1>1. MAX_OTP_ATTEMPTS \in Nat /\ p + 1 \in 0..MAX_OTP_ATTEMPTS
  BY SettingsAssumption
<1>2. /\ \A x \in 0..MAX_OTP_ATTEMPTS : Twice(x) \in Nat
      /\ \A x \in 0..MAX_OTP_ATTEMPTS : x < MAX_OTP_ATTEMPTS =>
            Twice(x) = Twice(x + 1) + 2 * (MAX_OTP_ATTEMPTS - x + 1)
      /\ \A x, y \in 0..MAX_OTP_ATTEMPTS : x <= y => Twice(y) <= Twice(x)
  BY TwiceFacts
<1>3. Worth(p + 1, MAX_OTP_ATTEMPTS, q) =
         IF p + 1 <= q THEN Twice(p + 1)
         ELSE 2 * (MAX_OTP_ATTEMPTS - (p + 1) + 1) + Twice(q + 1)
  BY <1>1, WorthFacts
<1>4. /\ Twice(p + 1) \in Nat
      /\ Twice(p) = Twice(p + 1) + 2 * (MAX_OTP_ATTEMPTS - p + 1)
      /\ q < MAX_OTP_ATTEMPTS => /\ Twice(q + 1) \in Nat
                                 /\ Twice(q) = Twice(q + 1) + 2 * (MAX_OTP_ATTEMPTS - q + 1)
      /\ a <= p => Twice(p) <= Twice(a)
      /\ a <= q => Twice(q) <= Twice(a)
      /\ Twice(a) \in Nat
  BY <1>1, <1>2
<1>5. CASE a <= p /\ a <= q
  <2>1. Worth(a, p, q) = Twice(a)
    BY <1>5 DEF Worth
  <2>2. q <= p => q < MAX_OTP_ATTEMPTS
    BY <1>1
  <2> QED
    BY <1>1, <1>3, <1>4, <1>5, <2>1, <2>2
<1>6. CASE p < a /\ p <= q
  <2>1. Worth(a, p, q) = 2 * (MAX_OTP_ATTEMPTS - (IF a <= q THEN a ELSE q) + 1) + Twice(p + 1)
    BY <1>6 DEF Worth
  <2>2. CASE p = q
    BY <1>1, <1>3, <1>4, <1>6, <2>1, <2>2
  <2>3. CASE p + 1 <= q
    BY <1>1, <1>3, <1>4, <1>6, <2>1, <2>3
  <2> QED
    BY <1>6, <2>2, <2>3
<1>7. CASE q < a /\ q < p
  <2>1. Worth(a, p, q) = 2 * (MAX_OTP_ATTEMPTS - (IF a <= p THEN a ELSE p) + 1) + Twice(q + 1)
    BY <1>7 DEF Worth
  <2> QED
    BY <1>1, <1>3, <1>4, <1>7, <2>1
<1> QED
  BY <1>5, <1>6, <1>7

\* What a copy reads is within the cap.
LEMMA ReadRange ==
    ASSUME PInv, NEW s \in Sessions, NEW id \in Ids
    PROVE  Read(s, id) \in 0..MAX_OTP_ATTEMPTS
<1>1. CopyWithinCap(s) /\ CallShape(s) /\ MAX_OTP_ATTEMPTS \in Nat
  BY SettingsAssumption DEF PInv, IInv, TypeOK
<1>2. calls[s].pc = "loaded" => calls[s].row.attempt_count \in Nat
  BY <1>1 DEF CallShape, Row
<1> QED
  BY <1>1, <1>2 DEF Read, CopyWithinCap

\* What every step finds of a row and its count.
LEMMA BudgetFacts ==
    ASSUME PInv, NEW id \in DOMAIN otps
    PROVE  /\ id \in Ids /\ misses[id] \in Nat
           /\ otps[id].attempt_count \in 0..MAX_OTP_ATTEMPTS
BY SettingsAssumption DEF PInv, IInv, TypeOK, IsTable, Row, AttemptsWithinCap

\* A step keeps the budget of a row if it answers no guess and its copies are
\* worth no more afterwards.
LEMMA BudgetKept ==
    ASSUME PInv, IInv', NEW s \in Sessions, NEW t \in Sessions, s # t, NEW id \in Ids,
           id \in DOMAIN otps => id \in DOMAIN otps', misses'[id] = misses[id],
           id \in DOMAIN otps =>
              /\ otps'[id].attempt_count = otps[id].attempt_count
              /\ Read(t, id)' = Read(t, id)
              /\ \/ Read(s, id)' = Read(s, id)
                 \/ Read(s, id)' = MAX_OTP_ATTEMPTS
                 \/ /\ Read(s, id) = MAX_OTP_ATTEMPTS
                    /\ Read(s, id)' = otps[id].attempt_count,
           id \notin DOMAIN otps /\ id \in DOMAIN otps' =>
              /\ otps'[id].attempt_count = 0
              /\ Read(s, id)' = MAX_OTP_ATTEMPTS /\ Read(t, id)' = MAX_OTP_ATTEMPTS
    PROVE  WithinBudget(s, t, id)'
<1>1. WithinBudget(s, t, id) /\ MAX_OTP_ATTEMPTS \in Nat
  BY SettingsAssumption DEF PInv
<1>2. CASE id \in DOMAIN otps
  <2> DEFINE a == otps[id].attempt_count
  <2>1. /\ a \in 0..MAX_OTP_ATTEMPTS /\ misses[id] \in Nat
        /\ Read(s, id) \in 0..MAX_OTP_ATTEMPTS /\ Read(t, id) \in 0..MAX_OTP_ATTEMPTS
    BY <1>2, BudgetFacts, ReadRange
  <2>2. 2 * misses[id] + Worth(a, Read(s, id), Read(t, id))
           <= MAX_OTP_ATTEMPTS * (MAX_OTP_ATTEMPTS + 3)
    BY <1>1, <1>2 DEF WithinBudget
  <2>3. Worth(a, Read(s, id)', Read(t, id)) <= Worth(a, Read(s, id), Read(t, id))
    <3>1. Worth(a, Read(s, id), Read(t, id)) \in Nat
      BY <2>1, WorthFacts
    <3>2. CASE Read(s, id)' = Read(s, id)
      BY <3>1, <3>2
    <3>3. CASE Read(s, id)' = MAX_OTP_ATTEMPTS
      BY <2>1, <3>3, WorthOfDrop
    <3>4. CASE Read(s, id) = MAX_OTP_ATTEMPTS /\ Read(s, id)' = a
      BY <2>1, <3>1, <3>4, WorthOfLoad
    <3> QED
      BY <1>2, <3>2, <3>3, <3>4
  <2>4. Worth(a, Read(s, id)', Read(t, id)) \in Nat /\ Worth(a, Read(s, id), Read(t, id)) \in Nat
    <3>1. Read(s, id)' \in 0..MAX_OTP_ATTEMPTS
      BY <1>1, <1>2, <2>1
    <3> QED
      BY <2>1, <3>1, WorthFacts
  <2>5. MAX_OTP_ATTEMPTS * (MAX_OTP_ATTEMPTS + 3) \in Nat
    BY <1>1
  <2>6. 2 * misses[id] + Worth(a, Read(s, id)', Read(t, id))
           <= MAX_OTP_ATTEMPTS * (MAX_OTP_ATTEMPTS + 3)
    <3> HIDE DEF a
    <3>1. PICK b \in Nat : b = MAX_OTP_ATTEMPTS * (MAX_OTP_ATTEMPTS + 3)
      BY <2>5
    <3> QED
      BY <2>1, <2>2, <2>3, <2>4, <3>1
  <2>7. otps'[id].attempt_count = a /\ Read(t, id)' = Read(t, id) /\ id \in DOMAIN otps'
    BY <1>2
  <2> QED
    BY <2>6, <2>7 DEF WithinBudget
<1>3. CASE id \notin DOMAIN otps
  <2>1. misses'[id] = 0
    BY <1>1, <1>3 DEF WithinBudget
  <2>2. CASE id \in DOMAIN otps'
    <3>1. 0 \in 0..MAX_OTP_ATTEMPTS /\ MAX_OTP_ATTEMPTS \in 0..MAX_OTP_ATTEMPTS
      BY <1>1
    <3>2. Worth(0, MAX_OTP_ATTEMPTS, MAX_OTP_ATTEMPTS) = Twice(0)
      BY <1>1, <3>1, WorthFacts
    <3>3. Twice(0) = MAX_OTP_ATTEMPTS * (MAX_OTP_ATTEMPTS + 3) /\ Twice(0) \in Nat
      BY <1>1 DEF Twice
    <3>4. 2 * misses'[id] + Worth(otps'[id].attempt_count, Read(s, id)', Read(t, id)')
             = Twice(0)
      BY <1>3, <2>1, <2>2, <3>2, <3>3
    <3> QED
      BY <2>2, <3>3, <3>4 DEF WithinBudget
  <2> QED
    BY <2>1, <2>2 DEF WithinBudget
<1> QED
  BY <1>2, <1>3

\* Who of the two handlers moves does not matter.
LEMMA BudgetSymmetric ==
    ASSUME IInv', NEW s \in Sessions, NEW t \in Sessions, NEW id \in Ids,
           CopyWithinCap(s)', CopyWithinCap(t)', WithinBudget(s, t, id)'
    PROVE  WithinBudget(t, s, id)'
<1>1. ASSUME NEW r \in Sessions, CopyWithinCap(r)'
      PROVE  Read(r, id)' \in 0..MAX_OTP_ATTEMPTS
  <2>1. CallShape(r)' /\ MAX_OTP_ATTEMPTS \in Nat
    BY SettingsAssumption DEF IInv, TypeOK
  <2>2. calls'[r].pc = "loaded" => calls'[r].row.attempt_count \in Nat
    BY <2>1 DEF CallShape, Row
  <2> QED
    BY <1>1, <2>1, <2>2 DEF Read, CopyWithinCap
<1>2. id \in DOMAIN otps' => otps'[id].attempt_count \in 0..MAX_OTP_ATTEMPTS
  BY SettingsAssumption DEF IInv, TypeOK, IsTable, Row, AttemptsWithinCap
<1>3. id \in DOMAIN otps' =>
         Worth(otps'[id].attempt_count, Read(t, id)', Read(s, id)')
            = Worth(otps'[id].attempt_count, Read(s, id)', Read(t, id)')
  BY <1>1, <1>2, WorthFacts
<1> QED
  BY <1>3 DEF WithinBudget

\* The invariant after a step of handler s, from the account of the two.
LEMMA PairStep ==
    ASSUME PInv, IInv', NEW s \in Sessions, NEW t \in Sessions, Sessions = {s, t},
           CopyWithinCap(s)', CopyWithinCap(t)',
           \A id \in Ids : s # t => WithinBudget(s, t, id)'
    PROVE  PInv'
<1>1. ASSUME NEW x \in Sessions, NEW y \in Sessions, NEW id \in Ids, x # y
      PROVE  WithinBudget(x, y, id)'
  <2>1. CASE x = s /\ y = t
    BY <1>1, <2>1
  <2>2. CASE x = t /\ y = s
    BY <1>1, <2>2, BudgetSymmetric
  <2> QED
    BY <1>1, <2>1, <2>2
<1>2. \A x \in Sessions : CopyWithinCap(x)'
  OBVIOUS
<1> QED
  BY <1>1, <1>2 DEF PInv

\* Issuing, the delivery tasks and the clock leave calls and counts alone.
LEMMA PairOtherSteps ==
    ASSUME PInv, IInv', NEW s \in Sessions, NEW t \in Sessions, Sessions = {s, t},
           \/ \E id \in Ids, r \in Recipients, code \in Codes :
                 create_otp(id, r, code) \/ record_blocked(id, r, code)
           \/ \E ids \in SUBSET DOMAIN otps : DeliveryCommit(ids)
           \/ Tick \/ UNCHANGED vars
    PROVE  PInv'
<1>1. /\ UNCHANGED <<calls, misses>> /\ DOMAIN otps \subseteq DOMAIN otps'
      /\ \A id \in DOMAIN otps : otps'[id].attempt_count = otps[id].attempt_count
      /\ \A id \in DOMAIN otps' \ DOMAIN otps : otps'[id].attempt_count = 0
  <2>1. CASE \E id \in Ids, r \in Recipients, code \in Codes :
                create_otp(id, r, code) \/ record_blocked(id, r, code)
    <3>1. PICK id \in Ids, r \in Recipients, code \in Codes :
             create_otp(id, r, code) \/ record_blocked(id, r, code)
      BY <2>1
    <3>2. id \in FreshIds(otps) /\ UNCHANGED <<calls, misses>>
          /\ \E ch, st, c, e : otps' = Insert(otps, id, NewRow(r, ch, code, st, c, e))
      BY <3>1 DEF create_otp, record_blocked
    <3>3. PICK ch, st, c, e : otps' = Insert(otps, id, NewRow(r, ch, code, st, c, e))
      BY <3>2
    <3>4. NewRow(r, ch, code, st, c, e).attempt_count = 0
      BY DEF NewRow
    <3> QED
      BY <3>2, <3>3, <3>4 DEF Insert, FreshIds
  <2>2. CASE \E ids \in SUBSET DOMAIN otps : DeliveryCommit(ids)
    <3>1. IsTable(otps)
      BY DEF PInv, IInv, TypeOK
    <3> QED
      BY <2>2, <3>1, DeliveryRows
  <2>3. CASE Tick \/ UNCHANGED vars
    BY <2>3 DEF Tick, vars
  <2> QED
    BY <2>1, <2>2, <2>3
<1>2. \A x \in Sessions : CopyWithinCap(x)'
  BY <1>1 DEF PInv, CopyWithinCap
<1>3. ASSUME NEW id \in Ids, s # t
      PROVE  WithinBudget(s, t, id)'
  <2>1. Read(s, id)' = Read(s, id) /\ Read(t, id)' = Read(t, id)
    BY <1>1 DEF Read
  <2>2. id \notin DOMAIN otps =>
           Read(s, id) = MAX_OTP_ATTEMPTS /\ Read(t, id) = MAX_OTP_ATTEMPTS
    <3>1. ASSUME NEW x \in Sessions, id \notin DOMAIN otps
          PROVE  calls[x].id # id
      <4>1. CallShape(x)
        BY DEF PInv, IInv, TypeOK
      <4> QED
        BY <3>1, <4>1, NullAssumption DEF CallShape, Idle
    <3> QED
      BY <3>1 DEF Read
  <2> QED
    BY <1>1, <1>3, <2>1, <2>2, BudgetKept
<1> QED
  BY <1>2, <1>3, PairStep

\* A step of a call before its commit: the copy is loaded, kept or given up.
LEMMA PairCallSteps ==
    ASSUME PInv, IInv', NEW s \in Sessions, NEW t \in Sessions, Sessions = {s, t},
           \/ \E r \in Recipients, code \in Codes : Select(s, r, code)
           \/ Expired(s) \/ AlreadyUsed(s) \/ LockedOut(s) \/ Match(s) \/ Miss(s)
           \/ Abandon(s)
    PROVE  PInv'
<1>1. /\ UNCHANGED <<otps, misses>> /\ calls' = [calls EXCEPT ![s] = calls'[s]]
      /\ CallShape(s) /\ CopyWithinCap(s) /\ CopyWithinCap(t) /\ DOMAIN calls = Sessions
      /\ MAX_OTP_ATTEMPTS \in Nat \ {0}
  BY SettingsAssumption DEF PInv, IInv, TypeOK, Select, Expired, AlreadyUsed, LockedOut,
     Match, Miss, Abandon, Decide
<1>2. Idle.id = NULL /\ Idle.pc = "idle" /\ Idle.dirty.attempt_count = NULL
  BY DEF Idle, Clean
<1>3. /\ CopyWithinCap(s)'
      /\ \A id \in Ids :
            \/ Read(s, id)' = Read(s, id)
            \/ Read(s, id)' = MAX_OTP_ATTEMPTS
            \/ /\ Read(s, id) = MAX_OTP_ATTEMPTS /\ id \in DOMAIN otps
               /\ Read(s, id)' = otps[id].attempt_count
  <2>1. CASE \E r \in Recipients, code \in Codes : Select(s, r, code)
    <3>1. PICK r \in Recipients, code \in Codes : Select(s, r, code)
      BY <2>1
    <3>2. PICK i \in LatestActive(otps, r) :
             calls'[s] = [Idle EXCEPT !.pc = "loaded", !.id = i, !.code = code,
                                      !.row = otps[i]]
      BY <1>1, <3>1 DEF Select
    <3>3. /\ calls[s] = Idle /\ i \in DOMAIN otps
          /\ calls'[s].pc = "loaded" /\ calls'[s].id = i /\ calls'[s].row = otps[i]
          /\ calls'[s].dirty.attempt_count = NULL
      <4>1. calls[s] = Idle /\ i \in DOMAIN otps
        BY <1>1, <3>1 DEF Select, CallShape, LatestActive, ActiveIds
      <4>2. LET new == [Idle EXCEPT !.pc = "loaded", !.id = i, !.code = code,
                                    !.row = otps[i]]
            IN /\ new.pc = "loaded" /\ new.id = i /\ new.row = otps[i]
               /\ new.dirty.attempt_count = NULL
        BY DEF Idle, Clean
      <4> QED
        BY <3>2, <4>1, <4>2
    <3>4. otps[i].attempt_count <= MAX_OTP_ATTEMPTS
      BY <3>3 DEF PInv, IInv, AttemptsWithinCap
    <3>5. \A id \in Ids : Read(s, id) = MAX_OTP_ATTEMPTS
      BY <1>2, <3>3 DEF Read
    <3> QED
      BY <3>3, <3>4, <3>5 DEF CopyWithinCap, Read
  <2>2. CASE AlreadyUsed(s) \/ Abandon(s)
    <3>1. calls'[s] = Idle
      BY <1>1, <2>2 DEF AlreadyUsed, Abandon
    <3> QED
      BY <1>2, <3>1 DEF CopyWithinCap, Read
  <2>3. CASE Expired(s) \/ LockedOut(s) \/ Match(s)
    <3>1. PICK d, reply : Decide(s, d, reply) /\ d.attempt_count = NULL
      <4>1. /\ [Clean EXCEPT !.status = "expired"].attempt_count = NULL
            /\ [Clean EXCEPT !.status = "verified", !.used_at = now].attempt_count = NULL
        BY DEF Clean
      <4> QED
        BY <2>3, <4>1 DEF Expired, LockedOut, Match
    <3>2. /\ calls'[s].pc = "flushing" /\ calls'[s].id = calls[s].id
          /\ calls'[s].dirty = d
      <4>1. calls[s] \in Call
        BY <1>1 DEF CallShape
      <4> QED
        BY <1>1, <3>1, <4>1 DEF Decide, Call
    <3> QED
      BY <3>1, <3>2 DEF CopyWithinCap, Read
  <2>4. CASE Miss(s)
    <3> DEFINE count == calls[s].row.attempt_count + 1
    <3>1. /\ calls[s].pc = "loaded" /\ count - 1 = calls[s].row.attempt_count
          /\ count \in 1..MAX_OTP_ATTEMPTS /\ count # NULL
      <4>1. calls[s].pc = "loaded" /\ calls[s].row.attempt_count < MAX_OTP_ATTEMPTS
        BY <2>4 DEF Miss, BelowCap, Unused, InTime, Loaded
      <4>2. calls[s].row.attempt_count \in Nat
        BY <1>1, <4>1 DEF CallShape, Row
      <4> QED
        BY <1>1, <4>1, <4>2, NullAssumption
    <3>2. PICK d, reply : Decide(s, d, reply) /\ d.attempt_count = count
      <4>1. /\ [Clean EXCEPT !.attempt_count = count, !.status = "expired"].attempt_count
                  = count
            /\ [Clean EXCEPT !.attempt_count = count].attempt_count = count
        BY DEF Clean
      <4> QED
        BY <2>4, <4>1 DEF Miss
    <3>3. /\ calls'[s].pc = "flushing" /\ calls'[s].id = calls[s].id
          /\ calls'[s].dirty = d
      <4>1. calls[s] \in Call
        BY <1>1 DEF CallShape
      <4> QED
        BY <1>1, <3>2, <4>1 DEF Decide, Call
    <3> HIDE DEF count
    <3> QED
      BY <3>1, <3>2, <3>3 DEF CopyWithinCap, Read
  <2> QED
    BY <2>1, <2>2, <2>3, <2>4
<1>4. s # t => calls'[t] = calls[t]
  BY <1>1
<1>5. ASSUME NEW id \in Ids, s # t
      PROVE  WithinBudget(s, t, id)'
  <2>1. Read(t, id)' = Read(t, id)
    BY <1>4, <1>5 DEF Read
  <2> QED
    BY <1>1, <1>3, <1>5, <2>1, BudgetKept
<1>6. CopyWithinCap(t)'
  BY <1>1, <1>3, <1>4 DEF CopyWithinCap
<1> QED
  BY <1>3, <1>5, <1>6, PairStep

\* The commit: a count that was read is written back, plus the guess.
LEMMA PairCommitSteps ==
    ASSUME PInv, IInv', NEW s \in Sessions, NEW t \in Sessions, Sessions = {s, t},
           Commit(s) \/ CommitUnanswered(s)
    PROVE  PInv'
<1> DEFINE i == calls[s].id
           d == calls[s].dirty
<1>1. /\ calls[s].pc = "flushing" /\ otps' = [otps EXCEPT ![i] = Flush(@, d)]
      /\ calls' = [calls EXCEPT ![s] = Idle] /\ DOMAIN calls = Sessions
      /\ CallShape(s) /\ CopyWithinCap(s) /\ CopyWithinCap(t)
      /\ MAX_OTP_ATTEMPTS \in Nat \ {0} /\ misses \in [Ids -> Nat]
  BY SettingsAssumption DEF PInv, IInv, TypeOK, Commit, CommitUnanswered, Flushed
<1>2. i \in DOMAIN otps /\ i \in Ids /\ d \in Dirty /\ IsTable(otps) /\ i # NULL
  BY <1>1, NullAssumption DEF CallShape, Call, PInv, IInv, TypeOK, IsTable
<1>3. /\ DOMAIN otps' = DOMAIN otps /\ otps[i] \in Row
      /\ otps'[i] = Flush(otps[i], d)
      /\ \A j \in DOMAIN otps \ {i} : otps'[j] = otps[j]
  BY <1>1, <1>2, CommitType
<1>4. otps'[i].attempt_count = Assigned(d.attempt_count, otps[i].attempt_count)
  BY <1>2, <1>3, FlushType
<1>5. calls'[s] = Idle /\ (s # t => calls'[t] = calls[t])
  BY <1>1
<1>6. /\ Idle.id = NULL /\ Idle.pc = "idle" /\ Idle.dirty.attempt_count = NULL
  BY DEF Idle, Clean
<1>7. /\ \A j \in Ids \ {i} : misses'[j] = misses[j]
      /\ d.attempt_count = NULL => misses'[i] = misses[i]
      /\ misses'[i] = misses[i] \/ misses'[i] = misses[i] + 1
  BY <1>1, <1>2 DEF Commit, CommitUnanswered
<1>8. CopyWithinCap(s)' /\ CopyWithinCap(t)'
  BY <1>1, <1>5, <1>6 DEF CopyWithinCap
<1>9. ASSUME NEW id \in Ids, s # t
      PROVE  WithinBudget(s, t, id)'
  <2>1. Read(t, id)' = Read(t, id) /\ Read(s, id)' = MAX_OTP_ATTEMPTS
    BY <1>5, <1>6, <1>9, NullAssumption DEF Read
  <2>2. CASE id # i \/ d.attempt_count = NULL
    <3>1. misses'[id] = misses[id]
      BY <1>7, <2>2
    <3>2. id \in DOMAIN otps => otps'[id].attempt_count = otps[id].attempt_count
      BY <1>3, <1>4, <2>2 DEF Assigned
    <3> QED
      BY <1>3, <1>9, <2>1, <3>1, <3>2, BudgetKept
  <2>3. CASE id = i /\ d.attempt_count # NULL
    <3> DEFINE a == otps[id].attempt_count
               p == Read(s, id)
               q == Read(t, id)
    <3>1. /\ p + 1 = d.attempt_count /\ p < MAX_OTP_ATTEMPTS
          /\ otps'[id].attempt_count = p + 1
      <4>1. d.attempt_count \in 1..MAX_OTP_ATTEMPTS
        BY <1>1, <2>3 DEF CopyWithinCap
      <4>2. p = d.attempt_count - 1
        BY <1>1, <2>3 DEF Read
      <4> HIDE DEF d, p
      <4> QED
        BY <1>1, <1>4, <2>3, <4>1, <4>2 DEF Assigned
    <3>2. /\ a \in 0..MAX_OTP_ATTEMPTS /\ p \in 0..MAX_OTP_ATTEMPTS
          /\ q \in 0..MAX_OTP_ATTEMPTS /\ misses[id] \in Nat
      BY <1>2, <2>3, BudgetFacts, ReadRange
    <3>3. 2 * misses[id] + Worth(a, p, q) <= MAX_OTP_ATTEMPTS * (MAX_OTP_ATTEMPTS + 3)
      BY <1>2, <1>9, <2>3 DEF PInv, WithinBudget
    <3> HIDE DEF a, p, q
    <3>4. Worth(p + 1, MAX_OTP_ATTEMPTS, q) + 2 <= Worth(a, p, q)
      BY <3>1, <3>2, WorthOfWrite
    <3>5. Worth(p + 1, MAX_OTP_ATTEMPTS, q) \in Nat /\ Worth(a, p, q) \in Nat
      <4>1. p + 1 \in 0..MAX_OTP_ATTEMPTS /\ MAX_OTP_ATTEMPTS \in 0..MAX_OTP_ATTEMPTS
        BY <1>1, <3>1, <3>2
      <4> QED
        BY <3>2, <4>1, WorthFacts
    <3>6. 2 * misses'[id] + Worth(p + 1, MAX_OTP_ATTEMPTS, q)
             <= MAX_OTP_ATTEMPTS * (MAX_OTP_ATTEMPTS + 3)
      <4>1. PICK b \in Nat : b = MAX_OTP_ATTEMPTS * (MAX_OTP_ATTEMPTS + 3)
        BY <1>1
      <4> QED
        BY <1>7, <2>3, <3>2, <3>3, <3>4, <3>5, <4>1
    <3>7. 2 * misses'[id] + Worth(otps'[id].attempt_count, Read(s, id)', Read(t, id)')
             <= MAX_OTP_ATTEMPTS * (MAX_OTP_ATTEMPTS + 3)
      BY <2>1, <2>3, <3>1, <3>6 DEF q
    <3> QED
      BY <1>2, <1>3, <2>3, <3>7 DEF WithinBudget
  <2> QED
    BY <2>2, <2>3
<1> QED
  BY <1>8, <1>9, PairStep

\* Before any row is inserted no guess was answered.
LEMMA PairInit == Init => PInv
<1> SUFFICES ASSUME Init PROVE PInv
  OBVIOUS
<1>1. IInv
  BY InitHolds
<1>2. \A s \in Sessions : CopyWithinCap(s)
  BY DEF Init, Idle, Clean, CopyWithinCap
<1>3. \A s, t \in Sessions, id \in Ids : WithinBudget(s, t, id)
  BY EmptyType DEF Init, WithinBudget
<1> QED
  BY <1>1, <1>2, <1>3 DEF PInv

\* Every step of OtpService keeps the budget of two handlers.
LEMMA PairNextKeeps ==
    ASSUME NEW a \in Sessions, NEW b \in Sessions, Sessions = {a, b}
    PROVE  PInv /\ [Next]_vars => PInv'
<1> SUFFICES ASSUME PInv, [Next]_vars PROVE PInv'
  OBVIOUS
<1>1. IInv'
  BY NextKeeps DEF PInv
<1>2. ASSUME NEW s \in Sessions, Serve(s)
      PROVE  PInv'
  <2>1. PICK t \in Sessions : Sessions = {s, t}
    OBVIOUS
  <2>2. ASSUME NEW r \in Recipients, SelectNone(s, r)
        PROVE  PInv'
    BY <1>1, <2>2, PairOtherSteps DEF SelectNone
  <2> QED
    BY <1>1, <1>2, <2>1, <2>2, PairCallSteps, PairCommitSteps DEF Serve
<1>3. CASE \/ \E id \in Ids, r \in Recipients, code \in Codes :
                 create_otp(id, r, code) \/ record_blocked(id, r, code)
           \/ \E ids \in SUBSET DOMAIN otps : DeliveryCommit(ids)
           \/ Tick \/ UNCHANGED vars
  BY <1>1, <1>3, PairOtherSteps
<1> QED
  BY <1>2, <1>3 DEF Next

\* Two calls that overlap get at most 2 + 3 + ... + (MAX_OTP_ATTEMPTS + 1) wrong
\* guesses answered, however their writes of attempt_count cross.
THEOREM GuessesBoundedForPairs ==
    ASSUME NEW a \in Sessions, NEW b \in Sessions, Sessions = {a, b}
    PROVE  Spec => []GuessesWithinPairBudget
<1>1. CASE a = b
  <2>1. \A s, t \in Sessions : s = t
    BY <1>1
  <2>2. SInv /\ [Next]_vars => SInv'
    BY <2>1, SerialNextKeeps
  <2>3. SInv => GuessesWithinPairBudget
    <3> SUFFICES ASSUME SInv, NEW id \in Ids
                 PROVE  2 * misses[id] <= MAX_OTP_ATTEMPTS * (MAX_OTP_ATTEMPTS + 3)
      BY DEF GuessesWithinPairBudget
    <3>1. MAX_OTP_ATTEMPTS \in Nat \ {0} /\ misses[id] \in Nat
      BY SettingsAssumption DEF SInv, IInv, TypeOK
    <3>2. misses[id] <= MAX_OTP_ATTEMPTS
      <4>1. CASE id \in DOMAIN otps
        <5>1. /\ misses[id] <= otps[id].attempt_count
              /\ otps[id].attempt_count <= MAX_OTP_ATTEMPTS
              /\ otps[id].attempt_count \in Nat
          BY <4>1 DEF SInv, IInv, TypeOK, IsTable, Row, MissesAreCounted,
                      AttemptsWithinCap
        <5> QED
          BY <3>1, <5>1
      <4>2. CASE id \notin DOMAIN otps
        BY <3>1, <4>2 DEF SInv, FreshIds
      <4> QED
        BY <4>1, <4>2
    <3>3. PICK k \in Nat : MAX_OTP_ATTEMPTS = k + 1
      <4>1. MAX_OTP_ATTEMPTS - 1 \in Nat
        BY <3>1
      <4> QED
        BY <3>1, <4>1
    <3>4. (k + 1) * (k + 4) = 2 * (k + 1) + (k + 1) * (k + 2) /\ (k + 1) * (k + 2) \in Nat
      OBVIOUS
    <3> QED
      BY <3>1, <3>2, <3>3, <3>4
  <2> QED
    BY <2>2, <2>3, SerialInit, PTL DEF Spec
<1>2. CASE a # b
  <2>1. PInv /\ [Next]_vars => PInv'
    BY PairNextKeeps
  <2>2. PInv => GuessesWithinPairBudget
    <3> SUFFICES ASSUME PInv, NEW id \in Ids
                 PROVE  2 * misses[id] <= MAX_OTP_ATTEMPTS * (MAX_OTP_ATTEMPTS + 3)
      BY DEF GuessesWithinPairBudget
    <3>1. /\ WithinBudget(a, b, id) /\ MAX_OTP_ATTEMPTS \in Nat
          /\ MAX_OTP_ATTEMPTS * (MAX_OTP_ATTEMPTS + 3) \in Nat
      BY <1>2, SettingsAssumption DEF PInv
    <3>2. CASE id \in DOMAIN otps
      <4>1. Worth(otps[id].attempt_count, Read(a, id), Read(b, id)) \in Nat
            /\ misses[id] \in Nat
        BY <3>2, BudgetFacts, ReadRange, WorthFacts
      <4>2. PICK n \in Nat : n = MAX_OTP_ATTEMPTS * (MAX_OTP_ATTEMPTS + 3)
        BY <3>1
      <4> QED
        BY <3>1, <3>2, <4>1, <4>2 DEF WithinBudget
    <3>3. CASE id \notin DOMAIN otps
      BY <3>1, <3>3 DEF WithinBudget
    <3> QED
      BY <3>2, <3>3
  <2> QED
    BY <2>1, <2>2, PairInit, PTL DEF Spec
<1> QED
  BY <1>1, <1>2

(***************************************************************************)
(* What the proofs about the whole platform need of the service: what the  *)
(* others may write without disturbing it, and what it writes itself.      *)
(***************************************************************************)
\* verify_otp assigns the status, used_at and attempt_count, and used_at only when
\* the code it was given is the code of the row.
VerifyColumns(d) ==
    /\ d.sent_at = NULL /\ d.delivered_at = NULL /\ d.failed_at = NULL
    /\ d.provider_message_id = NULL
    /\ d.status \in {NULL, "verified", "expired"}

Verifies(s) ==
    /\ VerifyColumns(calls[s].dirty)
    /\ calls[s].pc # "idle" => calls[s].row.code_hash = otps[calls[s].id].code_hash
    /\ calls[s].pc = "loaded" => calls[s].dirty.used_at = NULL
    /\ calls[s].dirty.used_at # NULL => calls[s].pc = "flushing" /\ Matches(s)

\* An idle handler assigns nothing.
LEMMA IdleVerifies ==
    ASSUME NEW s, calls[s] = Idle
    PROVE  Verifies(s)
  BY DEF Idle, Clean, VerifyColumns, Verifies

\* A decision of verify_otp.
LEMMA DecideVerifies ==
    ASSUME IInv, NEW s \in Sessions, Verifies(s), Loaded(s), NEW d, NEW reply,
           Decide(s, d, reply), VerifyColumns(d), d.used_at # NULL => Matches(s)
    PROVE  Verifies(s)' /\ \A t \in Sessions \ {s} : calls'[t] = calls[t]
<1>1. /\ calls[s] \in Call /\ calls[s].pc = "loaded" /\ DOMAIN calls = Sessions
      /\ UNCHANGED otps
  BY DEF IInv, TypeOK, CallShape, Loaded, Decide
<1>2. /\ calls'[s].pc = "flushing" /\ calls'[s].dirty = d
      /\ calls'[s].id = calls[s].id /\ calls'[s].code = calls[s].code
      /\ calls'[s].row = calls[s].row
      /\ \A t \in Sessions \ {s} : calls'[t] = calls[t]
  BY <1>1 DEF Decide, Call
<1>3. Matches(s)' <=> Matches(s)
  BY <1>2 DEF Matches
<1> QED
  BY <1>1, <1>2, <1>3 DEF Verifies

\* The code of a row never changes, so the calls that wait keep their part.
LEMMA WaitingVerifies ==
    ASSUME IInv, NEW t \in Sessions, Verifies(t), calls'[t] = calls[t],
           \A id \in DOMAIN otps : otps'[id].code_hash = otps[id].code_hash
    PROVE  Verifies(t)'
<1>1. calls[t].pc # "idle" => calls[t].id \in DOMAIN otps
  BY DEF IInv, TypeOK, CallShape
<1> QED
  BY <1>1 DEF Verifies, Matches

\* Every step of verify_otp: it concerns one call, and commits at most the columns
\* that call has assigned.
LEMMA ServeVerifies ==
    ASSUME IInv, \A t \in Sessions : Verifies(t), NEW s \in Sessions, Serve(s)
    PROVE  /\ \A t \in Sessions : Verifies(t)'
           /\ \A t \in Sessions \ {s} : calls'[t] = calls[t]
           /\ now' = now
           /\ \/ UNCHANGED otps
              \/ \E id \in DOMAIN otps, d \in Dirty :
                    /\ otps' = [otps EXCEPT ![id] = Flush(@, d)]
                    /\ VerifyColumns(d)
                    /\ calls[s].pc # "idle" /\ calls[s].code \in Codes
                    /\ d.used_at # NULL => hash_code(calls[s].code) = otps[id].code_hash
<1>1. /\ DOMAIN calls = Sessions /\ IsTable(otps) /\ CallShape(s) /\ Verifies(s)
  BY DEF IInv, TypeOK
<1> SUFFICES /\ Verifies(s)' /\ \A t \in Sessions \ {s} : calls'[t] = calls[t]
             /\ now' = now
             /\ \/ UNCHANGED otps
                \/ \E id \in DOMAIN otps, d \in Dirty :
                      /\ otps' = [otps EXCEPT ![id] = Flush(@, d)]
                      /\ VerifyColumns(d)
                      /\ calls[s].pc # "idle" /\ calls[s].code \in Codes
                      /\ d.used_at # NULL => hash_code(calls[s].code) = otps[id].code_hash
  <2>1. \A id \in DOMAIN otps : otps'[id].code_hash = otps[id].code_hash
    <3>1. ASSUME NEW id \in DOMAIN otps, NEW d \in Dirty,
                 otps' = [otps EXCEPT ![id] = Flush(@, d)]
          PROVE  \A i \in DOMAIN otps : otps'[i].code_hash = otps[i].code_hash
      <4>1. /\ otps[id] \in Row /\ otps'[id] = Flush(otps[id], d)
            /\ \A i \in DOMAIN otps \ {id} : otps'[i] = otps[i]
        BY <1>1, <3>1, CommitType
      <4> QED
        BY <4>1, FlushType
    <3> QED
      BY <3>1
  <2> QED
    BY <2>1, WaitingVerifies
<1>2. CASE Expired(s) \/ LockedOut(s) \/ Match(s) \/ Miss(s)
  <2>1. /\ Loaded(s) /\ UNCHANGED <<otps, now>>
        /\ \E d, reply : /\ Decide(s, d, reply) /\ VerifyColumns(d)
                         /\ d.used_at # NULL => Matches(s)
    <3>1. /\ VerifyColumns([Clean EXCEPT !.status = "expired"])
          /\ [Clean EXCEPT !.status = "expired"].used_at = NULL
          /\ VerifyColumns([Clean EXCEPT !.status = "verified", !.used_at = now])
          /\ \A n : /\ VerifyColumns([Clean EXCEPT !.attempt_count = n, !.status = "expired"])
                    /\ [Clean EXCEPT !.attempt_count = n, !.status = "expired"].used_at = NULL
                    /\ VerifyColumns([Clean EXCEPT !.attempt_count = n])
                    /\ [Clean EXCEPT !.attempt_count = n].used_at = NULL
      BY DEF Clean, VerifyColumns
    <3>2. CASE Expired(s)
      BY <3>1, <3>2 DEF Expired, Decide
    <3>3. CASE LockedOut(s)
      BY <3>1, <3>3 DEF LockedOut, Unused, InTime, Decide
    <3>4. CASE Match(s)
      BY <3>1, <3>4 DEF Match, BelowCap, Unused, InTime, Decide
    <3>5. CASE Miss(s)
      <4> DEFINE count == calls[s].row.attempt_count + 1
                 d1 == [Clean EXCEPT !.attempt_count = count, !.status = "expired"]
                 d2 == [Clean EXCEPT !.attempt_count = count]
      <4>1. /\ VerifyColumns(d1) /\ d1.used_at = NULL
            /\ VerifyColumns(d2) /\ d2.used_at = NULL
        BY <3>1
      <4>2. Loaded(s) /\ \E reply : Decide(s, d1, reply) \/ Decide(s, d2, reply)
        BY <3>5 DEF Miss, BelowCap, Unused, InTime
      <4> HIDE DEF d1, d2
      <4> QED
        BY <4>1, <4>2 DEF Decide
    <3> QED
      BY <1>2, <3>2, <3>3, <3>4, <3>5
  <2>2. PICK d, reply : /\ Decide(s, d, reply) /\ VerifyColumns(d)
                        /\ d.used_at # NULL => Matches(s)
    BY <2>1
  <2>3. Verifies(s)' /\ \A t \in Sessions \ {s} : calls'[t] = calls[t]
    BY <1>1, <2>1, <2>2, DecideVerifies
  <2> QED
    BY <2>1, <2>3
<1>3. CASE AlreadyUsed(s) \/ Abandon(s) \/ Commit(s) \/ CommitUnanswered(s)
  <2>1. calls' = [calls EXCEPT ![s] = Idle] /\ now' = now
    BY <1>3 DEF AlreadyUsed, Abandon, Commit, CommitUnanswered
  <2>2. calls'[s] = Idle /\ \A t \in Sessions \ {s} : calls'[t] = calls[t]
    BY <1>1, <2>1
  <2>3. Verifies(s)'
    BY <2>2 DEF Idle, Clean, VerifyColumns, Verifies
  <2>4. CASE Commit(s) \/ CommitUnanswered(s)
    <3>1. PICK id, d : id = calls[s].id /\ d = calls[s].dirty
      OBVIOUS
    <3>2. /\ otps' = [otps EXCEPT ![id] = Flush(@, d)]
          /\ calls[s].pc # "idle" /\ id \in DOMAIN otps /\ d \in Dirty
      BY <1>1, <2>4, <3>1 DEF Commit, CommitUnanswered, Flushed, CallShape, Call
    <3>3. /\ VerifyColumns(d) /\ calls[s].code \in Codes
          /\ d.used_at # NULL => hash_code(calls[s].code) = otps[id].code_hash
      BY <1>1, <3>1, <3>2 DEF Verifies, Matches, verify_code, CallShape
    <3> QED
      BY <2>1, <2>2, <2>3, <3>2, <3>3
  <2>5. CASE UNCHANGED otps
    BY <2>1, <2>2, <2>3, <2>5
  <2> QED
    BY <1>3, <2>4, <2>5 DEF AlreadyUsed, Abandon
<1>4. ASSUME NEW r \in Recipients, NEW code \in Codes, Select(s, r, code)
      PROVE  /\ Verifies(s)' /\ \A t \in Sessions \ {s} : calls'[t] = calls[t]
             /\ UNCHANGED <<otps, now>>
  <2>1. PICK id : calls' = [calls EXCEPT ![s] = [Idle EXCEPT !.pc = "loaded", !.id = id,
                                                  !.code = code, !.row = otps[id]]]
    BY <1>4 DEF Select
  <2>2. /\ calls'[s] = [Idle EXCEPT !.pc = "loaded", !.id = id, !.code = code,
                                    !.row = otps[id]]
        /\ \A t \in Sessions \ {s} : calls'[t] = calls[t]
        /\ UNCHANGED <<otps, now>>
    BY <1>1, <1>4, <2>1 DEF Select
  <2>3. Verifies(s)'
    BY <2>2 DEF Idle, Clean, VerifyColumns, Verifies
  <2> QED
    BY <2>2, <2>3
<1>5. ASSUME NEW r \in Recipients, SelectNone(s, r)
      PROVE  Verifies(s)' /\ UNCHANGED <<otps, now, calls>>
  BY <1>1, <1>5, WaitingVerifies DEF SelectNone, vars
<1> QED
  BY <1>2, <1>3, <1>4, <1>5 DEF Serve
=============================================================================
