------------------------- MODULE OtpRefinementProofs -------------------------
(***************************************************************************)
(* When calls are served one after another, OtpService implements          *)
(* OneTimeCode: a machine-checked simulation, for every table, every cap,  *)
(* every TTL and whatever the delivery tasks write.                        *)
(***************************************************************************)
EXTENDS OtpServiceRefinement, OtpServiceProofs

(***************************************************************************)
(* What the simulation needs beyond SInv: the copy of the only call holds  *)
(* the row's own used_at, its row is no audit row, and a guess is judged   *)
(* on a copy that is unused and below the cap.                             *)
(***************************************************************************)
CopyIsLive(s) ==
    calls[s].pc # "idle" =>
        /\ otps[calls[s].id].status # "blocked"
        /\ calls[s].row.used_at = otps[calls[s].id].used_at

Judges(s, id) ==
    /\ calls[s].pc = "flushing" /\ calls[s].id = id
    /\ calls[s].dirty.used_at # NULL \/ calls[s].dirty.attempt_count # NULL

GuessIsJudged(s) ==
    calls[s].pc = "flushing" =>
        /\ calls[s].dirty.status # "blocked"
        /\ calls[s].reply.verified <=> calls[s].dirty.used_at # NULL
        /\ calls[s].dirty.used_at = NULL \/ calls[s].dirty.attempt_count = NULL
        /\ Judges(s, calls[s].id) => /\ calls[s].row.used_at = NULL
                                     /\ calls[s].row.attempt_count < MAX_OTP_ATTEMPTS

RInv == SInv /\ \A s \in Sessions : CopyIsLive(s) /\ GuessIsJudged(s)

\* Steps that leave the only call and what it copied alone.
LEMMA RefCallKept ==
    ASSUME RInv, NEW s \in Sessions, calls'[s] = calls[s],
           \A id \in DOMAIN otps :
              /\ otps'[id].used_at = otps[id].used_at
              /\ otps'[id].status = "blocked" => otps[id].status = "blocked"
    PROVE  CopyIsLive(s)' /\ GuessIsJudged(s)'
<1>1. CallShape(s) /\ CopyIsLive(s) /\ GuessIsJudged(s)
  BY DEF RInv, SInv, IInv, TypeOK
<1> QED
  BY <1>1 DEF CallShape, CopyIsLive, GuessIsJudged, Judges

\* What a call's commit leaves of a row.
LEMMA CommitRow ==
    ASSUME IInv, NEW s \in Sessions, Commit(s) \/ CommitUnanswered(s),
           NEW id, id = calls[s].id, NEW d, d = calls[s].dirty
    PROVE  /\ calls[s].pc = "flushing" /\ calls'[s] = Idle /\ now' = now
           /\ id \in DOMAIN otps /\ id \in Ids /\ d \in Dirty
           /\ DOMAIN otps' = DOMAIN otps /\ otps[id] \in Row
           /\ otps'[id].used_at = Assigned(d.used_at, otps[id].used_at)
           /\ otps'[id].attempt_count
                 = Assigned(d.attempt_count, otps[id].attempt_count)
           /\ otps'[id].status = Assigned(d.status, otps[id].status)
           /\ otps'[id].expires_at = otps[id].expires_at
           /\ \A i \in DOMAIN otps \ {id} : otps'[i] = otps[i]
<1>1. /\ IsTable(otps) /\ DOMAIN calls = Sessions /\ CallShape(s)
      /\ calls[s].pc = "flushing"
  BY DEF IInv, TypeOK, Commit, CommitUnanswered
<1>2. id \in DOMAIN otps /\ id \in Ids /\ d \in Dirty
  BY <1>1 DEF CallShape, Call, IsTable
<1>3. /\ otps' = [otps EXCEPT ![id] = Flush(@, d)]
      /\ calls'[s] = Idle /\ now' = now
  BY <1>1 DEF Commit, CommitUnanswered, Flushed
<1>4. /\ DOMAIN otps' = DOMAIN otps /\ otps[id] \in Row
      /\ otps'[id] = Flush(otps[id], d)
      /\ \A i \in DOMAIN otps \ {id} : otps'[i] = otps[i]
  BY <1>1, <1>2, <1>3, CommitType
<1> QED
  BY <1>1, <1>2, <1>3, <1>4, FlushType

(***************************************************************************)
(* The strengthened invariant.                                             *)
(***************************************************************************)
\* The columns the decisions assign.
LEMMA DecisionColumns ==
    /\ \A t : LET d == [Clean EXCEPT !.status = "verified", !.used_at = t]
              IN d.used_at = t /\ d.attempt_count = NULL /\ d.status # "blocked"
    /\ \A n : LET d == [Clean EXCEPT !.attempt_count = n, !.status = "expired"]
              IN d.used_at = NULL /\ d.attempt_count = n /\ d.status # "blocked"
    /\ \A n : LET d == [Clean EXCEPT !.attempt_count = n]
              IN d.used_at = NULL /\ d.attempt_count = n /\ d.status # "blocked"
    /\ LET d == [Clean EXCEPT !.status = "expired"]
       IN d.used_at = NULL /\ d.attempt_count = NULL /\ d.status # "blocked"
<1>1. NULL # "blocked"
  BY StatusNames
<1> QED
  BY <1>1 DEF Clean

\* A call that has decided keeps its copy and holds what it will write.
LEMMA DecidedCall ==
    ASSUME IInv, NEW s \in Sessions, NEW d, NEW reply, Decide(s, d, reply)
    PROVE  /\ calls'[s].pc = "flushing" /\ calls'[s].dirty = d
           /\ calls'[s].reply = reply
           /\ calls'[s].id = calls[s].id /\ calls'[s].row = calls[s].row
           /\ UNCHANGED <<otps, now, wins, misses>>
<1>1. calls[s] \in Call /\ DOMAIN calls = Sessions
  BY DEF IInv, TypeOK, CallShape
<1> QED
  BY <1>1 DEF Decide, Call

\* A decision writes used_at with verified=True or a count with verified=False, on
\* a copy in time, unused and below the cap, or neither.
LEMMA DecisionShape ==
    ASSUME IInv, NEW s \in Sessions,
           Expired(s) \/ LockedOut(s) \/ Match(s) \/ Miss(s)
    PROVE  /\ calls[s].pc = "loaded" /\ calls'[s].pc = "flushing"
           /\ calls'[s].id = calls[s].id /\ calls'[s].row = calls[s].row
           /\ UNCHANGED <<otps, now, wins, misses>>
           /\ calls'[s].dirty.status # "blocked"
           /\ calls'[s].reply.verified <=> calls'[s].dirty.used_at # NULL
           /\ \/ calls'[s].dirty.used_at = NULL /\ calls'[s].dirty.attempt_count = NULL
              \/ /\ calls'[s].dirty.used_at = NULL \/ calls'[s].dirty.attempt_count = NULL
                 /\ calls[s].row.used_at = NULL
                 /\ calls[s].row.attempt_count < MAX_OTP_ATTEMPTS
                 /\ now < calls[s].row.expires_at
<1>1. calls[s].pc = "loaded"
  BY DEF Expired, LockedOut, Match, Miss, BelowCap, Unused, InTime, Loaded
<1>2. /\ now # NULL
      /\ \A n, st : Reply(TRUE, n, st).verified /\ ~Reply(FALSE, n, st).verified
  BY NullAssumption, ServiceAssumption DEF IInv, TypeOK, Reply
<1>3. CASE Expired(s) \/ LockedOut(s)
  <2> DEFINE d == [Clean EXCEPT !.status = "expired"]
             reply == Reply(FALSE, 0, "expired")
  <2>1. Decide(s, d, reply)
    BY <1>3 DEF Expired, LockedOut
  <2>2. /\ ~reply.verified /\ d.used_at = NULL /\ d.attempt_count = NULL
        /\ d.status # "blocked"
    BY <1>2, DecisionColumns
  <2> HIDE DEF d, reply
  <2>3. ~calls'[s].reply.verified
    BY <2>1, <2>2, DecidedCall
  <2> QED
    BY <1>1, <2>1, <2>2, <2>3, DecidedCall
<1>4. CASE Match(s)
  <2> DEFINE d == [Clean EXCEPT !.status = "verified", !.used_at = now]
             reply == Reply(TRUE, MAX_OTP_ATTEMPTS - calls[s].row.attempt_count,
                            "verified")
  <2>1. Decide(s, d, reply) /\ BelowCap(s)
    BY <1>4 DEF Match
  <2>2. reply.verified /\ d.used_at # NULL /\ d.attempt_count = NULL
        /\ d.status # "blocked"
    BY <1>2, DecisionColumns
  <2> HIDE DEF d, reply
  <2>3. calls'[s].reply.verified
    BY <2>1, <2>2, DecidedCall
  <2> QED
    BY <1>1, <2>1, <2>2, <2>3, DecidedCall DEF BelowCap, Unused, InTime
<1>5. CASE Miss(s)
  <2> DEFINE count == calls[s].row.attempt_count + 1
  <2>1. PICK d, reply : /\ Decide(s, d, reply) /\ ~reply.verified
                        /\ d.used_at = NULL /\ d.status # "blocked"
    <3>1. CASE count >= MAX_OTP_ATTEMPTS
      <4> DEFINE d == [Clean EXCEPT !.attempt_count = count, !.status = "expired"]
                 reply == Reply(FALSE, 0, "expired")
      <4>1. Decide(s, d, reply)
        BY <1>5, <3>1 DEF Miss
      <4>2. ~reply.verified /\ d.used_at = NULL /\ d.status # "blocked"
        BY <1>2, DecisionColumns
      <4> HIDE DEF d, reply
      <4> QED
        BY <4>1, <4>2
    <3>2. CASE ~(count >= MAX_OTP_ATTEMPTS)
      <4> DEFINE d == [Clean EXCEPT !.attempt_count = count]
                 reply == Reply(FALSE, MAX_OTP_ATTEMPTS - count, calls[s].row.status)
      <4>1. Decide(s, d, reply)
        BY <1>5, <3>2 DEF Miss
      <4>2. ~reply.verified /\ d.used_at = NULL /\ d.status # "blocked"
        BY <1>2, DecisionColumns
      <4> HIDE DEF d, reply
      <4> QED
        BY <4>1, <4>2
    <3> QED
      BY <3>1, <3>2
  <2>2. BelowCap(s)
    BY <1>5 DEF Miss
  <2>3. ~calls'[s].reply.verified
    BY <2>1, DecidedCall
  <2> QED
    BY <1>1, <2>1, <2>2, <2>3, DecidedCall DEF BelowCap, Unused, InTime
<1> QED
  BY <1>3, <1>4, <1>5

\* The SELECT copies a row that is live.
LEMMA SelectShape ==
    ASSUME IInv, NEW s \in Sessions, NEW r, NEW code, Select(s, r, code)
    PROVE  /\ calls[s].pc = "idle" /\ calls'[s].pc = "loaded"
           /\ UNCHANGED <<otps, now, wins, misses>>
           /\ calls'[s].row = otps[calls'[s].id]
           /\ otps[calls'[s].id].status # "blocked"
<1>1. PICK id \in LatestActive(otps, r) :
         calls' = [calls EXCEPT ![s] = [Idle EXCEPT !.pc   = "loaded",
                                                    !.id   = id,
                                                    !.code = code,
                                                    !.row  = otps[id]]]
  BY DEF Select
<1>2. otps[id].status # "blocked"
  BY DEF LatestActive, ActiveIds, Active
<1>3. DOMAIN calls = Sessions
  BY DEF IInv, TypeOK
<1>4. calls'[s].pc = "loaded" /\ calls'[s].id = id /\ calls'[s].row = otps[id]
  BY <1>1, <1>3 DEF Idle
<1> QED
  BY <1>2, <1>4 DEF Select

\* The invariant of the refinement holds at first.
LEMMA RefInit == Init => RInv
<1> SUFFICES ASSUME Init PROVE RInv
  OBVIOUS
<1>1. \A s \in Sessions : calls[s].pc = "idle"
  BY DEF Init, Idle
<1> QED
  BY <1>1, SerialInit DEF RInv, CopyIsLive, GuessIsJudged

\* With one handler every step keeps the invariant of the refinement.
LEMMA RefNextKeeps ==
    ASSUME \A s, t \in Sessions : s = t
    PROVE  RInv /\ [Next]_vars => RInv'
<1> SUFFICES ASSUME RInv, [Next]_vars, NEW s \in Sessions
             PROVE  CopyIsLive(s)' /\ GuessIsJudged(s)'
  BY SerialNextKeeps DEF RInv
<1>1. /\ IInv /\ IsTable(otps) /\ CopyIsLive(s) /\ GuessIsJudged(s)
      /\ DOMAIN calls = Sessions
  BY DEF RInv, SInv, IInv, TypeOK
<1>2. CASE Expired(s) \/ LockedOut(s) \/ Match(s) \/ Miss(s)
  BY <1>1, <1>2, DecisionShape DEF CopyIsLive, GuessIsJudged, Judges
<1>3. ASSUME NEW r, NEW code, Select(s, r, code)
      PROVE  CopyIsLive(s)' /\ GuessIsJudged(s)'
  BY <1>1, <1>3, SelectShape DEF CopyIsLive, GuessIsJudged
<1>4. CASE AlreadyUsed(s) \/ Abandon(s) \/ Commit(s) \/ CommitUnanswered(s)
  <2>1. calls'[s] = Idle
    BY <1>1, <1>4 DEF AlreadyUsed, Abandon, Commit, CommitUnanswered
  <2> QED
    BY <2>1 DEF Idle, CopyIsLive, GuessIsJudged
<1>5. ASSUME NEW ids \in SUBSET DOMAIN otps, DeliveryCommit(ids)
      PROVE  CopyIsLive(s)' /\ GuessIsJudged(s)'
  <2>1. \A i \in DOMAIN otps :
           /\ otps'[i].used_at = otps[i].used_at
           /\ otps'[i].status = "blocked" => otps[i].status = "blocked"
    BY <1>1, <1>5, DeliveryRows
  <2> QED
    BY <1>1, <1>5, <2>1, DeliveryRows, RefCallKept
<1>6. ASSUME NEW id \in Ids, NEW r \in Recipients, NEW code \in Codes,
             create_otp(id, r, code) \/ record_blocked(id, r, code)
      PROVE  CopyIsLive(s)' /\ GuessIsJudged(s)'
  <2>1. /\ UNCHANGED calls /\ \A i \in DOMAIN otps : otps'[i] = otps[i]
    BY <1>6 DEF create_otp, record_blocked, Insert, FreshIds
  <2> QED
    BY <2>1, RefCallKept
<1>7. CASE Tick \/ UNCHANGED vars \/ \E r \in Recipients : SelectNone(s, r)
  <2>1. UNCHANGED <<otps, calls>>
    BY <1>7 DEF Tick, SelectNone, vars
  <2> QED
    BY <2>1, RefCallKept
<1>8. ASSUME NEW t \in Sessions, Serve(t) PROVE Serve(s)
  BY <1>8
<1> QED
  BY <1>2, <1>3, <1>4, <1>5, <1>6, <1>7, <1>8 DEF Next, Serve

(***************************************************************************)
(* The simulation.                                                         *)
(***************************************************************************)
AbsPhase == [id \in Ids |-> Phase(id)]

Tries(id) == IF id \in DOMAIN otps THEN otps[id].attempt_count ELSE 0
AbsTries  == [id \in Ids |-> Tries(id)]

\* With one handler, a guess on its way to the row is that handler's.
LEMMA OneJudge ==
    ASSUME \A s, t \in Sessions : s = t, NEW s \in Sessions, NEW id
    PROVE  /\ JudgedInTime(id) <=> Judges(s, id)
           /\ JudgedInTime(id)' <=> Judges(s, id)'
<1>1. \A t \in Sessions : t = s
  OBVIOUS
<1> QED
  BY <1>1 DEF JudgedInTime, Judges

\* The columns a phase is read from.
LEMMA PhaseSame ==
    ASSUME IsTable(otps), now \in Nat, now' = now,
           NEW id \in Ids, id \in DOMAIN otps' <=> id \in DOMAIN otps,
           id \in DOMAIN otps =>
              /\ otps'[id].used_at = otps[id].used_at
              /\ otps'[id].attempt_count = otps[id].attempt_count
              /\ otps'[id].expires_at = otps[id].expires_at
              /\ otps'[id].status = "blocked" <=> otps[id].status = "blocked"
              /\ \/ now < otps[id].expires_at
                 \/ JudgedInTime(id)' <=> JudgedInTime(id)
    PROVE  Phase(id)' = Phase(id) /\ Tries(id)' = Tries(id)
<1>1. CASE id \in DOMAIN otps
  <2>1. otps[id].expires_at \in Nat
    BY <1>1 DEF IsTable, Row, Time
  <2>2. IsDead(id)' <=> IsDead(id)
    BY <1>1, <2>1 DEF IsDead
  <2> QED
    BY <1>1, <2>2 DEF Phase, Tries
<1>2. CASE id \notin DOMAIN otps
  BY <1>2 DEF Phase, Tries
<1> QED
  BY <1>1, <1>2

\* The abstract state is what it was.
LEMMA Stutters ==
    ASSUME UNCHANGED wins,
           \A id \in Ids : Phase(id)' = Phase(id) /\ Tries(id)' = Tries(id)
    PROVE  UNCHANGED Abs!vars
<1>1. AbsPhase' = AbsPhase /\ AbsTries' = AbsTries
  BY DEF AbsPhase, AbsTries
<1> QED
  BY <1>1 DEF AbsPhase, AbsTries, Tries, Abs!vars

\* Issuing a code, or the audit row of a refused request.
LEMMA IssueSimulates ==
    ASSUME RInv, NEW id \in Ids, NEW r \in Recipients, NEW code \in Codes,
           create_otp(id, r, code) \/ record_blocked(id, r, code)
    PROVE  Abs!Issue(id) \/ Abs!IssueDead(id)
<1>1. /\ IsTable(otps) /\ now \in Nat /\ id \notin DOMAIN otps
      /\ UNCHANGED <<now, calls, wins>>
  BY ServiceAssumption
  DEF RInv, SInv, IInv, TypeOK, create_otp, record_blocked, FreshIds
<1>2. \A i : JudgedInTime(i)' <=> JudgedInTime(i)
  BY <1>1 DEF JudgedInTime
<1>3. ~JudgedInTime(id)
  BY <1>1 DEF RInv, SInv, IInv, TypeOK, CallShape, JudgedInTime
<1>4. PICK row \in Row :
         /\ otps' = Insert(otps, id, row)
         /\ row.used_at = NULL /\ row.attempt_count = 0
         /\ \/ row.status = "pending" /\ row.expires_at > now
            \/ row.status = "blocked"
  <2>1. Channel(r) \in Channels /\ CreatedAt \subseteq Nat
    BY <1>1 DEF Channel, Channels, CreatedAt
  <2>2. CASE create_otp(id, r, code)
    <3>1. PICK created \in CreatedAt :
             otps' = Insert(otps, id, NewRow(r, Channel(r), code, "pending",
                                             created, now + OTP_TTL_SECONDS))
      BY <2>2 DEF create_otp
    <3>2. now + OTP_TTL_SECONDS \in Nat /\ now + OTP_TTL_SECONDS > now
      BY <1>1, SettingsAssumption
    <3>3. NewRow(r, Channel(r), code, "pending", created,
                 now + OTP_TTL_SECONDS).expires_at = now + OTP_TTL_SECONDS
      BY DEF NewRow
    <3> QED
      BY <2>1, <2>2, <3>1, <3>2, <3>3, StatusNames, NewRowType
  <2>3. CASE record_blocked(id, r, code)
    <3>1. PICK created \in CreatedAt :
             otps' = Insert(otps, id, NewRow(r, Channel(r), code, "blocked",
                                             created, now))
      BY <2>3 DEF record_blocked
    <3> QED
      BY <1>1, <2>1, <2>3, <3>1, StatusNames, NewRowType
  <2> QED
    BY <2>2, <2>3
<1>5. /\ DOMAIN otps' = DOMAIN otps \cup {id} /\ otps'[id] = row
      /\ \A i \in DOMAIN otps : otps'[i] = otps[i]
  BY <1>1, <1>4 DEF Insert
<1>6. \A i \in Ids \ {id} : Phase(i)' = Phase(i) /\ Tries(i)' = Tries(i)
  BY <1>1, <1>2, <1>5, PhaseSame
<1>7. /\ Phase(id) = "none" /\ Tries(id)' = Tries(id)
      /\ Phase(id)' = "live" \/ Phase(id)' = "dead"
  <2>1. Phase(id) = "none" /\ Tries(id)' = Tries(id)
    BY <1>1, <1>4, <1>5 DEF Phase, Tries
  <2>2. row.status = "blocked" => Phase(id)' = "dead"
    BY <1>4, <1>5 DEF Phase, IsDead
  <2>3. row.status = "pending" /\ row.expires_at > now => Phase(id)' = "live"
    BY <1>1, <1>2, <1>3, <1>4, <1>5, SettingsAssumption DEF Phase, IsDead, Row, Time
  <2> QED
    BY <1>4, <2>1, <2>2, <2>3
<1>8. PICK new \in {"live", "dead"} : Phase(id)' = new
  BY <1>7
<1>9. /\ AbsPhase[id] = "none" /\ AbsPhase' = [AbsPhase EXCEPT ![id] = new]
      /\ AbsTries' = AbsTries /\ wins' = wins
  BY <1>1, <1>6, <1>7, <1>8 DEF AbsPhase, AbsTries
<1> QED
  BY <1>8, <1>9 DEF Abs!Issue, Abs!IssueDead, AbsPhase, AbsTries, Tries

\* Whatever a call does before it writes, and whatever a delivery task writes,
\* leaves the code as it is.
LEMMA QuietSimulates ==
    ASSUME \A s, t \in Sessions : s = t, RInv,
           \/ \E s \in Sessions :
                 \/ \E r \in Recipients : SelectNone(s, r)
                 \/ \E r \in Recipients, code \in Codes : Select(s, r, code)
                 \/ Expired(s) \/ AlreadyUsed(s) \/ LockedOut(s) \/ Match(s) \/ Miss(s)
           \/ \E ids \in SUBSET DOMAIN otps : DeliveryCommit(ids)
           \/ UNCHANGED vars
    PROVE  UNCHANGED Abs!vars
<1>1. /\ IsTable(otps) /\ now \in Nat /\ IInv /\ DOMAIN calls = Sessions
      /\ \A s \in Sessions : CopyIsFaithful(s)
  BY ServiceAssumption DEF RInv, SInv, IInv, TypeOK
<1>2. ASSUME UNCHANGED <<otps, now, wins>>,
             \A id \in DOMAIN otps : \/ now < otps[id].expires_at
                                     \/ JudgedInTime(id)' <=> JudgedInTime(id)
      PROVE  UNCHANGED Abs!vars
  <2>1. \A id \in Ids : Phase(id)' = Phase(id) /\ Tries(id)' = Tries(id)
    BY <1>1, <1>2, PhaseSame
  <2> QED
    BY <1>2, <2>1, Stutters
<1>3. CASE UNCHANGED vars \/ \E s \in Sessions, r \in Recipients : SelectNone(s, r)
  <2>1. UNCHANGED <<otps, now, wins, calls>>
    BY <1>3 DEF vars, SelectNone
  <2> QED
    BY <1>2, <2>1 DEF JudgedInTime
<1>4. ASSUME NEW s \in Sessions,
             AlreadyUsed(s) \/ \E r \in Recipients, code \in Codes : Select(s, r, code)
      PROVE  UNCHANGED Abs!vars
  <2>1. /\ UNCHANGED <<otps, now, wins>>
        /\ calls[s].pc # "flushing" /\ calls'[s].pc # "flushing"
    <3>1. CASE AlreadyUsed(s)
      BY <1>1, <3>1 DEF AlreadyUsed, InTime, Loaded, Idle
    <3>2. CASE \E r \in Recipients, code \in Codes : Select(s, r, code)
      BY <1>1, <3>2, SelectShape
    <3> QED
      BY <1>4, <3>1, <3>2
  <2>2. \A id : ~Judges(s, id) /\ ~Judges(s, id)'
    BY <2>1 DEF Judges
  <2>3. \A id : JudgedInTime(id)' <=> JudgedInTime(id)
    BY <2>2, OneJudge
  <2> QED
    BY <1>2, <2>1, <2>3
<1>5. ASSUME NEW s \in Sessions, Expired(s) \/ LockedOut(s) \/ Match(s) \/ Miss(s)
      PROVE  UNCHANGED Abs!vars
  <2>1. /\ UNCHANGED <<otps, now, wins>> /\ calls[s].pc = "loaded"
        /\ calls'[s].id = calls[s].id
        /\ calls[s].row.expires_at = otps[calls[s].id].expires_at
        /\ \/ calls'[s].dirty.used_at = NULL /\ calls'[s].dirty.attempt_count = NULL
           \/ now < calls[s].row.expires_at
    BY <1>1, <1>5, DecisionShape DEF CopyIsFaithful
  <2>2. ASSUME NEW id
        PROVE  ~Judges(s, id) /\ (Judges(s, id)' => now < otps[id].expires_at)
    BY <2>1 DEF Judges
  <2>3. \A id \in DOMAIN otps : \/ now < otps[id].expires_at
                                \/ JudgedInTime(id)' <=> JudgedInTime(id)
    BY <2>2, OneJudge
  <2> QED
    BY <1>2, <2>1, <2>3
<1>6. ASSUME NEW ids \in SUBSET DOMAIN otps, DeliveryCommit(ids)
      PROVE  UNCHANGED Abs!vars
  <2>1. UNCHANGED <<now, calls, wins>>
    BY <1>1, <1>6, DeliveryRows
  <2>2. \A i : JudgedInTime(i)' <=> JudgedInTime(i)
    BY <2>1 DEF JudgedInTime
  <2>3. \A i \in Ids : Phase(i)' = Phase(i) /\ Tries(i)' = Tries(i)
    BY <1>1, <1>6, <2>1, <2>2, DeliveryRows, PhaseSame
  <2> QED
    BY <2>1, <2>3, Stutters
<1> QED
  BY <1>3, <1>4, <1>5, <1>6

\* A guess that is given up after its code's time, and the clock: codes die.
LEMMA DyingSimulates ==
    ASSUME RInv, UNCHANGED <<otps, wins>>, now' \in Nat, now <= now',
           \A id : JudgedInTime(id)' => JudgedInTime(id)
    PROVE  \E ids \in SUBSET Ids : Abs!Expire(ids)
<1>1. IsTable(otps) /\ now \in Nat
  BY ServiceAssumption DEF RInv, SInv, IInv, TypeOK
<1>2. ASSUME NEW id \in Ids
      PROVE  /\ Tries(id)' = Tries(id)
             /\ \/ Phase(id)' = Phase(id)
                \/ Phase(id) = "live" /\ Phase(id)' = "dead"
  <2>1. CASE id \in DOMAIN otps
    <3>1. otps[id].expires_at \in Nat
      BY <1>1, <2>1 DEF IsTable, Row, Time
    <3>2. IsDead(id) => IsDead(id)'
      BY <1>1, <3>1 DEF IsDead
    <3> QED
      BY <2>1, <3>2 DEF Phase, Tries
  <2>2. CASE id \notin DOMAIN otps
    BY <2>2 DEF Phase, Tries
  <2> QED
    BY <2>1, <2>2
<1> DEFINE ids == {id \in Ids : Phase(id)' # Phase(id)}
<1>3. /\ \A id \in ids : AbsPhase[id] = "live"
      /\ AbsPhase' = [id \in Ids |-> IF id \in ids THEN "dead" ELSE AbsPhase[id]]
      /\ AbsTries' = AbsTries
  BY <1>2 DEF AbsPhase, AbsTries
<1>4. ids \in SUBSET Ids
  OBVIOUS
<1> HIDE DEF ids
<1>5. Abs!Expire(ids)
  BY <1>3 DEF Abs!Expire, AbsPhase, AbsTries, Tries
<1> QED
  BY <1>4, <1>5

\* A call that dies before its commit is a stutter, or its code's expiry.
LEMMA AbandonSimulates ==
    ASSUME \A s, t \in Sessions : s = t, RInv, NEW s \in Sessions, Abandon(s)
    PROVE  \E ids \in SUBSET Ids : Abs!Expire(ids)
<1>1. /\ UNCHANGED <<otps, wins, now>> /\ calls'[s].pc = "idle" /\ now \in Nat
  BY ServiceAssumption DEF RInv, SInv, IInv, TypeOK, Abandon, Idle
<1>2. \A id : ~Judges(s, id)'
  BY <1>1 DEF Judges
<1>3. \A id : ~JudgedInTime(id)'
  BY <1>2, OneJudge
<1> QED
  BY <1>1, <1>3, DyingSimulates

\* The clock is a stutter, or the expiry of the codes that grew too old.
LEMMA TickSimulates ==
    ASSUME RInv, Tick
    PROVE  \E ids \in SUBSET Ids : Abs!Expire(ids)
<1>1. UNCHANGED <<otps, wins, calls>> /\ now' \in Nat /\ now <= now'
  BY ServiceAssumption DEF RInv, SInv, IInv, TypeOK, Tick
<1>2. \A id : JudgedInTime(id)' => JudgedInTime(id)
  BY <1>1 DEF JudgedInTime
<1> QED
  BY <1>1, <1>2, DyingSimulates

\* The commit of a call: an acceptance, a miss, or nothing anybody can tell.
LEMMA CommitSimulates ==
    ASSUME \A s, t \in Sessions : s = t, RInv,
           NEW s \in Sessions, Commit(s) \/ CommitUnanswered(s)
    PROVE  Abs!Next \/ UNCHANGED Abs!vars
<1>1. PICK id, d : id = calls[s].id /\ d = calls[s].dirty
  OBVIOUS
<1>2. /\ IInv /\ IsTable(otps) /\ now \in Nat /\ CallShape(s)
      /\ CopyIsCurrent(s) /\ DecisionCounts(s) /\ CopyIsLive(s) /\ GuessIsJudged(s)
      /\ wins \in [Sessions -> [Ids -> Nat]]
  BY ServiceAssumption DEF RInv, SInv, IInv, TypeOK
<1>3. /\ calls[s].pc = "flushing" /\ calls'[s] = Idle /\ now' = now
      /\ id \in DOMAIN otps /\ id \in Ids /\ d \in Dirty
      /\ DOMAIN otps' = DOMAIN otps /\ otps[id] \in Row
      /\ otps'[id].used_at = Assigned(d.used_at, otps[id].used_at)
      /\ otps'[id].attempt_count = Assigned(d.attempt_count, otps[id].attempt_count)
      /\ otps'[id].status = Assigned(d.status, otps[id].status)
      /\ otps'[id].expires_at = otps[id].expires_at
      /\ \A i \in DOMAIN otps \ {id} : otps'[i] = otps[i]
  BY <1>1, <1>2, CommitRow
<1>4. /\ otps[id].status # "blocked" /\ d.status # "blocked"
      /\ d.used_at = NULL \/ d.attempt_count = NULL
      /\ calls[s].reply.verified <=> d.used_at # NULL
      /\ Judges(s, id) <=> d.used_at # NULL \/ d.attempt_count # NULL
      /\ Judges(s, id) => /\ otps[id].used_at = NULL
                          /\ otps[id].attempt_count < MAX_OTP_ATTEMPTS
      /\ d.attempt_count # NULL => d.attempt_count = otps[id].attempt_count + 1
  BY <1>1, <1>2, <1>3
  DEF CopyIsCurrent, DecisionCounts, CopyIsLive, GuessIsJudged, Judges
<1>5. /\ otps'[id].status # "blocked" /\ otps[id].attempt_count \in Nat
      /\ otps[id].expires_at \in Nat
  BY <1>3, <1>4 DEF Assigned, Row, Time
<1>6. /\ \A i : ~JudgedInTime(i)' /\ (i # id => ~JudgedInTime(i))
      /\ JudgedInTime(id) <=> Judges(s, id)
  <2>1. \A i : ~Judges(s, i)' /\ (i # id => ~Judges(s, i))
    BY <1>1, <1>3 DEF Judges, Idle
  <2> QED
    BY <2>1, OneJudge
<1>7. \A i \in Ids \ {id} : Phase(i)' = Phase(i) /\ Tries(i)' = Tries(i)
  BY <1>2, <1>3, <1>6, PhaseSame
<1>8. Judges(s, id) => Phase(id) = "live"
  <2>1. otps[id].attempt_count < MAX_OTP_ATTEMPTS =>
           ~(otps[id].attempt_count >= MAX_OTP_ATTEMPTS)
    BY <1>5, SettingsAssumption
  <2>2. Judges(s, id) => ~IsDead(id) /\ otps[id].used_at = NULL
    BY <1>4, <1>6, <2>1 DEF IsDead
  <2> QED
    BY <1>3, <2>2 DEF Phase
<1>9. /\ Commit(s) => wins' = IF calls[s].reply.verified
                              THEN [wins EXCEPT ![s][id] = @ + 1] ELSE wins
      /\ CommitUnanswered(s) => wins' = wins
  BY <1>1 DEF Commit, CommitUnanswered
<1>10. CASE d.used_at # NULL
  <2>1. Judges(s, id) /\ d.attempt_count = NULL
    BY <1>4, <1>10
  <2>2. Phase(id)' = "used" /\ Tries(id)' = Tries(id) /\ Tries(id) < MAX_OTP_ATTEMPTS
    BY <1>3, <1>4, <1>10, <2>1 DEF Phase, Tries, Assigned
  <2>3. /\ AbsPhase[id] = "live" /\ AbsPhase' = [AbsPhase EXCEPT ![id] = "used"]
        /\ AbsTries[id] < MAX_OTP_ATTEMPTS /\ AbsTries' = AbsTries
    BY <1>3, <1>7, <1>8, <2>1, <2>2 DEF AbsPhase, AbsTries
  <2>4. \/ \E c \in Sessions : wins' = [wins EXCEPT ![c][id] = @ + 1]
        \/ wins' = wins
    BY <1>9
  <2>5. Abs!Accept(id)
    BY <2>3, <2>4 DEF Abs!Accept, AbsPhase, AbsTries, Tries
  <2> QED
    BY <1>3, <2>5 DEF Abs!Next
<1>11. CASE d.attempt_count # NULL
  <2>1. /\ Judges(s, id) /\ d.used_at = NULL /\ wins' = wins
        /\ d.attempt_count = otps[id].attempt_count + 1
    BY <1>4, <1>9, <1>11
  <2>2. Tries(id)' = Tries(id) + 1 /\ Tries(id) < MAX_OTP_ATTEMPTS
    BY <1>3, <1>4, <1>11, <2>1 DEF Tries, Assigned
  <2>3. /\ Phase(id)' \in {"live", "dead"}
        /\ Tries(id)' = MAX_OTP_ATTEMPTS => Phase(id)' = "dead"
    <3>1. otps'[id].used_at = NULL /\ otps'[id].attempt_count = Tries(id)'
      BY <1>3, <1>4, <2>1 DEF Assigned, Tries
    <3> QED
      BY <1>3, <3>1, SettingsAssumption DEF Phase, IsDead
  <2>4. PICK after \in {"live", "dead"} :
           /\ Phase(id)' = after
           /\ Tries(id)' = MAX_OTP_ATTEMPTS => after = "dead"
    BY <2>3
  <2>5. /\ AbsPhase[id] = "live" /\ AbsPhase' = [AbsPhase EXCEPT ![id] = after]
        /\ AbsTries[id] < MAX_OTP_ATTEMPTS
        /\ AbsTries' = [AbsTries EXCEPT ![id] = @ + 1]
        /\ AbsTries'[id] = MAX_OTP_ATTEMPTS => after = "dead"
    BY <1>3, <1>7, <1>8, <2>1, <2>2, <2>4 DEF AbsPhase, AbsTries
  <2>6. Abs!Miss(id)
    BY <2>1, <2>5 DEF Abs!Miss, AbsPhase, AbsTries, Tries
  <2> QED
    BY <1>3, <2>6 DEF Abs!Next
<1>12. CASE d.used_at = NULL /\ d.attempt_count = NULL
  <2>1. ~Judges(s, id) /\ wins' = wins
    BY <1>4, <1>9, <1>12
  <2>2. Phase(id)' = Phase(id) /\ Tries(id)' = Tries(id)
    <3>1. /\ otps'[id].used_at = otps[id].used_at
          /\ otps'[id].attempt_count = otps[id].attempt_count
      BY <1>3, <1>12 DEF Assigned
    <3> QED
      BY <1>2, <1>3, <1>4, <1>5, <1>6, <2>1, <3>1, PhaseSame
  <2> QED
    BY <1>7, <2>1, <2>2, Stutters
<1> QED
  BY <1>10, <1>11, <1>12

\* The initial state of the service is that of the one-time code.
LEMMA InitSimulates == Init => Abs!Init
<1> SUFFICES ASSUME Init PROVE Abs!Init
  OBVIOUS
<1>1. DOMAIN otps = {} /\ wins = [s \in Sessions |-> [id \in Ids |-> 0]]
  BY EmptyType DEF Init
<1>2. /\ AbsPhase = [id \in Ids |-> "none"] /\ AbsTries = [id \in Ids |-> 0]
  BY <1>1 DEF AbsPhase, AbsTries, Phase, Tries
<1> QED
  BY <1>1, <1>2 DEF Abs!Init, AbsPhase, AbsTries, Tries

\* Every step of the service is a step of the one-time code or a stutter.
LEMMA StepSimulates ==
    ASSUME \A s, t \in Sessions : s = t, RInv, [Next]_vars
    PROVE  [Abs!Next]_(Abs!vars)
<1>1. ASSUME NEW id \in Ids, NEW r \in Recipients, NEW code \in Codes,
             create_otp(id, r, code) \/ record_blocked(id, r, code)
      PROVE  Abs!Next
  BY <1>1, IssueSimulates DEF Abs!Next
<1>2. CASE Tick
  BY <1>2, TickSimulates DEF Abs!Next
<1>3. ASSUME NEW s \in Sessions, Abandon(s)
      PROVE  Abs!Next
  BY <1>3, AbandonSimulates DEF Abs!Next
<1>4. ASSUME NEW s \in Sessions, Commit(s) \/ CommitUnanswered(s)
      PROVE  Abs!Next \/ UNCHANGED Abs!vars
  BY <1>4, CommitSimulates
<1>5. CASE \/ \E s \in Sessions :
                 \/ \E r \in Recipients : SelectNone(s, r)
                 \/ \E r \in Recipients, code \in Codes : Select(s, r, code)
                 \/ Expired(s) \/ AlreadyUsed(s) \/ LockedOut(s) \/ Match(s) \/ Miss(s)
           \/ \E ids \in SUBSET DOMAIN otps : DeliveryCommit(ids)
           \/ UNCHANGED vars
  BY <1>5, QuietSimulates
<1> QED
  BY <1>1, <1>2, <1>3, <1>4, <1>5 DEF Next, Serve

(***************************************************************************)
(* The theorem.                                                            *)
(***************************************************************************)
\* When the calls for a code are served one after another, verify_otp is the
\* one-time code: issued once, accepted at most once, guessed wrong at most
\* MAX_OTP_ATTEMPTS times and never back from used or dead, for every cap and TTL
\* and whatever the delivery tasks write to the status of its row.
THEOREM OneTimeCodeWhenSerial ==
    (\A s, t \in Sessions : s = t) => (Spec => ImplementsOneTimeCode)
<1> SUFFICES ASSUME \A s, t \in Sessions : s = t PROVE Spec => Abs!Spec
  BY DEF ImplementsOneTimeCode
<1>1. Init => RInv /\ Abs!Init
  BY RefInit, InitSimulates
<1>2. RInv /\ [Next]_vars => RInv'
  BY RefNextKeeps
<1>3. RInv /\ [Next]_vars => [Abs!Next]_(Abs!vars)
  BY StepSimulates
<1> QED
  BY <1>1, <1>2, <1>3, PTL DEF Spec, Abs!Spec
=============================================================================
