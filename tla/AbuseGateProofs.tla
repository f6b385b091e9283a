--------------------------- MODULE AbuseGateProofs ---------------------------
(***************************************************************************)
(* Machine-checked theorems about AbuseGate, for every number of handlers, *)
(* administrators, recipients and addresses, all caps and windows.         *)
(***************************************************************************)
EXTENDS AbuseGate, FiniteSetTheorems, TLAPS

\* The handlers that looked v up, found it unlisted, and may still admit a row.
PastRecipient == {"ip", "hour", "day", "ip_hour", "admit"}
PastIp        == {"hour", "day", "ip_hour", "admit"}

IsPast(g, v) == /\ ~calls[g].failed
                /\ \/ calls[g].pc \in PastRecipient /\ calls[g].recipient = v
                   \/ calls[g].pc \in PastIp /\ calls[g].ip = v

Past(v) == {g \in Gates : IsPast(g, v)}

\* Besides what failed open, a listed value gets at most one more row from each of
\* them; what slipped through stays counted until the value is listed anew.
SlipBudget(v) ==
    /\ slips[v].rows <= Cardinality(Gates) + slips[v].failed_open
    /\ v \in Listed => slips[v].rows + Cardinality(Past(v))
                          <= Cardinality(Gates) + slips[v].failed_open

DInv == /\ TypeOK
        /\ \A v \in Values : SlipBudget(v)
        /\ RateRefusalsAreDeserved

(***************************************************************************)
(* Counting handlers and rows.                                             *)
(***************************************************************************)
LEMMA PastFinite ==
    ASSUME NEW v
    PROVE  /\ IsFiniteSet(Past(v)) /\ Cardinality(Past(v)) \in Nat
           /\ Cardinality(Past(v)) <= Cardinality(Gates)
           /\ Cardinality(Gates) \in Nat
           /\ Cardinality(Past(v)') \in Nat
           /\ Cardinality(Past(v)') <= Cardinality(Gates)
  BY GateAssumption, FS_Subset, FS_CardinalityType DEF Past

\* No one joins those who are past v: their number does not grow.
LEMMA PastShrinks ==
    ASSUME NEW v, Past(v)' \subseteq Past(v)
    PROVE  Cardinality(Past(v)') <= Cardinality(Past(v))
  BY PastFinite, FS_Subset

\* One of them leaves.
LEMMA PastLeaves ==
    ASSUME NEW v, NEW g \in Past(v), Past(v)' = Past(v) \ {g}
    PROVE  Cardinality(Past(v)') = Cardinality(Past(v)) - 1
  BY PastFinite, FS_RemoveElement

\* Rows are never removed, and no column of them changes.
Grows == /\ DOMAIN otps \subseteq DOMAIN otps'
         /\ \A id \in DOMAIN otps : otps'[id] = otps[id]

\* The rows counted since an instant only grow in number.
LEMMA CountsGrow ==
    ASSUME TypeOK, TypeOK', Grows, NEW r, NEW ip, NEW t
    PROVE  /\ Cardinality(Since(IssuedTo(r), t)) \in Nat
           /\ Cardinality(Since(IssuedTo(r), t))' \in Nat
           /\ Cardinality(Since(IssuedTo(r), t)) <= Cardinality(Since(IssuedTo(r), t))'
           /\ Cardinality(Since(IssuedFrom(ip), t)) \in Nat
           /\ Cardinality(Since(IssuedFrom(ip), t))' \in Nat
           /\ Cardinality(Since(IssuedFrom(ip), t))
                 <= Cardinality(Since(IssuedFrom(ip), t))'
<1>1. /\ Since(IssuedTo(r), t) \subseteq Since(IssuedTo(r), t)'
      /\ Since(IssuedFrom(ip), t) \subseteq Since(IssuedFrom(ip), t)'
  BY DEF Grows, Since, IssuedTo, IssuedFrom
<1>2. /\ IsFiniteSet(Since(IssuedTo(r), t)') /\ IsFiniteSet(Since(IssuedFrom(ip), t)')
  <2>1. IsFiniteSet(Ids) /\ DOMAIN otps' \subseteq Ids
    BY GateAssumption DEF TypeOK
  <2>2. /\ Since(IssuedTo(r), t)' \subseteq Ids
        /\ Since(IssuedFrom(ip), t)' \subseteq Ids
    BY <2>1 DEF Since, IssuedTo, IssuedFrom
  <2> QED
    BY <2>1, <2>2, FS_Subset
<1> QED
  BY <1>1, <1>2, FS_Subset, FS_CardinalityType

\* A refusal that was deserved stays so: the rows it was counted from remain.
LEMMA RefusalStays ==
    ASSUME TypeOK, TypeOK', Grows, NEW g \in Gates, calls'[g] = calls[g],
           RefusalIsDeserved(g)
    PROVE  RefusalIsDeserved(g)'
<1>1. PICK c : c = calls[g]
  OBVIOUS
<1>2. ASSUME NEW t
      PROVE  /\ Cardinality(Since(IssuedTo(c.recipient), t)) \in Nat
             /\ Cardinality(Since(IssuedTo(c.recipient), t)')
                   >= Cardinality(Since(IssuedTo(c.recipient), t))
             /\ Cardinality(Since(IssuedTo(c.recipient), t)') \in Nat
             /\ Cardinality(Since(IssuedFrom(c.ip), t)) \in Nat
             /\ Cardinality(Since(IssuedFrom(c.ip), t)')
                   >= Cardinality(Since(IssuedFrom(c.ip), t))
             /\ Cardinality(Since(IssuedFrom(c.ip), t)') \in Nat
  BY CountsGrow
<1>3. /\ {ABUSE_RULE_MAX_PER_HOUR, ABUSE_RULE_MAX_PER_DAY,
          ABUSE_RULE_IP_MAX_PER_HOUR} \subseteq Nat
  BY GateAssumption
<1>4. PICK hour_ago, day_ago : /\ hour_ago = c.started - Hour
                               /\ day_ago = c.started - Day
  OBVIOUS
<1>5. /\ c.rule = "hour" =>
            Cardinality(Since(IssuedTo(c.recipient), hour_ago))
               >= ABUSE_RULE_MAX_PER_HOUR
      /\ c.rule = "day" =>
            Cardinality(Since(IssuedTo(c.recipient), day_ago))
               >= ABUSE_RULE_MAX_PER_DAY
      /\ c.rule = "ip_hour" =>
            Cardinality(Since(IssuedFrom(c.ip), hour_ago))
               >= ABUSE_RULE_IP_MAX_PER_HOUR
  BY <1>1, <1>4 DEF RefusalIsDeserved
<1>6. /\ c.rule = "hour" =>
            Cardinality(Since(IssuedTo(c.recipient), hour_ago)')
               >= ABUSE_RULE_MAX_PER_HOUR
      /\ c.rule = "day" =>
            Cardinality(Since(IssuedTo(c.recipient), day_ago)')
               >= ABUSE_RULE_MAX_PER_DAY
      /\ c.rule = "ip_hour" =>
            Cardinality(Since(IssuedFrom(c.ip), hour_ago)')
               >= ABUSE_RULE_IP_MAX_PER_HOUR
  BY <1>2, <1>3, <1>5
<1> QED
  BY <1>1, <1>4, <1>6 DEF RefusalIsDeserved, Since, IssuedTo, IssuedFrom

(***************************************************************************)
(* Steps of one handler that write no row.                                 *)
(***************************************************************************)
LEMMA GateStep ==
    ASSUME DInv, NEW g \in Gates, DOMAIN calls' = Gates,
           \A h \in Gates \ {g} : calls'[h] = calls[h],
           UNCHANGED <<otps, blacklist, now, edits, slips>>,
           CallShape(g)', RefusalIsDeserved(g)',
           \A v \in Listed : IsPast(g, v)' => IsPast(g, v)
    PROVE  DInv'
<1>1. \A h \in Gates : CallShape(h)'
  BY DEF DInv, TypeOK, CallShape, At
<1>2. TypeOK'
  BY <1>1 DEF DInv, TypeOK, Listed
<1>3. ASSUME NEW v \in Values
      PROVE  SlipBudget(v)'
  <2>1. CASE v \in Listed
    <3>1. Past(v)' \subseteq Past(v)
      BY <2>1 DEF Past, IsPast
    <3>2. /\ slips[v].rows \in Nat /\ slips[v].failed_open \in Nat
          /\ slips'[v] = slips[v] /\ SlipBudget(v)
      BY DEF DInv, TypeOK, Slips
    <3> QED
      BY <2>1, <3>1, <3>2, PastShrinks, PastFinite DEF SlipBudget
  <2>2. CASE v \notin Listed
    BY <2>2 DEF DInv, SlipBudget, Listed
  <2> QED
    BY <2>1, <2>2
<1>4. RateRefusalsAreDeserved'
  <2>1. Grows
    BY DEF Grows
  <2>2. ASSUME NEW h \in Gates \ {g}
        PROVE  RefusalIsDeserved(h)'
    BY <1>2, <2>1, RefusalStays DEF DInv, RateRefusalsAreDeserved
  <2> QED
    BY <2>2 DEF RateRefusalsAreDeserved
<1> QED
  BY <1>2, <1>3, <1>4 DEF DInv

\* What a handler at work is known to hold.
LEMMA GateType ==
    ASSUME DInv, NEW g \in Gates
    PROVE  /\ CallShape(g) /\ calls[g] \in Call /\ DOMAIN calls = Gates
           /\ now \in Nat /\ Began(g) \in Nat
           /\ calls[g].begun \in Nat \cup {NULL} /\ NULL \notin Nat
           /\ calls[g].pc \notin {"idle", "block"} => calls[g].rule = NULL
  BY GateAssumption DEF DInv, TypeOK, CallShape, Call, Began, At

\* On to the next query: the handler joins those past v only if it was among them,
\* or v was looked up and is not listed.
LEMMA PassStep ==
    ASSUME DInv, NEW g \in Gates, calls[g].pc \in Queries,
           NEW pc \in Queries \cup {"admit"}, Pass(g, pc),
           UNCHANGED <<otps, blacklist, now, edits, slips>>,
           \A v \in Listed : IsPast(g, v)' => IsPast(g, v)
    PROVE  DInv'
<1>1. /\ CallShape(g) /\ calls[g] \in Call /\ DOMAIN calls = Gates
      /\ now \in Nat /\ Began(g) \in Nat /\ NULL \notin Nat
      /\ calls[g].rule = NULL
  BY GateType DEF Queries
<1>2. /\ calls'[g] = [calls[g] EXCEPT !.pc = pc, !.begun = Began(g)]
      /\ DOMAIN calls' = Gates /\ \A h \in Gates \ {g} : calls'[h] = calls[h]
  BY <1>1 DEF Pass
<1>3. /\ calls'[g] \in Call /\ calls'[g].pc = pc /\ calls'[g].begun = Began(g)
      /\ calls'[g].rule = NULL /\ calls'[g].started = calls[g].started
      /\ calls'[g].recipient = calls[g].recipient
  BY <1>1, <1>2 DEF Call
<1>4. CallShape(g)'
  BY <1>1, <1>3 DEF CallShape, At, Queries
<1>5. RefusalIsDeserved(g)'
  BY <1>3, NullAssumption DEF RefusalIsDeserved, Rules
<1> QED
  BY <1>2, <1>4, <1>5, GateStep

\* Refused, by a rule that counts no rows or that counted them in this very step.
LEMMA RefuseStep ==
    ASSUME DInv, NEW g \in Gates, calls[g].pc \in Queries,
           NEW rule \in Rules, Refuse(g, rule),
           UNCHANGED <<otps, blacklist, now, edits, slips>>,
           rule = "hour"    => PerHour(g) >= ABUSE_RULE_MAX_PER_HOUR,
           rule = "day"     => PerDay(g) >= ABUSE_RULE_MAX_PER_DAY,
           rule = "ip_hour" => PerHourIp(g) >= ABUSE_RULE_IP_MAX_PER_HOUR
    PROVE  DInv'
<1>1. /\ CallShape(g) /\ calls[g] \in Call /\ DOMAIN calls = Gates
      /\ now \in Nat /\ Began(g) \in Nat /\ NULL \notin Nat
      /\ calls[g].rule = NULL
  BY GateType DEF Queries
<1>2. /\ calls'[g] = [calls[g] EXCEPT !.pc = "block", !.rule = rule,
                                      !.begun = Began(g)]
      /\ DOMAIN calls' = Gates /\ \A h \in Gates \ {g} : calls'[h] = calls[h]
  BY <1>1 DEF Refuse
<1>3. /\ calls'[g] \in Call /\ calls'[g].pc = "block" /\ calls'[g].begun = Began(g)
      /\ calls'[g].rule = rule /\ calls'[g].started = calls[g].started
      /\ calls'[g].recipient = calls[g].recipient /\ calls'[g].ip = calls[g].ip
  BY <1>1, <1>2 DEF Call
<1>4. rule # NULL
  BY NullAssumption
<1>5. CallShape(g)'
  BY <1>1, <1>3, <1>4 DEF CallShape, At, Queries
<1>6. RefusalIsDeserved(g)'
  <2>1. \A id \in DOMAIN otps : Counted(id) <=> otps[id].status = "pending"
    BY DEF DInv, TypeOK, Row, Counted
  <2>2. /\ OfRecipient(calls[g].recipient) = IssuedTo(calls[g].recipient)
        /\ OfIp(calls[g].ip) = IssuedFrom(calls[g].ip)
    BY <2>1 DEF OfRecipient, OfIp, IssuedTo, IssuedFrom
  <2> QED
    BY <1>3, <2>2 DEF RefusalIsDeserved, PerHour, PerDay, PerHourIp, _count_recent,
                      Since, IssuedTo, IssuedFrom
<1>7. ASSUME NEW v \in Listed, IsPast(g, v)'
      PROVE  FALSE
  BY <1>3, <1>7 DEF IsPast, PastRecipient, PastIp
<1> QED
  BY <1>2, <1>5, <1>6, <1>7, GateStep

\* The five queries: passing one shows that the value it looked up is not listed.
LEMMA QuerySteps ==
    ASSUME DInv, NEW g \in Gates,
           \/ CheckRecipient(g) \/ CheckIp(g)
           \/ CheckHour(g) \/ CheckDay(g) \/ CheckIpHour(g)
    PROVE  DInv'
<1>1. /\ calls[g] \in Call /\ DOMAIN calls = Gates
      /\ UNCHANGED <<otps, blacklist, now, edits, slips>>
  BY GateType DEF CheckRecipient, CheckIp, CheckHour, CheckDay, CheckIpHour
<1>2. ASSUME NEW pc, Pass(g, pc)
      PROVE  /\ calls'[g].pc = pc /\ calls'[g].recipient = calls[g].recipient
             /\ calls'[g].ip = calls[g].ip /\ calls'[g].failed = calls[g].failed
  BY <1>1, <1>2 DEF Pass, Call
<1>3. CASE CheckRecipient(g)
  <2>1. CASE calls[g].recipient \in Listed
    BY <1>1, <1>3, <2>1, RefuseStep
       DEF CheckRecipient, _is_blacklisted, At, Queries, Rules
  <2>2. CASE calls[g].recipient \notin Listed
    <3>1. PICK pc \in {"ip", "hour"} :
             Pass(g, pc) /\ (pc = "hour" => calls[g].ip = NULL)
      BY <1>3, <2>2 DEF CheckRecipient, _is_blacklisted
    <3>2. NULL \notin Listed
      BY GateAssumption DEF DInv, TypeOK, Values
    <3>3. \A v \in Listed : ~IsPast(g, v)'
      BY <1>2, <2>2, <3>1, <3>2 DEF IsPast, PastRecipient, PastIp
    <3> QED
      BY <1>1, <1>3, <3>1, <3>3, PassStep DEF CheckRecipient, At, Queries
  <2> QED
    BY <2>1, <2>2
<1>4. CASE CheckIp(g)
  <2>1. CASE calls[g].ip \in Listed
    BY <1>1, <1>4, <2>1, RefuseStep DEF CheckIp, _is_blacklisted, At, Queries, Rules
  <2>2. CASE calls[g].ip \notin Listed
    <3>1. Pass(g, "hour") /\ calls[g].pc = "ip"
      BY <1>4, <2>2 DEF CheckIp, _is_blacklisted, At
    <3>2. \A v \in Listed : IsPast(g, v)' => IsPast(g, v)
      BY <1>2, <2>2, <3>1 DEF IsPast, PastRecipient, PastIp
    <3> QED
      BY <1>1, <3>1, <3>2, PassStep DEF Queries
  <2> QED
    BY <2>1, <2>2
<1>5. ASSUME NEW pc \in {"day", "ip_hour", "admit"}, Pass(g, pc),
             calls[g].pc \in {"hour", "day", "ip_hour"}
      PROVE  DInv'
  <2>1. \A v \in Listed : IsPast(g, v)' => IsPast(g, v)
    BY <1>2, <1>5 DEF IsPast, PastRecipient, PastIp
  <2> QED
    BY <1>1, <1>5, <2>1, PassStep DEF Queries
<1>6. CASE CheckHour(g)
  <2>1. CASE PerHour(g) >= ABUSE_RULE_MAX_PER_HOUR
    BY <1>1, <1>6, <2>1, RefuseStep DEF CheckHour, At, Queries, Rules
  <2>2. CASE ~(PerHour(g) >= ABUSE_RULE_MAX_PER_HOUR)
    BY <1>5, <1>6, <2>2 DEF CheckHour, At
  <2> QED
    BY <2>1, <2>2
<1>7. ASSUME Score(g), calls[g].pc \in {"day", "ip_hour"}
      PROVE  DInv'
  <2>1. CASE Refuse(g, "ml")
    BY <1>1, <1>7, <2>1, RefuseStep DEF Queries, Rules
  <2>2. CASE Pass(g, "admit")
    BY <1>5, <1>7, <2>2
  <2> QED
    BY <1>7, <2>1, <2>2 DEF Score
<1>8. CASE CheckDay(g)
  <2>1. CASE PerDay(g) >= ABUSE_RULE_MAX_PER_DAY
    BY <1>1, <1>8, <2>1, RefuseStep DEF CheckDay, At, Queries, Rules
  <2>2. CASE ~(PerDay(g) >= ABUSE_RULE_MAX_PER_DAY)
    BY <1>5, <1>7, <1>8, <2>2 DEF CheckDay, At
  <2> QED
    BY <2>1, <2>2
<1>9. CASE CheckIpHour(g)
  <2>1. CASE PerHourIp(g) >= ABUSE_RULE_IP_MAX_PER_HOUR
    BY <1>1, <1>9, <2>1, RefuseStep DEF CheckIpHour, At, Queries, Rules
  <2>2. CASE ~(PerHourIp(g) >= ABUSE_RULE_IP_MAX_PER_HOUR)
    BY <1>7, <1>9, <2>2 DEF CheckIpHour, At
  <2> QED
    BY <2>1, <2>2
<1> QED
  BY <1>3, <1>4, <1>6, <1>8, <1>9

\* The request arrives, evaluate takes its clock, or evaluate gives up.
LEMMA EntrySteps ==
    ASSUME DInv, NEW g \in Gates,
           \/ \E r \in Recipients, ip \in Ips \cup {NULL} : request_otp(g, r, ip)
           \/ evaluate(g) \/ EngineFails(g)
    PROVE  DInv'
<1>1. /\ CallShape(g) /\ calls[g] \in Call /\ DOMAIN calls = Gates
      /\ now \in Nat /\ Began(g) \in Nat /\ NULL \notin Nat
      /\ calls[g].begun \in Nat \cup {NULL}
      /\ NULL \notin Recipients /\ NULL \notin Rules
  BY GateType, GateAssumption, NullAssumption
<1>2. CASE \E r \in Recipients, ip \in Ips \cup {NULL} : request_otp(g, r, ip)
  <2>1. PICK r \in Recipients, ip \in Ips \cup {NULL}, begun \in {now, NULL} :
           calls' = [calls EXCEPT ![g] = [Idle EXCEPT !.pc = "authenticated",
                                                      !.recipient = r, !.ip = ip,
                                                      !.begun = begun]]
    BY <1>2 DEF request_otp
  <2>2. /\ calls'[g] = [pc |-> "authenticated", recipient |-> r, ip |-> ip,
                        begun |-> begun, started |-> NULL, rule |-> NULL,
                        failed |-> FALSE, aborted |-> FALSE]
        /\ DOMAIN calls' = Gates /\ \A h \in Gates \ {g} : calls'[h] = calls[h]
        /\ UNCHANGED <<otps, blacklist, now, edits, slips>>
    BY <1>1, <1>2, <2>1 DEF Idle, request_otp
  <2>3. CallShape(g)'
    BY <1>1, <2>2 DEF CallShape, Call, At, Queries
  <2>4. RefusalIsDeserved(g)'
    BY <1>1, <2>2 DEF RefusalIsDeserved, Rules
  <2>5. \A v \in Listed : ~IsPast(g, v)'
    BY <2>2 DEF IsPast, PastRecipient, PastIp
  <2> QED
    BY <2>2, <2>3, <2>4, <2>5, GateStep
<1>3. CASE evaluate(g)
  <2>1. /\ calls'[g] = [calls[g] EXCEPT !.pc = "recipient", !.started = now]
        /\ DOMAIN calls' = Gates /\ \A h \in Gates \ {g} : calls'[h] = calls[h]
        /\ UNCHANGED <<otps, blacklist, now, edits, slips>>
        /\ calls[g].rule = NULL /\ calls[g].recipient # NULL
    BY <1>1, <1>3, GateType DEF evaluate, CallShape, At
  <2>2. /\ calls'[g] \in Call /\ calls'[g].pc = "recipient" /\ calls'[g].rule = NULL
        /\ calls'[g].recipient = calls[g].recipient /\ calls'[g].started = now
    BY <1>1, <2>1 DEF Call, Queries
  <2>3. CallShape(g)'
    BY <1>1, <2>1, <2>2 DEF CallShape, At, Queries
  <2>4. RefusalIsDeserved(g)'
    BY <1>1, <2>2 DEF RefusalIsDeserved, Rules
  <2>5. \A v \in Listed : ~IsPast(g, v)'
    BY <2>2 DEF IsPast, PastRecipient, PastIp
  <2> QED
    BY <2>1, <2>3, <2>4, <2>5, GateStep
<1>4. CASE EngineFails(g)
  <2>1. PICK begun \in {calls[g].begun, Began(g)}, aborted \in BOOLEAN :
           calls' = [calls EXCEPT ![g].pc = "admit", ![g].failed = TRUE,
                                  ![g].begun = begun, ![g].aborted = aborted]
    BY <1>4 DEF EngineFails
  <2>2. /\ calls'[g] = [calls[g] EXCEPT !.pc = "admit", !.failed = TRUE,
                                        !.begun = begun, !.aborted = aborted]
        /\ DOMAIN calls' = Gates /\ \A h \in Gates \ {g} : calls'[h] = calls[h]
        /\ UNCHANGED <<otps, blacklist, now, edits, slips>>
        /\ calls[g].pc \in Queries /\ calls[g].rule = NULL
        /\ begun \in Nat \cup {NULL}
    BY <1>1, <1>4, <2>1, GateType DEF EngineFails, Queries
  <2>3. /\ calls'[g] \in Call /\ calls'[g].pc = "admit" /\ calls'[g].rule = NULL
        /\ calls'[g].recipient = calls[g].recipient /\ calls'[g].failed
        /\ calls'[g].started = calls[g].started
    BY <1>1, <2>2 DEF Call
  <2>4. CallShape(g)'
    BY <1>1, <2>2, <2>3 DEF CallShape, At, Queries
  <2>5. RefusalIsDeserved(g)'
    BY <1>1, <2>3 DEF RefusalIsDeserved, Rules
  <2>6. \A v \in Listed : ~IsPast(g, v)'
    BY <2>3 DEF IsPast
  <2> QED
    BY <2>2, <2>4, <2>5, <2>6, GateStep
<1> QED
  BY <1>2, <1>3, <1>4

(***************************************************************************)
(* The end of a request.                                                   *)
(***************************************************************************)
\* The INSERT adds one row and leaves the others alone.
LEMMA WriteStep ==
    ASSUME DInv, NEW g \in Gates, calls[g].pc # "idle",
           NEW st \in {"pending", "blocked"}, Write(g, st)
    PROVE  /\ DOMAIN otps' \subseteq Ids /\ otps' \in [DOMAIN otps' -> Row]
           /\ Grows
<1>1. /\ calls[g].recipient \in Recipients /\ calls[g].ip \in Ips \cup {NULL}
      /\ Began(g) \in Nat
  BY GateType DEF CallShape, Call, At
<1>2. PICK id \in Ids \ DOMAIN otps :
         otps' = [i \in DOMAIN otps \cup {id} |->
                     IF i # id THEN otps[i]
                     ELSE [recipient |-> calls[g].recipient, ip_address |-> calls[g].ip,
                           created_at |-> Began(g), status |-> st]]
  BY DEF Write
<1>3. [recipient |-> calls[g].recipient, ip_address |-> calls[g].ip,
       created_at |-> Began(g), status |-> st] \in Row
  BY <1>1 DEF Row
<1>4. otps \in [DOMAIN otps -> Row] /\ DOMAIN otps \subseteq Ids
  BY DEF DInv, TypeOK
<1> QED
  BY <1>2, <1>3, <1>4 DEF Grows

\* A request that ends keeps the invariant if the rows it counted as slips were its
\* own to count.
LEMMA EndStep ==
    ASSUME DInv, NEW g \in Gates, calls' = [calls EXCEPT ![g] = Idle],
           DOMAIN otps' \subseteq Ids, otps' \in [DOMAIN otps' -> Row], Grows,
           UNCHANGED <<blacklist, now, edits>>,
           slips' \in [Values -> Slips],
           \A v \in Values :
              \/ slips'[v] = slips[v]
              \/ /\ slips'[v].rows = slips[v].rows + 1
                 /\ \/ /\ slips'[v].failed_open = slips[v].failed_open
                       /\ v \in Listed /\ IsPast(g, v)
                    \/ slips'[v].failed_open = slips[v].failed_open + 1
    PROVE  DInv'
<1>1. /\ DOMAIN calls' = Gates /\ calls'[g] = Idle
      /\ \A h \in Gates \ {g} : calls'[h] = calls[h]
  BY GateType
<1>2. \A h \in Gates : CallShape(h)'
  BY <1>1, NullAssumption DEF DInv, TypeOK, CallShape, At, Idle, Call, Queries, Rules
<1>3. TypeOK'
  BY <1>1, <1>2 DEF DInv, TypeOK, Listed
<1>4. ASSUME NEW v \in Values
      PROVE  SlipBudget(v)'
  <2>1. Past(v)' = Past(v) \ {g}
    BY <1>1 DEF Past, IsPast, Idle, PastRecipient, PastIp
  <2>2. /\ slips[v].rows \in Nat /\ slips[v].failed_open \in Nat
        /\ slips'[v].rows \in Nat /\ slips'[v].failed_open \in Nat
        /\ SlipBudget(v)
        /\ Cardinality(Past(v)) \in Nat /\ Cardinality(Past(v)') \in Nat
        /\ Cardinality(Gates) \in Nat
    BY PastFinite DEF DInv, TypeOK, Slips
  <2>3. Cardinality(Past(v)') <= Cardinality(Past(v))
    BY <2>1, PastShrinks
  <2>4. CASE slips'[v] = slips[v]
    BY <2>2, <2>3, <2>4 DEF SlipBudget, Listed
  <2>5. CASE /\ slips'[v].rows = slips[v].rows + 1
             /\ slips'[v].failed_open = slips[v].failed_open
             /\ v \in Listed /\ IsPast(g, v)
    <3>1. Cardinality(Past(v)') = Cardinality(Past(v)) - 1
      BY <2>1, <2>5, PastLeaves DEF Past
    <3> QED
      BY <2>2, <2>5, <3>1 DEF SlipBudget, Listed
  <2>6. CASE /\ slips'[v].rows = slips[v].rows + 1
             /\ slips'[v].failed_open = slips[v].failed_open + 1
    BY <2>2, <2>3, <2>6 DEF SlipBudget, Listed
  <2> QED
    BY <2>4, <2>5, <2>6
<1>5. RateRefusalsAreDeserved'
  <2>1. ASSUME NEW h \in Gates \ {g}
        PROVE  RefusalIsDeserved(h)'
    BY <1>1, <1>3, RefusalStays DEF DInv, RateRefusalsAreDeserved
  <2>2. RefusalIsDeserved(g)'
    BY <1>1, NullAssumption DEF RefusalIsDeserved, Idle, Rules
  <2> QED
    BY <2>1, <2>2 DEF RateRefusalsAreDeserved
<1> QED
  BY <1>3, <1>4, <1>5 DEF DInv

\* The steps that end a request: a row inserted, refused or lost.
LEMMA EndSteps ==
    ASSUME DInv, NEW g \in Gates,
           create_otp(g) \/ create_otp_raises(g) \/ record_blocked(g)
    PROVE  DInv'
<1>1. /\ slips \in [Values -> Slips] /\ DOMAIN otps \subseteq Ids
      /\ otps \in [DOMAIN otps -> Row]
  BY DEF DInv, TypeOK
<1>2. CASE create_otp(g)
  <2>1. /\ DOMAIN otps' \subseteq Ids /\ otps' \in [DOMAIN otps' -> Row] /\ Grows
    BY <1>2, WriteStep DEF create_otp, At
  <2>2. ASSUME NEW v \in Values
        PROVE  /\ slips'[v] \in Slips
               /\ \/ slips'[v] = slips[v]
                  \/ /\ slips'[v].rows = slips[v].rows + 1
                     /\ \/ /\ slips'[v].failed_open = slips[v].failed_open
                           /\ v \in Listed /\ IsPast(g, v)
                        \/ slips'[v].failed_open = slips[v].failed_open + 1
    <3>1. slips[v] \in Slips /\ slips[v].rows \in Nat /\ slips[v].failed_open \in Nat
      BY <1>1 DEF Slips
    <3>2. CASE v \notin Listed \cap {calls[g].recipient, calls[g].ip}
      BY <1>2, <3>1, <3>2 DEF create_otp
    <3>3. CASE v \in Listed \cap {calls[g].recipient, calls[g].ip}
      <4>1. slips'[v] = Slipped(g, slips[v])
        BY <1>2, <3>3 DEF create_otp
      <4>2. CASE calls[g].failed
        BY <3>1, <4>1, <4>2 DEF Slipped, Slips
      <4>3. CASE ~calls[g].failed
        <5>1. v \in Listed /\ IsPast(g, v)
          BY <1>2, <3>3, <4>3 DEF create_otp, At, IsPast, PastRecipient, PastIp
        <5> QED
          BY <3>1, <4>1, <4>3, <5>1 DEF Slipped, Slips
      <4> QED
        BY <4>2, <4>3
    <3> QED
      BY <3>2, <3>3
  <2>3. slips' \in [Values -> Slips]
    BY <1>2, <2>2 DEF create_otp
  <2> QED
    BY <1>2, <2>1, <2>2, <2>3, EndStep DEF create_otp
<1>3. CASE create_otp_raises(g)
  BY <1>1, <1>3, EndStep DEF create_otp_raises, Grows
<1>4. CASE record_blocked(g)
  <2>1. /\ DOMAIN otps' \subseteq Ids /\ otps' \in [DOMAIN otps' -> Row] /\ Grows
    BY <1>4, WriteStep DEF record_blocked, At
  <2> QED
    BY <1>1, <1>4, <2>1, EndStep DEF record_blocked
<1> QED
  BY <1>2, <1>3, <1>4

(***************************************************************************)
(* The administrators and the clock.                                       *)
(***************************************************************************)
\* An edit that lists no value without clearing its count keeps the invariant.
LEMMA EditStep ==
    ASSUME DInv, UNCHANGED <<otps, now, calls>>,
           edits' \in [Admins -> Edit],
           \A a \in Admins : edits'[a].pc # "idle" => edits'[a].value \in Values,
           Listed' \subseteq Values, blacklist' \in [Listed' -> Entries],
           slips' \in [Values -> Slips],
           \A v \in Values : \/ slips'[v] = NoSlips
                             \/ slips'[v] = slips[v] /\ (v \in Listed' => v \in Listed)
    PROVE  DInv'
<1>1. TypeOK'
  BY DEF DInv, TypeOK, CallShape, At
<1>2. ASSUME NEW v \in Values
      PROVE  SlipBudget(v)'
  <2>1. Past(v)' = Past(v)
    BY DEF Past, IsPast
  <2>2. NoSlips.rows = 0 /\ NoSlips.failed_open = 0
    BY DEF NoSlips
  <2> QED
    BY <2>1, <2>2, PastFinite DEF DInv, SlipBudget
<1>3. RateRefusalsAreDeserved'
  <2>1. Grows
    BY DEF Grows
  <2> QED
    BY <1>1, <2>1, RefusalStays DEF DInv, RateRefusalsAreDeserved
<1> QED
  BY <1>1, <1>2, <1>3 DEF DInv

\* The two edits of the denylist.
LEMMA AdminSteps ==
    ASSUME DInv, NEW a \in Admins, Administer(a)
    PROVE  DInv'
<1>1. /\ edits \in [Admins -> Edit] /\ slips \in [Values -> Slips]
      /\ Listed \subseteq Values /\ blacklist \in [Listed -> Entries]
      /\ \A b \in Admins : edits[b].pc # "idle" => edits[b].value \in Values
  BY DEF DInv, TypeOK
<1>2. ASSUME EndEdit(a)
      PROVE  /\ edits' \in [Admins -> Edit]
             /\ \A b \in Admins : edits'[b].pc # "idle" => edits'[b].value \in Values
  BY <1>1, <1>2 DEF EndEdit, NoEdit, Edit
<1>3. ASSUME NEW v \in Values, add_to_blacklist(a, v) \/ remove_from_blacklist(a, v)
      PROVE  DInv'
  <2>1. /\ edits' \in [Admins -> Edit]
        /\ \A b \in Admins : edits'[b].pc # "idle" => edits'[b].value \in Values
    BY <1>1, <1>3 DEF add_to_blacklist, remove_from_blacklist, Edit
  <2> QED
    BY <1>1, <1>3, <2>1, EditStep DEF add_to_blacklist, remove_from_blacklist, Listed
<1>4. CASE CommitAdd(a)
  <2>1. PICK v : v = edits[a].value
    OBVIOUS
  <2>2. /\ v \in Values /\ v \notin Listed /\ slips' = [slips EXCEPT ![v] = NoSlips]
        /\ EndEdit(a) /\ UNCHANGED <<otps, now, calls>>
    BY <1>1, <1>4, <2>1 DEF CommitAdd
  <2>3. PICK entry \in FreshEntries :
           blacklist' = [u \in Listed \cup {v} |->
                            IF u \in Listed THEN blacklist[u] ELSE entry]
    BY <1>4, <2>1 DEF CommitAdd
  <2>4. entry \in Entries /\ Listed' = Listed \cup {v}
    BY <2>3 DEF FreshEntries, Listed
  <2>5. blacklist' \in [Listed' -> Entries] /\ Listed' \subseteq Values
    BY <1>1, <2>2, <2>3, <2>4
  <2>6. slips' \in [Values -> Slips]
    BY <1>1, <2>2 DEF NoSlips, Slips
  <2>7. ASSUME NEW u \in Values
        PROVE  \/ slips'[u] = NoSlips
               \/ slips'[u] = slips[u] /\ (u \in Listed' => u \in Listed)
    <3>1. CASE u = v
      BY <1>1, <2>2, <3>1
    <3>2. CASE u # v
      <4>1. slips'[u] = slips[u]
        BY <1>1, <2>2, <3>2
      <4>2. u \in Listed' => u \in Listed
        BY <2>4, <3>2
      <4> QED
        BY <4>1, <4>2
    <3> QED
      BY <3>1, <3>2
  <2> QED
    BY <1>2, <2>2, <2>5, <2>6, <2>7, EditStep
<1>5. CASE CommitAddRaises(a)
  BY <1>1, <1>2, <1>5, EditStep DEF CommitAddRaises, Listed
<1>6. CASE CommitRemove(a)
  <2>1. /\ Listed' \subseteq Listed /\ blacklist' \in [Listed' -> Entries]
    BY <1>1, <1>6 DEF CommitRemove, Listed
  <2> QED
    BY <1>1, <1>2, <1>6, <2>1, EditStep DEF CommitRemove
<1> QED
  BY <1>3, <1>4, <1>5, <1>6 DEF Administer

\* Time passes, or nothing happens.
LEMMA OtherSteps ==
    ASSUME DInv, Tick \/ UNCHANGED vars
    PROVE  DInv'
<1>1. UNCHANGED <<otps, blacklist, calls, edits, slips>> /\ now' \in 0..Horizon
  BY GateAssumption DEF Tick, vars, DInv, TypeOK
<1>2. TypeOK'
  BY <1>1 DEF DInv, TypeOK, CallShape, At, Listed
<1>3. ASSUME NEW v \in Values
      PROVE  SlipBudget(v)'
  BY <1>1 DEF DInv, SlipBudget, Past, IsPast, Listed
<1>4. RateRefusalsAreDeserved'
  <2>1. Grows
    BY <1>1 DEF Grows
  <2> QED
    BY <1>1, <1>2, <2>1, RefusalStays DEF DInv, RateRefusalsAreDeserved
<1> QED
  BY <1>2, <1>3, <1>4 DEF DInv

(***************************************************************************)
(* The inductive invariant and the theorems.                               *)
(***************************************************************************)
LEMMA InitHolds == Init => DInv
<1> SUFFICES ASSUME Init PROVE DInv
  OBVIOUS
<1>1. TypeOK
  BY GateAssumption, NullAssumption
     DEF Init, TypeOK, CallShape, At, Idle, Call, Queries, Listed, NoEdit, Edit,
         NoSlips, Slips
<1>2. ASSUME NEW v \in Values
      PROVE  SlipBudget(v)
  BY PastFinite DEF Init, SlipBudget, Listed, NoSlips
<1>3. RateRefusalsAreDeserved
  BY NullAssumption
     DEF Init, Idle, RateRefusalsAreDeserved, RefusalIsDeserved, Rules
<1> QED
  BY <1>1, <1>2, <1>3 DEF DInv

\* Every step of the gate keeps the invariant.
LEMMA NextKeeps == DInv /\ [Next]_vars => DInv'
<1> SUFFICES ASSUME DInv, [Next]_vars PROVE DInv'
  OBVIOUS
<1>1. ASSUME NEW g \in Gates, Serve(g)
      PROVE  DInv'
  BY <1>1, EntrySteps, QuerySteps, EndSteps DEF Serve
<1>2. ASSUME NEW a \in Admins, Administer(a)
      PROVE  DInv'
  BY <1>2, AdminSteps
<1>3. CASE Tick \/ UNCHANGED vars
  BY <1>3, OtherSteps
<1> QED
  BY <1>1, <1>2, <1>3 DEF Next

\* The strengthened invariant holds in every reachable state.
THEOREM Invariance == Spec => []DInv
<1>1. Init => DInv
  BY InitHolds
<1>2. DInv /\ [Next]_vars => DInv'
  BY NextKeeps
<1> QED
  BY <1>1, <1>2, PTL DEF Spec

\* Type correctness: a request past its first query has a clock, and a refusal
\* its rule.
THEOREM TypeCorrect == Spec => []TypeOK
<1>1. DInv => TypeOK
  BY DEF DInv
<1> QED
  BY <1>1, Invariance, PTL

\* However many requests and administrators interleave, a listed value gets at most
\* one row per handler between two listings, besides one for every request whose
\* engine gave up on an exception.
THEOREM DenylistWorks == Spec => []DenylistHolds
<1>1. DInv => DenylistHolds
  BY DEF DInv, SlipBudget, DenylistHolds
<1> QED
  BY <1>1, Invariance, PTL

\* No interleaving of administrators undoes a listing by a removal that had read an
\* earlier one.
THEOREM ListingsOutlive == Spec => ListingsOutliveOldRemovals
<1>1. ASSUME [Next]_vars, NEW v \in Listed
      PROVE  Outlives(v)
  <2>1. CASE UNCHANGED blacklist
    BY <2>1 DEF Outlives, Listed
  <2>2. ASSUME NEW a \in Admins, CommitAdd(a)
        PROVE  Outlives(v)
    BY <1>1, <2>2 DEF CommitAdd, Outlives, Listed
  <2>3. ASSUME NEW a \in Admins, CommitRemove(a)
        PROVE  Outlives(v)
    BY <1>1, <2>3 DEF CommitRemove, Outlives, Listed
  <2>4. ASSUME NEW g \in Gates, Serve(g)
        PROVE  UNCHANGED blacklist
    BY <2>4 DEF Serve, request_otp, evaluate, CheckRecipient, CheckIp, CheckHour,
                CheckDay, CheckIpHour, EngineFails, create_otp, create_otp_raises,
                record_blocked
  <2>5. ASSUME NEW a \in Admins, Administer(a)
        PROVE  CommitAdd(a) \/ CommitRemove(a) \/ UNCHANGED blacklist
    BY <2>5 DEF Administer, add_to_blacklist, remove_from_blacklist, CommitAddRaises
  <2>6. CASE Tick \/ UNCHANGED vars
    BY <2>1, <2>6 DEF Tick, vars
  <2> QED
    BY <1>1, <2>1, <2>2, <2>3, <2>4, <2>5, <2>6 DEF Next
<1>2. [Next]_vars => [\A v \in Listed : Outlives(v)]_vars
  BY <1>1
<1> QED
  BY <1>2, PTL DEF Spec, ListingsOutliveOldRemovals

\* Every refusal for its rate is backed by rows that were really issued.
THEOREM RefusalsDeserved == Spec => []RateRefusalsAreDeserved
<1>1. DInv => RateRefusalsAreDeserved
  BY DEF DInv
<1> QED
  BY <1>1, Invariance, PTL

(***************************************************************************)
(* RateCapsNearlyHold: what the rate rules are worth when requests overlap,*)
(* while the engine does not fail open.                                    *)
(***************************************************************************)
\* The three rate rules, by the query that judges them: what they cap, over which
\* window, and where a request is once it has passed them.
Kinds == {"hour", "day", "ip_hour"}

Cap(k) == IF k = "hour" THEN ABUSE_RULE_MAX_PER_HOUR
          ELSE IF k = "day" THEN ABUSE_RULE_MAX_PER_DAY ELSE ABUSE_RULE_IP_MAX_PER_HOUR

Window(k) == IF k = "day" THEN Day ELSE Hour

Cleared(k) == IF k = "hour" THEN {"day", "ip_hour", "admit"}
              ELSE IF k = "day" THEN {"ip_hour", "admit"} ELSE {"admit"}

CallKey(g, k) == IF k = "ip_hour" THEN calls[g].ip ELSE calls[g].recipient
RowKey(id, k) == IF k = "ip_hour" THEN otps[id].ip_address ELSE otps[id].recipient

InWindow(k, x, t) == t <= x /\ x <= t + (Window(k) - RequestSpan)

\* The codes issued in the window from t on, and the requests that passed the rule
\* and will add one to it: created_at is the start of their transaction.
Rows(k, v, t) == {id \in DOMAIN otps : /\ otps[id].status = "pending"
                                       /\ RowKey(id, k) = v
                                       /\ InWindow(k, otps[id].created_at, t)}

Holds(g, k, v, t) == /\ calls[g].pc \in Cleared(k)
                     /\ CallKey(g, k) = v
                     /\ InWindow(k, calls[g].begun, t)

Holders(k, v, t) == {g \in Gates : Holds(g, k, v, t)}

\* A request that passes has counted less than the cap, whoever else passed it.
WindowBudget(k, v, t) ==
    Cardinality(Rows(k, v, t)) + Cardinality(Holders(k, v, t))
        <= Cap(k) + (Cardinality(Gates) - 1)

\* A request's clocks: Tick waits for a transaction open for RequestSpan.
ClockShape(g) ==
    /\ ~calls[g].failed
    /\ calls[g].begun # NULL => /\ calls[g].begun <= now
                                /\ now - calls[g].begun <= RequestSpan
    /\ calls[g].started # NULL => calls[g].started <= now
    /\ calls[g].pc \in Cleared("hour") => calls[g].begun # NULL

CInv == /\ DInv
        /\ \A g \in Gates : ClockShape(g)
        /\ \A k \in Kinds, v \in Values, t \in Nat : WindowBudget(k, v, t)

(***************************************************************************)
(* Counting.                                                               *)
(***************************************************************************)
\* Caps and windows are numbers.
LEMMA KindType ==
    ASSUME NEW k \in Kinds
    PROVE  /\ Cap(k) \in Nat \ {0} /\ Window(k) \in Nat \ {0} /\ RequestSpan \in Nat
           /\ Cleared(k) \subseteq Cleared("hour") /\ "idle" \notin Cleared(k)
           /\ "admit" \in Cleared(k) /\ "block" \notin Cleared(k)
  BY GateAssumption DEF Kinds, Cap, Window, Cleared

\* Both sets are finite, and at most every handler passed a rule.
LEMMA BudgetType ==
    ASSUME TypeOK, NEW k, NEW v, NEW t
    PROVE  /\ IsFiniteSet(Rows(k, v, t)) /\ Cardinality(Rows(k, v, t)) \in Nat
           /\ IsFiniteSet(Holders(k, v, t)) /\ Cardinality(Holders(k, v, t)) \in Nat
           /\ Cardinality(Holders(k, v, t)) <= Cardinality(Gates)
           /\ Cardinality(Gates) \in Nat
           /\ Cardinality(Holders(k, v, t)') \in Nat
           /\ Cardinality(Holders(k, v, t)') <= Cardinality(Gates)
<1>1. /\ Rows(k, v, t) \subseteq Ids /\ Holders(k, v, t) \subseteq Gates
      /\ Holders(k, v, t)' \subseteq Gates
  BY DEF Rows, Holders, TypeOK
<1> QED
  BY <1>1, GateAssumption, FS_Subset, FS_CardinalityType

\* What a query counts includes every code of a window its request may join.
LEMMA CountCoversWindow ==
    ASSUME CInv, NEW g \in Gates, calls[g].started # NULL, NEW k \in Kinds,
           NEW t \in Nat, InWindow(k, Began(g), t), NEW ids,
           ids = IF k = "ip_hour" THEN OfIp(calls[g].ip)
                                  ELSE OfRecipient(calls[g].recipient)
    PROVE  Cardinality(Rows(k, CallKey(g, k), t))
              <= _count_recent(ids, calls[g].started - Window(k))
<1>1. /\ calls[g] \in Call /\ ClockShape(g) /\ now \in Nat /\ Began(g) \in Nat
      /\ calls[g].started \in Nat /\ NULL \notin Nat
  BY GateType DEF CInv, Call
<1>2. Window(k) \in Nat /\ RequestSpan \in Nat
  BY KindType
<1>3. Began(g) >= calls[g].started - RequestSpan
  BY <1>1, <1>2 DEF Began, ClockShape, Call
<1>4. t >= calls[g].started - Window(k)
  BY <1>1, <1>2, <1>3 DEF InWindow
<1>5. ASSUME NEW id \in Rows(k, CallKey(g, k), t)
      PROVE  id \in ids /\ otps[id].created_at >= calls[g].started - Window(k)
  <2>1. /\ id \in DOMAIN otps /\ otps[id].status = "pending"
        /\ RowKey(id, k) = CallKey(g, k) /\ t <= otps[id].created_at
    BY DEF Rows, InWindow
  <2>2. otps[id].created_at \in Nat /\ Counted(id)
    BY <2>1 DEF CInv, DInv, TypeOK, Row, Counted
  <2>3. id \in ids
    BY <2>1, <2>2 DEF RowKey, CallKey, OfIp, OfRecipient
  <2> QED
    BY <1>1, <1>2, <1>4, <2>1, <2>2, <2>3
<1>6. /\ Rows(k, CallKey(g, k), t)
            \subseteq {id \in ids : otps[id].created_at >= calls[g].started - Window(k)}
      /\ {id \in ids : otps[id].created_at >= calls[g].started - Window(k)} \subseteq Ids
  BY <1>5 DEF OfIp, OfRecipient, CInv, DInv, TypeOK
<1> QED
  BY <1>6, GateAssumption, FS_Subset DEF _count_recent

(***************************************************************************)
(* Steps.                                                                  *)
(***************************************************************************)
\* A step of one handler that issues no code: it joins those past a rule only when
\* the window has room.
LEMMA QuietStep ==
    ASSUME CInv, DInv', NEW g \in Gates, UNCHANGED now,
           \A h \in Gates \ {g} : calls'[h] = calls[h],
           \A k \in Kinds, v \in Values, t \in Nat : Rows(k, v, t)' = Rows(k, v, t),
           ClockShape(g)',
           \A k \in Kinds, v \in Values, t \in Nat :
              Holds(g, k, v, t)' => \/ Holds(g, k, v, t)
                                    \/ Cardinality(Rows(k, v, t)) < Cap(k)
    PROVE  CInv'
<1>1. \A h \in Gates : ClockShape(h)'
  BY DEF CInv, ClockShape
<1>2. ASSUME NEW k \in Kinds, NEW v \in Values, NEW t \in Nat
      PROVE  WindowBudget(k, v, t)'
  <2>1. /\ Cardinality(Rows(k, v, t)) \in Nat /\ Cap(k) \in Nat
        /\ IsFiniteSet(Holders(k, v, t)) /\ Cardinality(Holders(k, v, t)) \in Nat
        /\ Cardinality(Holders(k, v, t)') \in Nat
        /\ Cardinality(Holders(k, v, t)') <= Cardinality(Gates)
        /\ Cardinality(Gates) \in Nat
        /\ Rows(k, v, t)' = Rows(k, v, t) /\ WindowBudget(k, v, t)
    BY BudgetType, KindType DEF CInv, DInv
  <2>2. CASE Holds(g, k, v, t)' => Holds(g, k, v, t)
    <3>1. Holders(k, v, t)' \subseteq Holders(k, v, t)
      BY <2>2 DEF Holders, Holds, CallKey
    <3>2. Cardinality(Holders(k, v, t)') <= Cardinality(Holders(k, v, t))
      BY <2>1, <3>1, FS_Subset
    <3> QED
      BY <2>1, <3>2 DEF WindowBudget
  <2>3. CASE Cardinality(Rows(k, v, t)) < Cap(k)
    BY <2>1, <2>3 DEF WindowBudget
  <2> QED
    BY <2>2, <2>3
<1> QED
  BY <1>1, <1>2 DEF CInv

\* Passing a query: the handler keeps what it holds, and joins those past the rule
\* of the query, if it counts codes, only below its cap.
LEMMA PassKeeps ==
    ASSUME CInv, DInv', NEW g \in Gates, calls[g].pc \in Queries,
           NEW pc \in Queries \cup {"admit"}, Pass(g, pc),
           UNCHANGED <<otps, now>>,
           \A k \in Kinds, t \in Nat :
              /\ pc \in Cleared(k) /\ calls[g].pc \notin Cleared(k)
              /\ CallKey(g, k) # NULL /\ InWindow(k, Began(g), t)
              => Cardinality(Rows(k, CallKey(g, k), t)) < Cap(k)
    PROVE  CInv'
<1>1. /\ calls[g] \in Call /\ DOMAIN calls = Gates /\ ClockShape(g) /\ CallShape(g)
      /\ now \in Nat /\ Began(g) \in Nat /\ NULL \notin Nat /\ NULL \notin Values
  BY GateType, GateAssumption DEF CInv, Values
<1>2. /\ calls'[g].pc = pc /\ calls'[g].begun = Began(g)
      /\ calls'[g].recipient = calls[g].recipient /\ calls'[g].ip = calls[g].ip
      /\ calls'[g].failed = calls[g].failed /\ calls'[g].started = calls[g].started
      /\ \A h \in Gates \ {g} : calls'[h] = calls[h]
  BY <1>1 DEF Pass, Call
<1>3. Began(g) <= now /\ now - Began(g) <= RequestSpan
  BY <1>1, GateAssumption DEF Began, ClockShape
<1>4. ClockShape(g)'
  BY <1>1, <1>2, <1>3 DEF ClockShape
<1>5. ASSUME NEW k \in Kinds, NEW v \in Values, NEW t \in Nat, Holds(g, k, v, t)'
      PROVE  Holds(g, k, v, t) \/ Cardinality(Rows(k, v, t)) < Cap(k)
  <2>1. pc \in Cleared(k) /\ CallKey(g, k) = v /\ InWindow(k, Began(g), t)
    BY <1>2, <1>5 DEF Holds, CallKey, Cleared, InWindow, Window
  <2>2. CASE calls[g].pc \in Cleared(k)
    <3>1. calls[g].begun = Began(g)
      BY <1>1, <2>2, KindType DEF ClockShape, Began
    <3> QED
      BY <2>1, <2>2, <3>1 DEF Holds
  <2>3. CASE calls[g].pc \notin Cleared(k)
    BY <1>1, <2>1, <2>3
  <2> QED
    BY <2>2, <2>3
<1>6. \A k \in Kinds, v \in Values, t \in Nat : Rows(k, v, t)' = Rows(k, v, t)
  BY DEF Rows, RowKey, InWindow, Window
<1> QED
  BY <1>2, <1>4, <1>5, <1>6, QuietStep

\* A refused request, and one that ends without issuing a code, holds nothing.
LEMMA LeaveKeeps ==
    ASSUME CInv, DInv', NEW g \in Gates, UNCHANGED now,
           \A h \in Gates \ {g} : calls'[h] = calls[h],
           \A k \in Kinds, v \in Values, t \in Nat : Rows(k, v, t)' = Rows(k, v, t),
           calls'[g].pc \notin Cleared("hour"), ClockShape(g)'
    PROVE  CInv'
<1>1. \A k \in Kinds, v \in Values, t \in Nat : ~Holds(g, k, v, t)'
  BY KindType DEF Holds, Cleared
<1> QED
  BY <1>1, QuietStep

\* A refusal keeps the invariant.
LEMMA RefuseKeeps ==
    ASSUME CInv, DInv', NEW g \in Gates, NEW rule, Refuse(g, rule),
           UNCHANGED <<otps, now>>
    PROVE  CInv'
<1>1. /\ calls[g] \in Call /\ DOMAIN calls = Gates /\ ClockShape(g)
      /\ now \in Nat /\ Began(g) \in Nat /\ NULL \notin Nat
  BY GateType DEF CInv
<1>2. /\ calls'[g].pc = "block" /\ calls'[g].begun = Began(g)
      /\ calls'[g].failed = calls[g].failed /\ calls'[g].started = calls[g].started
      /\ \A h \in Gates \ {g} : calls'[h] = calls[h]
  BY <1>1 DEF Refuse, Call
<1>3. Began(g) <= now /\ now - Began(g) <= RequestSpan
  BY <1>1, GateAssumption DEF Began, ClockShape
<1>4. ClockShape(g)' /\ calls'[g].pc \notin Cleared("hour")
  BY <1>1, <1>2, <1>3 DEF ClockShape, Cleared
<1>5. \A k \in Kinds, v \in Values, t \in Nat : Rows(k, v, t)' = Rows(k, v, t)
  BY DEF Rows, RowKey, InWindow, Window
<1> QED
  BY <1>2, <1>4, <1>5, LeaveKeeps

\* The five queries: a request passes a rule only while it counts less than the cap
\* in a window that includes the one it will issue its code in.
LEMMA QueriesKeep ==
    ASSUME CInv, DInv', NEW g \in Gates,
           \/ CheckRecipient(g) \/ CheckIp(g)
           \/ CheckHour(g) \/ CheckDay(g) \/ CheckIpHour(g)
    PROVE  CInv'
<1>1. /\ calls[g] \in Call /\ CallShape(g) /\ calls[g].pc \in Queries
      /\ UNCHANGED <<otps, now>> /\ calls[g].started # NULL
  BY GateType DEF CInv, CheckRecipient, CheckIp, CheckHour, CheckDay, CheckIpHour, At,
                  Queries, CallShape
<1>2. \A k \in Kinds : Cap(k) \in Nat
  BY KindType
<1>3. CASE CheckRecipient(g) \/ CheckIp(g)
  <2>1. \/ \E rule : Refuse(g, rule)
        \/ \E pc \in {"ip", "hour"} : Pass(g, pc)
    BY <1>3 DEF CheckRecipient, CheckIp
  <2>2. ASSUME NEW rule, Refuse(g, rule)
        PROVE  CInv'
    BY <1>1, <2>2, RefuseKeeps
  <2>3. ASSUME NEW pc \in {"ip", "hour"}, Pass(g, pc)
        PROVE  CInv'
    <3>1. pc \in Queries \cup {"admit"} /\ \A k \in Kinds : pc \notin Cleared(k)
      BY <2>3 DEF Queries, Kinds, Cleared
    <3> QED
      BY <1>1, <2>3, <3>1, PassKeeps
  <2> QED
    BY <2>1, <2>2, <2>3
<1>4. ASSUME NEW k \in Kinds, calls[g].pc = k, NEW pc \in Queries \cup {"admit"},
             Pass(g, pc),
             \A j \in Kinds : pc \in Cleared(j) /\ k \notin Cleared(j)
                              /\ CallKey(g, j) # NULL => j = k,
             NEW ids, ids = IF k = "ip_hour" THEN OfIp(calls[g].ip)
                                             ELSE OfRecipient(calls[g].recipient),
             _count_recent(ids, calls[g].started - Window(k)) < Cap(k)
      PROVE  CInv'
  <2>1. _count_recent(ids, calls[g].started - Window(k)) \in Nat
    <3>1. {id \in ids : otps[id].created_at >= calls[g].started - Window(k)}
             \subseteq Ids
      BY <1>4 DEF OfIp, OfRecipient, CInv, DInv, TypeOK
    <3> QED
      BY <3>1, GateAssumption, FS_Subset, FS_CardinalityType DEF _count_recent
  <2>2. ASSUME NEW t \in Nat, InWindow(k, Began(g), t)
        PROVE  Cardinality(Rows(k, CallKey(g, k), t)) < Cap(k)
    <3>1. Cardinality(Rows(k, CallKey(g, k), t))
             <= _count_recent(ids, calls[g].started - Window(k))
      BY <1>1, <1>4, <2>2, CountCoversWindow
    <3>2. Cardinality(Rows(k, CallKey(g, k), t)) \in Nat
      BY BudgetType DEF CInv, DInv
    <3> QED
      BY <1>2, <1>4, <2>1, <3>1, <3>2
  <2> QED
    BY <1>1, <1>4, <2>2, PassKeeps
<1>5. \A since :
         /\ _count_recent(OfRecipient(calls[g].recipient), since) \in Nat
         /\ _count_recent(OfIp(calls[g].ip), since) \in Nat
  <2> TAKE since
  <2>1. /\ {id \in OfRecipient(calls[g].recipient) : otps[id].created_at >= since}
              \subseteq Ids
        /\ {id \in OfIp(calls[g].ip) : otps[id].created_at >= since} \subseteq Ids
    BY DEF OfIp, OfRecipient, CInv, DInv, TypeOK
  <2> QED
    BY <2>1, GateAssumption, FS_Subset, FS_CardinalityType DEF _count_recent
<1>6. CASE CheckHour(g)
  <2>1. CASE PerHour(g) >= ABUSE_RULE_MAX_PER_HOUR
    BY <1>1, <1>6, <2>1, RefuseKeeps DEF CheckHour
  <2>2. CASE ~(PerHour(g) >= ABUSE_RULE_MAX_PER_HOUR)
    <3>1. calls[g].pc = "hour" /\ Pass(g, "day")
      BY <1>6, <2>2 DEF CheckHour, At
    <3>2. _count_recent(OfRecipient(calls[g].recipient),
                        calls[g].started - Window("hour")) < Cap("hour")
      BY <1>5, <2>2, GateAssumption DEF PerHour, Window, Cap
    <3>3. /\ "hour" \in Kinds /\ "day" \in Queries
          /\ \A j \in Kinds : "day" \in Cleared(j) => j = "hour"
      BY DEF Kinds, Queries, Cleared
    <3> QED
      BY <1>4, <3>1, <3>2, <3>3
  <2> QED
    BY <2>1, <2>2
<1>7. CASE CheckDay(g)
  <2>1. CASE \E rule : Refuse(g, rule)
    BY <1>1, <2>1, RefuseKeeps
  <2>2. CASE ~ \E rule : Refuse(g, rule)
    <3>1. /\ calls[g].pc = "day" /\ ~(PerDay(g) >= ABUSE_RULE_MAX_PER_DAY)
          /\ \/ Pass(g, "ip_hour")
             \/ calls[g].ip = NULL /\ Pass(g, "admit")
      BY <1>7, <2>2 DEF CheckDay, At, Score
    <3>2. _count_recent(OfRecipient(calls[g].recipient),
                        calls[g].started - Window("day")) < Cap("day")
      BY <1>5, <3>1, GateAssumption DEF PerDay, Window, Cap
    <3>3. /\ "day" \in Kinds /\ "ip_hour" \in Queries
          /\ \A j \in Kinds :
                "ip_hour" \in Cleared(j) /\ "day" \notin Cleared(j) => j = "day"
          /\ \A j \in Kinds :
                "day" \notin Cleared(j) /\ CallKey(g, j) # NULL
                   => j = "day" \/ calls[g].ip # NULL
      BY DEF Kinds, Queries, Cleared, CallKey
    <3> QED
      BY <1>4, <3>1, <3>2, <3>3
  <2> QED
    BY <2>1, <2>2
<1>8. CASE CheckIpHour(g)
  <2>1. CASE \E rule : Refuse(g, rule)
    BY <1>1, <2>1, RefuseKeeps
  <2>2. CASE ~ \E rule : Refuse(g, rule)
    <3>1. /\ calls[g].pc = "ip_hour" /\ Pass(g, "admit")
          /\ ~(PerHourIp(g) >= ABUSE_RULE_IP_MAX_PER_HOUR)
      BY <1>8, <2>2 DEF CheckIpHour, At, Score
    <3>2. _count_recent(OfIp(calls[g].ip), calls[g].started - Window("ip_hour"))
             < Cap("ip_hour")
      BY <1>5, <3>1, GateAssumption DEF PerHourIp, Window, Cap
    <3>3. /\ "ip_hour" \in Kinds
          /\ \A j \in Kinds : "ip_hour" \notin Cleared(j) => j = "ip_hour"
      BY DEF Kinds, Cleared
    <3> QED
      BY <1>4, <3>1, <3>2, <3>3
  <2> QED
    BY <2>1, <2>2
<1> QED
  BY <1>3, <1>6, <1>7, <1>8

\* Issuing a code: the handler leaves every window budget that its row joins.
LEMMA AdmitKeeps ==
    ASSUME CInv, DInv', NEW g \in Gates, create_otp(g)
    PROVE  CInv'
<1>1. PICK c : c = calls[g]
  OBVIOUS
<1>2. /\ c.pc = "admit" /\ c.begun \in Nat /\ c.begun # NULL /\ Began(g) = c.begun
      /\ DOMAIN calls = Gates
  BY <1>1, GateType DEF create_otp, At, CInv, ClockShape, CallShape, Call, Began
<1>3. PICK id \in Ids \ DOMAIN otps :
         otps' = [i \in DOMAIN otps \cup {id} |->
                    IF i # id THEN otps[i]
                    ELSE [recipient |-> c.recipient, ip_address |-> c.ip,
                          created_at |-> c.begun, status |-> "pending"]]
  BY <1>1, <1>2 DEF create_otp, Write
<1>4. /\ calls'[g] = Idle /\ \A h \in Gates \ {g} : calls'[h] = calls[h]
      /\ now' = now
  BY <1>2 DEF create_otp
<1>5. \A h \in Gates : ClockShape(h)'
  BY <1>4 DEF CInv, ClockShape, Idle, Cleared
<1>6. ASSUME NEW k \in Kinds, NEW v \in Values, NEW t \in Nat
      PROVE  WindowBudget(k, v, t)'
  <2>1. /\ IsFiniteSet(Rows(k, v, t)) /\ Cardinality(Rows(k, v, t)) \in Nat
        /\ IsFiniteSet(Holders(k, v, t)) /\ Cardinality(Holders(k, v, t)) \in Nat
        /\ WindowBudget(k, v, t) /\ Cap(k) \in Nat /\ Cardinality(Gates) \in Nat
        /\ "admit" \in Cleared(k) /\ "idle" \notin Cleared(k)
    BY BudgetType, KindType DEF CInv, DInv
  <2>2. Holders(k, v, t)' = Holders(k, v, t) \ {g}
    BY <1>4, <2>1 DEF Holders, Holds, CallKey, Idle
  <2>3. Rows(k, v, t)' = Rows(k, v, t) \cup IF Holds(g, k, v, t) THEN {id} ELSE {}
    BY <1>1, <1>2, <1>3, <2>1 DEF Rows, RowKey, Holds, CallKey, InWindow
  <2>4. CASE Holds(g, k, v, t)
    <3>1. id \notin Rows(k, v, t) /\ g \in Holders(k, v, t)
      BY <2>4 DEF Rows, Holders
    <3>2. Cardinality(Rows(k, v, t)') = Cardinality(Rows(k, v, t)) + 1
      <4>1. Rows(k, v, t)' = Rows(k, v, t) \cup {id}
        BY <2>3, <2>4
      <4> QED
        BY <2>1, <3>1, <4>1, FS_AddElement
    <3>3. Cardinality(Holders(k, v, t)') = Cardinality(Holders(k, v, t)) - 1
      <4>1. PICK H : H = Holders(k, v, t)
        OBVIOUS
      <4>2. IsFiniteSet(H) /\ g \in H /\ Holders(k, v, t)' = H \ {g}
        BY <2>1, <2>2, <3>1, <4>1
      <4>3. Cardinality(H \ {g}) = Cardinality(H) - 1
        BY <4>2, FS_RemoveElement
      <4> QED
        BY <4>1, <4>2, <4>3
    <3> QED
      BY <2>1, <3>2, <3>3 DEF WindowBudget
  <2>5. CASE ~Holds(g, k, v, t)
    <3>1. Rows(k, v, t)' = Rows(k, v, t) /\ Holders(k, v, t)' = Holders(k, v, t)
      BY <2>2, <2>3, <2>5 DEF Holders
    <3> QED
      BY <2>1, <3>1 DEF WindowBudget
  <2> QED
    BY <2>4, <2>5
<1> QED
  BY <1>5, <1>6 DEF CInv

\* A request that arrives, takes its clock, or ends without a code.
LEMMA OthersKeep ==
    ASSUME CInv, DInv', NEW g \in Gates,
           \/ \E r \in Recipients, ip \in Ips \cup {NULL} : request_otp(g, r, ip)
           \/ evaluate(g) \/ create_otp_raises(g) \/ record_blocked(g)
    PROVE  CInv'
<1>1. /\ calls[g] \in Call /\ DOMAIN calls = Gates /\ ClockShape(g) /\ now \in Nat
      /\ RequestSpan \in Nat /\ UNCHANGED now
  BY GateType, GateAssumption
     DEF CInv, request_otp, evaluate, create_otp_raises, record_blocked
<1>2. \A h \in Gates \ {g} : calls'[h] = calls[h]
  BY <1>1 DEF request_otp, evaluate, create_otp_raises, record_blocked
<1>3. ClockShape(g)' /\ calls'[g].pc \notin Cleared("hour")
  <2>1. CASE \E r \in Recipients, ip \in Ips \cup {NULL} : request_otp(g, r, ip)
    <3>1. PICK r \in Recipients, ip \in Ips \cup {NULL}, begun \in {now, NULL} :
             calls' = [calls EXCEPT ![g] = [Idle EXCEPT !.pc = "authenticated",
                                                        !.recipient = r, !.ip = ip,
                                                        !.begun = begun]]
      BY <2>1 DEF request_otp
    <3>2. /\ calls'[g].pc = "authenticated" /\ calls'[g].begun = begun
          /\ calls'[g].started = NULL /\ calls'[g].failed = FALSE
      BY <1>1, <3>1 DEF Idle
    <3> QED
      BY <1>1, <3>2 DEF ClockShape, Cleared
  <2>2. CASE evaluate(g)
    <3>1. calls'[g] = [calls[g] EXCEPT !.pc = "recipient", !.started = now]
      BY <1>1, <2>2 DEF evaluate
    <3> QED
      BY <1>1, <3>1 DEF ClockShape, Cleared, Call
  <2>3. CASE create_otp_raises(g) \/ record_blocked(g)
    BY <1>1, <2>3 DEF create_otp_raises, record_blocked, Idle, ClockShape, Cleared
  <2> QED
    BY <2>1, <2>2, <2>3
<1>4. \A k \in Kinds, v \in Values, t \in Nat : Rows(k, v, t)' = Rows(k, v, t)
  <2>1. CASE UNCHANGED otps
    BY <2>1 DEF Rows, RowKey, InWindow
  <2>2. CASE record_blocked(g)
    BY <2>2 DEF record_blocked, Write, Rows, RowKey, InWindow
  <2> QED
    BY <2>1, <2>2 DEF request_otp, evaluate, create_otp_raises
<1> QED
  BY <1>1, <1>2, <1>3, <1>4, LeaveKeeps

\* The administrators touch neither codes nor requests, and time passes only as far
\* as the open transactions allow.
LEMMA ClockKeeps ==
    ASSUME CInv, DInv',
           Tick \/ UNCHANGED vars \/ \E a \in Admins : Administer(a)
    PROVE  CInv'
<1>1. UNCHANGED <<otps, calls>>
  BY DEF Tick, vars, Administer, add_to_blacklist, remove_from_blacklist, CommitAdd,
         CommitAddRaises, CommitRemove
<1>2. \/ now' = now
      \/ /\ now' = now + 1
         /\ \A g \in Gates : calls[g].begun # NULL
                                => now - calls[g].begun < RequestSpan
  BY DEF Tick, vars, Administer, add_to_blacklist, remove_from_blacklist, CommitAdd,
         CommitAddRaises, CommitRemove
<1>3. ASSUME NEW g \in Gates
      PROVE  ClockShape(g)'
  <2>1. /\ ClockShape(g) /\ calls[g] \in Call /\ now \in Nat /\ RequestSpan \in Nat
    BY GateType, GateAssumption DEF CInv
  <2> QED
    BY <1>1, <1>2, <2>1 DEF ClockShape, Call
<1>4. \A k \in Kinds, v \in Values, t \in Nat : WindowBudget(k, v, t)'
  BY <1>1 DEF CInv, WindowBudget, Rows, RowKey, InWindow, Holders, Holds, CallKey
<1> QED
  BY <1>3, <1>4 DEF CInv

\* Every step keeps the invariant while evaluate meets no database error.
LEMMA CapsNextKeeps ==
    ASSUME ~EngineMayFail
    PROVE  CInv /\ [Next]_vars => CInv'
<1> SUFFICES ASSUME CInv, [Next]_vars PROVE CInv'
  OBVIOUS
<1>1. DInv'
  BY NextKeeps DEF CInv
<1>2. ASSUME NEW g \in Gates, Serve(g)
      PROVE  CInv'
  BY <1>1, <1>2, QueriesKeep, AdmitKeeps, OthersKeep DEF Serve, EngineFails
<1> QED
  BY <1>1, <1>2, ClockKeeps DEF Next

\* While the engine does not fail open, no window of an hour or a day, less the
\* span of a request, holds more codes to a recipient or from an address than the
\* cap and one for each further handler.
THEOREM RateCapsWork ==
    ASSUME ~EngineMayFail
    PROVE  Spec => []RateCapsNearlyHold
<1>1. Init => CInv
  <2> SUFFICES ASSUME Init PROVE CInv
    OBVIOUS
  <2>1. \A g \in Gates : ClockShape(g)
    BY DEF Init, Idle, ClockShape, Cleared
  <2>2. ASSUME NEW k \in Kinds, NEW v \in Values, NEW t \in Nat
        PROVE  WindowBudget(k, v, t)
    <3>1. Rows(k, v, t) = {} /\ Holders(k, v, t) = {}
      BY KindType DEF Init, Idle, Rows, Holders, Holds
    <3>2. Cardinality(Gates) \in Nat /\ Cap(k) \in Nat \ {0}
      BY KindType, GateAssumption, FS_CardinalityType
    <3> QED
      BY <3>1, <3>2, FS_EmptySet DEF WindowBudget
  <2> QED
    BY <2>1, <2>2, InitHolds DEF CInv
<1>2. CInv /\ [Next]_vars => CInv'
  BY CapsNextKeeps
<1>3. CInv => RateCapsNearlyHold
  <2> SUFFICES ASSUME CInv PROVE RateCapsNearlyHold
    OBVIOUS
  <2>1. ASSUME NEW k \in Kinds, NEW v \in Values, NEW t \in 0..now
        PROVE  Cardinality(Rows(k, v, t)) <= Cap(k) + (Cardinality(Gates) - 1)
    <3>1. WindowBudget(k, v, t) /\ t \in Nat
      BY DEF CInv
    <3>2. /\ Cardinality(Rows(k, v, t)) \in Nat /\ Cardinality(Gates) \in Nat
          /\ Cardinality(Holders(k, v, t)) \in Nat /\ Cap(k) \in Nat
      BY BudgetType, KindType DEF CInv, DInv
    <3> QED
      BY <3>1, <3>2 DEF WindowBudget
  <2>2. ASSUME NEW v, NEW t
        PROVE  /\ {id \in Since(IssuedTo(v), t) :
                      otps[id].created_at <= t + (Hour - RequestSpan)} = Rows("hour", v, t)
               /\ {id \in Since(IssuedTo(v), t) :
                      otps[id].created_at <= t + (Day - RequestSpan)} = Rows("day", v, t)
               /\ {id \in Since(IssuedFrom(v), t) :
                      otps[id].created_at <= t + (Hour - RequestSpan)}
                     = Rows("ip_hour", v, t)
    <3>1. \A id \in DOMAIN otps :
             otps[id].created_at >= t <=> t <= otps[id].created_at
      OBVIOUS
    <3> QED
      BY <3>1 DEF Since, IssuedTo, IssuedFrom, Rows, RowKey, InWindow, Window
  <2>3. ASSUME NEW r \in Recipients
        PROVE  /\ Capped(IssuedTo(r), Hour - RequestSpan,
                          ABUSE_RULE_MAX_PER_HOUR + (Cardinality(Gates) - 1))
               /\ Capped(IssuedTo(r), Day - RequestSpan,
                          ABUSE_RULE_MAX_PER_DAY + (Cardinality(Gates) - 1))
    <3>1. /\ "hour" \in Kinds /\ Cap("hour") = ABUSE_RULE_MAX_PER_HOUR
          /\ "day" \in Kinds /\ Cap("day") = ABUSE_RULE_MAX_PER_DAY
          /\ r \in Values
      BY DEF Kinds, Cap, Values
    <3> QED
      BY ZenonT(60), <2>1, <2>2, <3>1 DEF Capped
  <2>4. ASSUME NEW ip \in Ips
        PROVE  Capped(IssuedFrom(ip), Hour - RequestSpan,
                      ABUSE_RULE_IP_MAX_PER_HOUR + (Cardinality(Gates) - 1))
    <3>1. /\ "ip_hour" \in Kinds /\ Cap("ip_hour") = ABUSE_RULE_IP_MAX_PER_HOUR
          /\ ip \in Values
      BY DEF Kinds, Cap, Values
    <3> QED
      BY ZenonT(60), <2>1, <2>2, <3>1 DEF Capped
  <2> QED
    BY <2>3, <2>4 DEF RateCapsNearlyHold, Caps
<1> QED
  BY <1>1, <1>2, <1>3, PTL DEF Spec
=============================================================================
