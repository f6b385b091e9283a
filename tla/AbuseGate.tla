----------------------------- MODULE AbuseGate -----------------------------
(***************************************************************************)
(* The anti-abuse engine in front of POST /otp/request and /otp/resend     *)
(* (services/abuse/engine.py, _gate_or_block of api/otp.py), and the       *)
(* administrators who edit the denylist meanwhile (api/admin.py).          *)
(*                                                                         *)
(* evaluate reads in up to five queries, one await each, and the row it    *)
(* lets through is committed by one more: every request judges a table     *)
(* that other requests and the administrators go on changing.  Of the rows *)
(* of `otps` only the columns the engine reads are kept here.              *)
(***************************************************************************)
EXTENDS Integers, FiniteSets

CONSTANTS
    Ids,                          \* primary keys a row may get
    Recipients,                   \* phone numbers and e-mail addresses
    Ips,                          \* client addresses; NULL when there is none
    Gates,                        \* handlers that serve send requests
    Admins,                       \* handlers that serve denylist edits
    Entries,                      \* primary keys a denylist entry may get
    ABUSE_RULE_MAX_PER_HOUR,      \* config.py: rows per recipient and hour
    ABUSE_RULE_MAX_PER_DAY,       \* config.py: rows per recipient and day
    ABUSE_RULE_IP_MAX_PER_HOUR,   \* config.py: rows per address and hour
    ABUSE_ML_SCORE_THRESHOLD,     \* config.py: in hundredths
    Hour, Day,                    \* the two windows, in clock ticks
    EngineMayFail,                \* whether evaluate may meet an exception
    RequestSpan,                  \* bound of the ticks a transaction stays open
    Horizon,                      \* bound of the clock
    NULL                          \* None, SQL NULL

\* config.py bounds the caps and the threshold from below (ge=1, ge=0.0).
ASSUME GateAssumption ==
    /\ {ABUSE_RULE_MAX_PER_HOUR, ABUSE_RULE_MAX_PER_DAY,
        ABUSE_RULE_IP_MAX_PER_HOUR, Hour, Day} \subseteq Nat \ {0}
    /\ {ABUSE_ML_SCORE_THRESHOLD, RequestSpan, Horizon} \subseteq Nat
    /\ EngineMayFail \in BOOLEAN
    /\ IsFiniteSet(Gates) /\ IsFiniteSet(Ids)
    /\ NULL \notin Int /\ NULL \notin Recipients /\ NULL \notin Ips

VARIABLES
    otps,        \* the table
    blacklist,   \* the denylist: the key of the entry of each listed value
    now,         \* the clock the API and the database share
    calls,       \* the send request each gate is serving
    edits,       \* the denylist edit each administrator is making
    slips        \* slips[v]: the rows admitted for v while listed, since v was last
                 \* denylisted, and how many of them are due to an exception

vars == <<otps, blacklist, now, calls, edits, slips>>

Values == Recipients \cup Ips

Row == [recipient : Recipients, ip_address : Ips \cup {NULL},
        created_at : Nat, status : {"pending", "blocked"}]

(***************************************************************************)
(* A send request: its next query of evaluate, then "admit" or "block".    *)
(* `started` is evaluate's clock, `begun` the start of the transaction,    *)
(* NULL until a query opens one; `failed` says the engine gave up on an    *)
(* exception, `aborted` that it was the database's, in that transaction.   *)
(***************************************************************************)
Queries == {"recipient", "ip", "hour", "day", "ip_hour"}
Rules   == {"blacklist", "hour", "day", "ip_hour", "ml"}

ASSUME NullAssumption == NULL \notin Rules

Call == [pc        : {"idle", "authenticated", "admit", "block"} \cup Queries,
         recipient : Recipients \cup {NULL},
         ip        : Ips \cup {NULL},
         begun     : Nat \cup {NULL},
         started   : Nat \cup {NULL},
         rule      : Rules \cup {NULL},
         failed    : BOOLEAN,
         aborted   : BOOLEAN]

Idle == [pc |-> "idle", recipient |-> NULL, ip |-> NULL, begun |-> NULL,
         started |-> NULL, rule |-> NULL, failed |-> FALSE, aborted |-> FALSE]

Slips == [rows : Nat, failed_open : Nat]

NoSlips == [rows |-> 0, failed_open |-> 0]

Listed == DOMAIN blacklist

\* An edit between its SELECT and its commit, with the entry a removal read.
Edit == [pc    : {"idle", "adding", "removing"},
         value : Values \cup {NULL},
         entry : Entries \cup {NULL}]

NoEdit == [pc |-> "idle", value |-> NULL, entry |-> NULL]

Init == /\ otps = [id \in {} |-> id]
        /\ blacklist = [v \in {} |-> v]
        /\ now = 0
        /\ calls = [g \in Gates |-> Idle]
        /\ edits = [a \in Admins |-> NoEdit]
        /\ slips = [v \in Values |-> NoSlips]

(***************************************************************************)
(* The request.  require_api_key read the key in this session: the         *)
(* transaction is open since then, unless touch_last_used committed it.    *)
(***************************************************************************)
At(g, pc) == calls[g].pc = pc

\* Ids bounds the requests served: one comes only while there is a key for it.
HasRoom == Cardinality({g \in Gates : ~At(g, "idle")}) < Cardinality(Ids \ DOMAIN otps)

request_otp(g, r, ip) ==
    /\ At(g, "idle")
    /\ HasRoom
    /\ \E begun \in {now, NULL} :
          calls' = [calls EXCEPT ![g] = [Idle EXCEPT !.pc = "authenticated",
                                                     !.recipient = r, !.ip = ip,
                                                     !.begun = begun]]
    /\ UNCHANGED <<otps, blacklist, now, edits, slips>>

evaluate(g) ==
    /\ At(g, "authenticated")
    /\ calls' = [calls EXCEPT ![g].pc = "recipient", ![g].started = now]
    /\ UNCHANGED <<otps, blacklist, now, edits, slips>>

Began(g) == IF calls[g].begun = NULL THEN now ELSE calls[g].begun

Pass(g, pc) == calls' = [calls EXCEPT ![g].pc = pc, ![g].begun = Began(g)]

\* Mutant of Refuse: the decision does not carry its rule.
RefuseSilently(g, rule) ==
    calls' = [calls EXCEPT ![g].pc = "block", ![g].begun = Began(g)]

Refuse(g, rule) ==
    calls' = [calls EXCEPT ![g].pc = "block", ![g].rule = rule,
                           ![g].begun = Began(g)]

\* ml.py: the stub's answer, and the comparison it goes through.
NEUTRAL_SCORE == 0

Score(g) == IF NEUTRAL_SCORE >= ABUSE_ML_SCORE_THRESHOLD THEN Refuse(g, "ml")
                                                         ELSE Pass(g, "admit")

\* Whichever kind an entry was added under, its value is what is compared.
_is_blacklisted(value) == value \in Listed

CheckRecipient(g) ==
    /\ At(g, "recipient")
    /\ IF _is_blacklisted(calls[g].recipient) THEN Refuse(g, "blacklist")
       ELSE Pass(g, IF calls[g].ip # NULL THEN "ip" ELSE "hour")
    /\ UNCHANGED <<otps, blacklist, now, edits, slips>>

\* Mutant of CheckIp: the address is never looked up.
CheckIpSkipped(g) ==
    /\ At(g, "ip")
    /\ Pass(g, "hour")
    /\ UNCHANGED <<otps, blacklist, now, edits, slips>>

CheckIp(g) ==
    /\ At(g, "ip")
    /\ IF _is_blacklisted(calls[g].ip) THEN Refuse(g, "blacklist")
                                       ELSE Pass(g, "hour")
    /\ UNCHANGED <<otps, blacklist, now, edits, slips>>

\* Mutant of Counted: blocked attempts compound.
CountedBlocked(id) == TRUE

Counted(id) == otps[id].status # "blocked"

OfRecipient(r) == {id \in DOMAIN otps : Counted(id) /\ otps[id].recipient = r}
OfIp(ip)       == {id \in DOMAIN otps : Counted(id) /\ otps[id].ip_address = ip}

\* Mutant of _count_recent: the window is open.
_count_recent_open(ids, since) ==
    Cardinality({id \in ids : otps[id].created_at > since})

_count_recent(ids, since) ==
    Cardinality({id \in ids : otps[id].created_at >= since})

PerHour(g)   == _count_recent(OfRecipient(calls[g].recipient), calls[g].started - Hour)
PerDay(g)    == _count_recent(OfRecipient(calls[g].recipient), calls[g].started - Day)
PerHourIp(g) == _count_recent(OfIp(calls[g].ip), calls[g].started - Hour)

CheckHour(g) ==
    /\ At(g, "hour")
    /\ IF PerHour(g) >= ABUSE_RULE_MAX_PER_HOUR THEN Refuse(g, "hour")
                                                ELSE Pass(g, "day")
    /\ UNCHANGED <<otps, blacklist, now, edits, slips>>

CheckDay(g) ==
    /\ At(g, "day")
    /\ IF PerDay(g) >= ABUSE_RULE_MAX_PER_DAY THEN Refuse(g, "day")
       ELSE IF calls[g].ip # NULL THEN Pass(g, "ip_hour") ELSE Score(g)
    /\ UNCHANGED <<otps, blacklist, now, edits, slips>>

CheckIpHour(g) ==
    /\ At(g, "ip_hour")
    /\ IF PerHourIp(g) >= ABUSE_RULE_IP_MAX_PER_HOUR THEN Refuse(g, "ip_hour")
                                                     ELSE Score(g)
    /\ UNCHANGED <<otps, blacklist, now, edits, slips>>

\* Anything raises, before a transaction was opened or within one, whose statement it
\* may or may not have been: fail open.
EngineFails(g) ==
    /\ EngineMayFail
    /\ calls[g].pc \in Queries
    /\ \E begun \in {calls[g].begun, Began(g)}, aborted \in BOOLEAN :
          /\ aborted => begun # NULL
          /\ calls' = [calls EXCEPT ![g].pc = "admit", ![g].failed = TRUE,
                                    ![g].begun = begun, ![g].aborted = aborted]
    /\ UNCHANGED <<otps, blacklist, now, edits, slips>>

\* The INSERT of create_otp or record_blocked; created_at is the database's now().
Write(g, status) ==
    \E id \in Ids \ DOMAIN otps :
        otps' = [i \in DOMAIN otps \cup {id} |->
                    IF i # id THEN otps[i]
                    ELSE [recipient |-> calls[g].recipient, ip_address |-> calls[g].ip,
                          created_at |-> Began(g), status |-> status]]

\* One more row for a listed value.
Slipped(g, old) ==
    [rows        |-> old.rows + 1,
     failed_open |-> old.failed_open + IF calls[g].failed THEN 1 ELSE 0]

create_otp(g) ==
    /\ At(g, "admit") /\ ~calls[g].aborted
    /\ Write(g, "pending")
    /\ slips' = [v \in Values |->
                    IF v \in Listed \cap {calls[g].recipient, calls[g].ip}
                    THEN Slipped(g, slips[v]) ELSE slips[v]]
    /\ calls' = [calls EXCEPT ![g] = Idle]
    /\ UNCHANGED <<blacklist, now, edits>>

\* PostgreSQL refuses every statement of a transaction in which one failed.
create_otp_raises(g) ==
    /\ At(g, "admit") /\ calls[g].aborted
    /\ calls' = [calls EXCEPT ![g] = Idle]
    /\ UNCHANGED <<otps, blacklist, now, edits, slips>>

record_blocked(g) ==
    /\ At(g, "block")
    /\ Write(g, "blocked")
    /\ calls' = [calls EXCEPT ![g] = Idle]
    /\ UNCHANGED <<blacklist, now, edits, slips>>

(***************************************************************************)
(* The denylist: a SELECT, then the commit of what it calls for.  Adding a *)
(* listed value, and removing one that is not, end with the SELECT.        *)
(* `value` is unique in the table: an INSERT of a listed one raises        *)
(* IntegrityError.                                                         *)
(***************************************************************************)
add_to_blacklist(a, v) ==
    /\ edits[a].pc = "idle"
    /\ v \notin Listed
    /\ edits' = [edits EXCEPT ![a] = [pc |-> "adding", value |-> v, entry |-> NULL]]
    /\ UNCHANGED <<otps, blacklist, now, calls, slips>>

EndEdit(a) == edits' = [edits EXCEPT ![a] = NoEdit]

\* uuid4: a key nothing refers to.
FreshEntries ==
    Entries \ ({blacklist[v] : v \in Listed} \cup {edits[a].entry : a \in Admins})

CommitAdd(a) ==
    /\ edits[a].pc = "adding"
    /\ edits[a].value \notin Listed
    /\ \E entry \in FreshEntries :
          blacklist' = [v \in Listed \cup {edits[a].value} |->
                           IF v \in Listed THEN blacklist[v] ELSE entry]
    /\ slips' = [slips EXCEPT ![edits[a].value] = NoSlips]
    /\ EndEdit(a)
    /\ UNCHANGED <<otps, now, calls>>

CommitAddRaises(a) ==
    /\ edits[a].pc = "adding"
    /\ edits[a].value \in Listed
    /\ EndEdit(a)
    /\ UNCHANGED <<otps, blacklist, now, calls, slips>>

remove_from_blacklist(a, v) ==
    /\ edits[a].pc = "idle"
    /\ v \in Listed
    /\ edits' = [edits EXCEPT ![a] = [pc |-> "removing", value |-> v,
                                      entry |-> blacklist[v]]]
    /\ UNCHANGED <<otps, blacklist, now, calls, slips>>

\* Mutant of CommitRemove: DELETE by value.
CommitRemoveByValue(a) ==
    /\ edits[a].pc = "removing"
    /\ blacklist' = [v \in Listed \ {edits[a].value} |-> blacklist[v]]
    /\ EndEdit(a)
    /\ UNCHANGED <<otps, now, calls, slips>>

\* DELETE by the primary key that was read: it meets no row when someone else
\* removed the entry first, and perhaps added the value again.
CommitRemove(a) ==
    /\ edits[a].pc = "removing"
    /\ blacklist' = [v \in {v \in Listed : blacklist[v] # edits[a].entry} |->
                        blacklist[v]]
    /\ EndEdit(a)
    /\ UNCHANGED <<otps, now, calls, slips>>

Tick == /\ now < Horizon
        /\ \A g \in Gates : calls[g].begun # NULL => now - calls[g].begun < RequestSpan
        /\ now' = now + 1
        /\ UNCHANGED <<otps, blacklist, calls, edits, slips>>

Serve(g) ==
    \/ \E r \in Recipients, ip \in Ips \cup {NULL} : request_otp(g, r, ip)
    \/ evaluate(g)
    \/ CheckRecipient(g) \/ CheckIp(g)
    \/ CheckHour(g) \/ CheckDay(g) \/ CheckIpHour(g)
    \/ EngineFails(g)
    \/ create_otp(g) \/ create_otp_raises(g) \/ record_blocked(g)

Administer(a) ==
    \/ \E v \in Values : add_to_blacklist(a, v) \/ remove_from_blacklist(a, v)
    \/ CommitAdd(a) \/ CommitAddRaises(a) \/ CommitRemove(a)

Next == \/ \E g \in Gates : Serve(g)
        \/ \E a \in Admins : Administer(a)
        \/ Tick

Spec == Init /\ [][Next]_vars

-----------------------------------------------------------------------------
\* A call past its first query has a clock and an open transaction, unless the
\* engine failed before it had one.
CallShape(g) ==
    /\ calls[g] \in Call
    /\ At(g, "idle") <=> calls[g].recipient = NULL
    /\ calls[g].pc \in Queries \cup {"admit", "block"} => calls[g].started # NULL
    /\ calls[g].pc \in {"admit", "block"} =>
          calls[g].begun # NULL \/ calls[g].failed
    /\ At(g, "block") <=> calls[g].rule # NULL

TypeOK == /\ DOMAIN otps \subseteq Ids /\ otps \in [DOMAIN otps -> Row]
          /\ Listed \subseteq Values /\ blacklist \in [Listed -> Entries]
          /\ now \in 0..Horizon
          /\ DOMAIN calls = Gates /\ \A g \in Gates : CallShape(g)
          /\ edits \in [Admins -> Edit]
          /\ \A a \in Admins : edits[a].pc # "idle" => edits[a].value \in Values
          /\ slips \in [Values -> Slips]

\* What the rate rules are about: the codes issued to a recipient or an address.
IssuedTo(r)     == {id \in DOMAIN otps : otps[id].status = "pending"
                                         /\ otps[id].recipient = r}
IssuedFrom(ip)  == {id \in DOMAIN otps : otps[id].status = "pending"
                                         /\ otps[id].ip_address = ip}
Since(ids, t)   == {id \in ids : otps[id].created_at >= t}

\* No window of the given length holds more of the rows than the cap.
Capped(ids, length, cap) ==
    \A t \in 0..now :
        Cardinality({id \in Since(ids, t) : otps[id].created_at <= t + length}) <= cap

Caps(span, slack) ==
    /\ \A r \in Recipients :
          /\ Capped(IssuedTo(r), Hour - span, ABUSE_RULE_MAX_PER_HOUR + slack)
          /\ Capped(IssuedTo(r), Day - span, ABUSE_RULE_MAX_PER_DAY + slack)
    /\ \A ip \in Ips :
          Capped(IssuedFrom(ip), Hour - span, ABUSE_RULE_IP_MAX_PER_HOUR + slack)

\* What they are worth when requests overlap: every handler may have counted
\* before the others' rows were committed, so a window holds at most one row more
\* for each further handler (and created_at, the start of a transaction, may lie
\* RequestSpan before the count, which shortens the window).
RateCapsNearlyHold == Caps(RequestSpan, Cardinality(Gates) - 1)

\* The codes a rate rule names were issued in its window, counted when the request
\* was judged or later.
RefusalIsDeserved(g) ==
    LET hour_ago == calls[g].started - Hour
        day_ago  == calls[g].started - Day
        issued(since) == Cardinality(Since(IssuedTo(calls[g].recipient), since))
    IN /\ calls[g].rule = "hour" => issued(hour_ago) >= ABUSE_RULE_MAX_PER_HOUR
       /\ calls[g].rule = "day"  => issued(day_ago) >= ABUSE_RULE_MAX_PER_DAY
       /\ calls[g].rule = "ip_hour" =>
             Cardinality(Since(IssuedFrom(calls[g].ip), hour_ago))
                 >= ABUSE_RULE_IP_MAX_PER_HOUR

\* A request is turned away for its rate only while that many codes really were
\* issued in the window: refused requests do not compound ("don't let blocked
\* attempts compound"), and no later step makes the refusal wrong.
RateRefusalsAreDeserved == \A g \in Gates : RefusalIsDeserved(g)

\* Besides the requests whose engine failed open, whenever they arrived, a denylisted
\* recipient or address gets codes only from the requests under way when it was
\* listed: one per handler, however often the entry is removed and added again.
DenylistHolds ==
    \A v \in Values : slips[v].rows <= Cardinality(Gates) + slips[v].failed_open

\* Whatever two administrators do at once, a value leaves the denylist only by a
\* removal that had read its present entry: one that read an entry since removed and
\* added again does not undo the new listing, and no second listing replaces it.
Outlives(v) == (\A a \in Admins : edits[a].entry # blacklist[v]) =>
                   v \in Listed' /\ blacklist'[v] = blacklist[v]

ListingsOutliveOldRemovals == [][\A v \in Listed : Outlives(v)]_vars
=============================================================================
