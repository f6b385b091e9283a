---------------------------- MODULE OtpRowsProofs ----------------------------
(***************************************************************************)
(* Lemmas about the table and the unit of work, for the proofs of the      *)
(* components that share them.                                             *)
(***************************************************************************)
EXTENDS OtpRows, TLAPS

\* The statuses the code names are statuses.
LEMMA StatusNames ==
    /\ {"pending", "sent", "delivered", "failed"} \subseteq Statuses
    /\ {"verified", "expired", "blocked"} \subseteq Statuses
    /\ NULL \notin Statuses
  BY NullAssumption DEF Statuses, Active, Terminal

\* A handler that has assigned nothing yet.
LEMMA CleanType == Clean \in Dirty
  BY DEF Clean, Dirty, TimeOrNull

\* A commit keeps the row a row: each column assigned takes its new value, the
\* others, and those no handler assigns, keep theirs.
LEMMA FlushType ==
    ASSUME NEW row \in Row, NEW dirty \in Dirty
    PROVE  LET new == Flush(row, dirty)
           IN /\ new \in Row
              /\ new.recipient = row.recipient
              /\ new.channel = row.channel
              /\ new.code_hash = row.code_hash
              /\ new.created_at = row.created_at
              /\ new.expires_at = row.expires_at
              /\ new.status = Assigned(dirty.status, row.status)
              /\ new.used_at = Assigned(dirty.used_at, row.used_at)
              /\ new.attempt_count
                    = Assigned(dirty.attempt_count, row.attempt_count)
              /\ new.sent_at = Assigned(dirty.sent_at, row.sent_at)
              /\ new.delivered_at = Assigned(dirty.delivered_at, row.delivered_at)
              /\ new.failed_at = Assigned(dirty.failed_at, row.failed_at)
              /\ new.provider_message_id
                    = Assigned(dirty.provider_message_id, row.provider_message_id)
<1>1. /\ Assigned(dirty.status, row.status) \in Statuses
      /\ Assigned(dirty.used_at, row.used_at) \in TimeOrNull
      /\ Assigned(dirty.attempt_count, row.attempt_count) \in Nat
      /\ Assigned(dirty.sent_at, row.sent_at) \in TimeOrNull
      /\ Assigned(dirty.delivered_at, row.delivered_at) \in TimeOrNull
      /\ Assigned(dirty.failed_at, row.failed_at) \in TimeOrNull
      /\ Assigned(dirty.provider_message_id, row.provider_message_id)
            \in Providers \cup {NULL}
  BY DEF Row, Dirty, Assigned
<1> QED
  BY <1>1 DEF Row, Flush

\* The commit of one row keeps the table a table and leaves the other rows alone.
LEMMA CommitType ==
    ASSUME NEW rows, IsTable(rows), NEW id \in DOMAIN rows, NEW dirty \in Dirty,
           NEW new, new = [rows EXCEPT ![id] = Flush(@, dirty)]
    PROVE  /\ IsTable(new)
           /\ DOMAIN new = DOMAIN rows
           /\ id \in Ids /\ rows[id] \in Row
           /\ new[id] = Flush(rows[id], dirty)
           /\ \A i \in DOMAIN rows \ {id} : new[i] = rows[i]
<1>1. /\ rows \in [DOMAIN rows -> Row] /\ DOMAIN rows \subseteq Ids
      /\ id \in Ids /\ rows[id] \in Row
  BY DEF IsTable
<1>2. Flush(rows[id], dirty) \in Row
  BY <1>1, FlushType
<1>3. /\ DOMAIN new = DOMAIN rows
      /\ new[id] = Flush(rows[id], dirty)
      /\ \A i \in DOMAIN rows \ {id} : new[i] = rows[i]
  BY <1>1
<1>4. new \in [DOMAIN rows -> Row]
  BY <1>1, <1>2, <1>3
<1> QED
  BY <1>1, <1>3, <1>4 DEF IsTable

\* So does the commit of several rows.
LEMMA CommitAllType ==
    ASSUME NEW rows, IsTable(rows), NEW dirty,
           \A id \in DOMAIN rows \cap DOMAIN dirty : dirty[id] \in Dirty,
           NEW new, new = FlushAll(rows, dirty)
    PROVE  /\ IsTable(new)
           /\ DOMAIN new = DOMAIN rows
           /\ \A id \in DOMAIN rows :
                 /\ rows[id] \in Row
                 /\ id \in DOMAIN dirty => new[id] = Flush(rows[id], dirty[id])
                 /\ id \notin DOMAIN dirty => new[id] = rows[id]
<1>1. rows \in [DOMAIN rows -> Row] /\ DOMAIN rows \subseteq Ids
  BY DEF IsTable
<1>2. ASSUME NEW id \in DOMAIN rows \cap DOMAIN dirty
      PROVE  Flush(rows[id], dirty[id]) \in Row
  BY <1>1, FlushType
<1>3. /\ DOMAIN new = DOMAIN rows
      /\ new = [id \in DOMAIN rows |->
                   IF id \in DOMAIN dirty THEN Flush(rows[id], dirty[id]) ELSE rows[id]]
  BY DEF FlushAll
<1>4. new \in [DOMAIN rows -> Row]
  BY <1>1, <1>2, <1>3
<1> QED
  BY <1>1, <1>3, <1>4 DEF IsTable

\* An insert adds one row and leaves the others alone.
LEMMA InsertType ==
    ASSUME NEW rows, IsTable(rows), NEW id \in Ids, NEW row \in Row
    PROVE  /\ IsTable(Insert(rows, id, row))
           /\ DOMAIN Insert(rows, id, row) = DOMAIN rows \cup {id}
           /\ Insert(rows, id, row)[id] = row
           /\ \A i \in DOMAIN rows \ {id} : Insert(rows, id, row)[i] = rows[i]
  BY DEF IsTable, Insert

\* What create_otp and record_blocked insert is a row.
LEMMA NewRowType ==
    ASSUME NEW r \in Recipients, NEW ch \in Channels, NEW code \in Codes,
           NEW st \in Statuses, NEW created \in Nat, NEW expires \in Nat
    PROVE  LET row == NewRow(r, ch, code, st, created, expires)
           IN /\ row \in Row
              /\ row.channel = ch /\ row.status = st
              /\ row.used_at = NULL /\ row.attempt_count = 0
              /\ row.sent_at = NULL /\ row.delivered_at = NULL
              /\ row.failed_at = NULL /\ row.provider_message_id = NULL
  BY DEF NewRow, Row, Hashes, Time, TimeOrNull

\* The table starts empty.
LEMMA EmptyType == IsTable(EmptyTable) /\ DOMAIN EmptyTable = {}
  BY DEF EmptyTable, IsTable
=============================================================================
