------------------------------ MODULE Metrics ------------------------------
(***************************************************************************)
(* GET /otp/metrics: the aggregates of delivery_metrics over the rows of   *)
(* one channel.                                                            *)
(***************************************************************************)
EXTENDS OtpRows, FiniteSets

\* WHERE sent_at IS NOT NULL, GROUP BY channel: a row that dispatch failed without
\* sending it is in no aggregate.
Aggregated(rows, ch) ==
    {id \in DOMAIN rows : rows[id].sent_at # NULL /\ rows[id].channel = ch}

\* Mutant of Delivered: counted by the status the row has now.
DeliveredByStatus(rows, ch) ==
    {id \in Aggregated(rows, ch) : rows[id].status = "delivered"}

\* COUNT(column) counts the rows where the column is not NULL.
Delivered(rows, ch) == {id \in Aggregated(rows, ch) : rows[id].delivered_at # NULL}
Failed(rows, ch)    == {id \in Aggregated(rows, ch) : rows[id].failed_at # NULL}

\* The rate and the average latency are computed from these and left out.
delivery_metrics(rows, ch) ==
    LET delivered == Cardinality(Delivered(rows, ch))
        failed    == Cardinality(Failed(rows, ch))
        total     == Cardinality(Aggregated(rows, ch))
    IN [total     |-> total,
        delivered |-> delivered,
        failed    |-> failed,
        in_flight |-> total - (delivered + failed)]

\* Reference for in_flight: sent, and no receipt of either kind.
AwaitingReceipt(rows, ch) ==
    {id \in Aggregated(rows, ch) :
        rows[id].delivered_at = NULL /\ rows[id].failed_at = NULL}
=============================================================================
