------------------------------ MODULE Channels ------------------------------
(***************************************************************************)
(* The channel adapters (services/channels/): how an answer of TunisiaSMS  *)
(* or of the SMTP server becomes the outcome dispatch acts on, and how a   *)
(* delivery-receipt answer becomes a DlrStatus.                            *)
(*                                                                         *)
(* An answer keeps what the adapters look at: a status code, and what the  *)
(* body parses to.  A send that ends in an exception of the client library *)
(* is an answer too, named after the exception.                            *)
(***************************************************************************)
EXTENDS Integers

(***************************************************************************)
(* TunisiaSMS.  Http: a response, its body one of "id" (an object naming a *)
(* messageId), "object" (one that does not), "rejected" (one whose status  *)
(* says so, under a messageId), "text" (no JSON, or nothing), "array"      *)
(* (JSON that is no object), or the status of a receipt.                   *)
(* NoHttp: httpx raised TimeoutException or another HTTPError.             *)
(***************************************************************************)
Http(status, body) == [protocol |-> "http", status |-> status, body |-> body]
NoHttp             == [protocol |-> "http", status |-> 0, body |-> "none"]

\* SMTP: "250" accepted, or the exception aiosmtplib raised; the code matters
\* for SMTPResponseException alone.
Smtp(end, code) == [protocol |-> "smtp", status |-> code, body |-> end]

Succeeds(answer)    == answer.status \in 200..299
ServerFails(answer) == answer.status \in 500..599
Throttles(answer)   == answer.status = 429
Denies(answer)      == answer.status \in {401, 403}

(***************************************************************************)
(* What `send` comes to: SendOutcome, or the exception it raises; "error"  *)
(* is any exception outside the ChannelError hierarchy.                    *)
(***************************************************************************)
Outcomes == {"accepted", "rejected", "retry", "transient", "permanent", "error"}

\* TunisiaSMSAdapter._classify.  The body is parsed first: .get on a JSON value
\* that is no object raises AttributeError whatever the status.
_classify(answer) ==
    CASE answer.body = "array"                             -> "error"
      [] answer.body # "array" /\ Succeeds(answer)         -> "accepted"
      [] answer.body # "array" /\ Throttles(answer)        -> "retry"
      [] answer.body # "array" /\ ServerFails(answer)      -> "retry"
      [] answer.body # "array" /\ Denies(answer)           -> "permanent"
      [] OTHER                                             -> "rejected"

sms_send(answer) == IF answer = NoHttp THEN "transient" ELSE _classify(answer)

\* SmtpEmailAdapter.send: the except clauses in their order.
email_send(answer) ==
    CASE answer.body = "250"                               -> "accepted"
      [] answer.body = "SMTPAuthenticationError"           -> "permanent"
      [] answer.body = "SMTPRecipientsRefused"             -> "rejected"
      [] answer.body = "SMTPResponseException"             ->
            IF answer.status \in 400..499 THEN "transient" ELSE "rejected"
      [] answer.body \in {"SMTPConnectError", "SMTPServerDisconnected",
                          "SMTPTimeoutError"}              -> "transient"
      [] OTHER                                             -> "error"

\* get_adapter: the adapter registered for the channel talks its protocol.
Protocol(channel) == IF channel = "sms" THEN "http" ELSE "smtp"

send(channel, answer) ==
    IF channel = "sms" THEN sms_send(answer) ELSE email_send(answer)

\* TunisiaSMS names the message in its body; an e-mail bears our own Message-ID.
NamesMessage(channel, answer) ==
    channel = "email" \/ answer.body \in {"id", "rejected"}

\* TunisiaSMS turns a message down in the body of an HTTP 200, "a quirk the adapter
\* translates": _classify takes it for accepted.
Misreads(channel, answer) ==
    send(channel, answer) = "accepted" /\ answer.body = "rejected"

\* Whether the provider may have taken the message although it answered this: a
\* success that says nothing else means it did, a refusal that it did not; a timeout,
\* a lost connection, a 5xx of a gateway and a body no one can read leave it open.
MayHaveTaken(channel, answer) ==
    CASE Misreads(channel, answer)                               -> {FALSE}
      [] /\ send(channel, answer) = "accepted"
         /\ ~Misreads(channel, answer)                           -> {TRUE}
      [] send(channel, answer) \in {"rejected", "permanent"}     -> {FALSE}
      [] send(channel, answer) # "accepted" /\ Throttles(answer) -> {FALSE}
      [] OTHER                                                   -> BOOLEAN

(***************************************************************************)
(* TunisiaSMSAdapter.query_dlr.                                            *)
(***************************************************************************)
DeliveredTokens == {"DELIVERED", "DELIVRD"}
FailedTokens    == {"FAILED", "UNDELIV", "UNDELIVERABLE", "REJECTD", "REJECTED",
                    "EXPIRED", "DELETED"}
PendingTokens   == {"PENDING", "QUEUED", "SENT", "ACCEPTED", "ENROUTE"}

_DLR_STATUS_MAP(token) ==
    CASE token \in DeliveredTokens -> "delivered"
      [] token \in FailedTokens    -> "failed"
      [] token \in PendingTokens   -> "pending"
      [] OTHER                     -> "unknown"

\* Mutant of query_dlr: the HTTP status is not looked at.
query_dlr_any_status(answer) ==
    IF answer = NoHttp THEN "pending"
    ELSE IF answer.body = "array" THEN "error"
    ELSE _DLR_STATUS_MAP(answer.body)

query_dlr(answer) ==
    CASE answer = NoHttp                                   -> "pending"
      [] answer.status = 404                               -> "unknown"
      [] answer.status >= 400 /\ answer.status # 404       -> "pending"
      [] answer.status \in 1..399 /\ answer.body = "array" -> "error"
      [] OTHER                                             -> _DLR_STATUS_MAP(answer.body)

\* What TunisiaSMS may answer about a message that met this fate: a receipt in an
\* answer that is no HTTP error is true, though it may lag; an error may say anything.
Truthful(answer, fate) ==
    answer.status < 400 =>
        /\ answer.body \in DeliveredTokens => fate = "delivered"
        /\ answer.body \in FailedTokens    => fate = "failed"
=============================================================================
