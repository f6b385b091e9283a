---------------------------- MODULE MCDispatch ----------------------------
EXTENDS Dispatch, TLC

Symmetry == Permutations(Ids) \cup Permutations(Recipients) \cup Permutations(Codes)
                \cup Permutations(Providers) \cup Permutations(Workers)

\* One answer of each kind the adapters tell apart.
EveryAnswer ==
    {Http(202, "id"), Http(200, "object"), Http(200, "rejected"), Http(400, "object"),
     Http(401, "text"), Http(429, "object"), Http(503, "text"), Http(200, "array"), NoHttp,
     Smtp("250", 250), Smtp("SMTPAuthenticationError", 535),
     Smtp("SMTPRecipientsRefused", 550), Smtp("SMTPResponseException", 451),
     Smtp("SMTPResponseException", 554), Smtp("SMTPConnectError", 0),
     Smtp("SMTPTimeoutError", 0)}

\* Providers that always tell what they did.
ClearAnswers == {Http(202, "id"), Http(400, "object"), Http(429, "object")}
=============================================================================
