----------------------------- MODULE MCDlrPoll -----------------------------
EXTENDS DlrPoll, TLC

Symmetry == Permutations(Ids) \cup Permutations(Recipients) \cup Permutations(Codes)
                \cup Permutations(Providers) \cup Permutations(Pollers)

\* One answer of each kind query_dlr tells apart, errors that bear a receipt, and
\* a status outside its vocabulary.
EveryReceipt ==
    {Http(200, "DELIVRD"), Http(200, "UNDELIV"), Http(200, "ENROUTE"),
     Http(200, "BUFFERED"), Http(200, "array"), Http(302, "text"),
     Http(404, "object"), Http(503, "DELIVRD"), Http(429, "UNDELIV"), NoHttp}
=============================================================================
