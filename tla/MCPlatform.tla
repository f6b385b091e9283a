---------------------------- MODULE MCPlatform ----------------------------
EXTENDS Platform, TLC

Symmetry == Permutations(Providers) \cup Permutations(Workers)
                \cup Permutations(Pollers)

\* Taken with an id, taken or lost without an answer, refused.
SomeAnswers == {Http(202, "id"), NoHttp, Http(400, "object")}

\* Either receipt, a status no one documented, and an answer that says nothing.
SomeReceipts == {Http(200, "DELIVRD"), Http(200, "UNDELIV"), Http(200, "BUFFERED"),
                 Http(503, "text")}
=============================================================================
