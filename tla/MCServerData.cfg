\* Two requests and two questions to the result caches while data is committed
\* and published; two requests that vote on two items at the same time.
\* (Model values are shared: only one component moves.)
SPECIFICATION ServerSpec
CONSTANTS
  Tokens = {1}
  Workers = {w1, w2}
  Requests = {r1, r2}
  Queries = {q1, q2}
  MaxEntries = 2
  MaxWrites = 2
  Items = {q1, q2}
  Clients = {w1, w2}
  VoteRequests = {r1, r2}
  Kinds = {"like", "dislike"}
  NoRow = NoRow
  MaxId = 2
  MaxCount = 1
  MaxRaced = 1
SYMMETRY ServerSymmetry
INVARIANTS
  SolverTypeOK
  NoStaleAnswer
  VotesTypeOK
  CountersAgreeUnlessRaced
