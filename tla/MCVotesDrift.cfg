SPECIFICATION VotesSpec
CONSTANTS
  Items = {i1}
  Clients = {c1, c2}
  VoteRequests = {r1, r2}
  Kinds = {"like", "dislike"}
  NoRow = NoRow
  MaxId = 3
  MaxCount = 2
  MaxRaced = 1
INVARIANTS
  CountersAgree
