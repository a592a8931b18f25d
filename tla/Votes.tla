--------------------------------- MODULE Votes ---------------------------------
(***************************************************************************)
(* Votes and their counters (backend/routers/ratings.py).  A request reads *)
(* its client's vote and the counters of the item, each in a SELECT of its *)
(* own that takes part in no transaction (sqlite3 begins one at the first  *)
(* change, and the sessions do not flush before a query), computes the new *)
(* values in memory and writes both in one transaction.  VoteRequests of       *)
(* several workers and threads do this at the same time.                   *)
(*                                                                         *)
(* Kinds is {"like", "dislike"} for attachments.  post_build_vote and      *)
(* delete_build_vote are the same code over builds with Kinds = {"like"}.  *)
(***************************************************************************)
EXTENDS Integers, FiniteSets

CONSTANTS Items,        \* what is voted on
          Clients,      \* client ids, hashed
          VoteRequests,     \* requests in flight
          Kinds,        \* the votes that are accepted
          NoRow,        \* a query found nothing
          MaxId,        \* bound on the row ids
          MaxCount,     \* bound on the counters
          MaxRaced      \* bound on the items changed by stale reads

ASSUME KindsType  == Kinds \subseteq {"like", "dislike"}
ASSUME VoteBounds == MaxId \in Nat /\ MaxCount \in Nat /\ MaxRaced \in Nat

VARIABLES votes,        \* the rows of attachment_votes
          rating,       \* the row of attachment_ratings of each item
          voting,          \* the requests
          raced         \* the items some request changed by stale reads (a ghost)

voteVars == <<votes, rating, voting, raced>>

VoteRow   == [id : 1..MaxId, item : Items, client : Clients, vote : Kinds]
RatingRow == [like : 0..MaxCount, dislike : 0..MaxCount]
ASSUME NoRowType == NoRow \notin VoteRow /\ NoRow \notin RatingRow

NotVoting     == [phase |-> "idle"]
OngoingVote   == [phase : {"rating", "commit"}, item : Items, client : Clients, vote : Kinds,
              row : VoteRow \cup {NoRow}, seen : RatingRow \cup {NoRow}]

VotesTypeOK ==
  /\ votes \subseteq VoteRow
  /\ rating \in [Items -> RatingRow \cup {NoRow}]
  /\ voting \in [VoteRequests -> OngoingVote \cup {NotVoting}]
  /\ raced \subseteq Items

VotesInit ==
  /\ votes = {}
  /\ rating = [i \in Items |-> NoRow]
  /\ voting = [r \in VoteRequests |-> NotVoting]
  /\ raced = {}

--------------------------------------------------------------------------------
(* The two reads.                                                          *)

VoteOf(i, c) ==
  IF \E v \in votes : v.item = i /\ v.client = c
    THEN CHOOSE v \in votes : v.item = i /\ v.client = c
    ELSE NoRow

(* post_vote, whose second like takes the first one back.  delete_vote does *)
(* what a post of the vote it found does, and nothing when there is none.  *)
ReadVote(r, i, c, k) ==
  /\ voting[r] = NotVoting
  /\ voting' = [voting EXCEPT ![r] = [phase |-> "rating", item |-> i, client |-> c, vote |-> k,
                                row |-> VoteOf(i, c), seen |-> NoRow]]
  /\ UNCHANGED <<votes, rating, raced>>

ReadRating(r) ==
  /\ voting[r].phase = "rating"
  /\ voting' = [voting EXCEPT ![r].phase = "commit", ![r].seen = rating[voting[r].item]]
  /\ UNCHANGED <<votes, rating, raced>>

--------------------------------------------------------------------------------
(* What a request a makes of what it read.                                 *)

Inserts(a)   == a.row = NoRow
Withdraws(a) == a.row # NoRow /\ a.row.vote = a.vote

(* Mutant: a changed vote is counted and the old one is not taken back.    *)
DeltaKeepsOld(a, kind) ==
  IF Withdraws(a)      THEN IF kind = a.row.vote THEN -1 ELSE 0
  ELSE IF kind = a.vote THEN 1
  ELSE 0

Delta(a, kind) ==
  IF Withdraws(a)      THEN IF kind = a.row.vote THEN -1 ELSE 0
  ELSE IF kind = a.vote THEN 1
  ELSE IF Inserts(a)   THEN 0 ELSE -1

(* Mutant: a counter may go below zero.                                    *)
MaxZeroNot(n) == n

MaxZero(n) == IF n < 0 THEN 0 ELSE n

(* SQLite gives a new row the largest id plus one: the id of a deleted     *)
(* last row is used again.                                                 *)
IsNewId(n) ==
  /\ \A v \in votes : v.id < n
  /\ n = 1 \/ \E v \in votes : v.id = n - 1

NewId == CHOOSE n \in 1..MaxId : IsNewId(n)

(* Rows are found again by id, whoever they belong to by now.  A delete    *)
(* that finds no row only warns.                                           *)
VotesAfter(a) ==
  IF Inserts(a) THEN votes \cup {[id |-> NewId, item |-> a.item, client |-> a.client,
                                  vote |-> a.vote]}
  ELSE IF Withdraws(a) THEN {v \in votes : v.id # a.row.id}
  ELSE {IF v.id = a.row.id THEN [v EXCEPT !.vote = a.vote] ELSE v : v \in votes}

(* uq_vote_item_ip, and an update that matches no row.                     *)
VoteConflict(a) ==
  \/ Inserts(a) /\ VoteOf(a.item, a.client) # NoRow
  \/ ~Inserts(a) /\ ~Withdraws(a) /\ \A v \in votes : v.id # a.row.id

(* A counter is written when its value in memory changed.                  *)
Written(a, kind) ==
  LET was == IF kind = "like" THEN a.seen.like ELSE a.seen.dislike
      now == IF kind = "like" THEN rating[a.item].like ELSE rating[a.item].dislike
      new == MaxZero(was + Delta(a, kind))
  IN  IF new # was THEN new ELSE now

RatingAfter(a) ==
  IF a.seen = NoRow
    THEN [like |-> MaxZero(Delta(a, "like")), dislike |-> MaxZero(Delta(a, "dislike"))]
    ELSE [like |-> Written(a, "like"), dislike |-> Written(a, "dislike")]

(* The primary key of the counters, and an update that matches no row.     *)
RatingConflict(a) == (a.seen = NoRow) # (rating[a.item] = NoRow)

Stale(a) == a.row # VoteOf(a.item, a.client) \/ a.seen # rating[a.item]

(* The items a commit changes, those of rows whose id was used again too.  *)
Touched(a) == {a.item} \cup {v.item : v \in votes \ VotesAfter(a)}

WithinBounds(a) ==
  /\ Inserts(a) => \E n \in 1..MaxId : IsNewId(n)
  /\ Stale(a) => Cardinality(raced) < MaxRaced
  /\ RatingAfter(a).like <= MaxCount /\ RatingAfter(a).dislike <= MaxCount

CommitVote(r) ==
  /\ voting[r].phase = "commit"
  /\ ~VoteConflict(voting[r]) /\ ~RatingConflict(voting[r]) /\ WithinBounds(voting[r])
  /\ votes' = VotesAfter(voting[r])
  /\ rating' = [rating EXCEPT ![voting[r].item] = RatingAfter(voting[r])]
  /\ raced' = IF Stale(voting[r]) THEN raced \cup Touched(voting[r]) ELSE raced
  /\ voting' = [voting EXCEPT ![r] = NotVoting]

(* A conflict, a database locked for too long or a dead worker.            *)
Rollback(r) ==
  /\ voting[r] # NotVoting
  /\ voting' = [voting EXCEPT ![r] = NotVoting]
  /\ UNCHANGED <<votes, rating, raced>>

AdminClear(i) ==
  /\ votes' = {v \in votes : v.item # i}
  /\ rating' = [rating EXCEPT ![i] = NoRow]
  /\ raced' = raced \ {i}
  /\ UNCHANGED voting

VotesNext ==
  \/ \E r \in VoteRequests, i \in Items, c \in Clients, k \in Kinds : ReadVote(r, i, c, k)
  \/ \E r \in VoteRequests : ReadRating(r) \/ CommitVote(r) \/ Rollback(r)
  \/ \E i \in Items : AdminClear(i)

VotesSpec == VotesInit /\ [][VotesNext]_voteVars

--------------------------------------------------------------------------------
(* Properties.                                                             *)

Count(i, kind) == Cardinality({v \in votes : v.item = i /\ v.vote = kind})

Agrees(i) ==
  IF rating[i] = NoRow
    THEN \A v \in votes : v.item # i
    ELSE rating[i].like = Count(i, "like") /\ rating[i].dislike = Count(i, "dislike")

(* The counters shown and sorted by are the votes.                         *)
CountersAgree == \A i \in Items : Agrees(i)

(* They are, until a request commits what it computed from reads that were *)
(* out of date, and again after the administrator clears the item: however *)
(* votes are cast, changed and withdrawn, and whichever requests fail.     *)
CountersAgreeUnlessRaced == \A i \in Items \ raced : Agrees(i)
================================================================================
