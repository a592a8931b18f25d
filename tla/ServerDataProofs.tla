--------------------------- MODULE ServerDataProofs ----------------------------
(***************************************************************************)
(* Proofs about the data the server keeps: Votes, for every number of      *)
(* items, clients and requests; TarkovSync and CatalogCache, for every     *)
(* number of workers, syncs and crashes.                                   *)
(***************************************************************************)
EXTENDS Votes, CatalogCache, FiniteSetTheorems, TLAPS

--------------------------------------------------------------------------------
(* Votes: the tables of votes, and the counters kept beside them.          *)

Like == {"like", "dislike"}

(* The rows V holds for an item and a kind; Count is their number.         *)
Of(V, i, k) == {v \in V : v.item = i /\ v.vote = k}

(* A table with unique ids and one row per item and client.                *)
Table(V) ==
  /\ V \subseteq VoteRow /\ IsFiniteSet(V)
  /\ \A v \in V, w \in V : v.id = w.id => v = w
  /\ \A v \in V, w \in V : v.item = w.item /\ v.client = w.client => v = w

VotesInv == VotesTypeOK /\ Table(votes) /\ CountersAgreeUnlessRaced

--------------------------------------------------------------------------------
(* What a query finds, and what a flush makes of the table.                *)

LEMMA VoteOfFinds ==
  ASSUME NEW i \in Items, NEW c \in Clients, Table(votes)
  PROVE  \/ /\ VoteOf(i, c) = NoRow
            /\ \A v \in votes : ~(v.item = i /\ v.client = c)
         \/ /\ VoteOf(i, c) \in votes /\ VoteOf(i, c) # NoRow
            /\ VoteOf(i, c).item = i /\ VoteOf(i, c).client = c
  BY NoRowType DEF VoteOf, Table

(* The three shapes of a flush: a new row, a row less, a row changed.      *)
LEMMA InsertedRow ==
  ASSUME Table(votes), NEW a \in OngoingVote, Inserts(a), ~VoteConflict(a), WithinBounds(a)
  PROVE  \E n \in VoteRow :
           /\ n.item = a.item /\ n.vote = a.vote /\ n \notin votes
           /\ VotesAfter(a) = votes \cup {n} /\ Table(votes \cup {n})
  <1> DEFINE n == [id |-> NewId, item |-> a.item, client |-> a.client, vote |-> a.vote]
  <1>1. NewId \in 1..MaxId /\ \A v \in votes : v.id < NewId
    BY DEF WithinBounds, NewId, IsNewId
  <1>2. a.item \in Items /\ a.client \in Clients /\ a.vote \in Kinds
    BY DEF OngoingVote
  <1>3. n \in VoteRow /\ n.id = NewId /\ n.item = a.item /\ n.client = a.client /\ n.vote = a.vote
    BY <1>1, <1>2 DEF VoteRow
  <1>4. \A v \in votes : v.id \in 1..MaxId /\ v.id # NewId
    BY <1>1, VoteBounds DEF Table, VoteRow
  <1>5. \A v \in votes : ~(v.item = a.item /\ v.client = a.client)
    BY <1>2, VoteOfFinds DEF VoteConflict
  <1>6. VotesAfter(a) = votes \cup {n}
    BY DEF VotesAfter
  <1> HIDE DEF n
  <1>7. n \notin votes
    BY <1>3, <1>4
  <1>8. IsFiniteSet(votes \cup {n})
    BY FS_AddElement DEF Table
  <1>9. Table(votes \cup {n})
    BY <1>3, <1>4, <1>5, <1>8 DEF Table
  <1>10. QED  BY <1>3, <1>6, <1>7, <1>9

LEMMA WithdrawnRow ==
  ASSUME Table(votes), NEW a \in OngoingVote, ~Inserts(a), Withdraws(a)
  PROVE  /\ VotesAfter(a) = {v \in votes : v.id # a.row.id}
         /\ Table(VotesAfter(a))
  <1>1. VotesAfter(a) = {v \in votes : v.id # a.row.id}
    BY DEF VotesAfter
  <1>2. VotesAfter(a) \in SUBSET votes
    BY <1>1
  <1>3. IsFiniteSet(VotesAfter(a))
    BY <1>2, FS_Subset DEF Table
  <1>4. QED  BY <1>1, <1>2, <1>3 DEF Table

LEMMA ChangedRow ==
  ASSUME Table(votes), NEW a \in OngoingVote, ~Inserts(a), ~Withdraws(a), ~VoteConflict(a)
  PROVE  \E w \in votes, n \in VoteRow :
           /\ w.id = a.row.id /\ n = [w EXCEPT !.vote = a.vote]
           /\ n.id = w.id /\ n.item = w.item /\ n.vote = a.vote
           /\ VotesAfter(a) = (votes \ {w}) \cup {n} /\ Table(VotesAfter(a))
  <1>1. PICK w \in votes : w.id = a.row.id
    BY DEF VoteConflict
  <1> DEFINE n == [w EXCEPT !.vote = a.vote]
  <1>2. w \in VoteRow /\ a.vote \in Kinds
    BY DEF Table, OngoingVote
  <1>3. /\ n \in VoteRow /\ n.id = w.id /\ n.item = w.item /\ n.client = w.client
        /\ n.vote = a.vote
    BY <1>2 DEF VoteRow
  <1>4. \A v \in votes : v.id = a.row.id <=> v = w
    BY <1>1 DEF Table
  <1>5. VotesAfter(a) = {IF v.id = a.row.id THEN [v EXCEPT !.vote = a.vote] ELSE v : v \in votes}
    BY DEF VotesAfter
  <1>6. VotesAfter(a) = (votes \ {w}) \cup {n}
    BY <1>4, <1>5
  <1> HIDE DEF n
  <1>7. IsFiniteSet((votes \ {w}) \cup {n})
    <2>1. IsFiniteSet(votes \ {w})
      BY FS_RemoveElement DEF Table
    <2>2. QED  BY <2>1, FS_AddElement
  <1>8. Table((votes \ {w}) \cup {n})
    BY <1>1, <1>3, <1>7 DEF Table
  <1>9. QED  BY <1>1, <1>3, <1>6, <1>8 DEF n

LEMMA FlushKeepsTable ==
  ASSUME Table(votes), NEW a \in OngoingVote, ~VoteConflict(a), WithinBounds(a)
  PROVE  Table(VotesAfter(a))
  BY InsertedRow, WithdrawnRow, ChangedRow

(* The rows of an item that is not touched stay as they are.               *)
LEMMA UntouchedRows ==
  ASSUME Table(votes), NEW a \in OngoingVote, ~VoteConflict(a), WithinBounds(a),
         NEW j \in Items \ Touched(a)
  PROVE  \A v : v.item = j => (v \in VotesAfter(a) <=> v \in votes)
  <1>1. j # a.item /\ \A v \in votes : v.item = j => v \in VotesAfter(a)
    BY DEF Touched
  <1>2. ASSUME NEW v \in VotesAfter(a), v.item = j PROVE v \in votes
    <2>1. CASE Inserts(a)
      BY <1>1, <1>2, <2>1, InsertedRow
    <2>2. CASE ~Inserts(a) /\ Withdraws(a)
      BY <1>2, <2>2, WithdrawnRow
    <2>3. CASE ~Inserts(a) /\ ~Withdraws(a)
      <3>1. PICK w \in votes, n \in VoteRow :
              n.item = w.item /\ VotesAfter(a) = (votes \ {w}) \cup {n}
        BY <2>3, ChangedRow
      <3>2. CASE v = n
        <4>1. w \in VotesAfter(a)
          BY <1>1, <1>2, <3>1, <3>2
        <4>2. QED  BY <3>1, <3>2, <4>1
      <3>3. CASE v # n
        BY <1>2, <3>1, <3>3
      <3>4. QED  BY <3>2, <3>3
    <2>4. QED  BY <2>1, <2>2, <2>3
  <1>3. QED  BY <1>1, <1>2

--------------------------------------------------------------------------------
(* A commit on reads that are up to date moves the counts by its deltas.   *)

LEMMA DeltaType ==
  ASSUME NEW a \in OngoingVote, NEW k \in Like
  PROVE  Delta(a, k) \in {-1, 0, 1}
  BY DEF Delta

LEMMA OfFinite ==
  ASSUME Table(votes), NEW i \in Items, NEW k \in Like
  PROVE  IsFiniteSet(Of(votes, i, k)) /\ Cardinality(Of(votes, i, k)) \in Nat
  <1>1. Of(votes, i, k) \in SUBSET votes
    BY DEF Of
  <1>2. QED  BY <1>1, FS_Subset, FS_CardinalityType DEF Table

LEMMA FreshCommitCounts ==
  ASSUME Table(votes), NEW a \in OngoingVote, ~VoteConflict(a), WithinBounds(a), ~Stale(a),
         NEW k \in Like
  PROVE  Cardinality(Of(VotesAfter(a), a.item, k)) = Count(a.item, k) + Delta(a, k)
  <1> DEFINE i == a.item
             S == Of(votes, i, k)
  <1>0. /\ i \in Items /\ a.client \in Clients /\ a.vote \in Kinds /\ a.vote \in Like
        /\ Count(i, k) = Cardinality(S)
    BY KindsType DEF OngoingVote, Count, Of, Like
  <1>1. IsFiniteSet(S) /\ Cardinality(S) \in Nat
    BY <1>0, OfFinite
  <1>2. a.row = VoteOf(i, a.client)
    BY DEF Stale
  <1>3. CASE Inserts(a)
    <2>1. PICK n \in VoteRow : /\ n.item = i /\ n.vote = a.vote /\ n \notin votes
                               /\ VotesAfter(a) = votes \cup {n}
      BY <1>3, InsertedRow
    <2>2. CASE k = a.vote
      <3>1. Of(VotesAfter(a), i, k) = S \cup {n} /\ n \notin S
        BY <2>1, <2>2 DEF Of
      <3>2. Delta(a, k) = 1
        BY <1>3, <2>2 DEF Delta, Inserts, Withdraws
      <3>3. QED  BY <1>0, <1>1, <3>1, <3>2, FS_AddElement
    <2>3. CASE k # a.vote
      <3>1. Of(VotesAfter(a), i, k) = S
        BY <2>1, <2>3 DEF Of
      <3>2. Delta(a, k) = 0
        BY <1>3, <2>3 DEF Delta, Inserts, Withdraws
      <3>3. QED  BY <1>0, <1>1, <3>1, <3>2
    <2>4. QED  BY <2>2, <2>3
  <1>4. ASSUME ~Inserts(a)
        PROVE  /\ a.row \in votes /\ a.row.item = i /\ a.row.vote \in Like
               /\ \A v \in votes : v.id = a.row.id <=> v = a.row
    <2>1. a.row \in votes /\ a.row.item = i
      BY <1>0, <1>2, <1>4, VoteOfFinds DEF Inserts
    <2>2. QED  BY <2>1, KindsType DEF Table, VoteRow, Like
  <1>5. CASE ~Inserts(a) /\ Withdraws(a)
    <2>1. VotesAfter(a) = votes \ {a.row}
      BY <1>4, <1>5, WithdrawnRow
    <2>2. CASE k = a.row.vote
      <3>1. Of(VotesAfter(a), i, k) = S \ {a.row} /\ a.row \in S
        BY <1>4, <1>5, <2>1, <2>2 DEF Of
      <3>2. Delta(a, k) = -1
        BY <1>5, <2>2 DEF Delta
      <3>3. QED  BY <1>0, <1>1, <3>1, <3>2, FS_RemoveElement
    <2>3. CASE k # a.row.vote
      <3>1. Of(VotesAfter(a), i, k) = S
        BY <1>4, <1>5, <2>1, <2>3 DEF Of
      <3>2. Delta(a, k) = 0
        BY <1>5, <2>3 DEF Delta
      <3>3. QED  BY <1>0, <1>1, <3>1, <3>2
    <2>4. QED  BY <2>2, <2>3
  <1>6. CASE ~Inserts(a) /\ ~Withdraws(a)
    <2>1. PICK w \in votes, n \in VoteRow :
            /\ w.id = a.row.id /\ n.id = w.id /\ n.item = w.item /\ n.vote = a.vote
            /\ VotesAfter(a) = (votes \ {w}) \cup {n}
      BY <1>6, ChangedRow
    <2>2. w = a.row /\ w.item = i /\ w.vote \in Like /\ w.vote # a.vote
      BY <1>4, <1>6, <2>1 DEF Inserts, Withdraws
    <2>3. CASE k = a.vote
      <3>1. Of(VotesAfter(a), i, k) = S \cup {n}
        BY <2>1, <2>2, <2>3 DEF Of
      <3>2. n \notin S
        <4>1. ~(\E v \in votes : v.id = w.id /\ v # w)
          BY <1>4, <1>6, <2>1, <2>2
        <4>2. n.id = w.id
          BY <2>1
        <4>3. QED  BY <2>1, <2>2, <4>1, <4>2 DEF Of
      <3>3. Delta(a, k) = 1
        BY <1>6, <2>3 DEF Delta
      <3>4. QED  BY <1>0, <1>1, <3>1, <3>2, <3>3, FS_AddElement
    <2>4. CASE k # a.vote
      <3>1. Of(VotesAfter(a), i, k) = S \ {w} /\ w \in S
        BY <1>0, <2>1, <2>2, <2>4 DEF Of, Like
      <3>2. Delta(a, k) = -1
        BY <1>6, <2>4 DEF Delta
      <3>3. QED  BY <1>0, <1>1, <3>1, <3>2, FS_RemoveElement
    <2>5. QED  BY <2>3, <2>4
  <1>7. QED  BY <1>3, <1>5, <1>6

--------------------------------------------------------------------------------
(* The inductive invariant.                                                *)

LEMMA VotesInvInit == VotesInit => VotesInv
  BY FS_EmptySet DEF VotesInit, VotesInv, VotesTypeOK, Table, CountersAgreeUnlessRaced, Agrees

LEMMA RatingAfterType ==
  ASSUME VotesInv, NEW a \in OngoingVote, ~RatingConflict(a), WithinBounds(a)
  PROVE  RatingAfter(a) \in RatingRow
  <1>1. a.item \in Items /\ a.seen \in RatingRow \cup {NoRow}
    BY DEF OngoingVote
  <1>2. rating[a.item] \in RatingRow \cup {NoRow}
    BY <1>1 DEF VotesInv, VotesTypeOK
  <1>3. Delta(a, "like") \in {-1, 0, 1} /\ Delta(a, "dislike") \in {-1, 0, 1}
    BY DeltaType DEF Like
  <1>4. RatingAfter(a).like <= MaxCount /\ RatingAfter(a).dislike <= MaxCount
    BY DEF WithinBounds
  <1>5. CASE a.seen = NoRow
    <2>1. RatingAfter(a) = [like    |-> MaxZero(Delta(a, "like")),
                            dislike |-> MaxZero(Delta(a, "dislike"))]
      BY <1>5 DEF RatingAfter
    <2>2. QED  BY <1>3, <1>4, <2>1, VoteBounds DEF MaxZero, RatingRow
  <1>6. CASE a.seen # NoRow
    <2>1. a.seen \in RatingRow /\ rating[a.item] \in RatingRow
      BY <1>1, <1>2, <1>6 DEF RatingConflict
    <2>2. RatingAfter(a) = [like |-> Written(a, "like"), dislike |-> Written(a, "dislike")]
      BY <1>6 DEF RatingAfter
    <2>3. /\ a.seen.like \in Nat /\ a.seen.dislike \in Nat
          /\ rating[a.item].like \in Nat /\ rating[a.item].dislike \in Nat
      BY <2>1, VoteBounds DEF RatingRow
    <2>4. Written(a, "like") \in Nat /\ Written(a, "dislike") \in Nat
      BY <1>3, <2>3 DEF Written, MaxZero
    <2>5. QED  BY <1>4, <2>2, <2>4, VoteBounds DEF RatingRow
  <1>7. QED  BY <1>5, <1>6

(* The counters after a commit on reads that are up to date.               *)
LEMMA FreshCommitAgrees ==
  ASSUME VotesInv, NEW a \in OngoingVote, ~VoteConflict(a), ~RatingConflict(a), WithinBounds(a),
         ~Stale(a), a.item \notin raced
  PROVE  /\ RatingAfter(a).like = Cardinality(Of(VotesAfter(a), a.item, "like"))
         /\ RatingAfter(a).dislike = Cardinality(Of(VotesAfter(a), a.item, "dislike"))
  <1> DEFINE i == a.item
             N(k) == Cardinality(Of(VotesAfter(a), i, k))
  <1>1. i \in Items /\ Table(votes) /\ Agrees(i) /\ a.seen = rating[i]
    BY DEF OngoingVote, VotesInv, CountersAgreeUnlessRaced, Stale
  <1>2. Table(VotesAfter(a))
    BY <1>1, FlushKeepsTable
  <1>3. \A k \in Like : N(k) \in Nat
    <2> SUFFICES ASSUME NEW k \in Like PROVE N(k) \in Nat
      OBVIOUS
    <2>1. Of(VotesAfter(a), i, k) \in SUBSET VotesAfter(a)
      BY DEF Of
    <2>2. QED  BY <1>2, <2>1, FS_Subset, FS_CardinalityType DEF Table
  <1>4. \A k \in Like : N(k) = Count(i, k) + Delta(a, k)
    BY <1>1, FreshCommitCounts
  <1>5. \A k \in Like : Count(i, k) \in Nat /\ Delta(a, k) \in {-1, 0, 1}
    BY <1>1, OfFinite, DeltaType DEF Count, Of
  <1> HIDE DEF N
  <1>6. CASE rating[i] = NoRow
    <2>1. \A k \in Like : {v \in votes : v.item = i /\ v.vote = k} = {}
      BY <1>1, <1>6 DEF Agrees
    <2>2. \A k \in Like : Count(i, k) = 0
      BY <2>1, FS_EmptySet DEF Count
    <2>3. \A k \in Like : N(k) = MaxZero(Delta(a, k))
      BY <1>3, <1>4, <1>5, <2>2 DEF MaxZero
    <2>4. RatingAfter(a) = [like    |-> MaxZero(Delta(a, "like")),
                            dislike |-> MaxZero(Delta(a, "dislike"))]
      BY <1>1, <1>6 DEF RatingAfter
    <2>5. QED  BY <2>3, <2>4 DEF N, Like
  <1>7. CASE rating[i] # NoRow
    <2>1. rating[i].like = Count(i, "like") /\ rating[i].dislike = Count(i, "dislike")
      BY <1>1, <1>7 DEF Agrees
    <2>2. Written(a, "like") = N("like")
      BY <1>1, <1>3, <1>4, <1>5, <2>1 DEF Written, MaxZero, Like
    <2>3. Written(a, "dislike") = N("dislike")
      BY <1>1, <1>3, <1>4, <1>5, <2>1 DEF Written, MaxZero, Like
    <2>4. RatingAfter(a) = [like |-> Written(a, "like"), dislike |-> Written(a, "dislike")]
      BY <1>1, <1>7 DEF RatingAfter
    <2>5. QED  BY <2>2, <2>3, <2>4 DEF N
  <1>8. QED  BY <1>6, <1>7

(* An item that is not touched agrees as it did.                           *)
LEMMA UntouchedAgrees ==
  ASSUME NEW j \in Items, Agrees(j), rating'[j] = rating[j],
         \A v : v.item = j => (v \in votes' <=> v \in votes)
  PROVE  Agrees(j)'
  <1>1. \A k \in Like : {v \in votes' : v.item = j /\ v.vote = k}
                          = {v \in votes : v.item = j /\ v.vote = k}
    OBVIOUS
  <1>2. QED  BY <1>1 DEF Agrees, Count, Like

(* Reads that are up to date touch the request's own item only.            *)
LEMMA FreshTouches ==
  ASSUME Table(votes), NEW a \in OngoingVote, ~VoteConflict(a), WithinBounds(a), ~Stale(a)
  PROVE  Touched(a) = {a.item}
  <1>0. a.item \in Items /\ a.client \in Clients /\ a.row = VoteOf(a.item, a.client)
    BY DEF OngoingVote, Stale
  <1>1. CASE Inserts(a)
    BY <1>1, InsertedRow DEF Touched
  <1>2. CASE ~Inserts(a)
    <2>1. a.row \in votes /\ a.row.item = a.item
      BY <1>0, <1>2, VoteOfFinds DEF Inserts
    <2>2. \A v \in votes : v.id = a.row.id <=> v = a.row
      BY <2>1 DEF Table
    <2>3. CASE Withdraws(a)
      BY <1>2, <2>1, <2>2, <2>3, WithdrawnRow DEF Touched
    <2>4. CASE ~Withdraws(a)
      <3>1. PICK w \in votes, n \in VoteRow :
              w.id = a.row.id /\ VotesAfter(a) = (votes \ {w}) \cup {n}
        BY <1>2, <2>4, ChangedRow
      <3>2. QED  BY <2>1, <2>2, <3>1 DEF Touched
    <2>5. QED  BY <2>3, <2>4
  <1>3. QED  BY <1>1, <1>2

LEMMA CommitVoteKeeps ==
  ASSUME VotesInv, NEW r \in VoteRequests, CommitVote(r)
  PROVE  VotesInv'
  <1> DEFINE a == voting[r]
             i == a.item
  <1>0. a \in OngoingVote
    BY DEF VotesInv, VotesTypeOK, CommitVote, NotVoting
  <1>1. /\ i \in Items /\ Table(votes)
        /\ ~VoteConflict(a) /\ ~RatingConflict(a) /\ WithinBounds(a)
        /\ votes' = VotesAfter(a)
        /\ rating' = [rating EXCEPT ![i] = RatingAfter(a)]
        /\ raced' = IF Stale(a) THEN raced \cup Touched(a) ELSE raced
        /\ voting' = [voting EXCEPT ![r] = NotVoting]
    BY <1>0 DEF CommitVote, VotesInv, OngoingVote
  <1>2. a = voting[r]
    OBVIOUS
  <1> HIDE DEF a
  <1>3. Table(votes')
    BY <1>0, <1>1, FlushKeepsTable
  <1>4. RatingAfter(a) \in RatingRow
    BY <1>0, <1>1, RatingAfterType
  <1>5. rating' \in [Items -> RatingRow \cup {NoRow}]
    BY <1>1, <1>4 DEF VotesInv, VotesTypeOK
  <1>6. VotesTypeOK'
    <2>1. Touched(a) \subseteq Items
      BY <1>1 DEF Touched, Table, VoteRow
    <2>2. raced' \subseteq Items
      BY <1>1, <2>1 DEF VotesInv, VotesTypeOK
    <2>3. voting' \in [VoteRequests -> OngoingVote \cup {NotVoting}]
      BY <1>1 DEF VotesInv, VotesTypeOK
    <2>4. QED  BY <1>3, <1>5, <2>2, <2>3 DEF VotesTypeOK, Table
  <1>7. ASSUME NEW j \in Items, j \notin raced' PROVE Agrees(j)'
    <2>1. j \notin raced /\ Agrees(j)
      BY <1>1, <1>7 DEF VotesInv, CountersAgreeUnlessRaced
    <2>2. CASE j \notin Touched(a)
      <3>1. j # i /\ rating'[j] = rating[j]
        BY <1>1, <2>2 DEF Touched, VotesInv, VotesTypeOK
      <3>2. \A v : v.item = j => (v \in votes' <=> v \in votes)
        BY <1>0, <1>1, <2>2, UntouchedRows
      <3>3. QED  BY <2>1, <3>1, <3>2, UntouchedAgrees
    <2>3. CASE j \in Touched(a)
      <3>1. ~Stale(a) /\ j = i
        BY <1>0, <1>1, <1>7, <2>3, FreshTouches
      <3>2. /\ RatingAfter(a).like = Cardinality(Of(VotesAfter(a), i, "like"))
            /\ RatingAfter(a).dislike = Cardinality(Of(VotesAfter(a), i, "dislike"))
        BY <1>0, <1>1, <2>1, <3>1, FreshCommitAgrees
      <3>3. rating'[j] = RatingAfter(a) /\ rating'[j] # NoRow
        BY <1>1, <1>4, <3>1, NoRowType DEF VotesInv, VotesTypeOK
      <3>4. QED  BY <1>1, <3>1, <3>2, <3>3 DEF Agrees, Count, Of
    <2>4. QED  BY <2>2, <2>3
  <1>8. QED  BY <1>3, <1>6, <1>7 DEF VotesInv, CountersAgreeUnlessRaced

LEMMA AdminClearKeeps ==
  ASSUME VotesInv, NEW i \in Items, AdminClear(i)
  PROVE  VotesInv'
  <1>1. /\ votes' = {v \in votes : v.item # i}
        /\ rating' = [rating EXCEPT ![i] = NoRow]
        /\ raced' = raced \ {i} /\ voting' = voting
    BY DEF AdminClear
  <1>2. Table(votes')
    <2>1. votes' \in SUBSET votes
      BY <1>1
    <2>2. IsFiniteSet(votes')
      BY <2>1, FS_Subset DEF VotesInv, Table
    <2>3. QED  BY <2>1, <2>2 DEF VotesInv, Table
  <1>3. VotesTypeOK'
    BY <1>1 DEF VotesInv, VotesTypeOK
  <1>4. ASSUME NEW j \in Items, j \notin raced' PROVE Agrees(j)'
    <2>1. CASE j = i
      BY <1>1, <2>1 DEF Agrees, VotesInv, VotesTypeOK
    <2>2. CASE j # i
      <3>1. Agrees(j) /\ rating'[j] = rating[j]
        BY <1>1, <1>4, <2>2 DEF VotesInv, VotesTypeOK, CountersAgreeUnlessRaced
      <3>2. \A v : v.item = j => (v \in votes' <=> v \in votes)
        BY <1>1, <2>2
      <3>3. QED  BY <3>1, <3>2, UntouchedAgrees
    <2>3. QED  BY <2>1, <2>2
  <1>5. QED  BY <1>2, <1>3, <1>4 DEF VotesInv, CountersAgreeUnlessRaced

(* A step that changes no row: a read, the end of a request, or none.      *)
LEMMA VoteRequestKeeps ==
  ASSUME VotesInv, voting' \in [VoteRequests -> OngoingVote \cup {NotVoting}], UNCHANGED <<votes, rating, raced>>
  PROVE  VotesInv'
  BY DEF VotesInv, VotesTypeOK, Table, CountersAgreeUnlessRaced, Agrees, Count

LEMMA VotesInvKept == VotesInv /\ [VotesNext]_voteVars => VotesInv'
  <1> SUFFICES ASSUME VotesInv, [VotesNext]_voteVars PROVE VotesInv'
    OBVIOUS
  <1>1. ASSUME NEW r \in VoteRequests, NEW i \in Items, NEW c \in Clients, NEW k \in Kinds,
               ReadVote(r, i, c, k)
        PROVE  VotesInv'
    <2>1. VoteOf(i, c) \in VoteRow \cup {NoRow}
      BY VoteOfFinds DEF VotesInv, Table
    <2>2. voting' \in [VoteRequests -> OngoingVote \cup {NotVoting}]
      BY <1>1, <2>1 DEF ReadVote, VotesInv, VotesTypeOK, OngoingVote
    <2>3. QED  BY <1>1, <2>2, VoteRequestKeeps DEF ReadVote
  <1>2. ASSUME NEW r \in VoteRequests, ReadRating(r) PROVE VotesInv'
    <2>1. voting[r] \in OngoingVote /\ rating[voting[r].item] \in RatingRow \cup {NoRow}
      BY <1>2 DEF ReadRating, VotesInv, VotesTypeOK, NotVoting, OngoingVote
    <2>2. [voting[r] EXCEPT !.phase = "commit", !.seen = rating[voting[r].item]] \in OngoingVote
      BY <2>1 DEF OngoingVote
    <2>3. voting' \in [VoteRequests -> OngoingVote \cup {NotVoting}]
      BY <1>2, <2>2 DEF ReadRating, VotesInv, VotesTypeOK
    <2>4. QED  BY <1>2, <2>3, VoteRequestKeeps DEF ReadRating
  <1>3. ASSUME NEW r \in VoteRequests, CommitVote(r) PROVE VotesInv'
    BY <1>3, CommitVoteKeeps
  <1>4. ASSUME NEW r \in VoteRequests, Rollback(r) PROVE VotesInv'
    <2>1. voting' \in [VoteRequests -> OngoingVote \cup {NotVoting}]
      BY <1>4 DEF Rollback, VotesInv, VotesTypeOK
    <2>2. QED  BY <1>4, <2>1, VoteRequestKeeps DEF Rollback
  <1>5. ASSUME NEW i \in Items, AdminClear(i) PROVE VotesInv'
    BY <1>5, AdminClearKeeps
  <1>6. CASE UNCHANGED voteVars
    BY <1>6, VoteRequestKeeps DEF voteVars, VotesInv, VotesTypeOK
  <1>7. QED  BY <1>1, <1>2, <1>3, <1>4, <1>5, <1>6 DEF VotesNext

(* Rows and counters keep their types: in particular no race drives a      *)
(* counter below zero (the max of _upsert_rating).                         *)
THEOREM VotesTypeCorrect == VotesSpec => []VotesTypeOK
  <1>1. VotesInv => VotesTypeOK
    BY DEF VotesInv
  <1>2. QED  BY VotesInvInit, VotesInvKept, <1>1, PTL DEF VotesSpec

(* The counters of an item are its votes until a request commits what it   *)
(* computed from reads that were out of date, and after a clear            *)
(* (post_vote, delete_vote, _upsert_rating, admin_clear_rating).           *)
THEOREM OnlyRacesDrift == VotesSpec => []CountersAgreeUnlessRaced
  <1>1. VotesInv => CountersAgreeUnlessRaced
    BY DEF VotesInv
  <1>2. QED  BY VotesInvInit, VotesInvKept, <1>1, PTL DEF VotesSpec

--------------------------------------------------------------------------------
(* TarkovSync and CatalogCache: first, TarkovSync implements CatalogData.  *)

(* A sync that was not started has no step; the others keep their place.   *)
JobsInv ==
  /\ started \in Nat
  /\ DOMAIN job = Syncs
  /\ \A j \in Syncs : j > started => job[j] = "none"

LEMMA JobsInit == SyncInit => JobsInv
  BY SyncBounds DEF SyncInit, JobsInv, Syncs

LEMMA StartKeepsJobs ==
  ASSUME JobsInv, NEW w \in Workers, StartSync(w)
  PROVE  JobsInv' /\ \A j \in Syncs : job'[j] = "ok" <=> job[j] = "ok"
  <1>1. started + 1 \in Syncs /\ job[started + 1] = "none"
    BY SyncBounds DEF JobsInv, StartSync, Syncs
  <1>2. started' = started + 1 /\ job' = [job EXCEPT ![started + 1] = "clear"]
    BY DEF StartSync
  <1>3. QED  BY <1>1, <1>2 DEF JobsInv, Syncs

LEMMA JobKeepsJobs ==
  ASSUME JobsInv, NEW j \in Syncs, JobStep(j)
  PROVE  JobsInv'
  <1>1. started' = started /\ job[j] \in Steps /\ \E next : Then(j, next)
    BY DEF JobStep, ClearTables, FillItems, FillLinks, UpdatePrices, Publish, JobFails,
       InSync, Steps
  <1>2. PICK next : job' = [job EXCEPT ![j] = next]
    BY <1>1 DEF Then
  <1>3. job[j] # "none"
    BY <1>1 DEF Steps
  <1>4. QED  BY <1>1, <1>2, <1>3 DEF JobsInv, Syncs

(* The other steps of a worker touch neither the jobs nor the data.        *)
WorkerOnly == UNCHANGED <<job, started, writes, epoch>>

LEMMA OtherSteps ==
  ASSUME NEW w \in Workers,
         \/ LoopStep(w) /\ ~StartSync(w)
         \/ Crash(w)
         \/ \E enabled \in BOOLEAN : AdminSet(w, enabled)
  PROVE  WorkerOnly
  BY DEF LoopStep, Idle, SyncReturns, Triggered, IntervalEnds, Restart, Crash, AdminSet,
     WorkerOnly, dbVars

LEMMA StartTouchesNoData ==
  ASSUME NEW w \in Workers, StartSync(w)
  PROVE  UNCHANGED <<writes, epoch>>
  BY DEF StartSync, dbVars

LEMMA JobsKept == JobsInv /\ [SyncNext]_syncVars => JobsInv'
  <1> SUFFICES ASSUME JobsInv, [SyncNext]_syncVars PROVE JobsInv'
    OBVIOUS
  <1>1. CASE \E w \in Workers : StartSync(w)
    BY <1>1, StartKeepsJobs
  <1>2. CASE \E j \in Syncs : JobStep(j)
    BY <1>2, JobKeepsJobs
  <1>3. CASE WorkerOnly
    BY <1>3 DEF WorkerOnly, JobsInv
  <1>4. CASE UNCHANGED syncVars
    BY <1>4 DEF syncVars, JobsInv
  <1>5. QED  BY <1>1, <1>2, <1>3, <1>4, OtherSteps DEF SyncNext

(* A step of a sync is a commit, the publication of its own token, which   *)
(* nobody published before, or nothing a reader can tell.                  *)
LEMMA JobStepMaps ==
  ASSUME JobsInv, NEW j \in Syncs, JobStep(j)
  PROVE  Data!DataNext \/ UNCHANGED Data!dataVars
  <1> DEFINE Used == {i \in Syncs : job[i] = "ok"}
  <1>0. ASSUME NEW next, next # "ok", Then(j, next), job[j] # "ok"
        PROVE  Used' = Used
    BY <1>0 DEF Then, JobsInv
  <1>1. CASE Publish(j)
    <2>1. /\ job' = [job EXCEPT ![j] = "ok"] /\ job[j] = "publish"
          /\ epoch' = j /\ writes' = writes
      BY <1>1 DEF Publish, Then, dbVars
    <2>2. Used' = Used \cup {j} /\ j \in Syncs \ Used
      BY <2>1 DEF JobsInv
    <2>3. Data!Publish(j)
      BY <2>1, <2>2 DEF Data!Publish
    <2>4. QED  BY <2>3 DEF Data!DataNext
  <1>2. CASE ClearTables(j) \/ FillItems(j) \/ FillLinks(j) \/ UpdatePrices(j)
    <2>1. writes' = writes + 1 /\ epoch' = epoch
      BY <1>2 DEF ClearTables, FillItems, FillLinks, UpdatePrices, Commit
    <2>2. Used' = Used
      BY <1>0, <1>2 DEF ClearTables, FillItems, FillLinks, UpdatePrices
    <2>3. QED  BY <2>1, <2>2 DEF Data!DataNext, Data!Commit
  <1>3. CASE JobFails(j)
    <2>1. writes' = writes /\ epoch' = epoch
      BY <1>3 DEF JobFails, dbVars
    <2>2. Used' = Used
      BY <1>0, <1>3 DEF JobFails, Steps
    <2>3. QED  BY <2>1, <2>2 DEF Data!dataVars
  <1>4. QED  BY <1>1, <1>2, <1>3 DEF JobStep

LEMMA StepMaps ==
  JobsInv /\ [SyncNext]_syncVars => [Data!DataNext]_(Data!dataVars)
  <1> SUFFICES ASSUME JobsInv, [SyncNext]_syncVars
               PROVE  Data!DataNext \/ UNCHANGED Data!dataVars
    OBVIOUS
  <1> DEFINE Used == {i \in Syncs : job[i] = "ok"}
  <1>1. CASE \E w \in Workers : StartSync(w)
    <2>1. Used' = Used
      BY <1>1, StartKeepsJobs
    <2>2. QED  BY <1>1, <2>1, StartTouchesNoData DEF Data!dataVars
  <1>2. CASE \E j \in Syncs : JobStep(j)
    BY <1>2, JobStepMaps
  <1>3. CASE WorkerOnly
    BY <1>3 DEF WorkerOnly, Data!dataVars
  <1>4. CASE UNCHANGED syncVars
    BY <1>4 DEF syncVars, dbVars, Data!dataVars
  <1>5. QED  BY <1>1, <1>2, <1>3, <1>4, OtherSteps DEF SyncNext

(* However syncs overlap, fail, or outlive their worker: every change of   *)
(* the database moves the mtime, and no generation is published twice      *)
(* (sync_items, bump_solver_cache_epoch).                                  *)
THEOREM SyncImplementsData == SyncSpec => RefinesCatalogData
  <1>1. SyncInit => Data!DataInit
    BY DEF SyncInit, Data!DataInit
  <1>2. SyncInit /\ [][SyncNext]_syncVars => []JobsInv
    BY JobsInit, JobsKept, PTL
  <1>3. QED
    BY <1>1, <1>2, StepMaps, PTL DEF SyncSpec, RefinesCatalogData, Data!DataSpec
--------------------------------------------------------------------------------
(* What is cached is the data of its version.                              *)

(* A request in flight: the version it saw first is no newer than its      *)
(* reads, and these are no newer than the database.                        *)
Answer == [phase : {"items", "links", "respond"}, worker : Workers,
           dv : (Nat \X Nat) \cup {NoVersion}, before : (Nat \X Nat) \cup {NoVersion},
           itemsAt : Nat, linksAt : Nat]

ReadsInOrder ==
  /\ writes \in Nat /\ epoch \in Nat
  /\ get \in {Quiet} \cup Answer
  /\ get # Quiet =>
       /\ get.before # NoVersion => get.before[2] <= writes
       /\ get.phase \in {"links", "respond"} =>
            /\ get.itemsAt <= writes
            /\ get.before # NoVersion => get.before[2] <= get.itemsAt
       /\ get.phase = "respond" => get.itemsAt <= get.linksAt /\ get.linksAt <= writes

CacheInv == ReadsInOrder /\ CachedIsCoherent

LEMMA CacheInit == CatalogInit => CacheInv
  BY DEF CatalogInit, SyncInit, CacheInv, ReadsInOrder, CachedIsCoherent, NotCached

(* Commits only ever add to writes; a generation is a number.              *)
LEMMA DataGrows ==
  ASSUME ReadsInOrder, [SyncNext]_syncVars
  PROVE  /\ writes' \in Nat /\ writes <= writes'
         /\ epoch' \in Nat
  <1>1. CASE \E w \in Workers : StartSync(w)
    BY <1>1, StartTouchesNoData DEF ReadsInOrder
  <1>2. CASE \E j \in Syncs : JobStep(j)
    <2>1. PICK j \in Syncs : JobStep(j)
      BY <1>2
    <2>2. CASE ClearTables(j) \/ FillItems(j) \/ FillLinks(j) \/ UpdatePrices(j)
      BY <2>2 DEF ClearTables, FillItems, FillLinks, UpdatePrices, Commit, ReadsInOrder
    <2>3. CASE Publish(j) \/ JobFails(j)
      BY <2>3, SyncBounds DEF Publish, JobFails, dbVars, Syncs, ReadsInOrder
    <2>4. QED  BY <2>1, <2>2, <2>3 DEF JobStep
  <1>3. CASE WorkerOnly
    BY <1>3 DEF WorkerOnly, ReadsInOrder
  <1>4. CASE UNCHANGED syncVars
    BY <1>4 DEF syncVars, dbVars, ReadsInOrder
  <1>5. QED  BY <1>1, <1>2, <1>3, <1>4, OtherSteps DEF SyncNext

(* A request that stays, or is dropped with its worker, while data moves.  *)
LEMMA SyncKeepsCache ==
  ASSUME CacheInv, [SyncNext]_syncVars, get' = get \/ get' = Quiet, cached' = cached
  PROVE  CacheInv'
  <1>1. writes \in Nat /\ writes' \in Nat /\ writes <= writes' /\ epoch' \in Nat
    BY DataGrows DEF CacheInv, ReadsInOrder
  <1>2. CachedIsCoherent'
    BY DEF CacheInv, CachedIsCoherent
  <1>3. CASE get' = Quiet
    BY <1>1, <1>2, <1>3 DEF CacheInv, ReadsInOrder
  <1>4. CASE get' = get /\ get # Quiet
    <2>1. get \in Answer
      BY <1>4 DEF CacheInv, ReadsInOrder
    <2>2. get.before # NoVersion => get.before[2] \in Nat
      BY <2>1 DEF Answer
    <2>3. get.itemsAt \in Nat /\ get.linksAt \in Nat
      BY <2>1 DEF Answer
    <2>4. QED  BY <1>1, <1>2, <1>4, <2>1, <2>2, <2>3 DEF CacheInv, ReadsInOrder
  <1>5. QED  BY <1>3, <1>4

LEMMA RequestKeeps ==
  ASSUME CacheInv, NEW w \in Workers,
         NEW dv \in {NoVersion, <<epoch, writes>>, <<0, 0>>}, Request(w, dv)
  PROVE  CacheInv'
  <1>1. writes' = writes /\ epoch' = epoch /\ writes \in Nat /\ epoch \in Nat
    BY DEF Request, syncVars, dbVars, CacheInv, ReadsInOrder
  <1>2. get' = [phase |-> "items", worker |-> w, dv |-> dv, before |-> DataVersion(w),
                itemsAt |-> 0, linksAt |-> 0]
    BY DEF Request
  <1>3. DataVersion(w) = NoVersion \/ DataVersion(w) = <<epoch, writes>>
    BY DEF DataVersion
  <1>4. get' \in Answer
    BY <1>1, <1>2, <1>3 DEF Answer
  <1>5. /\ get'.phase = "items"
        /\ get'.before # NoVersion => get'.before[2] <= writes
    BY <1>1, <1>2, <1>3
  <1>6. ReadsInOrder'
    BY <1>1, <1>4, <1>5 DEF ReadsInOrder
  <1>7. CachedIsCoherent'
    BY DEF Request, CachedIsCoherent
  <1>8. QED  BY <1>6, <1>7 DEF CacheInv

LEMMA ReadItemsKeeps ==
  ASSUME CacheInv, ReadItems PROVE CacheInv'
  <1>1. get \in Answer /\ get # Quiet
    BY DEF ReadItems, Quiet, CacheInv, ReadsInOrder
  <1>2. writes' = writes /\ epoch' = epoch /\ writes \in Nat /\ epoch \in Nat
    BY DEF ReadItems, syncVars, dbVars, CacheInv, ReadsInOrder
  <1>3. /\ get' \in Answer
        /\ get'.phase = "links" /\ get'.itemsAt = writes /\ get'.before = get.before
    BY <1>1, <1>2 DEF ReadItems, Answer
  <1>4. get.before # NoVersion => get.before[2] <= writes
    BY <1>1 DEF CacheInv, ReadsInOrder
  <1>5. ReadsInOrder'
    BY <1>2, <1>3, <1>4 DEF ReadsInOrder
  <1>6. CachedIsCoherent'
    BY DEF ReadItems, CacheInv, CachedIsCoherent
  <1>7. QED  BY <1>5, <1>6 DEF CacheInv

LEMMA ReadLinksKeeps ==
  ASSUME CacheInv, ReadLinks PROVE CacheInv'
  <1>1. get \in Answer /\ get # Quiet /\ get.phase = "links"
    BY DEF ReadLinks, Quiet, CacheInv, ReadsInOrder
  <1>2. writes' = writes /\ epoch' = epoch /\ writes \in Nat /\ epoch \in Nat
    BY DEF ReadLinks, syncVars, dbVars, CacheInv, ReadsInOrder
  <1>3. /\ get' \in Answer
        /\ get'.phase = "respond" /\ get'.linksAt = writes
        /\ get'.itemsAt = get.itemsAt /\ get'.before = get.before
    BY <1>1, <1>2 DEF ReadLinks, Answer
  <1>4. /\ get.before # NoVersion =>
             get.before[2] <= writes /\ get.before[2] <= get.itemsAt
        /\ get.itemsAt <= writes
    BY <1>1 DEF CacheInv, ReadsInOrder
  <1>5. ReadsInOrder'
    BY <1>2, <1>3, <1>4 DEF ReadsInOrder
  <1>6. CachedIsCoherent'
    BY DEF ReadLinks, CacheInv, CachedIsCoherent
  <1>7. QED  BY <1>5, <1>6 DEF CacheInv

(* The same version before and after leaves no room for a commit between.  *)
LEMMA RespondKeeps ==
  ASSUME CacheInv, Respond PROVE CacheInv'
  <1>1. get \in Answer /\ get # Quiet /\ get.phase = "respond"
    BY DEF Respond, Quiet, CacheInv, ReadsInOrder
  <1>2. writes' = writes /\ epoch' = epoch /\ get' = Quiet
    BY DEF Respond, syncVars, dbVars
  <1>3. ReadsInOrder'
    BY <1>2 DEF CacheInv, ReadsInOrder
  <1>4. CachedIsCoherent'
    <2>1. CASE Cacheable(DataVersion(get.worker))
      <3>1. /\ cached' = Keeps(get.dv, get.itemsAt, get.linksAt)
            /\ get.before # NoVersion /\ get.dv = get.before
            /\ get.before = DataVersion(get.worker)
        BY <2>1 DEF Respond, Cacheable
      <3>2. get.before = <<epoch, writes>>
        BY <3>1 DEF DataVersion
      <3>3. /\ writes <= get.itemsAt
            /\ get.itemsAt <= get.linksAt /\ get.linksAt <= writes
            /\ get.itemsAt \in Nat /\ get.linksAt \in Nat /\ writes \in Nat
        BY <1>1, <3>1, <3>2 DEF CacheInv, ReadsInOrder, Answer
      <3>4. get.itemsAt = writes /\ get.linksAt = writes
        BY <3>3
      <3>5. QED  BY <3>1, <3>2, <3>4 DEF CachedIsCoherent, Keeps
    <2>2. CASE ~Cacheable(DataVersion(get.worker))
      BY <2>2 DEF Respond, CachedIsCoherent
    <2>3. QED  BY <2>1, <2>2
  <1>5. QED  BY <1>3, <1>4 DEF CacheInv

LEMMA CacheKept == CacheInv /\ [CatalogNext]_catalogVars => CacheInv'
  <1> SUFFICES ASSUME CacheInv, [CatalogNext]_catalogVars PROVE CacheInv'
    OBVIOUS
  <1>1. CASE SyncStep
    BY <1>1, SyncKeepsCache DEF SyncStep, SyncNext
  <1>2. CASE \E w \in Workers : CrashWithRequest(w)
    BY <1>2, SyncKeepsCache DEF CrashWithRequest, SyncNext
  <1>3. CASE \E w \in Workers, dv \in {NoVersion, <<epoch, writes>>, <<0, 0>>} :
               Request(w, dv)
    BY <1>3, RequestKeeps
  <1>4. CASE ReadItems \/ ReadLinks \/ Respond
    BY <1>4, ReadItemsKeeps, ReadLinksKeeps, RespondKeeps
  <1>5. CASE RespondError
    BY <1>5, SyncKeepsCache DEF RespondError
  <1>6. CASE UNCHANGED catalogVars
    BY <1>6, SyncKeepsCache DEF catalogVars
  <1>7. QED  BY <1>1, <1>2, <1>3, <1>4, <1>5, <1>6 DEF CatalogNext

(* A cache lifetime is only given to an answer all of whose reads saw the  *)
(* database of the version in its URL (CatalogCacheMiddleware compares the *)
(* version before and after the handler).                                  *)
THEOREM CacheIsCoherent == CatalogSpec => []CachedIsCoherent
  <1>1. CacheInv => CachedIsCoherent
    BY DEF CacheInv
  <1>2. QED  BY <1>1, CacheInit, CacheKept, PTL DEF CatalogSpec

--------------------------------------------------------------------------------
(* The types.  That a sync commits at most four times is a matter of       *)
(* counting, since a sync that failed does not tell how far it came: Made  *)
(* has the commits that a sync may have made, and there were no others.    *)

Before(step) == CASE step = "items"  -> 1
                  [] step = "links"  -> 2
                  [] step = "prices" -> 3
                  [] step \in {"publish", "ok", "failed"} -> 4
                  [] OTHER -> 0

Made == {c \in Syncs \X (1..4) : c[2] <= Before(job[c[1]])}

SyncInv ==
  /\ SyncTypeOK
  /\ writes <= Cardinality(Made)

LEMMA CommitsAreFew ==
  ASSUME NEW T \in SUBSET (Syncs \X (1..4))
  PROVE  IsFiniteSet(T) /\ Cardinality(T) \in Nat /\ Cardinality(T) <= Commits
  <1>1. IsFiniteSet(1..MaxSyncs) /\ Cardinality(1..MaxSyncs) = MaxSyncs
    <2>1. MaxSyncs \in Int /\ 1 \in Int
      BY SyncBounds
    <2>2. QED  BY <2>1, FS_Interval, SyncBounds
  <1>2. IsFiniteSet(1..4) /\ Cardinality(1..4) = 4
    <2>1. 1 \in Int /\ 4 \in Int
      OBVIOUS
    <2>2. IsFiniteSet(1..4) /\ Cardinality(1..4) = IF 1 > 4 THEN 0 ELSE 4 - 1 + 1
      BY <2>1, FS_Interval, Zenon
    <2>3. QED  BY <2>2
  <1>3. /\ IsFiniteSet(Syncs \X (1..4))
        /\ Cardinality(Syncs \X (1..4)) = MaxSyncs * 4
    BY <1>1, <1>2, FS_Product, Zenon DEF Syncs
  <1>4. IsFiniteSet(T) /\ Cardinality(T) <= MaxSyncs * 4
    BY <1>3, FS_Subset
  <1>5. Cardinality(T) \in Nat
    BY <1>4, FS_CardinalityType
  <1>6. QED  BY <1>4, <1>5, SyncBounds DEF Commits

LEMMA MadeFinite ==
  /\ IsFiniteSet(Made) /\ Cardinality(Made) \in Nat
  /\ IsFiniteSet(Made') /\ Cardinality(Made') \in Nat /\ Cardinality(Made') <= Commits
  <1>1. Made \subseteq Syncs \X (1..4) /\ Made' \subseteq Syncs \X (1..4)
    BY DEF Made
  <1>2. QED  BY <1>1, CommitsAreFew

(* A step that leaves its sync no fewer commits behind loses none ...      *)
LEMMA MadeGrows ==
  ASSUME SyncTypeOK, NEW j \in Syncs, NEW next, Then(j, next), Before(job[j]) <= Before(next)
  PROVE  Made \subseteq Made'
  <1>1. \A i \in Syncs : job'[i] = IF i = j THEN next ELSE job[i]
    BY DEF Then, SyncTypeOK
  <1>2. Before(job[j]) \in 0..4 /\ Before(next) \in 0..4
    BY DEF Before
  <1>3. QED  BY <1>1, <1>2 DEF Made

(* ... and one that leaves one more has made it.                           *)
LEMMA MadeOneMore ==
  ASSUME SyncTypeOK, NEW j \in Syncs, NEW next, Then(j, next),
         Before(next) = Before(job[j]) + 1
  PROVE  Cardinality(Made') >= Cardinality(Made) + 1
  <1> DEFINE c == <<j, Before(next)>>
  <1>1. Before(job[j]) \in 0..4 /\ Before(next) \in 0..4
    BY DEF Before
  <1>2. job'[j] = next
    BY DEF Then, SyncTypeOK
  <1>3. c \in Made' /\ c \notin Made
    BY <1>1, <1>2 DEF Made
  <1>4. Made \cup {c} \subseteq Made'
    BY <1>1, <1>3, MadeGrows
  <1>5. IsFiniteSet(Made) /\ Cardinality(Made) \in Nat
    BY MadeFinite
  <1>6. IsFiniteSet(Made') /\ Cardinality(Made') \in Nat
    BY MadeFinite
  <1>7. Cardinality(Made \cup {c}) = Cardinality(Made) + 1
    BY <1>3, <1>5, FS_AddElement
  <1>8. Cardinality(Made \cup {c}) <= Cardinality(Made')
    BY <1>4, <1>6, FS_Subset
  <1>9. IsFiniteSet(Made \cup {c})
    BY <1>5, FS_AddElement
  <1>10. QED  BY <1>5, <1>6, <1>7, <1>8

LEMMA SyncInvInit == SyncInit => SyncInv
  <1> SUFFICES ASSUME SyncInit PROVE SyncInv
    OBVIOUS
  <1>1. SyncTypeOK
    <2>1. /\ 0 \in 0..MaxSyncs /\ 0 \in 0..Empty /\ 0 \in 0..Commits
          /\ 0 \in 0..MaxCrashes
      BY SyncBounds DEF Empty, Commits
    <2>2. QED  BY <2>1, Zenon DEF SyncInit, SyncTypeOK
  <1>2. QED  BY <1>1, MadeFinite DEF SyncInit, SyncInv

(* A commit is the step to the next place.                                 *)
LEMMA CommitCounted ==
  ASSUME SyncInv, NEW j \in Syncs,
         ClearTables(j) \/ FillItems(j) \/ FillLinks(j) \/ UpdatePrices(j)
  PROVE  SyncInv'
  <1> USE DEF SyncInv
  <1>1. PICK next \in Steps :
           /\ Then(j, next) /\ writes' = writes + 1 /\ epoch' = epoch
           /\ Before(next) = Before(job[j]) + 1
    BY DEF ClearTables, FillItems, FillLinks, UpdatePrices, Commit, Before, Steps
  <1>2. writes' <= Cardinality(Made')
    BY <1>1, MadeOneMore, MadeFinite DEF SyncTypeOK, Commits
  <1>3. writes' \in 0..Commits
    BY <1>1, <1>2, MadeFinite, SyncBounds DEF SyncTypeOK, Commits
  <1>4. UNCHANGED <<lockFile, flagFile, mode, trigger, loop, runs, started, crashes>>
    BY DEF ClearTables, FillItems, FillLinks, UpdatePrices, InSync, workerVars
  <1>5. items' \in 0..Empty /\ links' \in 0..Empty
    BY SyncBounds DEF ClearTables, FillItems, FillLinks, UpdatePrices, SyncTypeOK, Empty, Syncs
  <1>6. job' \in [Syncs -> {"none"} \cup Steps \cup Ended]
    BY <1>1 DEF Then, SyncTypeOK
  <1>7. QED  BY <1>1, <1>2, <1>3, <1>4, <1>5, <1>6 DEF SyncTypeOK

(* The end of a sync, as it should be or not.                              *)
LEMMA EndCounted ==
  ASSUME SyncInv, NEW j \in Syncs, Publish(j) \/ JobFails(j)
  PROVE  SyncInv'
  <1> USE DEF SyncInv
  <1>1. PICK next \in Ended :
           Then(j, next) /\ writes' = writes /\ items' = items /\ links' = links
    BY DEF Publish, JobFails, dbVars, Ended
  <1>2. Before(job[j]) <= Before(next)
    BY DEF Before, Ended
  <1>3. Made \subseteq Made'
    BY <1>1, <1>2, MadeGrows
  <1>4. writes' <= Cardinality(Made')
    BY <1>1, <1>3, MadeFinite, FS_Subset DEF SyncTypeOK, Commits
  <1>5. UNCHANGED <<lockFile, flagFile, mode, trigger, loop, runs, started, crashes>>
    BY DEF Publish, JobFails, InSync, workerVars
  <1>6. epoch' \in 0..MaxSyncs
    BY SyncBounds DEF Publish, JobFails, SyncTypeOK, Syncs
  <1>7. job' \in [Syncs -> {"none"} \cup Steps \cup Ended]
    BY <1>1 DEF Then, SyncTypeOK
  <1>8. QED  BY <1>1, <1>4, <1>5, <1>6, <1>7 DEF SyncTypeOK

LEMMA StartCounted ==
  ASSUME SyncInv, JobsInv, NEW w \in Workers, StartSync(w)
  PROVE  SyncInv'
  <1> USE DEF SyncInv
  <1>1. started + 1 \in Syncs /\ job[started + 1] = "none"
    BY SyncBounds DEF JobsInv, StartSync, Syncs
  <1>2. /\ started' = started + 1 /\ Then(started + 1, "clear")
        /\ writes' = writes /\ epoch' = epoch /\ items' = items /\ links' = links
    BY DEF StartSync, dbVars, Then
  <1>3. Made \subseteq Made'
    BY <1>1, <1>2, MadeGrows DEF Before
  <1>4. writes' <= Cardinality(Made')
    BY <1>2, <1>3, MadeFinite, FS_Subset DEF SyncTypeOK, Commits
  <1>5. job' \in [Syncs -> {"none"} \cup Steps \cup Ended]
    BY <1>2 DEF Then, SyncTypeOK, Steps
  <1>6. runs' \in [Workers -> 0..MaxSyncs] /\ started' \in 0..MaxSyncs
    BY <1>1, <1>2, SyncBounds DEF StartSync, SyncTypeOK, Syncs
  <1>7. /\ flagFile' \in BOOLEAN
        /\ loop' \in [Workers -> {"top", "idle", "syncing", "pause", "down"}]
        /\ UNCHANGED <<lockFile, mode, trigger, crashes>>
    BY DEF StartSync, SyncTypeOK
  <1>8. QED  BY <1>2, <1>4, <1>5, <1>6, <1>7 DEF SyncTypeOK

LEMMA WorkerCounted ==
  ASSUME SyncInv, NEW w \in Workers,
         \/ LoopStep(w) /\ ~StartSync(w)
         \/ Crash(w)
         \/ \E enabled \in BOOLEAN : AdminSet(w, enabled)
  PROVE  SyncInv'
  <1>1. UNCHANGED <<job, started, items, links, writes, epoch>>
    BY DEF LoopStep, Idle, SyncReturns, Triggered, IntervalEnds, Restart, Crash, AdminSet,
       dbVars
  <1>2. Made' = Made
    BY <1>1 DEF Made
  <1>3. /\ lockFile' \in BOOLEAN /\ flagFile' \in BOOLEAN
        /\ mode' \in [Workers -> BOOLEAN] /\ trigger' \in [Workers -> BOOLEAN]
    BY DEF LoopStep, Idle, SyncReturns, Triggered, IntervalEnds, Restart, Crash, AdminSet,
       SyncInv, SyncTypeOK
  <1>4. /\ loop' \in [Workers -> {"top", "idle", "syncing", "pause", "down"}]
        /\ runs' \in [Workers -> 0..MaxSyncs]
    BY SyncBounds DEF LoopStep, Idle, SyncReturns, Triggered, IntervalEnds, Restart, Crash,
       AdminSet, SyncInv, SyncTypeOK
  <1>5. crashes' \in 0..MaxCrashes
    BY SyncBounds DEF LoopStep, Idle, SyncReturns, Triggered, IntervalEnds, Restart, Crash,
       AdminSet, SyncInv, SyncTypeOK
  <1>6. QED  BY <1>1, <1>2, <1>3, <1>4, <1>5 DEF SyncInv, SyncTypeOK

LEMMA SyncCounted == SyncInv /\ JobsInv /\ [SyncNext]_syncVars => SyncInv'
  <1> SUFFICES ASSUME SyncInv, JobsInv, [SyncNext]_syncVars PROVE SyncInv'
    OBVIOUS
  <1>1. CASE \E w \in Workers : StartSync(w)
    BY <1>1, StartCounted
  <1>2. CASE \E j \in Syncs : JobStep(j)
    BY <1>2, CommitCounted, EndCounted DEF JobStep
  <1>3. ASSUME NEW w \in Workers,
               \/ LoopStep(w) /\ ~StartSync(w)
               \/ Crash(w)
               \/ \E enabled \in BOOLEAN : AdminSet(w, enabled)
        PROVE  SyncInv'
    BY <1>3, WorkerCounted
  <1>4. CASE UNCHANGED syncVars
    BY <1>4 DEF syncVars, dbVars, workerVars, SyncInv, SyncTypeOK, Made
  <1>5. QED  BY <1>1, <1>2, <1>3, <1>4 DEF SyncNext

--------------------------------------------------------------------------------
(* The same for the requests over the syncs.                               *)

CatalogInv == SyncInv /\ JobsInv /\ CatalogTypeOK

LEMMA CatalogInvInit == CatalogInit => CatalogInv
  <1> SUFFICES ASSUME CatalogInit PROVE CatalogInv
    OBVIOUS
  <1>1. SyncInv /\ JobsInv
    BY SyncInvInit, JobsInit DEF CatalogInit
  <1>2. 0 \in 0..Commits
    BY SyncBounds DEF Commits
  <1>3. QED
    BY <1>1, <1>2 DEF CatalogInit, CatalogInv, CatalogTypeOK, SyncInv, NotCached, Keeps

LEMMA CatalogInvKept == CatalogInv /\ [CatalogNext]_catalogVars => CatalogInv'
  <1> SUFFICES ASSUME CatalogInv, [CatalogNext]_catalogVars PROVE CatalogInv'
    OBVIOUS
  <1> DEFINE Gets == [phase : {"items", "links", "respond"}, worker : Workers,
                      dv : Versions \cup {NoVersion}, before : Versions \cup {NoVersion},
                      itemsAt : 0..Commits, linksAt : 0..Commits]
             Kept == [dv : Versions \cup {NoVersion}, itemsAt : 0..Commits,
                      linksAt : 0..Commits]
  <1>1. [SyncNext]_syncVars
    BY DEF CatalogNext, SyncStep, CrashWithRequest, Request, ReadItems, ReadLinks, Respond,
       RespondError, SyncNext, catalogVars
  <1>2. SyncInv' /\ JobsInv'
    BY <1>1, SyncCounted, JobsKept DEF CatalogInv
  <1>3. get \in {Quiet} \cup Gets /\ cached \in Kept
    BY DEF CatalogInv, CatalogTypeOK
  <1>4. /\ writes \in 0..Commits /\ epoch \in 0..MaxSyncs
        /\ 0 \in 0..Commits /\ 0 \in 0..MaxSyncs
    BY SyncBounds DEF CatalogInv, SyncInv, SyncTypeOK, Commits
  <1>5. NotCached \in Kept
    BY <1>4 DEF NotCached, Keeps
  <1>6. <<epoch, writes>> \in Versions /\ <<0, 0>> \in Versions
    BY <1>4 DEF Versions
  <1>7. get' \in {Quiet} \cup Gets /\ cached' \in Kept
    <2>1. CASE SyncStep \/ RespondError \/ UNCHANGED catalogVars
      BY <2>1, <1>3 DEF SyncStep, RespondError, catalogVars
    <2>2. CASE \E w \in Workers : CrashWithRequest(w)
      BY <2>2, <1>3 DEF CrashWithRequest
    <2>3. ASSUME NEW w \in Workers, NEW dv \in {NoVersion, <<epoch, writes>>, <<0, 0>>},
                 Request(w, dv)
          PROVE  get' \in {Quiet} \cup Gets /\ cached' \in Kept
      <3>1. DataVersion(w) \in Versions \cup {NoVersion}
        BY <1>6 DEF DataVersion
      <3>2. QED  BY <2>3, <3>1, <1>4, <1>5, <1>6 DEF Request
    <2>4. CASE ReadItems \/ ReadLinks
      <3>1. get \in Gets
        BY <2>4, <1>3 DEF ReadItems, ReadLinks, Quiet
      <3>2. QED  BY <2>4, <3>1, <1>3, <1>4 DEF ReadItems, ReadLinks
    <2>5. CASE Respond
      <3>1. get \in Gets
        BY <2>5, <1>3 DEF Respond, Quiet
      <3>2. Keeps(get.dv, get.itemsAt, get.linksAt) \in Kept
        BY <3>1 DEF Keeps
      <3>3. QED  BY <2>5, <3>2, <1>5 DEF Respond
    <2>6. QED  BY <2>1, <2>2, <2>3, <2>4, <2>5 DEF CatalogNext
  <1>8. QED  BY <1>2, <1>7 DEF CatalogInv, CatalogTypeOK, SyncInv

(* The types, with the bound of four commits per sync (sync_items commits  *)
(* the deletes, the items, the links and the prices), by which the         *)
(* versions of CatalogCache are finitely many.                             *)
THEOREM CatalogTypeCorrect == CatalogSpec => []CatalogTypeOK
  <1>1. CatalogInv => CatalogTypeOK
    BY DEF CatalogInv
  <1>2. QED  BY <1>1, CatalogInvInit, CatalogInvKept, PTL DEF CatalogSpec
================================================================================
