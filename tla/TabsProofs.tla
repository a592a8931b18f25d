------------------------------ MODULE TabsProofs -------------------------------
(***************************************************************************)
(* Proofs about Tabs, for every number of tabs, every set of builds,       *)
(* histories of every length and whatever tabs an earlier page left.       *)
(* TabsInv is inductive; PagesProofs states what follows of the client.    *)
(***************************************************************************)
EXTENDS Tabs, DataLemmas

--------------------------------------------------------------------------------
(* Tabs: the records of a row of tabs, whatever their order.               *)
TabSet(ts) == {ts[i] : i \in DOMAIN ts}

(* A row of tabs among those numbered below n.                             *)
RowFits(ts, n) ==
  /\ ts \in Seq(TabRecords) /\ InOrder(ts)
  /\ \A i \in DOMAIN ts : ts[i].id < n

LEMMA TabsOpen ==
  ASSUME NEW ts
  PROVE  Open(ts) = {t.id : t \in TabSet(ts)}
  BY DEF Open, TabSet

LEMMA TabNumbers == Ids \subseteq Nat /\ NoTab \notin Ids /\ MaxTabs \in Nat
  BY TabConstants DEF Ids

(* The place of an open tab, the only one of its id.                       *)
LEMMA TabPlace ==
  ASSUME NEW n, NEW ts, RowFits(ts, n), NEW id \in Open(ts)
  PROVE  /\ TabAt(ts, id) \in DOMAIN ts /\ ts[TabAt(ts, id)].id = id
         /\ Tab(ts, id) = ts[TabAt(ts, id)] /\ Tab(ts, id) \in TabSet(ts) /\ Tab(ts, id).id = id
         /\ \A i \in DOMAIN ts : ts[i].id = id => i = TabAt(ts, id)
         /\ \A t \in TabSet(ts) : t.id = id => t = Tab(ts, id)
         /\ id \in Ids /\ id < n
  <1>1. PICK i \in DOMAIN ts : ts[i].id = id
    BY DEF Open
  <1>2. TabAt(ts, id) \in DOMAIN ts /\ ts[TabAt(ts, id)].id = id
    BY <1>1 DEF TabAt
  <1>3. \A j \in DOMAIN ts : ts[j].id = id => j = TabAt(ts, id)
    BY <1>2 DEF RowFits, InOrder
  <1>4. Tab(ts, id) = ts[TabAt(ts, id)] /\ Tab(ts, id) \in TabSet(ts) /\ Tab(ts, id).id = id
    BY <1>2 DEF Tab, TabSet
  <1>5. \A t \in TabSet(ts) : t.id = id => t = Tab(ts, id)
    BY <1>3, <1>4 DEF TabSet
  <1>6. ts[i].id \in Ids /\ ts[i].id < n
    <2>1. ts[i] \in TabRecords
      BY <1>1, ElementOf DEF RowFits
    <2>2. QED  BY <1>1, <2>1 DEF RowFits, TabRecords
  <1>7. QED  BY <1>1, <1>2, <1>3, <1>4, <1>5, <1>6

(* What a set of records of a strip has.                                   *)
LEMMA TabsAlone ==
  ASSUME NEW n, NEW ts, RowFits(ts, n)
  PROVE  /\ TabSet(ts) \subseteq TabRecords
         /\ \A t, u \in TabSet(ts) : t.id = u.id => t = u
         /\ \A t \in TabSet(ts) : t.id \in Ids /\ t.id < n
  <1>1. \A i \in DOMAIN ts : ts[i] \in TabRecords
    BY ElementOf DEF RowFits
  <1>2. QED  BY <1>1 DEF RowFits, InOrder, TabSet, TabRecords

(* Strips of the same tabs, but for what the tabs hold.                    *)
Kin(ts, us) ==
  /\ us \in Seq(TabRecords) /\ Len(us) = Len(ts)
  /\ \A i \in DOMAIN ts : us[i].id = ts[i].id /\ us[i].pinned = ts[i].pinned

LEMMA KinFit ==
  ASSUME NEW n, NEW ts, RowFits(ts, n), NEW us, Kin(ts, us)
  PROVE  RowFits(us, n) /\ Open(us) = Open(ts) /\ DOMAIN us = DOMAIN ts
  <1>1. DOMAIN us = DOMAIN ts
    BY DEF Kin, RowFits
  <1>2. QED  BY <1>1 DEF Kin, RowFits, InOrder, Open

(* What a tab holds is changed.                                            *)
Rewritten(T, id, content, community) ==
  {IF t.id = id THEN [t EXCEPT !.content = content, !.community = community] ELSE t : t \in T}

LEMMA TabRewritten ==
  ASSUME NEW n, NEW ts, RowFits(ts, n), NEW id \in Open(ts),
         NEW content \in Contents, NEW community \in Communities
  PROVE  LET us == [ts EXCEPT ![TabAt(ts, id)].content = content,
                              ![TabAt(ts, id)].community = community] IN
         Kin(ts, us) /\ TabSet(us) = Rewritten(TabSet(ts), id, content, community)
  <1> DEFINE k == TabAt(ts, id)
             new == [ts[k] EXCEPT !.content = content, !.community = community]
             us == [ts EXCEPT ![k].content = content, ![k].community = community]
  <1>1. k \in DOMAIN ts /\ ts[k].id = id /\ \A i \in DOMAIN ts : ts[i].id = id => i = k
    BY TabPlace
  <1>2. ts \in Seq(TabRecords) /\ ts[k] \in TabRecords
    BY <1>1, ElementOf DEF RowFits
  <1>3. new \in TabRecords /\ new.id = id /\ new.pinned = ts[k].pinned
    BY <1>1, <1>2 DEF TabRecords
  <1> HIDE DEF k
  <1>4. us = [ts EXCEPT ![k] = new]
    BY <1>1, <1>2, <1>3 DEF TabRecords
  <1> HIDE DEF new, us
  <1>5. DOMAIN us = DOMAIN ts /\ \A i \in DOMAIN ts : us[i] = IF i = k THEN new ELSE ts[i]
    BY <1>4, <1>1, <1>2
  <1>6. us \in Seq(TabRecords) /\ Len(us) = Len(ts)
    BY <1>4, <1>1, <1>2, <1>3
  <1>7. Kin(ts, us)
    BY <1>1, <1>3, <1>5, <1>6 DEF Kin
  <1>8. TabSet(us) = Rewritten(TabSet(ts), id, content, community)
    <2> DEFINE g(t) == IF t.id = id THEN [t EXCEPT !.content = content, !.community = community] ELSE t
    <2>1. \A i \in DOMAIN ts : us[i] = g(ts[i])
      BY <1>1, <1>3, <1>5 DEF new
    <2>2. Rewritten(TabSet(ts), id, content, community) = {g(t) : t \in TabSet(ts)}
      BY DEF Rewritten
    <2> HIDE DEF g
    <2>3. {g(t) : t \in TabSet(ts)} = {g(ts[i]) : i \in DOMAIN ts}
      BY DEF TabSet
    <2>4. {g(ts[i]) : i \in DOMAIN ts} = TabSet(us)
      BY <2>1, <1>5 DEF TabSet
    <2>5. QED  BY <2>2, <2>3, <2>4
  <1>9. QED  BY <1>7, <1>8 DEF us, k

LEMMA TabContentRewritten ==
  ASSUME NEW n, NEW ts, RowFits(ts, n), NEW id \in Open(ts), NEW content \in Contents
  PROVE  LET us == [ts EXCEPT ![TabAt(ts, id)].content = content] IN
         /\ Kin(ts, us)
         /\ TabSet(us) = Rewritten(TabSet(ts), id, content, Tab(ts, id).community)
  <1> DEFINE k == TabAt(ts, id)
             c == Tab(ts, id).community
             us == [ts EXCEPT ![k].content = content]
             vs == [ts EXCEPT ![k].content = content, ![k].community = c]
  <1>1. k \in DOMAIN ts /\ Tab(ts, id) = ts[k]
    BY TabPlace
  <1>2. ts \in Seq(TabRecords) /\ ts[k] \in TabRecords
    BY <1>1, ElementOf DEF RowFits
  <1>2a. c \in Communities
    BY <1>1, <1>2 DEF TabRecords
  <1>3. Kin(ts, vs) /\ TabSet(vs) = Rewritten(TabSet(ts), id, content, c)
    BY <1>2a, TabRewritten
  <1>4. us = vs
    <2>1. [ts[k] EXCEPT !.content = content, !.community = c] = [ts[k] EXCEPT !.content = content]
      BY <1>1, <1>2 DEF TabRecords
    <2>2. us = [ts EXCEPT ![k] = [ts[k] EXCEPT !.content = content]]
      OBVIOUS
    <2>3. vs = [ts EXCEPT ![k] = [ts[k] EXCEPT !.content = content, !.community = c]]
      BY <1>1, <1>2 DEF TabRecords
    <2>4. QED  BY <2>1, <2>2, <2>3
  <1>5. QED  BY <1>3, <1>4

(* What a tab holds is written again.                                      *)
LEMMA TabKept ==
  ASSUME NEW n, NEW ts, RowFits(ts, n), NEW id \in Open(ts)
  PROVE  /\ [ts EXCEPT ![TabAt(ts, id)].content = Tab(ts, id).content] = ts
         /\ [ts EXCEPT ![TabAt(ts, id)].content = Tab(ts, id).content,
                       ![TabAt(ts, id)].community = Tab(ts, id).community] = ts
  <1> DEFINE k == TabAt(ts, id)
  <1>1. k \in DOMAIN ts /\ Tab(ts, id) = ts[k]
    BY TabPlace
  <1>2. ts \in Seq(TabRecords) /\ ts[k] \in TabRecords
    BY <1>1, ElementOf DEF RowFits
  <1> DEFINE t == ts[k]
  <1>3. [t EXCEPT !.content = t.content] = t
        /\ [t EXCEPT !.content = t.content, !.community = t.community] = t
    BY <1>2 DEF TabRecords
  <1>4. [ts EXCEPT ![k] = t] = ts
    BY <1>1, <1>2
  <1> HIDE DEF k
  <1>5. [ts EXCEPT ![k].content = t.content] = [ts EXCEPT ![k] = [t EXCEPT !.content = t.content]]
    OBVIOUS
  <1>6. [ts EXCEPT ![k].content = t.content, ![k].community = t.community]
          = [ts EXCEPT ![k] = [t EXCEPT !.content = t.content, !.community = t.community]]
    BY <1>1, <1>2, <1>3 DEF TabRecords
  <1>7. QED  BY <1>1, <1>3, <1>4, <1>5, <1>6 DEF k

(* A tab is taken out of the row.                                          *)
LEMMA TabTakenOut ==
  ASSUME NEW n, NEW ts, RowFits(ts, n), NEW id \in Open(ts)
  PROVE  LET us == Without(ts, id)  p == TabAt(ts, id) IN
         /\ us \in Seq(TabRecords) /\ Len(us) = Len(ts) - 1
         /\ \A i \in 1 .. Len(ts) - 1 : us[i] = IF i < p THEN ts[i] ELSE ts[i + 1]
  <1> DEFINE p == TabAt(ts, id)  us == RemoveAt(ts, p)
  <1>1. p \in DOMAIN ts /\ Without(ts, id) = us /\ ts \in Seq(TabRecords)
    BY TabPlace DEF Without, RowFits
  <1>2. /\ us \in Seq(TabRecords) /\ Len(us) = Len(ts) - 1 /\ DOMAIN us = 1 .. Len(ts) - 1
        /\ \A i \in DOMAIN us : us[i] = IF i < p THEN ts[i] ELSE ts[i + 1]
    BY <1>1, RemoveAtRest
  <1> HIDE DEF us
  <1>3. QED  BY <1>1, <1>2

LEMMA TabsWithout ==
  ASSUME NEW n, NEW ts, RowFits(ts, n), NEW id
  PROVE  /\ RowFits(Without(ts, id), n) /\ Open(Without(ts, id)) = Open(ts) \ {id}
         /\ TabSet(Without(ts, id)) = {t \in TabSet(ts) : t.id # id}
  <1> DEFINE us == Without(ts, id)
  <1>1. CASE id \notin Open(ts)
    <2>1. us = ts
      BY <1>1 DEF Without
    <2>2. {t \in TabSet(ts) : t.id # id} = TabSet(ts)
      BY <1>1, TabsOpen
    <2>3. QED  BY <1>1, <2>1, <2>2
  <1>2. CASE id \in Open(ts)
    <2> DEFINE p == TabAt(ts, id)
    <2>1. /\ us \in Seq(TabRecords) /\ Len(us) = Len(ts) - 1
          /\ \A i \in 1 .. Len(ts) - 1 : us[i] = IF i < p THEN ts[i] ELSE ts[i + 1]
      BY <1>2, TabTakenOut
    <2>2. p \in DOMAIN ts /\ ts[p].id = id /\ \A i \in DOMAIN ts : ts[i].id = id => i = p
      BY <1>2, TabPlace
    <2>3. /\ ts \in Seq(TabRecords) /\ DOMAIN ts = 1 .. Len(ts) /\ Len(ts) \in Nat
          /\ DOMAIN us = 1 .. Len(ts) - 1
      BY <2>1 DEF RowFits
    <2> HIDE DEF p, us
    <2> DEFINE from == [i \in DOMAIN us |-> IF i < p THEN i ELSE i + 1]
    <2>4. \A i \in DOMAIN us : from[i] \in DOMAIN ts /\ from[i] # p /\ us[i] = ts[from[i]]
      BY <2>1, <2>2, <2>3
    <2>5. \A i, j \in DOMAIN us : (i < j => from[i] < from[j]) /\ (from[i] = from[j] => i = j)
      BY <2>2, <2>3
    <2>6. \A k \in DOMAIN ts : k # p => \E i \in DOMAIN us : from[i] = k
      <3> SUFFICES ASSUME NEW k \in DOMAIN ts, k # p
                   PROVE  \E i \in DOMAIN us : from[i] = k
        OBVIOUS
      <3>1. CASE k < p
        <4>1. k \in DOMAIN us /\ from[k] = k
          BY <2>2, <2>3, <3>1
        <4>2. QED  BY <4>1
      <3>2. CASE ~(k < p)
        <4>1. k - 1 \in DOMAIN us /\ from[k - 1] = k
          BY <2>2, <2>3, <3>2
        <4>2. QED  BY <4>1
      <3>3. QED  BY <3>1, <3>2
    <2> HIDE DEF from
    <2>7. RowFits(us, n)
      <3>1. \A i, j \in DOMAIN us : us[i].id = us[j].id => i = j
        BY <2>4, <2>5 DEF RowFits, InOrder
      <3>2. \A i, j \in DOMAIN us : i < j /\ us[j].pinned => us[i].pinned
        BY <2>4, <2>5 DEF RowFits, InOrder
      <3>3. QED  BY <2>1, <2>4, <3>1, <3>2 DEF RowFits, InOrder
    <2>8. TabSet(us) = {t \in TabSet(ts) : t.id # id}
      BY <2>2, <2>4, <2>6 DEF TabSet
    <2>9. Open(us) = Open(ts) \ {id}
      BY <2>8, TabsOpen
    <2>10. QED  BY <2>7, <2>8, <2>9 DEF us
  <1>3. QED  BY <1>1, <1>2

(* A new tab at the end.                                                   *)
LEMMA TabAppended ==
  ASSUME NEW n \in Nat, NEW ts, RowFits(ts, n), NEW t \in TabRecords, t.id = n, ~t.pinned
  PROVE  /\ RowFits(Append(ts, t), n + 1) /\ TabSet(Append(ts, t)) = TabSet(ts) \cup {t}
         /\ Open(Append(ts, t)) = Open(ts) \cup {n}
         /\ \A i \in DOMAIN ts : i \in DOMAIN Append(ts, t) /\ Append(ts, t)[i] = ts[i]
  <1> DEFINE us == Append(ts, t)
  <1>1. /\ us \in Seq(TabRecords) /\ Len(us) = Len(ts) + 1
        /\ (\A i \in DOMAIN ts : us[i] = ts[i]) /\ us[Len(ts) + 1] = t
    BY AppendLast DEF RowFits
  <1>2. /\ DOMAIN us = DOMAIN ts \cup {Len(ts) + 1} /\ DOMAIN ts = 1 .. Len(ts) /\ Len(ts) \in Nat
        /\ \A i \in DOMAIN ts : ts[i].id \in Nat /\ ts[i].id < n
    <2>1. \A i \in DOMAIN ts : ts[i] \in TabSet(ts)
      BY DEF TabSet
    <2>2. \A i \in DOMAIN ts : ts[i].id \in Nat /\ ts[i].id < n
      BY <2>1, TabsAlone, TabNumbers
    <2>3. QED  BY <1>1, <2>2 DEF RowFits
  <1> HIDE DEF us
  <1>3. \A i, j \in DOMAIN us : us[i].id = us[j].id => i = j
    BY <1>1, <1>2 DEF RowFits, InOrder
  <1>4. \A i, j \in DOMAIN us : i < j /\ us[j].pinned => us[i].pinned
    BY <1>1, <1>2 DEF RowFits, InOrder
  <1>5. RowFits(us, n + 1)
    BY <1>1, <1>2, <1>3, <1>4 DEF RowFits, InOrder
  <1>6. TabSet(us) = TabSet(ts) \cup {t}
    BY <1>1, <1>2 DEF TabSet
  <1>7. QED  BY <1>1, <1>2, <1>5, <1>6, TabsOpen DEF us

(* The pinned tabs are the first ones.                                     *)
LEMMA PinnedLead ==
  ASSUME NEW n, NEW ts, RowFits(ts, n)
  PROVE  /\ PinnedCount(ts) \in 0 .. Len(ts)
         /\ \A i \in DOMAIN ts : ts[i].pinned <=> i <= PinnedCount(ts)
  <1> DEFINE others == {i \in DOMAIN ts : ~ts[i].pinned}
  <1>1. DOMAIN ts = 1 .. Len(ts) /\ Len(ts) \in Nat
    BY DEF RowFits
  <1>2. \E c \in 0 .. Len(ts) : \A i \in DOMAIN ts : ts[i].pinned <=> i <= c
    <2>1. CASE others = {}
      BY <2>1, <1>1
    <2>2. CASE others # {}
      <3>0. others \subseteq Nat
        BY <1>1
      <3> HIDE DEF others
      <3>1. PICK i \in others : \A j \in others : i <= j
        BY <2>2, <3>0, LeastNumber
      <3> USE DEF others
      <3>2. \A j \in DOMAIN ts : ts[j].pinned <=> j <= i - 1
        BY <3>1, <1>1 DEF RowFits, InOrder
      <3>3. i - 1 \in 0 .. Len(ts)
        BY <3>1, <1>1
      <3>4. QED  BY <3>2, <3>3
    <2>3. QED  BY <2>1, <2>2
  <1>3. PICK c \in 0 .. Len(ts) : \A i \in DOMAIN ts : ts[i].pinned <=> i <= c
    BY <1>2
  <1>4. {i \in DOMAIN ts : \A j \in 1 .. i : ts[j].pinned} = 1 .. c
    BY <1>1, <1>3
  <1>5. Cardinality(1 .. c) = c
    BY <1>1, FS_Interval
  <1>6. PinnedCount(ts) = c
    BY <1>4, <1>5 DEF PinnedCount
  <1>7. QED  BY <1>3, <1>6

(* A tab among the others, on its side of where the pinned tabs end.       *)
LEMMA TabInserted ==
  ASSUME NEW n \in Nat, NEW ts, RowFits(ts, n), NEW t \in TabRecords, t.id \notin Open(ts),
         NEW m \in Nat, n <= m, t.id < m, NEW at \in 0 .. Len(ts),
         IF t.pinned THEN at <= PinnedCount(ts) ELSE PinnedCount(ts) <= at
  PROVE  /\ RowFits(Inserted(ts, at, t), m)
         /\ TabSet(Inserted(ts, at, t)) = TabSet(ts) \cup {t}
         /\ Open(Inserted(ts, at, t)) = Open(ts) \cup {t.id}
  <1> DEFINE us == InsertAt(ts, at + 1, t)
             c == PinnedCount(ts)
             l == Len(ts)
             back == [j \in DOMAIN ts |-> IF j <= at THEN j ELSE j + 1]
  <1>1. /\ DOMAIN ts = 1 .. l /\ l \in Nat /\ at \in Nat /\ at <= l
        /\ \A i \in DOMAIN ts : ts[i].id \in Nat /\ ts[i].id < n /\ ts[i].id # t.id
    <2>1. \A i \in DOMAIN ts : ts[i] \in TabSet(ts)
      BY DEF TabSet
    <2>2. \A i \in DOMAIN ts : ts[i].id \in Nat /\ ts[i].id < n
      BY <2>1, TabsAlone, TabNumbers
    <2>3. QED  BY <2>2 DEF RowFits, Open
  <1>2. c \in 0 .. l /\ \A i \in DOMAIN ts : ts[i].pinned <=> i <= c
    BY PinnedLead
  <1> HIDE DEF c
  <1>3. /\ us \in Seq(TabRecords) /\ Len(us) = l + 1
        /\ \A j \in 1 .. (l + 1) : us[j] = IF j < at + 1 THEN ts[j] ELSE IF j = at + 1 THEN t ELSE ts[j - 1]
    <2>1. at + 1 \in 1 .. (Len(ts) + 1)
      BY <1>1
    <2>2. QED  BY <2>1, ElementPut DEF RowFits
  <1>4. DOMAIN us = 1 .. (l + 1)
    BY <1>1, <1>3
  <1> HIDE DEF us, l
  <1>5. us[at + 1] = t /\ at + 1 \in DOMAIN us
    BY <1>1, <1>3, <1>4
  <1>6. \A j \in DOMAIN ts : back[j] \in DOMAIN us /\ us[back[j]] = ts[j] /\ back[j] # at + 1
    BY <1>1, <1>3, <1>4
  <1>7. \A i \in DOMAIN us : i # at + 1 => \E j \in DOMAIN ts : back[j] = i
    <2> SUFFICES ASSUME NEW i \in DOMAIN us, i # at + 1 PROVE \E j \in DOMAIN ts : back[j] = i
      OBVIOUS
    <2>1. CASE i <= at
      <3>1. i \in DOMAIN ts /\ back[i] = i
        BY <2>1, <1>1, <1>4
      <3>2. QED  BY <3>1
    <2>2. CASE ~(i <= at)
      <3>1. i - 1 \in DOMAIN ts /\ back[i - 1] = i
        BY <2>2, <1>1, <1>4
      <3>2. QED  BY <3>1
    <2>3. QED  BY <2>1, <2>2
  <1>8. \A j, k \in DOMAIN ts : back[j] < back[k] => j < k
    BY <1>1
  <1>9. \A j \in DOMAIN ts : (back[j] < at + 1 <=> j <= at) /\ (at + 1 < back[j] <=> ~(j <= at))
    BY <1>1
  <1> HIDE DEF back
  <1>10. \A i, j \in DOMAIN us : us[i].id = us[j].id => i = j
    BY <1>1, <1>5, <1>6, <1>7 DEF RowFits, InOrder
  <1>11. \A i, j \in DOMAIN us : i < j /\ us[j].pinned => us[i].pinned
    <2> SUFFICES ASSUME NEW i \in DOMAIN us, NEW j \in DOMAIN us, i < j, us[j].pinned
                 PROVE  us[i].pinned
      OBVIOUS
    <2>1. CASE i = at + 1
      <3>1. PICK k \in DOMAIN ts : back[k] = j
        BY <2>1, <1>7, <1>4, <1>1
      <3>2. ~(k <= at) /\ ts[k].pinned
        BY <2>1, <3>1, <1>6, <1>9
      <3>3. k <= c
        BY <3>2, <1>2
      <3>4. t.pinned
        BY <3>2, <3>3, <1>1, <1>2 DEF c
      <3>5. QED  BY <3>4, <2>1, <1>5
    <2>2. CASE j = at + 1
      <3>1. PICK k \in DOMAIN ts : back[k] = i
        BY <2>2, <1>7, <1>4, <1>1
      <3>2. k <= at /\ t.pinned
        BY <2>2, <3>1, <1>5, <1>9
      <3>3. k <= c
        BY <3>2, <1>1, <1>2 DEF c
      <3>4. QED  BY <3>1, <3>3, <1>2, <1>6
    <2>3. CASE i # at + 1 /\ j # at + 1
      <3>1. PICK k \in DOMAIN ts : back[k] = i
        BY <2>3, <1>7
      <3>2. PICK e \in DOMAIN ts : back[e] = j
        BY <2>3, <1>7
      <3>3. k < e /\ ts[e].pinned
        BY <3>1, <3>2, <1>6, <1>8
      <3>4. QED  BY <3>1, <3>3, <1>6 DEF RowFits, InOrder
    <2>4. QED  BY <2>1, <2>2, <2>3
  <1>12. \A i \in DOMAIN us : us[i].id < m
    <2> SUFFICES ASSUME NEW i \in DOMAIN us PROVE us[i].id < m
      OBVIOUS
    <2>1. CASE i = at + 1
      BY <2>1, <1>5
    <2>2. CASE i # at + 1
      <3>1. PICK k \in DOMAIN ts : back[k] = i
        BY <2>2, <1>7
      <3>2. QED  BY <3>1, <1>1, <1>6
    <2>3. QED  BY <2>1, <2>2
  <1>13. RowFits(us, m)
    BY <1>3, <1>10, <1>11, <1>12 DEF RowFits, InOrder
  <1>14. TabSet(us) = TabSet(ts) \cup {t}
    BY <1>5, <1>6, <1>7 DEF TabSet
  <1>15. us = Inserted(ts, at, t)
    BY DEF us, Inserted
  <1>16. QED  BY <1>13, <1>14, <1>15, TabsOpen

--------------------------------------------------------------------------------
(* Tabs: the inductive invariant.                                          *)

LiveBuilds == [on : BOOLEAN, build : Contents, community : Communities,
               history : Seq(Contents)]
Benches == [on : BOOLEAN, tab : Ids \cup {NoTab}, loadout : Contents]
TabFlows == [kind : {"none", "pick", "activate", "payload"}, tab : Ids \cup {NoTab},
             stage : {"none", "preparing", "init", "ammo", "parts", "draw", "stats"},
             build : Contents, community : Communities]
SeenTabs == [content : Contents, community : Communities, history : Seq(Contents)]

LiveFits ==
  /\ live \in LiveBuilds /\ bench \in Benches /\ flow \in TabFlows
  /\ DOMAIN tabHistory = Ids /\ tabHistory = [id \in Ids |-> tabHistory[id]]
  /\ \A id \in Ids : tabHistory[id] \in Seq(Contents)

TabTypes ==
  /\ nextId \in 1 .. MaxTabs + 1 /\ RowFits(tabs, nextId) /\ RowFits(stored, nextId)
  /\ active \in (1 .. nextId - 1) \cup {NoTab}
  /\ LiveFits
  /\ \A id \in Ids : id >= nextId => tabHistory[id] = <<>>
  /\ mine = [id \in Ids |-> mine[id]] /\ \A id \in Ids : mine[id] \in SeenTabs

(* Where a load stands: once its tab is active the live build is its, and  *)
(* it has no attribution before the load ends; when it was left, none is.  *)
FlowFits(act, lv, fl) ==
  /\ fl.kind = "none" <=> fl.stage = "none"
  /\ fl.stage = "preparing" => ~lv.on /\ fl.kind = "pick"
  /\ fl.kind = "pick" =>
       /\ fl.stage \in {"preparing", "init", "ammo"} /\ fl.community = NoTab
       /\ fl.stage # "preparing" => fl.build = Factory
  /\ fl.stage \notin {"none", "preparing"} =>
       IF lv.on THEN act = fl.tab /\ act # NoTab /\ lv.community = NoTab ELSE act = NoTab

(* The active tab's record is what is live, unless its load is under way.  *)
ActiveFits(T, act, lv, bn, fl) ==
  /\ \A t \in T : t.id = act =>
       IF IsBench(t)
       THEN ~lv.on /\ bn.on /\ bn.loadout = t.content /\ fl.kind = "none"
       ELSE /\ lv.on
            /\ fl.kind = "none" => t.content = lv.build /\ t.community = lv.community
            /\ fl.kind = "pick" => t.community = NoTab
  /\ bn.on => ~lv.on /\ bn.tab = act /\ \E t \in T : t.id = act /\ IsBench(t)

(* What is expected of a tab, wherever what it holds is at the moment.     *)
ShownAs(id, m, ed, content, community, history) ==
  /\ content = m.content
  /\ id \in ed \/ (community = m.community /\ history = m.history)

LoadShows(id, m, ed, past, lv, fl) ==
  /\ IF fl.stage = "stats" THEN lv.build = m.content ELSE fl.build = m.content
  /\ fl.stage = "draw" \/ (fl.stage = "ammo" /\ fl.kind = "pick") => lv.build = fl.build
  /\ \/ id \in ed
     \/ /\ fl.build = m.content /\ fl.community = m.community /\ lv.history = <<>>
        /\ m.history = IF fl.kind = "activate" THEN past ELSE <<>>

TabShows(t, past, act, lv, fl, m, ed) ==
  IF IsBench(t) THEN t.content = m.content
  ELSE /\ m.community \in {NoTab, m.content}
       /\ IF t.id # act THEN ShownAs(t.id, m, ed, t.content, t.community, past)
          ELSE IF fl.kind = "none"
          THEN ShownAs(t.id, m, ed, lv.build, lv.community, lv.history)
          ELSE LoadShows(t.id, m, ed, past, lv, fl)

TabsShown(T, past, act, lv, fl, ms, dm, ed) ==
  \A t \in T : t.id \notin dm => TabShows(t, past[t.id], act, lv, fl, ms[t.id], ed)

(* What a reload would bring, unless a tab is being opened.                *)
StoredFits ==
  (active = NoTab \/ (active \in Open(tabs) /\ ~InFlight)) /\ ~unsaved => stored = tabs

(* A drag's group lies side by side, or one of it was closed for good.     *)
Window(ts, g) ==
  \E s \in 0 .. Len(ts) : \A k \in DOMAIN g :
    s + k \in DOMAIN ts /\ ts[s + k].id = g[k] /\ ts[s + k].pinned = ts[s + 1].pinned

DragHolds(ts, n, dg) ==
  dg # NoDrag =>
    /\ dg.group \in Seq(1 .. n - 1)
    /\ \A i, j \in DOMAIN dg.group : dg.group[i] = dg.group[j] => i = j
    /\ \E i \in DOMAIN dg.group : dg.group[i] = dg.tab
    /\ Window(ts, dg.group) \/ \E k \in DOMAIN dg.group : dg.group[k] \notin Open(ts)

TabsLive ==
  FlowFits(active, live, flow) /\ ActiveFits(TabSet(tabs), active, live, bench, flow)
TabsExpected ==
  TabsShown(TabSet(tabs), tabHistory, active, live, flow, mine, damaged, edited)

TabsInv ==
  /\ TabTypes /\ TabsLive /\ TabsExpected /\ StoredFits
  /\ DragHolds(tabs, nextId, drag)

(* Writing a tab back while no load is under way changes nothing.          *)
LEMMA QuietFlush ==
  ASSUME NEW n, NEW ts, RowFits(ts, n), LiveFits,
         active \in Open(ts) => ~InFlight /\ ActiveFits(TabSet(ts), active, live, bench, flow)
  PROVE  Flushed(ts) = ts
  <1>1. CASE active \notin Open(ts)
    BY <1>1 DEF Flushed
  <1>2. CASE active \in Open(ts)
    <2> DEFINE t == Tab(ts, active)
    <2>1. t \in TabSet(ts) /\ t.id = active /\ flow.kind = "none"
      BY <1>2, TabPlace DEF InFlight
    <2>2. /\ [ts EXCEPT ![TabAt(ts, active)].content = t.content] = ts
      BY <1>2, TabKept
    <2>3. IF IsBench(t) THEN bench.loadout = t.content ELSE live.build = t.content
      BY <1>2, <2>1 DEF ActiveFits
    <2> HIDE DEF t
    <2>4. QED  BY <1>2, <2>2, <2>3 DEF Flushed, t
  <1>3. QED  BY <1>1, <1>2

(* What a load begins with. *)
LEMMA TabConsts ==
  /\ Selecting \in LiveBuilds /\ Closed \in LiveBuilds /\ NoFlow \in TabFlows
  /\ Selecting.on /\ ~Closed.on /\ Selecting.community = NoTab /\ Selecting.history = <<>>
  /\ NoFlow.kind = "none" /\ NoFlow.stage = "none"
  <1>1. Bare \in Contents /\ NoTab \in Communities /\ <<>> \in Seq(Contents)
    BY TabConstants DEF Contents, Communities
  <1>2. QED  BY <1>1 DEF Selecting, Closed, NoFlow, LiveBuilds, TabFlows

(* _activateTab: the tab left keeps what is live in it, and the other one  *)
(* is shown or loaded.                                                     *)
LEMMA TabActivated ==
  ASSUME NEW n, NEW ts, RowFits(ts, n), NEW id \in Open(ts), NEW kept, Activate(ts, id, kept),
         LiveFits, FlowFits(active, live, flow),
         active \in Open(ts) => ~InFlight /\ ActiveFits(TabSet(ts), active, live, bench, flow)
  PROVE  /\ tabs' = ts /\ active' = id /\ LiveFits' /\ id \in Ids /\ id < n
         /\ \A j \in Ids : j \notin Open(ts) => tabHistory'[j] = tabHistory[j]
         /\ FlowFits(active', live', flow')
         /\ ActiveFits(TabSet(ts), active', live', bench', flow')
         /\ stored' \in {kept, ts}
         /\ ~InFlight' => stored' = ts \/ (active = id /\ stored' = kept)
         /\ \A ms, dm, ed : TabsShown(TabSet(ts), tabHistory, active, live, flow, ms, dm, ed)
              => TabsShown(TabSet(ts), tabHistory', active', live', flow', ms, dm, ed)
  <1> DEFINE target == Tab(ts, id)
  <1>1. /\ target \in TabSet(ts) /\ target.id = id /\ target \in TabRecords
        /\ id \in Ids /\ id < n /\ \A t \in TabSet(ts) : t.id = id => t = target
    BY TabPlace, TabsAlone
  <1>2. Flushed(ts) = ts
    BY QuietFlush
  <1>3. \A t \in TabSet(ts) : t.id \in Ids
    BY TabsAlone
  <1>4. NoTab \notin Ids
    BY TabNumbers
  <1> DEFINE past == HistoryFlushed(ts)
  <1>5. /\ past = [j \in Ids |-> past[j]] /\ \A j \in Ids : past[j] \in Seq(Contents)
        /\ \A j \in Ids : j # active \/ j \notin Open(ts) => past[j] = tabHistory[j]
        /\ active \in Open(ts) /\ ~IsBench(Tab(ts, active)) /\ live.on => past[active] = live.history
    <2>1. live.history \in Seq(Contents)
      BY DEF LiveFits, LiveBuilds
    <2>2. active \in Open(ts) => active \in Ids
      BY <1>3, TabsOpen
    <2>3. QED  BY <2>1, <2>2 DEF HistoryFlushed, LiveFits
  <1> HIDE DEF target, past
  <1>6. CASE id = active
    <2>1. /\ tabs' = ts /\ flow' = NoFlow /\ stored' = kept
          /\ tabHistory' = tabHistory /\ active' = active /\ live' = live /\ bench' = bench
      BY <1>6 DEF Activate
    <2>2. flow.kind = "none" /\ flow.stage = "none"
      BY <1>6 DEF InFlight, FlowFits
    <2>3. LiveFits'
      BY <2>1, TabConsts DEF LiveFits
    <2>4. FlowFits(active', live', flow')
      BY <2>1, TabConsts DEF FlowFits
    <2>5. ActiveFits(TabSet(ts), active', live', bench', flow')
      BY <1>6, <2>1, <2>2, TabConsts DEF ActiveFits
    <2>6. ASSUME NEW ms, NEW dm, NEW ed, TabsShown(TabSet(ts), tabHistory, active, live, flow, ms, dm, ed)
          PROVE  TabsShown(TabSet(ts), tabHistory', active', live', flow', ms, dm, ed)
      BY <2>1, <2>2, <2>6, TabConsts DEF TabsShown, TabShows
    <2>7. QED  BY <1>1, <1>6, <2>1, <2>3, <2>4, <2>5, <2>6
  <1>7. CASE id # active /\ IsBench(target)
    <2>1. /\ tabs' = ts /\ tabHistory' = past /\ active' = id /\ live' = Closed
          /\ flow' = NoFlow /\ bench' = [on |-> TRUE, tab |-> id, loadout |-> target.content]
          /\ stored' = ts
      BY <1>7, <1>2 DEF Activate, Persist, target, past
    <2>2. LiveFits'
      <3>1. bench' \in Benches
        BY <2>1, <1>1 DEF Benches, TabRecords
      <3>2. QED  BY <2>1, <3>1, <1>5, TabConsts DEF LiveFits
    <2>3. FlowFits(active', live', flow')
      BY <2>1, TabConsts DEF FlowFits
    <2>4. ActiveFits(TabSet(ts), active', live', bench', flow')
      BY <2>1, <1>1, <1>7, TabConsts DEF ActiveFits
    <2>5. ASSUME NEW ms, NEW dm, NEW ed, TabsShown(TabSet(ts), tabHistory, active, live, flow, ms, dm, ed),
                 NEW t \in TabSet(ts), t.id \notin dm
          PROVE  TabShows(t, tabHistory'[t.id], active', live', flow', ms[t.id], ed)
      <3>1. TabShows(t, tabHistory[t.id], active, live, flow, ms[t.id], ed)
        BY <2>5 DEF TabsShown
      <3>2. CASE IsBench(t)
        BY <3>1, <3>2 DEF TabShows
      <3>3. CASE ~IsBench(t) /\ t.id = id
        BY <3>3, <1>1, <1>7
      <3>4. CASE ~IsBench(t) /\ t.id # id /\ t.id = active
        <4>1. /\ flow.kind = "none" /\ live.on /\ t.content = live.build /\ t.community = live.community
              /\ active \in Open(ts) /\ t = Tab(ts, active)
          BY <3>4, TabsOpen, TabPlace DEF ActiveFits, InFlight
        <4>2. past[t.id] = live.history
          BY <3>4, <4>1, <1>5
        <4>3. QED  BY <3>1, <3>4, <4>1, <4>2, <2>1 DEF TabShows
      <3>5. CASE ~IsBench(t) /\ t.id # id /\ t.id # active
        <4>1. past[t.id] = tabHistory[t.id]
          BY <3>5, <1>3, <1>5
        <4>2. QED  BY <3>1, <3>5, <4>1, <2>1 DEF TabShows
      <3>6. QED  BY <3>2, <3>3, <3>4, <3>5
    <2>6. QED  BY <1>1, <1>5, <1>7, <2>1, <2>2, <2>3, <2>4, <2>5 DEF TabsShown
  <1>8. CASE id # active /\ ~IsBench(target)
    <2>1. /\ tabs' = ts /\ tabHistory' = past /\ active' = id /\ live' = Selecting
          /\ bench' = [bench EXCEPT !.on = FALSE]
          /\ flow' = [kind |-> "activate", tab |-> id, stage |-> "init",
                      build |-> target.content, community |-> target.community]
          /\ stored' = kept
      BY <1>8, <1>2 DEF Activate, Persist, target, past
    <2>2. LiveFits'
      <3>1. bench' \in Benches /\ bench'.on = FALSE
        BY <2>1 DEF Benches, LiveFits
      <3>2. flow' \in TabFlows
        BY <2>1, <1>1 DEF TabFlows, TabRecords
      <3>3. QED  BY <2>1, <3>1, <3>2, <1>5, TabConsts DEF LiveFits
    <2>3. FlowFits(active', live', flow')
      BY <2>1, <1>1, <1>4, TabConsts DEF FlowFits
    <2>4. ActiveFits(TabSet(ts), active', live', bench', flow')
      <3>1. bench'.on = FALSE /\ flow'.kind = "activate"
        BY <2>1 DEF Benches, LiveFits
      <3>2. QED  BY <2>1, <3>1, <1>1, <1>8, TabConsts DEF ActiveFits
    <2>5. ASSUME NEW ms, NEW dm, NEW ed, TabsShown(TabSet(ts), tabHistory, active, live, flow, ms, dm, ed),
                 NEW t \in TabSet(ts), t.id \notin dm
          PROVE  TabShows(t, tabHistory'[t.id], active', live', flow', ms[t.id], ed)
      <3>1. TabShows(t, tabHistory[t.id], active, live, flow, ms[t.id], ed)
        BY <2>5 DEF TabsShown
      <3>2. CASE IsBench(t)
        BY <3>1, <3>2 DEF TabShows
      <3>3. CASE ~IsBench(t) /\ t.id = id
        <4>1. t = target /\ t.id # active
          BY <3>3, <1>1, <1>8
        <4>2. past[t.id] = tabHistory[t.id]
          BY <4>1, <1>3, <1>5
        <4>3. QED  BY <3>1, <3>3, <4>1, <4>2, <2>1, TabConsts DEF TabShows, ShownAs, LoadShows
      <3>4. CASE ~IsBench(t) /\ t.id # id /\ t.id = active
        <4>1. /\ flow.kind = "none" /\ live.on /\ t.content = live.build /\ t.community = live.community
              /\ active \in Open(ts) /\ t = Tab(ts, active)
          BY <3>4, TabsOpen, TabPlace DEF ActiveFits, InFlight
        <4>2. past[t.id] = live.history
          BY <3>4, <4>1, <1>5
        <4>3. QED  BY <3>1, <3>4, <4>1, <4>2, <2>1 DEF TabShows
      <3>5. CASE ~IsBench(t) /\ t.id # id /\ t.id # active
        <4>1. past[t.id] = tabHistory[t.id]
          BY <3>5, <1>3, <1>5
        <4>2. QED  BY <3>1, <3>5, <4>1, <2>1 DEF TabShows
      <3>6. QED  BY <3>2, <3>3, <3>4, <3>5
    <2>6. QED  BY <1>1, <1>5, <1>8, <2>1, <2>2, <2>3, <2>4, <2>5 DEF TabsShown, InFlight
  <1>9. QED  BY <1>6, <1>7, <1>8

(* A tab is brought up, the tabs being ts by then.                         *)
LEMMA TabBroughtUp ==
  ASSUME TabsInv, NEW ts, NEW id \in Open(ts), NEW kept, Activate(ts, id, kept),
         nextId' \in 1 .. MaxTabs + 1, nextId <= nextId',
         RowFits(ts, nextId'), RowFits(kept, nextId'),
         active \in Open(ts) => ~InFlight /\ ActiveFits(TabSet(ts), active, live, bench, flow),
         mine' = [i \in Ids |-> mine'[i]] /\ \A i \in Ids : mine'[i] \in SeenTabs,
         TabsShown(TabSet(ts), tabHistory, active, live, flow, mine', damaged', edited'),
         unsaved' = unsaved, active = id /\ ~unsaved => kept = ts,
         DragHolds(ts, nextId', drag')
  PROVE  TabsInv'
  <1>1. LiveFits /\ FlowFits(active, live, flow)
    BY DEF TabsInv, TabTypes, TabsLive
  <1>2. /\ tabs' = ts /\ active' = id /\ LiveFits' /\ id \in Ids /\ id < nextId'
        /\ \A j \in Ids : j \notin Open(ts) => tabHistory'[j] = tabHistory[j]
        /\ FlowFits(active', live', flow')
        /\ ActiveFits(TabSet(ts), active', live', bench', flow')
        /\ stored' \in {kept, ts}
        /\ ~InFlight' => stored' = ts \/ (active = id /\ stored' = kept)
        /\ \A ms, dm, ed : TabsShown(TabSet(ts), tabHistory, active, live, flow, ms, dm, ed)
             => TabsShown(TabSet(ts), tabHistory', active', live', flow', ms, dm, ed)
    <2> DEFINE n == nextId'
    <2>1. RowFits(ts, n)
      OBVIOUS
    <2> HIDE DEF n
    <2>2. QED  BY <1>1, <2>1, TabActivated DEF n
  <1>3. TabTypes'
    <2>1. nextId \in Nat /\ nextId' \in Nat /\ id \in Nat
      BY <1>2, TabNumbers DEF TabsInv, TabTypes
    <2>2. \A j \in Ids : j >= nextId' => tabHistory'[j] = <<>>
      <3> SUFFICES ASSUME NEW j \in Ids, j >= nextId' PROVE tabHistory'[j] = <<>>
        OBVIOUS
      <3>0. j \in Nat
        BY TabNumbers
      <3>1. j \notin Open(ts)
        <4>1. \A t \in TabSet(ts) : t.id \in Nat /\ t.id < nextId'
          <5> DEFINE n == nextId'
          <5>1. RowFits(ts, n)
            OBVIOUS
          <5> HIDE DEF n
          <5>2. QED  BY <5>1, TabsAlone, TabNumbers DEF n
        <4>2. QED  BY <4>1, <3>0, <2>1, TabsOpen
      <3>2. j >= nextId
        BY <2>1, <3>0
      <3>3. tabHistory[j] = <<>>
        BY <3>2 DEF TabsInv, TabTypes
      <3>4. QED  BY <1>2, <3>1, <3>3
    <2>3. active' \in 1 .. nextId' - 1
      BY <1>2, <2>1 DEF Ids
    <2>4. RowFits(tabs, nextId)' /\ RowFits(stored, nextId)'
      BY <1>2 DEF RowFits, InOrder
    <2>5. QED  BY <1>2, <2>2, <2>3, <2>4 DEF TabTypes
  <1>4. TabsLive'
    BY <1>2 DEF TabsLive, FlowFits, ActiveFits, TabSet, IsBench
  <1>5. TabsExpected'
    <2>1. TabsShown(TabSet(ts), tabHistory', active', live', flow', mine', damaged', edited')
      BY <1>2
    <2>2. tabs' = ts
      BY <1>2
    <2>3. QED
      BY <2>1, <2>2 DEF TabsExpected, TabsShown, TabShows, ShownAs, LoadShows, TabSet, IsBench
  <1>6. StoredFits'
    BY <1>2, TabNumbers DEF StoredFits
  <1>7. DragHolds(tabs, nextId, drag)'
    BY <1>2 DEF DragHolds, Window, Open
  <1>8. QED  BY <1>3, <1>4, <1>5, <1>6, <1>7 DEF TabsInv

(* A new gun's tab is opened and its load begins.                          *)
LEMMA TabOpened ==
  ASSUME TabsInv, active \in Open(tabs) => ~InFlight, nextId \in Ids,
         NEW kind \in {"pick", "payload"}, NEW build \in Contents, NEW content \in Contents,
         NEW community \in Communities, community \in {NoTab, build},
         kind = "pick" => community = NoTab /\ build = Factory,
         tabs' = Append(tabs, NewTab(nextId, "gun", content, community)),
         tabHistory' = HistoryFlushed(tabs), active' = nextId, live' = Selecting,
         bench' = [bench EXCEPT !.on = FALSE],
         flow' = [kind |-> kind, tab |-> nextId, stage |-> "init", build |-> build,
                  community |-> community],
         nextId' = nextId + 1, Expect(nextId, build, community),
         UNCHANGED <<stored, unsaved, drag, damaged, edited>>, DragHolds(tabs', nextId', drag)
  PROVE  TabsInv'
  <1> DEFINE new == NewTab(nextId, "gun", content, community)
             n == nextId
  <1>1. /\ nextId \in Nat /\ nextId + 1 \in 1 .. MaxTabs + 1 /\ RowFits(tabs, n) /\ LiveFits
        /\ NoTab \notin Ids /\ MaxTabs \in Nat /\ RowFits(stored, n)
    BY TabNumbers DEF TabsInv, TabTypes, Ids
  <1>2. /\ new \in TabRecords /\ new.id = n /\ ~new.pinned /\ ~IsBench(new)
        /\ new.content = content /\ new.community = community
    BY DEF NewTab, TabRecords, IsBench
  <1> HIDE DEF new
  <1>3. /\ RowFits(tabs', n + 1) /\ TabSet(tabs') = TabSet(tabs) \cup {new}
        /\ Open(tabs') = Open(tabs) \cup {n}
    BY <1>1, <1>2, TabAppended DEF new
  <1>4. \A t \in TabSet(tabs) : t.id \in Ids /\ t.id # nextId /\ t.id \in Open(tabs)
    BY <1>1, TabsAlone, TabNumbers, TabsOpen
  <1>5. /\ tabHistory' = [j \in Ids |-> tabHistory'[j]] /\ \A j \in Ids : tabHistory'[j] \in Seq(Contents)
        /\ \A j \in Ids : j # active \/ j \notin Open(tabs) => tabHistory'[j] = tabHistory[j]
        /\ active \in Open(tabs) /\ ~IsBench(Tab(tabs, active)) /\ live.on
             => tabHistory'[active] = live.history
    <2>1. live.history \in Seq(Contents)
      BY <1>1 DEF LiveFits, LiveBuilds
    <2>2. active \in Open(tabs) => active \in Ids
      BY <1>4, TabsOpen
    <2>3. QED  BY <1>1, <2>1, <2>2 DEF HistoryFlushed, LiveFits
  <1>6. LiveFits'
    <2>1. bench' \in Benches /\ bench'.on = FALSE
      BY <1>1 DEF Benches, LiveFits
    <2>2. flow' \in TabFlows
      BY DEF TabFlows
    <2>3. QED  BY <2>1, <2>2, <1>5, TabConsts DEF LiveFits
  <1>7. TabTypes'
    <2>1. nextId \notin Open(tabs) /\ \A j \in Ids : j > nextId => j \notin Open(tabs)
      <3>1. \A t \in TabSet(tabs) : t.id \in Nat /\ t.id < nextId
        BY <1>1, TabsAlone, TabNumbers
      <3>2. QED  BY <3>1, <1>1, TabNumbers, TabsOpen
    <2>2. \A j \in Ids : j >= nextId' => tabHistory'[j] = <<>>
      <3> SUFFICES ASSUME NEW j \in Ids, j >= nextId' PROVE tabHistory'[j] = <<>>
        OBVIOUS
      <3>1. j >= nextId /\ j > nextId
        BY <1>1, TabNumbers
      <3>2. QED  BY <3>1, <2>1, <1>5 DEF TabsInv, TabTypes
    <2>3. mine' = [i \in Ids |-> mine'[i]] /\ \A i \in Ids : mine'[i] \in SeenTabs
      <3>1. [content |-> build, community |-> community, history |-> <<>>] \in SeenTabs
        BY DEF SeenTabs
      <3>2. QED  BY <3>1 DEF Expect, TabsInv, TabTypes
    <2>4. RowFits(stored, nextId)'
      <3>1. \A i \in DOMAIN stored : stored[i].id \in Nat
        <4>1. \A i \in DOMAIN stored : stored[i] \in TabSet(stored)
          BY DEF TabSet
        <4>2. QED  BY <4>1, <1>1, TabsAlone, TabNumbers
      <3>2. QED  BY <1>1, <3>1 DEF RowFits, InOrder
    <2>5. RowFits(tabs, nextId)'
      BY <1>3 DEF RowFits, InOrder
    <2>6. active' \in 1 .. nextId' - 1
      BY <1>1, TabNumbers DEF Ids
    <2>7. QED  BY <1>1, <1>6, <2>2, <2>3, <2>4, <2>5, <2>6 DEF TabTypes
  <1>8. TabsLive'
    <2>1. bench'.on = FALSE
      BY <1>1 DEF Benches, LiveFits
    <2>2. ActiveFits(TabSet(tabs'), active', live', bench', flow')
      BY <2>1, <1>2, <1>3, <1>4, TabConsts DEF ActiveFits
    <2>3. FlowFits(active', live', flow')
      BY <1>1, TabConsts DEF FlowFits
    <2>4. QED  BY <2>2, <2>3 DEF TabsLive, FlowFits, ActiveFits, TabSet, IsBench
  <1>9. ASSUME NEW t \in TabSet(tabs'), t.id \notin damaged
        PROVE  TabShows(t, tabHistory'[t.id], active', live', flow', mine'[t.id], edited)
    <2>1. CASE t = new
      <3>1. /\ t.id = nextId /\ t.id = active' /\ ~IsBench(t)
            /\ mine'[t.id] = [content |-> build, community |-> community, history |-> <<>>]
        BY <2>1, <1>2 DEF Expect, TabsInv, TabTypes
      <3>2. QED  BY <3>1, TabConsts DEF TabShows, LoadShows
    <2>2. CASE t \in TabSet(tabs)
      <3>0. t.id \in Ids /\ t.id # nextId /\ mine'[t.id] = mine[t.id]
        BY <2>2, <1>4 DEF Expect, TabsInv, TabTypes
      <3>1. TabShows(t, tabHistory[t.id], active, live, flow, mine[t.id], edited)
        BY <2>2, <1>9 DEF TabsInv, TabsExpected, TabsShown
      <3>2. CASE IsBench(t)
        BY <3>0, <3>1, <3>2 DEF TabShows
      <3>3. CASE ~IsBench(t) /\ t.id = active
        <4>1. /\ flow.kind = "none" /\ live.on /\ t.content = live.build /\ t.community = live.community
              /\ active \in Open(tabs) /\ t = Tab(tabs, active)
          BY <2>2, <3>3, <1>1, TabsOpen, TabPlace DEF ActiveFits, InFlight, TabsInv, TabsLive
        <4>2. tabHistory'[t.id] = live.history
          BY <3>3, <4>1, <1>5
        <4>3. QED  BY <3>0, <3>1, <3>3, <4>1, <4>2 DEF TabShows
      <3>4. CASE ~IsBench(t) /\ t.id # active
        <4>1. tabHistory'[t.id] = tabHistory[t.id]
          BY <3>4, <3>0, <1>5
        <4>2. QED  BY <3>0, <3>1, <3>4, <4>1 DEF TabShows
      <3>5. QED  BY <3>2, <3>3, <3>4
    <2>3. QED  BY <2>1, <2>2, <1>3, <1>9
  <1>10. TabsExpected'
    BY <1>9 DEF TabsExpected, TabsShown, TabShows, ShownAs, LoadShows, TabSet, IsBench
  <1>11. StoredFits'
    BY <1>1 DEF StoredFits, InFlight
  <1>12. DragHolds(tabs, nextId, drag)'
    BY DEF DragHolds, Window, Open
  <1>13. QED  BY <1>7, <1>8, <1>10, <1>11, <1>12 DEF TabsInv

(* What the undo histories are once the live one was put back.             *)
LEMMA PastFlushed ==
  ASSUME NEW n, NEW ts, RowFits(ts, n), LiveFits
  PROVE  LET past == HistoryFlushed(ts) IN
         /\ past = [j \in Ids |-> past[j]] /\ \A j \in Ids : past[j] \in Seq(Contents)
         /\ \A j \in Ids : j # active \/ j \notin Open(ts) => past[j] = tabHistory[j]
         /\ active \in Open(ts) /\ ~IsBench(Tab(ts, active)) /\ live.on => past[active] = live.history
  <1>1. live.history \in Seq(Contents)
    BY DEF LiveFits, LiveBuilds
  <1>2. active \in Open(ts) => active \in Ids
    BY TabPlace
  <1>3. QED  BY <1>1, <1>2 DEF HistoryFlushed, LiveFits

(* What the tabs are once the live build was written back.                 *)
LEMMA FlushedTabs ==
  ASSUME NEW n, NEW ts, RowFits(ts, n), LiveFits
  PROVE  /\ Kin(ts, Flushed(ts))
         /\ \/ Flushed(ts) = ts
            \/ /\ active \in Open(ts)
               /\ \E content \in Contents :
                    TabSet(Flushed(ts))
                      = Rewritten(TabSet(ts), active, content, Tab(ts, active).community)
  <1>1. Kin(ts, ts)
    BY DEF Kin, RowFits
  <1>2. live.build \in Contents /\ bench.loadout \in Contents
    BY DEF LiveFits, LiveBuilds, Benches
  <1>3. CASE active \in Open(ts)
    <2> DEFINE w(c) == [ts EXCEPT ![TabAt(ts, active)].content = c]
    <2>1. \A c \in Contents : Kin(ts, w(c))
             /\ TabSet(w(c)) = Rewritten(TabSet(ts), active, c, Tab(ts, active).community)
      BY <1>3, TabContentRewritten
    <2>2. Flushed(ts) \in {ts, w(live.build), w(bench.loadout)}
      BY <1>3 DEF Flushed
    <2> HIDE DEF w
    <2>3. QED  BY <1>1, <1>2, <1>3, <2>1, <2>2
  <1>4. QED  BY <1>1, <1>3 DEF Flushed

LEMMA AttributedFits ==
  ASSUME NEW l \in LiveBuilds
  PROVE  /\ Attributed(l) \in LiveBuilds
         /\ Attributed(l).on = l.on /\ Attributed(l).build = l.build /\ Attributed(l).history = l.history
         /\ Attributed(l).community = IF l.community = l.build THEN l.community ELSE NoTab
         /\ Attributed(l).community \in Communities
  BY DEF Attributed, LiveBuilds, Communities

(* syncActiveTab. *)
LEMMA SyncedTabs ==
  ASSUME NEW n, NEW ts, RowFits(ts, n), NEW l \in LiveBuilds
  PROVE  /\ Kin(ts, Synced(ts, l))
         /\ IF active \in Open(ts) /\ ~IsBench(Tab(ts, active)) /\ l.on
            THEN TabSet(Synced(ts, l))
                   = Rewritten(TabSet(ts), active, l.build, Attributed(l).community)
            ELSE Synced(ts, l) = ts
  <1>1. Kin(ts, ts)
    BY DEF Kin, RowFits
  <1>2. l.build \in Contents /\ Attributed(l).community \in Communities
    BY AttributedFits DEF LiveBuilds
  <1>3. CASE active \in Open(ts) /\ ~IsBench(Tab(ts, active)) /\ l.on
    BY <1>2, <1>3, TabRewritten DEF Synced
  <1>4. QED  BY <1>1, <1>3 DEF Synced

(* A record that was rewritten. *)
LEMMA RewrittenTab ==
  ASSUME NEW T, T \subseteq TabRecords, NEW id, NEW content, NEW community,
         NEW u \in Rewritten(T, id, content, community)
  PROVE  \E t \in T : /\ u.id = t.id /\ u.kind = t.kind /\ u.pinned = t.pinned
                      /\ IF t.id = id THEN u.content = content /\ u.community = community ELSE u = t
  BY DEF Rewritten, TabRecords

LEMMA FirstDuplicateOpen ==
  ASSUME NEW n, NEW ts, RowFits(ts, n), NEW build, Duplicates(ts, build) # {}
  PROVE  FirstDuplicate(ts, build) \in Open(ts)
  <1>1. Duplicates(ts, build) \subseteq Nat /\ Duplicates(ts, build) \subseteq DOMAIN ts
    BY DEF Duplicates, RowFits
  <1>2. \E i \in Duplicates(ts, build) : \A j \in Duplicates(ts, build) : i <= j
    BY <1>1, LeastNumber
  <1>3. QED  BY <1>1, <1>2 DEF FirstDuplicate, Open

(* A drag goes on while what its tabs hold changes,                        *)
LEMMA DragKin ==
  ASSUME NEW n, NEW ts, RowFits(ts, n), NEW us, Kin(ts, us), NEW dg, DragHolds(ts, n, dg)
  PROVE  DragHolds(us, n, dg)
  <1>1. Open(us) = Open(ts) /\ DOMAIN us = DOMAIN ts /\ Len(us) = Len(ts)
    BY KinFit DEF Kin
  <1>2. \A i \in DOMAIN ts : us[i].id = ts[i].id /\ us[i].pinned = ts[i].pinned
    BY DEF Kin
  <1>3. ASSUME dg # NoDrag, Window(ts, dg.group), \E i \in DOMAIN dg.group : dg.group[i] = dg.tab,
               dg.group \in Seq(1 .. n - 1)
        PROVE  Window(us, dg.group)
    <2> DEFINE g == dg.group
    <2>1. PICK s \in 0 .. Len(ts) : \A k \in DOMAIN g :
             s + k \in DOMAIN ts /\ ts[s + k].id = g[k] /\ ts[s + k].pinned = ts[s + 1].pinned
      BY <1>3 DEF Window
    <2>2. 1 \in DOMAIN g
      BY <1>3
    <2>3. s + 1 \in DOMAIN ts
      BY <2>1, <2>2
    <2> HIDE DEF g
    <2>4. \A k \in DOMAIN g :
             s + k \in DOMAIN us /\ us[s + k].id = g[k] /\ us[s + k].pinned = us[s + 1].pinned
      BY <2>1, <2>3, <1>1, <1>2
    <2>5. QED  BY <1>1, <2>4 DEF Window, g
  <1>4. QED  BY <1>1, <1>3 DEF DragHolds

(* or another tab is opened,                                               *)
LEMMA DragAppended ==
  ASSUME NEW n \in Nat, NEW ts, RowFits(ts, n), NEW t \in TabRecords, t.id = n, ~t.pinned,
         NEW dg, DragHolds(ts, n, dg)
  PROVE  DragHolds(Append(ts, t), n + 1, dg)
  <1> SUFFICES ASSUME dg # NoDrag PROVE DragHolds(Append(ts, t), n + 1, dg)
    BY DEF DragHolds
  <1> DEFINE us == Append(ts, t)  g == dg.group
  <1>1. /\ g \in Seq(1 .. n - 1) /\ \E i \in DOMAIN g : g[i] = dg.tab
        /\ \A i, j \in DOMAIN g : g[i] = g[j] => i = j
        /\ Window(ts, g) \/ \E k \in DOMAIN g : g[k] \notin Open(ts)
    BY DEF DragHolds
  <1>2. /\ Open(us) = Open(ts) \cup {n} /\ Len(us) = Len(ts) + 1
        /\ \A i \in DOMAIN ts : i \in DOMAIN us /\ us[i] = ts[i]
    BY TabAppended, AppendLast DEF RowFits
  <1>3. /\ g \in Seq(1 .. n) /\ 1 \in DOMAIN g /\ \A k \in DOMAIN g : g[k] # n
        /\ g \in Seq(1 .. (n + 1) - 1)
    BY <1>1
  <1>4. Len(ts) \in Nat /\ Len(us) \in Nat
    BY <1>2 DEF RowFits
  <1> HIDE DEF us, g
  <1>5. ASSUME Window(ts, g) PROVE Window(us, g)
    <2>1. PICK s \in 0 .. Len(ts) : \A k \in DOMAIN g :
             s + k \in DOMAIN ts /\ ts[s + k].id = g[k] /\ ts[s + k].pinned = ts[s + 1].pinned
      BY <1>5 DEF Window
    <2>2. s + 1 \in DOMAIN ts /\ s \in 0 .. Len(us)
      BY <2>1, <1>2, <1>3, <1>4
    <2>3. \A k \in DOMAIN g :
             s + k \in DOMAIN us /\ us[s + k].id = g[k] /\ us[s + k].pinned = us[s + 1].pinned
      BY <2>1, <2>2, <1>2
    <2>4. QED  BY <2>2, <2>3 DEF Window
  <1>6. QED  BY <1>1, <1>2, <1>3, <1>5 DEF DragHolds, us, g

(* or a tab is taken out.                                                  *)
LEMMA DragWithout ==
  ASSUME NEW n, NEW ts, RowFits(ts, n), NEW id, NEW dg, DragHolds(ts, n, dg)
  PROVE  DragHolds(Without(ts, id), n, dg)
  <1> SUFFICES ASSUME dg # NoDrag PROVE DragHolds(Without(ts, id), n, dg)
    BY DEF DragHolds
  <1> DEFINE us == Without(ts, id)  g == dg.group  p == TabAt(ts, id)
  <1>1. /\ g \in Seq(1 .. n - 1) /\ \E i \in DOMAIN g : g[i] = dg.tab
        /\ \A i, j \in DOMAIN g : g[i] = g[j] => i = j
        /\ Window(ts, g) \/ \E k \in DOMAIN g : g[k] \notin Open(ts)
    BY DEF DragHolds
  <1>2. Open(us) = Open(ts) \ {id}
    BY TabsWithout
  <1>3. DOMAIN g = 1 .. Len(g) /\ Len(g) \in Nat /\ 1 \in DOMAIN g
    BY <1>1
  <1>4. CASE id \notin Open(ts)
    BY <1>4 DEF Without
  <1>5. CASE \E k \in DOMAIN g : g[k] \notin Open(ts) \ {id}
    BY <1>1, <1>2, <1>5 DEF DragHolds
  <1>6. CASE id \in Open(ts) /\ \A k \in DOMAIN g : g[k] \in Open(ts) /\ g[k] # id
    <2>1. /\ p \in DOMAIN ts /\ ts[p].id = id /\ us \in Seq(TabRecords) /\ Len(us) = Len(ts) - 1
          /\ \A i \in 1 .. Len(ts) - 1 : us[i] = IF i < p THEN ts[i] ELSE ts[i + 1]
      BY <1>6, TabPlace, TabTakenOut
    <2>2. DOMAIN ts = 1 .. Len(ts) /\ Len(ts) \in Nat /\ DOMAIN us = 1 .. Len(ts) - 1
      BY <2>1 DEF RowFits
    <2> HIDE DEF us, g, p
    <2>3. PICK s \in 0 .. Len(ts) : \A k \in DOMAIN g :
             s + k \in DOMAIN ts /\ ts[s + k].id = g[k] /\ ts[s + k].pinned = ts[s + 1].pinned
      BY <1>1, <1>6 DEF Window
    <2>4. p <= s \/ p > s + Len(g)
      <3> SUFFICES ASSUME s < p, p <= s + Len(g) PROVE FALSE
        BY <2>1, <2>2, <2>3, <1>3
      <3>1. p - s \in DOMAIN g /\ s + (p - s) = p
        BY <2>1, <2>2, <2>3, <1>3
      <3>2. g[p - s] = id
        BY <3>1, <2>1, <2>3
      <3>3. QED  BY <3>1, <3>2, <1>6
    <2>5. s + Len(g) <= Len(ts)
      <3>1. Len(g) \in DOMAIN g
        BY <1>3
      <3>2. QED  BY <3>1, <2>2, <2>3
    <2>6. CASE p <= s
      <3> DEFINE r == s - 1
      <3>1. r \in 0 .. Len(us) /\ r \in Nat
        BY <2>1, <2>2, <2>3, <2>5, <2>6, <1>3
      <3>2. \A k \in DOMAIN g : r + k \in DOMAIN us /\ us[r + k] = ts[s + k]
        <4> SUFFICES ASSUME NEW k \in DOMAIN g PROVE r + k \in DOMAIN us /\ us[r + k] = ts[s + k]
          OBVIOUS
        <4>1. r + k \in 1 .. Len(ts) - 1 /\ ~(r + k < p) /\ (r + k) + 1 = s + k
          BY <2>1, <2>2, <2>3, <2>5, <2>6, <1>3
        <4>2. us[r + k] = ts[(r + k) + 1]
          BY <4>1, <2>1
        <4>3. QED  BY <4>1, <4>2, <2>2
      <3> HIDE DEF r
      <3>3. \A k \in DOMAIN g :
               r + k \in DOMAIN us /\ us[r + k].id = g[k] /\ us[r + k].pinned = us[r + 1].pinned
        BY <3>2, <2>3, <1>3
      <3>4. Window(us, g)
        BY <3>1, <3>3 DEF Window
      <3>5. QED  BY <3>4, <1>1 DEF DragHolds, us, g
    <2>7. CASE p > s + Len(g)
      <3>1. s \in 0 .. Len(us)
        BY <2>1, <2>2, <2>3, <2>5, <2>7, <1>3
      <3>2. \A k \in DOMAIN g : s + k \in DOMAIN us /\ us[s + k] = ts[s + k]
        BY <2>1, <2>2, <2>3, <2>5, <2>7, <1>3
      <3>3. \A k \in DOMAIN g :
               s + k \in DOMAIN us /\ us[s + k].id = g[k] /\ us[s + k].pinned = us[s + 1].pinned
        BY <3>2, <2>3, <1>3
      <3>4. Window(us, g)
        BY <3>1, <3>3 DEF Window
      <3>5. QED  BY <3>4, <1>1 DEF DragHolds, us, g
    <2>8. QED  BY <2>4, <2>6, <2>7
  <1>7. QED  BY <1>4, <1>5, <1>6

(* A step that leaves the tabs and what is live as they are.               *)
LEMMA TabsUnmoved ==
  ASSUME TabsInv, UNCHANGED <<tabs, tabHistory, active, live, bench, flow, nextId, mine, damaged, edited>>,
         StoredFits', RowFits(stored', nextId), DragHolds(tabs, nextId, drag')
  PROVE  TabsInv'
  <1>1. TabTypes'
    BY DEF TabsInv, TabTypes, LiveFits, RowFits, InOrder
  <1>2. TabsLive' /\ TabsExpected'
    BY DEF TabsInv, TabsLive, FlowFits, ActiveFits, TabSet, IsBench,
           TabsExpected, TabsShown, TabShows, ShownAs, LoadShows
  <1>3. DragHolds(tabs, nextId, drag)'
    BY DEF DragHolds, Window, Open
  <1>4. QED  BY <1>1, <1>2, <1>3 DEF TabsInv

(* The parts of the invariant, where the steps need them.                  *)
LEMMA TabsInvParts ==
  ASSUME TabsInv
  PROVE  /\ RowFits(tabs, nextId) /\ RowFits(stored, nextId) /\ LiveFits
         /\ nextId \in Nat /\ nextId \in 1 .. MaxTabs + 1 /\ active \in (1 .. nextId - 1) \cup {NoTab}
         /\ FlowFits(active, live, flow) /\ ActiveFits(TabSet(tabs), active, live, bench, flow)
         /\ StoredFits /\ DragHolds(tabs, nextId, drag)
         /\ TabSet(tabs) \subseteq TabRecords /\ \A t \in TabSet(tabs) : t.id \in Open(tabs) /\ t.id # NoTab
  <1>1. RowFits(tabs, nextId) /\ nextId \in Nat
    BY DEF TabsInv, TabTypes
  <1>2. TabSet(tabs) \subseteq TabRecords /\ \A t \in TabSet(tabs) : t.id \in Open(tabs) /\ t.id # NoTab
    BY <1>1, TabsAlone, TabsOpen, TabNumbers
  <1>3. QED  BY <1>1, <1>2 DEF TabsInv, TabTypes, TabsLive

(* The invariant from its parts. *)
LEMMA TabsInvFrom ==
  ASSUME RowFits(tabs', nextId'), RowFits(stored', nextId'), nextId' \in 1 .. MaxTabs + 1,
         active' \in (1 .. nextId' - 1) \cup {NoTab}, LiveFits',
         \A id \in Ids : id >= nextId' => tabHistory'[id] = <<>>,
         mine' = [id \in Ids |-> mine'[id]] /\ \A id \in Ids : mine'[id] \in SeenTabs,
         FlowFits(active', live', flow'), ActiveFits(TabSet(tabs'), active', live', bench', flow'),
         TabsShown(TabSet(tabs'), tabHistory', active', live', flow', mine', damaged', edited'),
         StoredFits', DragHolds(tabs', nextId', drag')
  PROVE  TabsInv'
  <1>1. TabTypes'
    BY DEF TabTypes, RowFits, InOrder
  <1>2. TabsLive' /\ TabsExpected'
    BY DEF TabsLive, FlowFits, ActiveFits, TabSet, IsBench,
           TabsExpected, TabsShown, TabShows, ShownAs, LoadShows
  <1>3. DragHolds(tabs, nextId, drag)'
    BY DEF DragHolds, Window, Open
  <1>4. QED  BY <1>1, <1>2, <1>3 DEF TabsInv

LEMMA PickGunKeeps == ASSUME TabsInv, PickGun PROVE TabsInv'
  <1>1. /\ RowFits(tabs, nextId) /\ LiveFits /\ FlowFits(active, live, flow)
        /\ ActiveFits(TabSet(tabs), active, live, bench, flow)
    BY TabsInvParts
  <1>2. tabs' = tabs
    BY <1>1, QuietFlush DEF PickGun
  <1>3. /\ flow' = [NoFlow EXCEPT !.kind = "pick", !.stage = "preparing"] /\ ~live.on /\ ~bench.on
        /\ UNCHANGED <<tabHistory, active, live, bench, stored, nextId, mine, damaged, edited, unsaved, drag>>
    BY DEF PickGun
  <1>4. flow'.kind = "pick" /\ flow'.stage = "preparing" /\ flow'.community = NoTab /\ flow' \in TabFlows
    BY <1>3, TabConsts DEF TabFlows, NoFlow
  <1>5. \A t \in TabSet(tabs) : t.id # active
    BY <1>1, <1>3 DEF ActiveFits
  <1>6. TabTypes'
    BY <1>2, <1>3, <1>4 DEF TabsInv, TabTypes, LiveFits, RowFits, InOrder
  <1>7. TabsLive'
    <2>1. FlowFits(active', live', flow')
      BY <1>3, <1>4 DEF FlowFits
    <2>2. ActiveFits(TabSet(tabs'), active', live', bench', flow')
      BY <1>2, <1>3, <1>5 DEF ActiveFits
    <2>3. QED  BY <2>1, <2>2 DEF TabsLive, FlowFits, ActiveFits, TabSet, IsBench
  <1>8. TabsExpected'
    <2>1. TabsShown(TabSet(tabs), tabHistory, active, live, flow', mine, damaged, edited)
      BY <1>5 DEF TabsInv, TabsExpected, TabsShown, TabShows
    <2>2. QED  BY <2>1, <1>2, <1>3 DEF TabsExpected, TabsShown, TabShows, ShownAs, LoadShows, TabSet, IsBench
  <1>9. StoredFits'
    <2>1. active \notin Open(tabs)
      BY <1>5, TabsOpen
    <2>2. active' \notin Open(tabs')
      BY <2>1, <1>2, <1>3
    <2>3. QED  BY <2>2, <1>2, <1>3 DEF TabsInv, StoredFits
  <1>10. DragHolds(tabs, nextId, drag)'
    BY <1>2, <1>3 DEF TabsInv, DragHolds, Window, Open
  <1>11. QED  BY <1>6, <1>7, <1>8, <1>9, <1>10 DEF TabsInv

(* Before the picked weapon's data is there, no tab is active.             *)
LEMMA PreparingIsBare ==
  ASSUME TabsInv, flow.stage = "preparing"
  PROVE  active \notin Open(tabs) /\ flow.kind = "pick"
  <1>1. FlowFits(active, live, flow) /\ ActiveFits(TabSet(tabs), active, live, bench, flow) /\ LiveFits
    BY TabsInvParts
  <1>2. ~live.on /\ flow.kind # "none"
    BY <1>1 DEF FlowFits
  <1>3. flow.kind = "pick"
    BY <1>1 DEF FlowFits
  <1>4. \A t \in TabSet(tabs) : t.id # active
    BY <1>1, <1>2 DEF ActiveFits
  <1>5. QED  BY <1>3, <1>4, TabsOpen

LEMMA GunPreparedKeeps == ASSUME TabsInv, GunPrepared PROVE TabsInv'
  <1>0. /\ RowFits(tabs, nextId) /\ RowFits(stored, nextId) /\ LiveFits /\ nextId \in Nat
        /\ nextId \in 1 .. MaxTabs + 1 /\ FlowFits(active, live, flow)
        /\ ActiveFits(TabSet(tabs), active, live, bench, flow) /\ DragHolds(tabs, nextId, drag)
    BY TabsInvParts
  <1>1. active \notin Open(tabs) /\ flow.kind = "pick" /\ flow.community = NoTab
    BY <1>0, PreparingIsBare DEF GunPrepared, FlowFits
  <1>2. UNCHANGED <<closing, drag, unsaved, language, damaged, edited>>
    BY DEF GunPrepared
  <1>3. CASE /\ Duplicates(tabs, Factory) # {}
             /\ Activate(tabs, FirstDuplicate(tabs, Factory), stored) /\ UNCHANGED <<nextId, mine>>
    <2> DEFINE id == FirstDuplicate(tabs, Factory)
    <2>1. id \in Open(tabs) /\ Activate(tabs, id, stored) /\ active # id
      BY <1>0, <1>1, <1>3, FirstDuplicateOpen
    <2>2. /\ mine' = [i \in Ids |-> mine'[i]] /\ \A i \in Ids : mine'[i] \in SeenTabs
          /\ TabsShown(TabSet(tabs), tabHistory, active, live, flow, mine', damaged', edited')
      BY <1>2, <1>3 DEF TabsInv, TabTypes, TabsExpected
    <2> HIDE DEF id
    <2>3. /\ nextId' \in 1 .. MaxTabs + 1 /\ nextId <= nextId' /\ RowFits(tabs, nextId')
          /\ RowFits(stored, nextId') /\ DragHolds(tabs, nextId', drag')
      BY <1>0, <1>2, <1>3
    <2>4. QED  BY <1>0, <1>1, <1>2, <2>1, <2>2, <2>3, TabBroughtUp
  <1>4. CASE /\ nextId \in Ids /\ tabs' = Append(tabs, NewTab(nextId, "gun", Bare, NoTab))
             /\ active' = nextId /\ live' = Selecting
             /\ flow' = [flow EXCEPT !.tab = nextId, !.stage = "init", !.build = Factory]
             /\ bench' = [bench EXCEPT !.on = FALSE] /\ nextId' = nextId + 1
             /\ Expect(nextId, Factory, NoTab) /\ UNCHANGED <<tabHistory, stored>>
    <2>1. Factory \in Contents /\ Bare \in Contents /\ NoTab \in Communities
      BY TabConstants DEF Contents, Communities
    <2>2. flow' = [kind |-> "pick", tab |-> nextId, stage |-> "init", build |-> Factory,
                   community |-> NoTab]
      BY <1>0, <1>1, <1>4 DEF LiveFits, TabFlows
    <2>3. tabHistory' = HistoryFlushed(tabs)
      BY <1>1, <1>4 DEF HistoryFlushed
    <2>4. DragHolds(tabs', nextId', drag)
      <3>1. /\ NewTab(nextId, "gun", Bare, NoTab) \in TabRecords
            /\ NewTab(nextId, "gun", Bare, NoTab).id = nextId
            /\ ~NewTab(nextId, "gun", Bare, NoTab).pinned
        BY <1>4, <2>1 DEF NewTab, TabRecords
      <3>2. QED  BY <1>0, <1>4, <3>1, DragAppended
    <2>5. QED  BY <1>1, <1>2, <1>4, <2>1, <2>2, <2>3, <2>4, TabOpened
  <1>5. QED  BY <1>3, <1>4 DEF GunPrepared

LEMMA OpenPayloadKeeps ==
  ASSUME TabsInv, drag = NoDrag, NEW build \in Builds, NEW community \in {NoTab, build},
         OpenPayload(build, community)
  PROVE  TabsInv'
  <1>0. /\ RowFits(tabs, nextId) /\ RowFits(stored, nextId) /\ LiveFits /\ nextId \in Nat
        /\ nextId \in 1 .. MaxTabs + 1 /\ FlowFits(active, live, flow) /\ StoredFits
        /\ ActiveFits(TabSet(tabs), active, live, bench, flow)
    BY TabsInvParts
  <1>1. ~InFlight /\ UNCHANGED <<closing, drag, unsaved, language, damaged, edited>>
    BY DEF OpenPayload
  <1>2. Flushed(tabs) = tabs
    BY <1>0, <1>1, QuietFlush
  <1>3. CASE /\ Duplicates(tabs, build) # {}
             /\ Activate(tabs, FirstDuplicate(tabs, build), stored) /\ UNCHANGED <<nextId, mine>>
    <2> DEFINE id == FirstDuplicate(tabs, build)
    <2>1. id \in Open(tabs) /\ Activate(tabs, id, stored)
      BY <1>0, <1>3, FirstDuplicateOpen
    <2>2. /\ mine' = [i \in Ids |-> mine'[i]] /\ \A i \in Ids : mine'[i] \in SeenTabs
          /\ TabsShown(TabSet(tabs), tabHistory, active, live, flow, mine', damaged', edited')
      BY <1>1, <1>3 DEF TabsInv, TabTypes, TabsExpected
    <2> HIDE DEF id
    <2>3. /\ nextId' \in 1 .. MaxTabs + 1 /\ nextId <= nextId' /\ RowFits(tabs, nextId')
          /\ RowFits(stored, nextId')
      BY <1>0, <1>1, <1>3
    <2>4. DragHolds(tabs, nextId', drag')
      BY <1>1 DEF DragHolds
    <2>5. active = id /\ ~unsaved => stored = tabs
      BY <1>0, <1>1, <2>1 DEF StoredFits
    <2>6. QED  BY <1>0, <1>1, <2>1, <2>2, <2>3, <2>4, <2>5, TabBroughtUp
  <1>4. CASE /\ nextId \in Ids /\ tabs' = Append(tabs, NewTab(nextId, "gun", build, community))
             /\ tabHistory' = HistoryFlushed(tabs) /\ active' = nextId /\ live' = Selecting
             /\ bench' = [bench EXCEPT !.on = FALSE]
             /\ flow' = [kind |-> "payload", tab |-> nextId, stage |-> "init", build |-> build,
                         community |-> community]
             /\ nextId' = nextId + 1 /\ Expect(nextId, build, community) /\ UNCHANGED stored
    <2>1. build \in Contents /\ community \in Communities
      BY DEF Contents, Communities
    <2>2. DragHolds(tabs', nextId', drag)
      BY DEF DragHolds
    <2>3. QED  BY <1>1, <1>4, <2>1, <2>2, TabOpened
  <1>5. QED  BY <1>2, <1>3, <1>4 DEF OpenPayload

LEMMA OpenBallisticsKeeps == ASSUME TabsInv, drag = NoDrag, OpenBallistics PROVE TabsInv'
  <1>0. /\ RowFits(tabs, nextId) /\ RowFits(stored, nextId) /\ LiveFits /\ nextId \in Nat
        /\ nextId \in 1 .. MaxTabs + 1 /\ FlowFits(active, live, flow) /\ StoredFits
        /\ ActiveFits(TabSet(tabs), active, live, bench, flow)
        /\ active \in (1 .. nextId - 1) \cup {NoTab}
    BY TabsInvParts
  <1>1. ~InFlight /\ UNCHANGED <<closing, drag, unsaved, language, damaged, edited>>
    BY DEF OpenBallistics
  <1>2. Flushed(tabs) = tabs
    BY <1>0, <1>1, QuietFlush
  <1>a. \A ts, n : DragHolds(ts, n, drag')
    BY <1>1 DEF DragHolds
  <1> DEFINE empty == {i \in DOMAIN tabs : IsBench(tabs[i]) /\ tabs[i].content = NoLoadout}
  <1>3. CASE empty # {} /\ UNCHANGED <<nextId, mine>>
             /\ Activate(tabs, tabs[CHOOSE i \in empty : \A j \in empty : i <= j].id, stored)
    <2> DEFINE at == CHOOSE i \in empty : \A j \in empty : i <= j
               id == tabs[at].id
    <2>1. at \in DOMAIN tabs
      <3>1. empty \subseteq Nat
        BY <1>0 DEF RowFits
      <3> HIDE DEF empty
      <3>2. \E i \in empty : \A j \in empty : i <= j
        BY <1>3, <3>1, LeastNumber
      <3>3. at \in empty
        BY <3>2
      <3>4. QED  BY <3>3 DEF empty
    <2>2. id \in Open(tabs) /\ Activate(tabs, id, stored)
      BY <1>3, <2>1 DEF Open
    <2>3. /\ mine' = [i \in Ids |-> mine'[i]] /\ \A i \in Ids : mine'[i] \in SeenTabs
          /\ TabsShown(TabSet(tabs), tabHistory, active, live, flow, mine', damaged', edited')
      BY <1>1, <1>3 DEF TabsInv, TabTypes, TabsExpected
    <2> HIDE DEF id
    <2>4. /\ nextId' \in 1 .. MaxTabs + 1 /\ nextId <= nextId' /\ RowFits(tabs, nextId')
          /\ RowFits(stored, nextId')
      BY <1>0, <1>1, <1>3
    <2>5. active = id /\ ~unsaved => stored = tabs
      BY <1>0, <1>1, <2>2 DEF StoredFits
    <2>6. QED  BY <1>0, <1>1, <1>a, <2>2, <2>3, <2>4, <2>5, TabBroughtUp
  <1>4. CASE /\ nextId \in Ids
             /\ Activate(Append(tabs, NewTab(nextId, "bench", NoLoadout, NoTab)), nextId, stored)
             /\ nextId' = nextId + 1 /\ Expect(nextId, NoLoadout, NoTab)
    <2> DEFINE new == NewTab(nextId, "bench", NoLoadout, NoTab)
               ts == Append(tabs, new)
    <2>1. new \in TabRecords /\ new.id = nextId /\ ~new.pinned /\ IsBench(new) /\ new.content = NoLoadout
      BY <1>4 DEF NewTab, TabRecords, IsBench, Contents, Communities
    <2> HIDE DEF new
    <2>2. /\ RowFits(ts, nextId + 1) /\ TabSet(ts) = TabSet(tabs) \cup {new}
          /\ Open(ts) = Open(tabs) \cup {nextId}
      BY <1>0, <2>1, TabAppended
    <2>3. RowFits(stored, nextId + 1)
      <3>1. \A i \in DOMAIN stored : stored[i].id \in Nat
        <4>1. \A i \in DOMAIN stored : stored[i] \in TabSet(stored)
          BY DEF TabSet
        <4>2. QED  BY <4>1, <1>0, TabsAlone, TabNumbers
      <3>2. QED  BY <1>0, <3>1 DEF RowFits, InOrder
    <2>4. nextId' \in 1 .. MaxTabs + 1 /\ nextId <= nextId' /\ active # nextId
      BY <1>0, <1>4, TabNumbers DEF Ids
    <2>5. mine' = [i \in Ids |-> mine'[i]] /\ \A i \in Ids : mine'[i] \in SeenTabs
      <3>1. [content |-> NoLoadout, community |-> NoTab, history |-> <<>>] \in SeenTabs
        BY DEF SeenTabs, Contents, Communities
      <3>2. QED  BY <1>4, <3>1 DEF Expect, TabsInv, TabTypes
    <2>6. ASSUME NEW t \in TabSet(ts), t.id \notin damaged
          PROVE  TabShows(t, tabHistory[t.id], active, live, flow, mine'[t.id], edited)
      <3>1. CASE t = new
        <4>1. mine'[t.id].content = t.content /\ IsBench(t)
          BY <1>4, <2>1, <3>1 DEF Expect, TabsInv, TabTypes
        <4>2. QED  BY <4>1 DEF TabShows
      <3>2. CASE t \in TabSet(tabs)
        <4>1. t.id \in Ids /\ t.id # nextId
          BY <1>0, <3>2, TabsAlone, TabNumbers
        <4>2. mine'[t.id] = mine[t.id]
          BY <1>4, <4>1 DEF Expect, TabsInv, TabTypes
        <4>3. QED  BY <2>6, <3>2, <4>2 DEF TabsInv, TabsExpected, TabsShown
      <3>3. QED  BY <2>2, <2>6, <3>1, <3>2
    <2>7. TabsShown(TabSet(ts), tabHistory, active, live, flow, mine', damaged', edited')
      BY <1>1, <2>6 DEF TabsShown
    <2>8. ActiveFits(TabSet(ts), active, live, bench, flow)
      BY <1>0, <2>1, <2>2, <2>4 DEF ActiveFits
    <2>9. /\ nextId \in Open(ts) /\ Activate(ts, nextId, stored)
          /\ RowFits(ts, nextId') /\ RowFits(stored, nextId')
      BY <1>4, <2>2, <2>3 DEF new
    <2> HIDE DEF ts
    <2>10. QED  BY <1>0, <1>1, <1>a, <2>4, <2>5, <2>7, <2>8, <2>9, TabBroughtUp
  <1>5. QED  BY <1>2, <1>3, <1>4 DEF OpenBallistics

(* switchToTab. *)
LEMMA SwitchKeeps ==
  ASSUME TabsInv, NEW id \in Open(tabs), SwitchTo(tabs, id),
         UNCHANGED <<drag, unsaved, nextId, mine, damaged, edited>>
  PROVE  TabsInv'
  <1>0. /\ RowFits(tabs, nextId) /\ RowFits(stored, nextId) /\ LiveFits /\ nextId \in Nat
        /\ nextId \in 1 .. MaxTabs + 1 /\ FlowFits(active, live, flow) /\ StoredFits
        /\ ActiveFits(TabSet(tabs), active, live, bench, flow) /\ DragHolds(tabs, nextId, drag)
    BY TabsInvParts
  <1>1. CASE InFlight
    <2>1. UNCHANGED <<tabs, tabHistory, active, live, bench, flow, stored>>
      BY <1>1 DEF SwitchTo
    <2>2. StoredFits'
      BY <1>0, <2>1 DEF StoredFits, InFlight
    <2>3. QED  BY <1>0, <2>1, <2>2, TabsUnmoved
  <1>2. CASE ~InFlight
    <2>1. Activate(tabs, id, stored)
      BY <1>2 DEF SwitchTo
    <2>2. /\ mine' = [i \in Ids |-> mine'[i]] /\ \A i \in Ids : mine'[i] \in SeenTabs
          /\ TabsShown(TabSet(tabs), tabHistory, active, live, flow, mine', damaged', edited')
      BY DEF TabsInv, TabTypes, TabsExpected
    <2>3. active = id /\ ~unsaved => stored = tabs
      BY <1>0, <1>2 DEF StoredFits
    <2>4. /\ nextId' \in 1 .. MaxTabs + 1 /\ nextId <= nextId' /\ RowFits(tabs, nextId')
          /\ RowFits(stored, nextId') /\ DragHolds(tabs, nextId', drag')
      BY <1>0
    <2>5. QED  BY <1>0, <1>2, <2>1, <2>2, <2>3, <2>4, TabBroughtUp
  <1>3. QED  BY <1>1, <1>2

LEMMA ClickTabKeeps == ASSUME TabsInv, ClickTab PROVE TabsInv'
  BY SwitchKeeps DEF ClickTab

LEMMA LanguageSwitchedKeeps == ASSUME TabsInv, LanguageSwitched PROVE TabsInv'
  <1>1. UNCHANGED <<closing, drag, unsaved, nextId, mine, damaged, edited>>
    BY DEF LanguageSwitched
  <1>2. CASE language.back \in Open(tabs) \ {active}
    <2>1. SwitchTo(tabs, language.back)
      BY <1>2 DEF LanguageSwitched
    <2>2. QED  BY <1>1, <1>2, <2>1, SwitchKeeps
  <1>3. CASE language.back \notin Open(tabs) \ {active}
    <2>1. UNCHANGED <<tabs, tabHistory, active, live, bench, flow, stored>>
      BY <1>3 DEF LanguageSwitched
    <2>2. /\ StoredFits /\ RowFits(stored, nextId) /\ DragHolds(tabs, nextId, drag)
      BY TabsInvParts
    <2>3. StoredFits'
      BY <1>1, <2>1, <2>2 DEF StoredFits, InFlight
    <2>4. QED  BY <1>1, <2>1, <2>2, <2>3, TabsUnmoved
  <1>4. QED  BY <1>2, <1>3

LEMMA ActiveGun ==
  ASSUME TabsInv, live.on, active \in Open(tabs)
  PROVE  ~IsBench(Tab(tabs, active)) /\ Tab(tabs, active) \in TabSet(tabs) /\ ~bench.on
         /\ Tab(tabs, active).id = active /\ \A t \in TabSet(tabs) : t.id = active => t = Tab(tabs, active)
  <1>1. RowFits(tabs, nextId) /\ ActiveFits(TabSet(tabs), active, live, bench, flow)
    BY TabsInvParts
  <1>2. /\ Tab(tabs, active) \in TabSet(tabs) /\ Tab(tabs, active).id = active
        /\ \A t \in TabSet(tabs) : t.id = active => t = Tab(tabs, active)
    BY <1>1, TabPlace
  <1>3. QED  BY <1>1, <1>2 DEF ActiveFits

LEMMA EditKeeps == ASSUME TabsInv, NEW build \in Builds, Edit(build) PROVE TabsInv'
  <1> DEFINE before == [live EXCEPT !.build = build, !.history = Capped(Append(@, live.build))]
             l == Attributed(before)
  <1>0. /\ RowFits(tabs, nextId) /\ RowFits(stored, nextId) /\ LiveFits /\ nextId \in Nat
        /\ nextId \in 1 .. MaxTabs + 1 /\ FlowFits(active, live, flow) /\ StoredFits
        /\ ActiveFits(TabSet(tabs), active, live, bench, flow) /\ DragHolds(tabs, nextId, drag)
        /\ active \in (1 .. nextId - 1) \cup {NoTab}
    BY TabsInvParts
  <1>1. /\ live' = l /\ tabs' = Synced(tabs, l) /\ live.on /\ (InFlight => flow.stage = "stats")
        /\ UNCHANGED <<tabHistory, active, bench, flow, closing, drag, stored, language, nextId, damaged>>
    BY DEF Edit
  <1>2. before \in LiveBuilds /\ before.on /\ before.build = build /\ before.community = live.community
    <2>1. live \in LiveBuilds /\ build \in Contents
      BY <1>0 DEF LiveFits, Contents
    <2>2. Capped(Append(live.history, live.build)) \in Seq(Contents)
      <3>1. live.history \in Seq(Contents) /\ live.build \in Contents
        BY <2>1 DEF LiveBuilds
      <3>2. Append(live.history, live.build) \in Seq(Contents) /\ Append(live.history, live.build) # <<>>
        BY <3>1, AppendLast
      <3>3. QED  BY <3>2, HeadAndTail DEF Capped
    <2>3. QED  BY <1>1, <2>1, <2>2 DEF LiveBuilds
  <1> HIDE DEF before
  <1>3. /\ l \in LiveBuilds /\ l.on /\ l.build = build
        /\ l.community = IF live.community = build THEN live.community ELSE NoTab
    BY <1>2, AttributedFits
  <1>4. Attributed(l).community = l.community
    BY <1>3, AttributedFits
  <1> HIDE DEF l
  <1>5. Kin(tabs, tabs')
    BY <1>0, <1>1, <1>3, SyncedTabs
  <1>6. RowFits(tabs', nextId') /\ Open(tabs') = Open(tabs)
    BY <1>0, <1>1, <1>5, KinFit
  <1>7. DragHolds(tabs', nextId', drag')
    BY <1>0, <1>1, <1>5, DragKin
  <1>8. LiveFits'
    BY <1>0, <1>1, <1>3 DEF LiveFits
  <1>9. FlowFits(active', live', flow')
    BY <1>0, <1>1, <1>3 DEF FlowFits
  <1>10. CASE active \notin Open(tabs)
    <2>1. tabs' = tabs
      BY <1>0, <1>1, <1>3, <1>10, SyncedTabs
    <2>2. UNCHANGED <<mine, unsaved, edited>>
      BY <1>10 DEF Edit
    <2>3. \A t \in TabSet(tabs) : t.id # active
      BY <1>10, TabsOpen
    <2>4. ActiveFits(TabSet(tabs'), active', live', bench', flow')
      BY <1>0, <1>1, <1>3, <2>1, <2>3 DEF ActiveFits
    <2>5. TabsShown(TabSet(tabs'), tabHistory', active', live', flow', mine', damaged', edited')
      BY <1>1, <2>1, <2>2, <2>3 DEF TabsInv, TabsExpected, TabsShown, TabShows
    <2>6. StoredFits'
      BY <1>0, <1>1, <2>1, <2>2, <1>10 DEF StoredFits
    <2>7. /\ mine' = [i \in Ids |-> mine'[i]] /\ \A i \in Ids : mine'[i] \in SeenTabs
          /\ \A i \in Ids : i >= nextId' => tabHistory'[i] = <<>>
      BY <1>1, <2>2 DEF TabsInv, TabTypes
    <2>8. QED  BY <1>0, <1>1, <1>6, <1>7, <1>8, <1>9, <2>4, <2>5, <2>6, <2>7, TabsInvFrom
  <1>11. CASE active \in Open(tabs)
    <2> DEFINE a == Tab(tabs, active)
               seen == [content |-> build, history |-> l.history,
                        community |-> IF mine[active].community = build THEN build ELSE NoTab]
    <2>1. ~IsBench(a) /\ a \in TabSet(tabs) /\ ~bench.on /\ a.id = active
          /\ \A t \in TabSet(tabs) : t.id = active => t = a
      BY <1>1, <1>11, ActiveGun
    <2>2. TabSet(tabs') = Rewritten(TabSet(tabs), active, build, l.community)
      BY <1>0, <1>1, <1>3, <1>4, <1>11, <2>1, SyncedTabs
    <2>3. mine' = [mine EXCEPT ![active] = seen] /\ unsaved' = TRUE
          /\ edited' = IF InFlight THEN edited \cup {active} ELSE edited
      BY <1>11, <1>1 DEF Edit, l, before
    <2>4. active \in Ids /\ seen \in SeenTabs
      <3>1. active \in Ids
        BY <1>0, <1>11, TabPlace
      <3>2. QED  BY <3>1, <1>3 DEF SeenTabs, LiveBuilds, Contents, Communities
    <2>5. /\ mine' = [i \in Ids |-> mine'[i]] /\ \A i \in Ids : mine'[i] \in SeenTabs
          /\ mine'[active] = seen /\ \A i \in Ids : i # active => mine'[i] = mine[i]
          /\ \A i \in Ids : i >= nextId' => tabHistory'[i] = <<>>
      BY <1>1, <2>3, <2>4 DEF TabsInv, TabTypes
    <2>6. TabSet(tabs) \subseteq TabRecords /\ \A t \in TabSet(tabs) : t.id \in Ids
      BY <1>0, TabsAlone
    <2> HIDE DEF a, seen
    <2>7. ActiveFits(TabSet(tabs'), active', live', bench', flow')
      <3>1. ASSUME NEW u \in TabSet(tabs'), u.id = active
            PROVE  ~IsBench(u) /\ u.content = l.build /\ u.community = l.community
        <4>1. PICK t \in TabSet(tabs) : u.id = t.id /\ u.kind = t.kind
                 /\ IF t.id = active THEN u.content = build /\ u.community = l.community ELSE u = t
          BY <2>2, <2>6, RewrittenTab
        <4>2. QED  BY <4>1, <3>1, <2>1, <1>3 DEF IsBench
      <3>2. flow.kind # "pick"
        BY <1>0, <1>1 DEF FlowFits, InFlight
      <3>3. QED  BY <1>1, <1>3, <2>1, <3>1, <3>2 DEF ActiveFits
    <2>8. ASSUME NEW u \in TabSet(tabs'), u.id \notin damaged
          PROVE  TabShows(u, tabHistory[u.id], active, l, flow, mine'[u.id], edited')
      <3>1. PICK t \in TabSet(tabs) : u.id = t.id /\ u.kind = t.kind
               /\ IF t.id = active THEN u.content = build /\ u.community = l.community ELSE u = t
        BY <2>2, <2>6, RewrittenTab
      <3>2. TabShows(t, tabHistory[t.id], active, live, flow, mine[t.id], edited)
        BY <2>8, <3>1 DEF TabsInv, TabsExpected, TabsShown
      <3>3. CASE t.id # active
        <4>1. u = t /\ mine'[t.id] = mine[t.id] /\ edited \subseteq edited'
          BY <3>1, <3>3, <2>3, <2>5, <2>6
        <4>2. QED  BY <3>2, <3>3, <4>1 DEF TabShows, ShownAs
      <3>4. CASE t.id = active
        <4>1. /\ ~IsBench(t) /\ ~IsBench(u) /\ mine'[u.id] = seen
              /\ seen.content = build /\ seen.history = l.history
              /\ seen.community = IF mine[active].community = build THEN build ELSE NoTab
          BY <3>1, <3>4, <2>1, <2>5 DEF IsBench, seen
        <4>2. CASE flow.kind = "none"
          <5>1. live.community = mine[active].community \/ active \in edited
            BY <3>2, <3>4, <4>1, <4>2 DEF TabShows, ShownAs
          <5>2. l.community = seen.community \/ active \in edited'
            BY <5>1, <1>3, <4>1, <2>3
          <5>3. QED  BY <5>2, <4>1, <4>2, <3>1, <3>4, <1>3 DEF TabShows, ShownAs
        <4>3. CASE flow.kind # "none"
          <5>1. flow.stage = "stats" /\ active \in edited'
            BY <1>1, <2>3, <4>3 DEF InFlight
          <5>2. QED  BY <5>1, <4>1, <4>3, <3>1, <3>4, <1>3 DEF TabShows, LoadShows
        <4>4. QED  BY <4>2, <4>3
      <3>5. QED  BY <3>3, <3>4
    <2>9. TabsShown(TabSet(tabs'), tabHistory', active', live', flow', mine', damaged', edited')
      BY <1>1, <2>8 DEF TabsShown
    <2>10. StoredFits'
      BY <2>3 DEF StoredFits
    <2>11. QED  BY <1>0, <1>1, <1>6, <1>7, <1>8, <1>9, <2>5, <2>7, <2>9, <2>10, TabsInvFrom
  <1>12. QED  BY <1>10, <1>11

LEMMA UseBenchKeeps == ASSUME TabsInv, UseBench PROVE TabsInv'
  <1>0. /\ RowFits(tabs, nextId) /\ RowFits(stored, nextId) /\ LiveFits /\ nextId \in Nat
        /\ nextId \in 1 .. MaxTabs + 1 /\ FlowFits(active, live, flow) /\ StoredFits
        /\ ActiveFits(TabSet(tabs), active, live, bench, flow) /\ DragHolds(tabs, nextId, drag)
        /\ active \in (1 .. nextId - 1) \cup {NoTab}
    BY TabsInvParts
  <1>1. /\ bench.on
        /\ UNCHANGED <<tabHistory, active, live, flow, closing, drag, stored, language,
                       nextId, damaged, edited>>
    BY DEF UseBench
  <1>2. bench.tab = active /\ ~live.on /\ active \in Open(tabs)
    BY <1>0, <1>1, TabsOpen DEF ActiveFits
  <1>3. PICK loadout \in {NoLoadout, Loadout} \ {bench.loadout} :
          /\ bench' = [bench EXCEPT !.loadout = loadout]
          /\ tabs' = [tabs EXCEPT ![TabAt(tabs, active)].content = loadout]
          /\ mine' = [mine EXCEPT ![active].content = loadout]
          /\ unsaved' = TRUE
    BY <1>2 DEF UseBench
  <1> DEFINE a == Tab(tabs, active)
  <1>4. loadout \in Contents
    BY DEF Contents
  <1>5. /\ Kin(tabs, tabs') /\ TabSet(tabs') = Rewritten(TabSet(tabs), active, loadout, a.community)
        /\ active \in Ids
    <2>1. active \in Ids
      BY <1>0, <1>2, TabPlace
    <2> DEFINE us == [tabs EXCEPT ![TabAt(tabs, active)].content = loadout]
    <2>2. Kin(tabs, us) /\ TabSet(us) = Rewritten(TabSet(tabs), active, loadout, a.community)
      BY <1>0, <1>2, <1>4, TabContentRewritten
    <2>3. tabs' = us
      BY <1>3
    <2> HIDE DEF us, a
    <2>4. QED  BY <2>1, <2>2, <2>3
  <1>6. RowFits(tabs', nextId') /\ Open(tabs') = Open(tabs)
    BY <1>0, <1>1, <1>5, KinFit
  <1>7. DragHolds(tabs', nextId', drag')
    BY <1>0, <1>1, <1>5, DragKin
  <1>8. bench' \in Benches /\ bench'.on /\ bench'.tab = active /\ bench'.loadout = loadout
    BY <1>0, <1>1, <1>2, <1>3, <1>4 DEF LiveFits, Benches
  <1>9. LiveFits'
    BY <1>0, <1>1, <1>8 DEF LiveFits
  <1>10. FlowFits(active', live', flow')
    BY <1>0, <1>1 DEF FlowFits
  <1>11. /\ mine' = [i \in Ids |-> mine'[i]] /\ \A i \in Ids : mine'[i] \in SeenTabs
         /\ mine'[active].content = loadout /\ \A i \in Ids : i # active => mine'[i] = mine[i]
         /\ \A i \in Ids : i >= nextId' => tabHistory'[i] = <<>>
    <2>1. [mine[active] EXCEPT !.content = loadout] \in SeenTabs
          /\ [mine[active] EXCEPT !.content = loadout].content = loadout
      BY <1>4, <1>5 DEF TabsInv, TabTypes, SeenTabs
    <2>2. mine' = [mine EXCEPT ![active] = [mine[active] EXCEPT !.content = loadout]]
      BY <1>3
    <2>3. QED  BY <1>1, <1>5, <2>1, <2>2 DEF TabsInv, TabTypes
  <1>12. TabSet(tabs) \subseteq TabRecords /\ (\A t \in TabSet(tabs) : t.id \in Ids)
         /\ a \in TabSet(tabs) /\ a.id = active /\ IsBench(a)
         /\ \A t \in TabSet(tabs) : t.id = active => t = a
    <2>1. TabSet(tabs) \subseteq TabRecords /\ (\A t \in TabSet(tabs) : t.id \in Ids)
         /\ a \in TabSet(tabs) /\ a.id = active /\ \A t \in TabSet(tabs) : t.id = active => t = a
      BY <1>0, <1>2, TabsAlone, TabPlace
    <2>2. QED  BY <2>1, <1>0, <1>2 DEF ActiveFits
  <1> HIDE DEF a
  <1>13. ASSUME NEW u \in TabSet(tabs')
         PROVE  \E t \in TabSet(tabs) :
                  u.id = t.id /\ IF t.id = active THEN u.content = loadout /\ IsBench(u) ELSE u = t
    <2>1. PICK t \in TabSet(tabs) : u.id = t.id /\ u.kind = t.kind
             /\ IF t.id = active THEN u.content = loadout ELSE u = t
      BY <1>5, <1>12, RewrittenTab
    <2>2. QED  BY <2>1, <1>12 DEF IsBench
  <1>14. ActiveFits(TabSet(tabs'), active', live', bench', flow')
    <2>1. \A u \in TabSet(tabs') : u.id = active => u.content = loadout /\ IsBench(u)
      BY <1>13
    <2>2. \E u \in TabSet(tabs') : u.id = active
      BY <1>2, <1>6, TabsOpen
    <2>3. flow.kind = "none"
      BY <1>0, <1>12 DEF ActiveFits
    <2>4. QED  BY <1>1, <1>2, <1>8, <2>1, <2>2, <2>3 DEF ActiveFits
  <1>15. ASSUME NEW u \in TabSet(tabs'), u.id \notin damaged
         PROVE  TabShows(u, tabHistory[u.id], active, live, flow, mine'[u.id], edited)
    <2>1. PICK t \in TabSet(tabs) :
                  u.id = t.id /\ IF t.id = active THEN u.content = loadout /\ IsBench(u) ELSE u = t
      BY <1>13
    <2>2. CASE t.id = active
      BY <2>1, <2>2, <1>11 DEF TabShows
    <2>3. CASE t.id # active
      <3>1. TabShows(t, tabHistory[t.id], active, live, flow, mine[t.id], edited)
        BY <1>15, <2>1 DEF TabsInv, TabsExpected, TabsShown
      <3>2. QED  BY <2>1, <2>3, <3>1, <1>11, <1>12
    <2>4. QED  BY <2>2, <2>3
  <1>16. TabsShown(TabSet(tabs'), tabHistory', active', live', flow', mine', damaged', edited')
    BY <1>1, <1>15 DEF TabsShown
  <1>17. StoredFits'
    BY <1>3 DEF StoredFits
  <1>18. QED  BY <1>0, <1>1, <1>6, <1>7, <1>9, <1>10, <1>11, <1>14, <1>16, <1>17, TabsInvFrom

(* The build is left. *)
LEMMA LeaveBuildKeeps ==
  ASSUME TabsInv, LeaveBuild, UNCHANGED <<flow, drag, unsaved, nextId, mine, edited>>
  PROVE  TabsInv'
  <1>0. /\ RowFits(tabs, nextId) /\ RowFits(stored, nextId) /\ LiveFits /\ nextId \in Nat
        /\ nextId \in 1 .. MaxTabs + 1 /\ FlowFits(active, live, flow) /\ StoredFits
        /\ ActiveFits(TabSet(tabs), active, live, bench, flow) /\ DragHolds(tabs, nextId, drag)
        /\ TabSet(tabs) \subseteq TabRecords /\ \A t \in TabSet(tabs) : t.id \in Open(tabs) /\ t.id # NoTab
    BY TabsInvParts
  <1>1. /\ bench' = [bench EXCEPT !.on = FALSE] /\ live' = Closed
        /\ damaged \subseteq damaged' /\ (Loading /\ active = flow.tab => active \in damaged')
    BY DEF LeaveBuild
  <1>2. bench' \in Benches /\ bench'.on = FALSE
    BY <1>0, <1>1 DEF LiveFits, Benches
  <1>3. /\ Open(tabs') = Open(tabs) /\ Kin(tabs, tabs') /\ active' = NoTab
        /\ (tabs' = tabs \/ (active \in Open(tabs) /\ \E content \in Contents :
                    TabSet(tabs') = Rewritten(TabSet(tabs), active, content, Tab(tabs, active).community)))
        /\ tabHistory' \in {tabHistory, HistoryFlushed(tabs)}
        /\ active = NoTab => UNCHANGED <<tabs, tabHistory, stored>>
        /\ active # NoTab => stored' = tabs' /\ tabHistory' = HistoryFlushed(tabs) /\ tabs' = Flushed(tabs)
    <2>1. CASE active = NoTab
      <3>1. UNCHANGED <<tabs, tabHistory, active, stored>>
        BY <2>1 DEF LeaveBuild
      <3>2. Kin(tabs, tabs)
        BY <1>0 DEF Kin, RowFits
      <3>3. QED  BY <2>1, <3>1, <3>2
    <2>2. CASE active # NoTab
      <3>1. tabs' = Flushed(tabs) /\ tabHistory' = HistoryFlushed(tabs) /\ active' = NoTab /\ stored' = tabs'
        BY <2>2 DEF LeaveBuild, Persist
      <3>2. /\ Kin(tabs, Flushed(tabs))
            /\ \/ Flushed(tabs) = tabs
               \/ /\ active \in Open(tabs)
                  /\ \E content \in Contents :
                       TabSet(Flushed(tabs))
                         = Rewritten(TabSet(tabs), active, content, Tab(tabs, active).community)
        BY <1>0, FlushedTabs
      <3>3. Open(Flushed(tabs)) = Open(tabs)
        BY <1>0, <3>2, KinFit
      <3>4. QED  BY <2>2, <3>1, <3>2, <3>3
    <2>3. QED  BY <2>1, <2>2
  <1>4. RowFits(tabs', nextId') /\ RowFits(stored', nextId')
    <2>1. RowFits(tabs', nextId')
      BY <1>0, <1>3, KinFit
    <2>2. QED  BY <2>1, <1>0, <1>3
  <1>5. DragHolds(tabs', nextId', drag')
    BY <1>0, <1>3, DragKin
  <1> DEFINE past == HistoryFlushed(tabs)
  <1>6. /\ past = [j \in Ids |-> past[j]] /\ \A j \in Ids : past[j] \in Seq(Contents)
        /\ \A j \in Ids : j # active \/ j \notin Open(tabs) => past[j] = tabHistory[j]
        /\ active \in Open(tabs) /\ ~IsBench(Tab(tabs, active)) /\ live.on => past[active] = live.history
    BY <1>0, PastFlushed
  <1> HIDE DEF past
  <1>7. LiveFits'
    <2>1. tabHistory' \in {tabHistory, past}
      BY <1>3 DEF past
    <2>2. QED  BY <1>0, <1>1, <1>2, <1>6, <2>1, TabConsts DEF LiveFits
  <1>8. \A id \in Ids : id >= nextId' => tabHistory'[id] = <<>>
    <2>1. \A id \in Ids : id >= nextId => id \notin Open(tabs)
      <3>1. \A t \in TabSet(tabs) : t.id \in Nat /\ t.id < nextId
        BY <1>0, TabsAlone, TabNumbers
      <3>2. QED  BY <3>1, <1>0, TabNumbers, TabsOpen
    <2>2. QED  BY <2>1, <1>3, <1>6 DEF TabsInv, TabTypes, past
  <1>9. FlowFits(active', live', flow')
    BY <1>0, <1>1, <1>3, TabConsts DEF FlowFits
  <1>10. \A t \in TabSet(tabs') : t.id # NoTab
    BY <1>0, <1>3, TabsOpen
  <1>11. ActiveFits(TabSet(tabs'), active', live', bench', flow')
    BY <1>2, <1>3, <1>10 DEF ActiveFits
  <1>12. \A t \in TabSet(tabs) : t.id \in Ids
    BY <1>0, TabsAlone
  <1>13. ASSUME NEW u \in TabSet(tabs'), u.id \notin damaged'
         PROVE  TabShows(u, tabHistory'[u.id], active', live', flow', mine'[u.id], edited)
    <2>1. PICK t \in TabSet(tabs) : u.id = t.id /\ u.kind = t.kind /\ (t.id # active => u = t)
      <3>1. CASE tabs' = tabs
        BY <3>1
      <3>2. CASE tabs' # tabs
        <4>1. PICK content \in Contents :
                 TabSet(tabs') = Rewritten(TabSet(tabs), active, content, Tab(tabs, active).community)
          BY <1>3, <3>2
        <4>2. QED  BY <4>1, <1>0, RewrittenTab
      <3>3. QED  BY <3>1, <3>2
    <2>2. TabShows(t, tabHistory[t.id], active, live, flow, mine[t.id], edited)
      BY <2>1, <1>1, <1>13 DEF TabsInv, TabsExpected, TabsShown
    <2>3. CASE t.id # active
      <3>1. tabHistory'[t.id] = tabHistory[t.id]
        BY <2>3, <1>3, <1>6, <1>12 DEF past
      <3>2. u.id # active'
        BY <1>3, <1>10
      <3>3. u = t
        BY <2>1, <2>3
      <3>4. QED  BY <2>2, <2>3, <3>1, <3>2, <3>3 DEF TabShows
    <2>4. CASE t.id = active
      <3>1. active \in Open(tabs) /\ active # NoTab /\ t = Tab(tabs, active)
        BY <1>0, <2>4, TabPlace
      <3>2. flow.kind = "none" \/ IsBench(t)
        <4> SUFFICES ASSUME flow.kind # "none", ~IsBench(t) PROVE FALSE
          OBVIOUS
        <4>1. live.on
          BY <1>0, <2>4 DEF ActiveFits
        <4>2. Loading /\ active = flow.tab
          BY <1>0, <4>1 DEF FlowFits, Loading, InFlight
        <4>3. QED  BY <4>2, <2>1, <2>4, <1>1, <1>13
      <3>3. flow.kind = "none"
        BY <1>0, <2>4, <3>2 DEF ActiveFits
      <3>4. tabs' = tabs
        BY <1>0, <1>3, <3>1, <3>3, QuietFlush DEF InFlight
      <3>5. u = t
        <4>1. u \in TabSet(tabs)
          BY <3>4
        <4>2. QED  BY <4>1, <2>1, <1>0, TabsAlone
      <3>6. CASE IsBench(t)
        BY <2>2, <3>5, <3>6 DEF TabShows
      <3>7. CASE ~IsBench(t)
        <4>1. live.on /\ t.content = live.build /\ t.community = live.community
          BY <1>0, <2>4, <3>3, <3>7 DEF ActiveFits
        <4>2. tabHistory'[active] = live.history
          BY <1>3, <1>6, <3>1, <3>7, <4>1 DEF past
        <4>3. t.id # active'
          BY <2>4, <3>1, <1>3
        <4>4. QED  BY <2>2, <2>4, <3>3, <3>5, <3>7, <4>1, <4>2, <4>3 DEF TabShows
      <3>8. QED  BY <3>6, <3>7
    <2>5. QED  BY <2>3, <2>4
  <1>14. TabsShown(TabSet(tabs'), tabHistory', active', live', flow', mine', damaged', edited')
    BY <1>13 DEF TabsShown
  <1>15. StoredFits'
    BY <1>0, <1>3 DEF StoredFits
  <1>16. mine' = [i \in Ids |-> mine'[i]] /\ \A i \in Ids : mine'[i] \in SeenTabs
    BY DEF TabsInv, TabTypes
  <1>17. nextId' \in 1 .. MaxTabs + 1
    BY <1>0
  <1>18. QED
    BY <1>3, <1>4, <1>5, <1>7, <1>8, <1>9, <1>11, <1>14, <1>15, <1>16, <1>17, TabsInvFrom

LEMMA BackKeeps == ASSUME TabsInv, Back PROVE TabsInv'
  BY LeaveBuildKeeps DEF Back

LEMMA SwitchLanguageKeeps == ASSUME TabsInv, SwitchLanguage PROVE TabsInv'
  <1>1. UNCHANGED <<flow, closing, drag, unsaved, nextId, mine, edited>>
    BY DEF SwitchLanguage
  <1>2. CASE live.on
    BY <1>1, <1>2, LeaveBuildKeeps DEF SwitchLanguage
  <1>3. CASE ~live.on
    <2>1. UNCHANGED <<tabs, tabHistory, active, live, bench, stored, damaged>>
      BY <1>3 DEF SwitchLanguage
    <2>2. /\ StoredFits /\ RowFits(stored, nextId) /\ DragHolds(tabs, nextId, drag)
      BY TabsInvParts
    <2>3. StoredFits'
      BY <1>1, <2>1, <2>2 DEF StoredFits, InFlight
    <2>4. QED  BY <1>1, <2>1, <2>2, <2>3, TabsUnmoved
  <1>4. QED  BY <1>2, <1>3

LEMMA CloseKeeps == ASSUME TabsInv, Close PROVE TabsInv'
  <1>1. UNCHANGED <<tabs, tabHistory, active, live, bench, flow, drag, unsaved, stored,
                    nextId, mine, damaged, edited>>
    BY DEF Close
  <1>2. /\ StoredFits /\ RowFits(stored, nextId) /\ DragHolds(tabs, nextId, drag)
    BY TabsInvParts
  <1>3. StoredFits'
    BY <1>1, <1>2 DEF StoredFits, InFlight
  <1>4. QED  BY <1>1, <1>2, <1>3, TabsUnmoved

LEMMA TimerKeeps == ASSUME TabsInv, TimerPersists PROVE TabsInv'
  <1>1. UNCHANGED <<tabs, tabHistory, active, live, bench, flow, drag, nextId, mine, damaged, edited>>
        /\ stored' = tabs
    BY DEF TimerPersists, Persist
  <1>2. RowFits(tabs, nextId) /\ DragHolds(tabs, nextId, drag)
    BY TabsInvParts
  <1>3. StoredFits'
    BY <1>1 DEF StoredFits
  <1>4. QED  BY <1>1, <1>2, <1>3, TabsUnmoved

--------------------------------------------------------------------------------
(* Tabs: a load, await by await.                                           *)
LEMMA LoadFacts ==
  ASSUME TabsInv, flow.stage \notin {"none", "preparing"}, live.on
  PROVE  /\ active = flow.tab /\ live.community = NoTab /\ InFlight /\ Loading
         /\ active # NoTab /\ active \in 1 .. nextId - 1
  <1>1. FlowFits(active, live, flow) /\ active \in (1 .. nextId - 1) \cup {NoTab}
        /\ bench \in Benches /\ flow \in TabFlows
    BY TabsInvParts DEF LiveFits
  <1>2. active = flow.tab /\ live.community = NoTab /\ InFlight /\ Loading
    BY <1>1 DEF FlowFits, InFlight, Loading
  <1>3. active # NoTab
    BY <1>1, <1>2 DEF FlowFits
  <1>4. QED  BY <1>1, <1>2, <1>3

(* The parts of the tab being loaded come or do not, its record untouched. *)
LEMMA LoadMoves ==
  ASSUME TabsInv, live.on, flow.stage \notin {"none", "preparing", "stats"},
         NEW b \in Contents, NEW s \in {"ammo", "parts", "draw"}, flow.kind = "pick" => s = "ammo",
         live' = [live EXCEPT !.build = b], flow' = [flow EXCEPT !.stage = s],
         damaged \subseteq damaged',
         \/ flow.tab \in damaged'
         \/ s = "draw" \/ (s = "ammo" /\ flow.kind = "pick") => b = flow.build,
         UNCHANGED <<tabs, tabHistory, active, bench, drag, unsaved, stored, nextId, mine, edited>>
  PROVE  TabsInv'
  <1>0. /\ RowFits(tabs, nextId) /\ RowFits(stored, nextId) /\ LiveFits /\ nextId \in Nat
        /\ nextId \in 1 .. MaxTabs + 1 /\ FlowFits(active, live, flow)
        /\ ActiveFits(TabSet(tabs), active, live, bench, flow) /\ DragHolds(tabs, nextId, drag)
        /\ active \in (1 .. nextId - 1) \cup {NoTab}
    BY TabsInvParts
  <1>1. active = flow.tab /\ live.community = NoTab /\ InFlight
    BY LoadFacts
  <1>2. live' \in LiveBuilds /\ live'.on /\ live'.build = b /\ live'.community = NoTab
        /\ live'.history = live.history
    BY <1>0, <1>1 DEF LiveFits, LiveBuilds
  <1>3. flow' \in TabFlows /\ flow'.stage = s /\ flow'.kind = flow.kind /\ flow'.tab = flow.tab
        /\ flow'.build = flow.build /\ flow'.community = flow.community
    BY <1>0 DEF LiveFits, TabFlows
  <1>4. flow.kind # "none"
    BY <1>1 DEF InFlight
  <1>5. LiveFits'
    BY <1>0, <1>2, <1>3 DEF LiveFits
  <1>6. FlowFits(active', live', flow')
    BY <1>0, <1>1, <1>2, <1>3, <1>4 DEF FlowFits
  <1>7. ActiveFits(TabSet(tabs'), active', live', bench', flow')
    BY <1>0, <1>2, <1>3, <1>4 DEF ActiveFits
  <1>8. ASSUME NEW t \in TabSet(tabs), t.id \notin damaged'
        PROVE  TabShows(t, tabHistory[t.id], active, live', flow', mine[t.id], edited)
    <2>1. TabShows(t, tabHistory[t.id], active, live, flow, mine[t.id], edited)
      BY <1>8 DEF TabsInv, TabsExpected, TabsShown
    <2>2. CASE IsBench(t) \/ t.id # active
      BY <2>1, <2>2 DEF TabShows
    <2>3. CASE ~IsBench(t) /\ t.id = active
      <3>1. LoadShows(t.id, mine[t.id], edited, tabHistory[t.id], live, flow)
            /\ mine[t.id].community \in {NoTab, mine[t.id].content}
        BY <2>1, <2>3, <1>4 DEF TabShows
      <3>2. s = "draw" \/ (s = "ammo" /\ flow.kind = "pick") => b = flow.build
        BY <2>3, <1>1, <1>8
      <3>3. LoadShows(t.id, mine[t.id], edited, tabHistory[t.id], live', flow')
        BY <3>1, <3>2, <1>2, <1>3 DEF LoadShows
      <3>4. QED  BY <3>1, <3>3, <2>3, <1>3, <1>4 DEF TabShows
    <2>4. QED  BY <2>2, <2>3
  <1>9. TabsShown(TabSet(tabs'), tabHistory', active', live', flow', mine', damaged', edited')
    BY <1>8 DEF TabsShown
  <1>10. StoredFits'
    <2>1. InFlight' /\ active' # NoTab
      BY <1>3, <1>4, LoadFacts DEF InFlight
    <2>2. QED  BY <2>1 DEF StoredFits
  <1>11. mine' = [i \in Ids |-> mine'[i]] /\ (\A i \in Ids : mine'[i] \in SeenTabs)
         /\ \A id \in Ids : id >= nextId' => tabHistory'[id] = <<>>
    BY DEF TabsInv, TabTypes
  <1>12. QED  BY <1>0, <1>5, <1>6, <1>7, <1>9, <1>10, <1>11, TabsInvFrom

LEMMA LoadAbandonedKeeps == ASSUME TabsInv, LoadAbandoned PROVE TabsInv'
  <1>0. /\ RowFits(tabs, nextId) /\ RowFits(stored, nextId) /\ LiveFits /\ nextId \in Nat
        /\ nextId \in 1 .. MaxTabs + 1 /\ FlowFits(active, live, flow) /\ StoredFits
        /\ ActiveFits(TabSet(tabs), active, live, bench, flow) /\ DragHolds(tabs, nextId, drag)
        /\ active \in (1 .. nextId - 1) \cup {NoTab}
        /\ \A t \in TabSet(tabs) : t.id # NoTab
    BY TabsInvParts
  <1>1. /\ Loading /\ ~live.on /\ flow' = NoFlow
        /\ UNCHANGED <<tabs, tabHistory, active, live, bench, drag, unsaved, stored, nextId, mine,
                       damaged, edited>>
    BY DEF LoadAbandoned
  <1>2. active = NoTab
    BY <1>0, <1>1 DEF FlowFits, Loading, InFlight
  <1>3. LiveFits' /\ FlowFits(active', live', flow')
    BY <1>0, <1>1, TabConsts DEF LiveFits, FlowFits
  <1>4. ActiveFits(TabSet(tabs'), active', live', bench', flow')
    BY <1>0, <1>1, <1>2 DEF ActiveFits
  <1>5. TabsShown(TabSet(tabs'), tabHistory', active', live', flow', mine', damaged', edited')
    BY <1>0, <1>1, <1>2 DEF TabsInv, TabsExpected, TabsShown, TabShows
  <1>6. StoredFits'
    BY <1>0, <1>1, <1>2 DEF StoredFits
  <1>7. mine' = [i \in Ids |-> mine'[i]] /\ (\A i \in Ids : mine'[i] \in SeenTabs)
         /\ \A id \in Ids : id >= nextId' => tabHistory'[id] = <<>>
    BY <1>1 DEF TabsInv, TabTypes
  <1>8. QED  BY <1>0, <1>1, <1>3, <1>4, <1>5, <1>6, <1>7, TabsInvFrom

LEMMA InitLoadedKeeps == ASSUME TabsInv, InitLoaded PROVE TabsInv'
  <1>1. PICK ok \in BOOLEAN :
          /\ live' = [live EXCEPT !.build = IF ok THEN Factory ELSE Bare]
          /\ flow' = [flow EXCEPT !.stage = IF ok \/ flow.kind = "pick" THEN "ammo" ELSE "parts"]
          /\ damaged' = IF ok THEN damaged ELSE damaged \cup {flow.tab}
    BY DEF InitLoaded
  <1>2. /\ flow.stage = "init" /\ live.on /\ Factory \in Contents /\ Bare \in Contents
        /\ UNCHANGED <<tabs, tabHistory, active, bench, drag, unsaved, stored, nextId, mine, edited>>
    BY TabConstants DEF InitLoaded, Contents
  <1>3. flow.kind = "pick" => flow.build = Factory
    BY <1>2, TabsInvParts DEF FlowFits
  <1>4. CASE ok
    <2>1. live' = [live EXCEPT !.build = Factory] /\ flow' = [flow EXCEPT !.stage = "ammo"]
          /\ damaged' = damaged
      BY <1>1, <1>4
    <2>2. QED  BY <1>2, <1>3, <2>1, LoadMoves
  <1>5. CASE ~ok
    <2>1. live' = [live EXCEPT !.build = Bare] /\ damaged' = damaged \cup {flow.tab}
          /\ flow' = [flow EXCEPT !.stage = IF flow.kind = "pick" THEN "ammo" ELSE "parts"]
      BY <1>1, <1>5
    <2>2. QED  BY <1>2, <2>1, LoadMoves
  <1>6. QED  BY <1>4, <1>5

LEMMA PartsLoadedKeeps == ASSUME TabsInv, PartsLoaded PROVE TabsInv'
  <1>1. PICK ok \in BOOLEAN :
          /\ live' = [live EXCEPT !.build = IF ok THEN flow.build ELSE Bare]
          /\ damaged' = IF ok \/ flow.build = Bare THEN damaged ELSE damaged \cup {flow.tab}
    BY DEF PartsLoaded
  <1>2. /\ flow.stage = "parts" /\ live.on /\ flow' = [flow EXCEPT !.stage = "draw"]
        /\ flow.build \in Contents /\ Bare \in Contents
        /\ UNCHANGED <<tabs, tabHistory, active, bench, drag, unsaved, stored, nextId, mine, edited>>
    BY TabConstants, TabsInvParts DEF PartsLoaded, LiveFits, TabFlows, Contents
  <1>3. flow.kind # "pick"
    BY <1>2, TabsInvParts DEF FlowFits
  <1> DEFINE b == IF ok THEN flow.build ELSE Bare
  <1>4. b \in Contents /\ live' = [live EXCEPT !.build = b] /\ damaged \subseteq damaged'
        /\ (flow.tab \in damaged' \/ b = flow.build)
    BY <1>1, <1>2
  <1> HIDE DEF b
  <1>5. QED  BY <1>2, <1>3, <1>4, LoadMoves

LEMMA TreeDrawnKeeps == ASSUME TabsInv, TreeDrawn PROVE TabsInv'
  <1>0. /\ RowFits(tabs, nextId) /\ RowFits(stored, nextId) /\ LiveFits /\ nextId \in Nat
        /\ nextId \in 1 .. MaxTabs + 1 /\ FlowFits(active, live, flow)
        /\ ActiveFits(TabSet(tabs), active, live, bench, flow) /\ DragHolds(tabs, nextId, drag)
        /\ active \in (1 .. nextId - 1) \cup {NoTab}
        /\ TabSet(tabs) \subseteq TabRecords
    BY TabsInvParts
  <1>1. /\ flow.stage = "draw" /\ live.on /\ live' = Attributed(live) /\ tabs' = Synced(tabs, live)
        /\ flow' = [flow EXCEPT !.stage = "stats"]
        /\ UNCHANGED <<tabHistory, active, bench, drag, stored, nextId, mine, damaged, edited>>
    BY DEF TreeDrawn
  <1>2. active = flow.tab /\ live.community = NoTab /\ InFlight /\ active # NoTab
    BY <1>1, LoadFacts
  <1>3. /\ live' \in LiveBuilds /\ live'.on /\ live'.build = live.build
        /\ live'.history = live.history /\ live'.community = NoTab /\ live \in LiveBuilds
    BY <1>0, <1>1, <1>2, AttributedFits DEF LiveFits
  <1>4. flow' \in TabFlows /\ flow'.stage = "stats" /\ flow'.kind = flow.kind /\ flow'.tab = flow.tab
        /\ flow'.build = flow.build /\ flow'.community = flow.community
    BY <1>0, <1>1 DEF LiveFits, TabFlows
  <1>5. flow.kind # "none" /\ flow.kind # "pick"
    BY <1>0, <1>1, <1>2 DEF InFlight, FlowFits
  <1>6. Kin(tabs, tabs')
    BY <1>0, <1>1, <1>3, SyncedTabs
  <1>7. RowFits(tabs', nextId') /\ Open(tabs') = Open(tabs)
    BY <1>0, <1>1, <1>6, KinFit
  <1>8. DragHolds(tabs', nextId', drag')
    BY <1>0, <1>1, <1>6, DragKin
  <1>9. LiveFits' /\ FlowFits(active', live', flow')
    BY <1>0, <1>1, <1>2, <1>3, <1>4, <1>5 DEF LiveFits, FlowFits
  <1>10. ASSUME NEW u \in TabSet(tabs')
         PROVE  \E t \in TabSet(tabs) : /\ u.id = t.id /\ u.kind = t.kind /\ (t.id # active => u = t)
    <2>1. \/ tabs' = tabs
          \/ TabSet(tabs') = Rewritten(TabSet(tabs), active, live.build, Attributed(live).community)
      BY <1>0, <1>1, <1>3, SyncedTabs
    <2>2. CASE tabs' = tabs
      BY <2>2
    <2>3. CASE TabSet(tabs') = Rewritten(TabSet(tabs), active, live.build, Attributed(live).community)
      BY <2>3, <1>0, RewrittenTab
    <2>4. QED  BY <2>1, <2>2, <2>3
  <1>11. ~bench.on /\ \A t \in TabSet(tabs) : t.id = active => ~IsBench(t)
    BY <1>0, <1>1 DEF ActiveFits
  <1>12. ActiveFits(TabSet(tabs'), active', live', bench', flow')
    <2>1. \A u \in TabSet(tabs') : u.id = active => ~IsBench(u)
      BY <1>10, <1>11 DEF IsBench
    <2>2. QED  BY <2>1, <1>1, <1>3, <1>4, <1>5, <1>11 DEF ActiveFits
  <1>13. ASSUME NEW u \in TabSet(tabs'), u.id \notin damaged
         PROVE  TabShows(u, tabHistory[u.id], active, live', flow', mine[u.id], edited)
    <2>1. PICK t \in TabSet(tabs) : u.id = t.id /\ u.kind = t.kind /\ (t.id # active => u = t)
      BY <1>10
    <2>2. TabShows(t, tabHistory[t.id], active, live, flow, mine[t.id], edited)
      BY <1>13, <2>1 DEF TabsInv, TabsExpected, TabsShown
    <2>3. CASE t.id # active
      BY <2>1, <2>2, <2>3 DEF TabShows
    <2>4. CASE t.id = active
      <3>1. /\ mine[t.id].community \in {NoTab, mine[t.id].content}
            /\ LoadShows(t.id, mine[t.id], edited, tabHistory[t.id], live, flow)
        BY <2>2, <2>4, <1>5, <1>11 DEF TabShows
      <3>2. LoadShows(t.id, mine[t.id], edited, tabHistory[t.id], live', flow')
        BY <3>1, <1>1, <1>3, <1>4 DEF LoadShows
      <3>3. ~IsBench(u)
        BY <2>1, <2>4, <1>11 DEF IsBench
      <3>4. QED  BY <3>1, <3>2, <3>3, <2>1, <2>4, <1>4, <1>5 DEF TabShows
    <2>5. QED  BY <2>3, <2>4
  <1>14. TabsShown(TabSet(tabs'), tabHistory', active', live', flow', mine', damaged', edited')
    BY <1>1, <1>13 DEF TabsShown
  <1>15. StoredFits'
    <2>1. InFlight' /\ active' # NoTab
      BY <1>1, <1>2, <1>4, <1>5 DEF InFlight
    <2>2. QED  BY <2>1 DEF StoredFits
  <1>16. mine' = [i \in Ids |-> mine'[i]] /\ (\A i \in Ids : mine'[i] \in SeenTabs)
         /\ \A id \in Ids : id >= nextId' => tabHistory'[id] = <<>>
    BY <1>1 DEF TabsInv, TabTypes
  <1>17. QED  BY <1>0, <1>1, <1>7, <1>8, <1>9, <1>12, <1>14, <1>15, <1>16, TabsInvFrom

LEMMA LoadEndsKeeps == ASSUME TabsInv, LoadEnds PROVE TabsInv'
  <1> DEFINE l == [live EXCEPT !.community = flow.community]
             past == IF flow.kind = "activate" THEN tabHistory[flow.tab] ELSE live.history
  <1>0. /\ RowFits(tabs, nextId) /\ RowFits(stored, nextId) /\ LiveFits /\ nextId \in Nat
        /\ nextId \in 1 .. MaxTabs + 1 /\ FlowFits(active, live, flow)
        /\ ActiveFits(TabSet(tabs), active, live, bench, flow) /\ DragHolds(tabs, nextId, drag)
        /\ active \in (1 .. nextId - 1) \cup {NoTab}
        /\ TabSet(tabs) \subseteq TabRecords
    BY TabsInvParts
  <1>1. /\ flow.stage = "stats" /\ live.on /\ live' = [Attributed(l) EXCEPT !.history = past]
        /\ tabs' = Synced(tabs, l) /\ unsaved' = TRUE /\ flow' = NoFlow
        /\ stored' \in {stored, tabs'}
        /\ UNCHANGED <<tabHistory, active, bench, drag, nextId, mine, damaged, edited>>
    BY DEF LoadEnds, Persist
  <1>2. active = flow.tab /\ flow.kind \notin {"none", "pick"} /\ active \in 1 .. nextId - 1 /\ active \in Ids
    <2>1. active = flow.tab /\ InFlight /\ active \in 1 .. nextId - 1
      BY <1>1, LoadFacts
    <2>2. QED  BY <2>1, <1>0, <1>1, TabNumbers DEF FlowFits, InFlight, Ids
  <1>3. past \in Seq(Contents)
    BY <1>0, <1>2 DEF LiveFits, LiveBuilds
  <1>4. l \in LiveBuilds /\ l.on /\ l.build = live.build /\ l.community = flow.community
    BY <1>0, <1>1 DEF LiveFits, LiveBuilds, TabFlows
  <1> HIDE DEF past, l
  <1>5. Attributed(l) \in LiveBuilds /\ Attributed(l).on /\ Attributed(l).build = live.build
        /\ Attributed(l).community = IF flow.community = live.build THEN flow.community ELSE NoTab
    BY <1>4, AttributedFits
  <1>6. live' \in LiveBuilds /\ live'.on /\ live'.build = live.build /\ live'.history = past
        /\ live'.community = Attributed(l).community
    BY <1>1, <1>3, <1>5 DEF LiveBuilds
  <1>7. Kin(tabs, tabs')
    BY <1>0, <1>1, <1>4, SyncedTabs
  <1>8. RowFits(tabs', nextId) /\ Open(tabs') = Open(tabs)
    BY <1>0, <1>7, KinFit
  <1>9. RowFits(tabs', nextId') /\ RowFits(stored', nextId')
    BY <1>0, <1>1, <1>8
  <1>10. DragHolds(tabs', nextId', drag')
    BY <1>0, <1>1, <1>7, DragKin
  <1>11. LiveFits'
    BY <1>0, <1>1, <1>6, TabConsts DEF LiveFits
  <1>12. FlowFits(active', live', flow')
    BY <1>1, TabConsts DEF FlowFits
  <1>13. ~bench.on /\ \A t \in TabSet(tabs) : t.id = active => ~IsBench(t)
    BY <1>0, <1>1 DEF ActiveFits
  <1>14. ASSUME NEW u \in TabSet(tabs')
         PROVE  \E t \in TabSet(tabs) :
                  /\ u.id = t.id /\ u.kind = t.kind
                  /\ IF t.id = active THEN u.content = live.build /\ u.community = live'.community ELSE u = t
    <2>1. CASE active \in Open(tabs)
      <3>1. ~IsBench(Tab(tabs, active))
        <4>1. RowFits(tabs, nextId)
          BY <1>0
        <4>2. Tab(tabs, active) \in TabSet(tabs) /\ Tab(tabs, active).id = active
          BY <4>1, <2>1, TabPlace
        <4>3. QED  BY <4>2, <1>13
      <3>2. TabSet(tabs') = Rewritten(TabSet(tabs), active, l.build, Attributed(l).community)
        BY <1>0, <1>1, <1>4, <2>1, <3>1, SyncedTabs
      <3>3. QED  BY <3>2, <1>0, <1>4, <1>6, RewrittenTab
    <2>2. CASE active \notin Open(tabs)
      <3>1. tabs' = tabs
        BY <1>0, <1>1, <1>4, <2>2, SyncedTabs
      <3>2. u \in TabSet(tabs) /\ u.id # active
        BY <3>1, <2>2, TabsOpen
      <3>3. QED  BY <3>2
    <2>3. QED  BY <2>1, <2>2
  <1>15. ActiveFits(TabSet(tabs'), active', live', bench', flow')
    <2>1. \A u \in TabSet(tabs') : u.id = active =>
            ~IsBench(u) /\ u.content = live.build /\ u.community = live'.community
      BY <1>14, <1>13 DEF IsBench
    <2>2. QED  BY <2>1, <1>1, <1>6, <1>13, TabConsts DEF ActiveFits
  <1>16. ASSUME NEW u \in TabSet(tabs'), u.id \notin damaged
         PROVE  TabShows(u, tabHistory[u.id], active, live', flow', mine[u.id], edited)
    <2>1. PICK t \in TabSet(tabs) :
                  /\ u.id = t.id /\ u.kind = t.kind
                  /\ IF t.id = active THEN u.content = live.build /\ u.community = live'.community ELSE u = t
      BY <1>14
    <2>2. TabShows(t, tabHistory[t.id], active, live, flow, mine[t.id], edited)
      BY <1>16, <2>1 DEF TabsInv, TabsExpected, TabsShown
    <2>3. CASE t.id # active
      BY <2>1, <2>2, <2>3 DEF TabShows
    <2>4. CASE t.id = active
      <3> DEFINE m == mine[active]
      <3>1. /\ m.community \in {NoTab, m.content}
            /\ LoadShows(active, m, edited, tabHistory[active], live, flow)
        BY <2>2, <2>4, <1>2, <1>13 DEF TabShows
      <3> HIDE DEF m
      <3>2. live.build = m.content
        BY <3>1, <1>1 DEF LoadShows
      <3>3. active \in edited \/ (live'.community = m.community /\ past = m.history)
        <4> SUFFICES ASSUME active \notin edited PROVE live'.community = m.community /\ past = m.history
          OBVIOUS
        <4>1. /\ flow.build = m.content /\ flow.community = m.community /\ live.history = <<>>
              /\ m.history = IF flow.kind = "activate" THEN tabHistory[active] ELSE <<>>
          BY <3>1 DEF LoadShows
        <4>2. past = m.history
          BY <4>1, <1>2 DEF past
        <4>3. live'.community = m.community
          BY <4>1, <3>1, <3>2, <1>5, <1>6
        <4>4. QED  BY <4>2, <4>3
      <3>4. ~IsBench(u)
        BY <2>1, <2>4, <1>13 DEF IsBench
      <3>5. QED  BY <3>1, <3>2, <3>3, <3>4, <2>1, <2>4, <1>1, <1>6, TabConsts DEF TabShows, ShownAs, m
    <2>5. QED  BY <2>3, <2>4
  <1>17. TabsShown(TabSet(tabs'), tabHistory', active', live', flow', mine', damaged', edited')
    BY <1>1, <1>16 DEF TabsShown
  <1>18. StoredFits'
    BY <1>1 DEF StoredFits
  <1>19. mine' = [i \in Ids |-> mine'[i]] /\ (\A i \in Ids : mine'[i] \in SeenTabs)
         /\ \A id \in Ids : id >= nextId' => tabHistory'[id] = <<>>
    BY <1>1 DEF TabsInv, TabTypes
  <1>20. QED  BY <1>0, <1>1, <1>9, <1>10, <1>11, <1>12, <1>15, <1>17, <1>18, <1>19, TabsInvFrom

LEMMA WeaponShownKeeps == ASSUME TabsInv, WeaponShown PROVE TabsInv'
  <1>0. /\ RowFits(tabs, nextId) /\ RowFits(stored, nextId) /\ LiveFits /\ nextId \in Nat
        /\ nextId \in 1 .. MaxTabs + 1 /\ FlowFits(active, live, flow)
        /\ ActiveFits(TabSet(tabs), active, live, bench, flow) /\ DragHolds(tabs, nextId, drag)
        /\ active \in (1 .. nextId - 1) \cup {NoTab}
        /\ TabSet(tabs) \subseteq TabRecords
    BY TabsInvParts
  <1>1. /\ flow.stage = "ammo" /\ live.on
        /\ UNCHANGED <<closing, drag, unsaved, language, nextId, mine, edited>>
    BY DEF WeaponShown
  <1>2. active = flow.tab /\ live.community = NoTab /\ flow.kind # "none" /\ active # NoTab
    BY <1>1, LoadFacts DEF InFlight
  <1>3. CASE flow.kind # "pick"
    <2>1. /\ live' = [live EXCEPT !.build = Bare]
          /\ flow' = [flow EXCEPT !.stage = IF flow.build = Bare THEN "draw" ELSE "parts"]
          /\ UNCHANGED <<tabs, tabHistory, active, bench, stored, damaged>>
      BY <1>3 DEF WeaponShown
    <2>2. Bare \in Contents
      BY TabConstants DEF Contents
    <2> DEFINE s == IF flow.build = Bare THEN "draw" ELSE "parts"
    <2>3. s \in {"ammo", "parts", "draw"} /\ flow' = [flow EXCEPT !.stage = s]
          /\ (s = "draw" => Bare = flow.build) /\ s # "ammo"
      BY <2>1
    <2> HIDE DEF s
    <2>4. QED  BY <1>1, <1>3, <2>1, <2>2, <2>3, LoadMoves
  <1>4. CASE flow.kind = "pick"
    <2> DEFINE written == IF active \in Open(tabs)
                          THEN [tabs EXCEPT ![TabAt(tabs, active)].content = live.build] ELSE tabs
               rest == Without(written, active)
               c == Tab(tabs, active).community
    <2>1. /\ IF Duplicates(rest, live.build) # {}
             THEN Activate(rest, FirstDuplicate(rest, live.build), rest)
             ELSE /\ tabs' = written /\ flow' = NoFlow /\ stored' = written
                  /\ UNCHANGED <<tabHistory, active, live, bench>>
          /\ UNCHANGED damaged
      BY <1>2, <1>4 DEF WeaponShown, Persist
    <2>2. /\ Kin(tabs, written)
          /\ IF active \in Open(tabs) THEN TabSet(written) = Rewritten(TabSet(tabs), active, live.build, c)
             ELSE written = tabs
      <3>1. Kin(tabs, tabs)
        BY <1>0 DEF Kin, RowFits
      <3>2. live.build \in Contents
        BY <1>0 DEF LiveFits, LiveBuilds
      <3>3. CASE active \in Open(tabs)
        BY <1>0, <3>2, <3>3, TabContentRewritten
      <3>4. QED  BY <3>1, <3>3
    <2> HIDE DEF written
    <2>3. RowFits(written, nextId) /\ Open(written) = Open(tabs)
      BY <1>0, <2>2, KinFit
    <2>4. DragHolds(written, nextId, drag)
      BY <1>0, <2>2, DragKin
    <2>5. /\ RowFits(rest, nextId) /\ Open(rest) = Open(tabs) \ {active}
          /\ TabSet(rest) = {t \in TabSet(written) : t.id # active}
      BY <2>3, TabsWithout
    <2>6. DragHolds(rest, nextId, drag)
      BY <2>3, <2>4, DragWithout
    <2> HIDE DEF rest
    <2>7. ~bench.on /\ \A t \in TabSet(tabs) : t.id = active => ~IsBench(t) /\ t.community = NoTab
      BY <1>0, <1>1, <1>4 DEF ActiveFits
    <2>8. ASSUME NEW u \in TabSet(written)
          PROVE  \E t \in TabSet(tabs) :
                   /\ u.id = t.id /\ u.kind = t.kind
                   /\ IF t.id = active THEN u.content = live.build /\ u.community = NoTab ELSE u = t
      <3>1. CASE active \in Open(tabs)
        <4>1. c = NoTab
          BY <1>0, <2>7, <3>1, TabPlace
        <4>2. TabSet(written) = Rewritten(TabSet(tabs), active, live.build, NoTab)
          BY <2>2, <3>1, <4>1
        <4>3. QED  BY <1>0, <4>2, RewrittenTab
      <3>2. CASE active \notin Open(tabs)
        <4>1. u \in TabSet(tabs) /\ u.id # active
          BY <2>2, <3>2, TabsOpen
        <4>2. QED  BY <4>1
      <3>3. QED  BY <3>1, <3>2
    <2>9. mine' = [i \in Ids |-> mine'[i]] /\ (\A i \in Ids : mine'[i] \in SeenTabs)
      BY <1>1 DEF TabsInv, TabTypes
    <2>10. CASE Duplicates(rest, live.build) # {}
      <3> DEFINE id == FirstDuplicate(rest, live.build)
      <3>1. id \in Open(rest) /\ Activate(rest, id, rest)
        BY <2>1, <2>5, <2>10, FirstDuplicateOpen
      <3>2. active \notin Open(rest) /\ active # id
        BY <2>5, <3>1
      <3>3. \A t \in TabSet(rest) : t \in TabSet(tabs) /\ t.id # active
        BY <2>5, <2>8
      <3>4. ActiveFits(TabSet(rest), active, live, bench, flow)
        BY <2>7, <3>3 DEF ActiveFits
      <3>5. TabsShown(TabSet(rest), tabHistory, active, live, flow, mine', damaged', edited')
        BY <1>1, <2>1, <3>3 DEF TabsInv, TabsExpected, TabsShown
      <3>6. /\ nextId' \in 1 .. MaxTabs + 1 /\ nextId <= nextId' /\ RowFits(rest, nextId')
            /\ DragHolds(rest, nextId', drag') /\ unsaved' = unsaved
        BY <1>0, <1>1, <2>5, <2>6
      <3> HIDE DEF id
      <3>7. QED  BY <2>9, <3>1, <3>2, <3>4, <3>5, <3>6, TabBroughtUp
    <2>11. CASE Duplicates(rest, live.build) = {}
      <3>1. /\ tabs' = written /\ flow' = NoFlow /\ stored' = written
            /\ UNCHANGED <<tabHistory, active, live, bench, damaged>>
        BY <2>1, <2>11
      <3>2. LiveFits' /\ FlowFits(active', live', flow')
        BY <1>0, <3>1, TabConsts DEF LiveFits, FlowFits
      <3>3. \A u \in TabSet(tabs') : u.id = active =>
              ~IsBench(u) /\ u.content = live.build /\ u.community = NoTab
        BY <2>7, <2>8, <3>1 DEF IsBench
      <3>4. ActiveFits(TabSet(tabs'), active', live', bench', flow')
        BY <1>1, <1>2, <2>7, <3>1, <3>3, TabConsts DEF ActiveFits
      <3>5. ASSUME NEW u \in TabSet(tabs'), u.id \notin damaged
            PROVE  TabShows(u, tabHistory[u.id], active, live, flow', mine[u.id], edited)
        <4>1. PICK t \in TabSet(tabs) :
                   /\ u.id = t.id /\ u.kind = t.kind
                   /\ IF t.id = active THEN u.content = live.build /\ u.community = NoTab ELSE u = t
          BY <2>8, <3>1
        <4>2. TabShows(t, tabHistory[t.id], active, live, flow, mine[t.id], edited)
          BY <3>5, <4>1 DEF TabsInv, TabsExpected, TabsShown
        <4>3. CASE t.id # active
          BY <4>1, <4>2, <4>3 DEF TabShows
        <4>4. CASE t.id = active
          <5>1. /\ mine[t.id].community \in {NoTab, mine[t.id].content}
                /\ LoadShows(t.id, mine[t.id], edited, tabHistory[t.id], live, flow)
            BY <4>2, <4>4, <1>2, <2>7 DEF TabShows
          <5>2. ShownAs(t.id, mine[t.id], edited, live.build, live.community, live.history)
            BY <5>1, <1>0, <1>1, <1>2, <1>4 DEF LoadShows, ShownAs, FlowFits
          <5>3. ~IsBench(u)
            BY <3>3, <4>1, <4>4
          <5>4. QED  BY <5>1, <5>2, <5>3, <3>1, <4>1, <4>4, TabConsts DEF TabShows
        <4>5. QED  BY <4>3, <4>4
      <3>6. TabsShown(TabSet(tabs'), tabHistory', active', live', flow', mine', damaged', edited')
        BY <1>1, <3>1, <3>5 DEF TabsShown
      <3>7. StoredFits'
        BY <3>1 DEF StoredFits
      <3>8. /\ RowFits(tabs', nextId') /\ RowFits(stored', nextId') /\ nextId' \in 1 .. MaxTabs + 1
            /\ active' \in (1 .. nextId' - 1) \cup {NoTab} /\ DragHolds(tabs', nextId', drag')
            /\ \A id \in Ids : id >= nextId' => tabHistory'[id] = <<>>
        BY <1>0, <1>1, <2>3, <2>4, <3>1 DEF TabsInv, TabTypes
      <3>9. QED  BY <2>9, <3>2, <3>4, <3>6, <3>7, <3>8, TabsInvFrom
    <2>12. QED  BY <2>10, <2>11
  <1>5. QED  BY <1>3, <1>4

(* closeTab: the tab goes and the one in its place is brought up.          *)
LEMMA ChipGoneKeeps == ASSUME TabsInv, ChipGone PROVE TabsInv'
  <1>0. /\ RowFits(tabs, nextId) /\ RowFits(stored, nextId) /\ LiveFits /\ nextId \in Nat
        /\ nextId \in 1 .. MaxTabs + 1 /\ FlowFits(active, live, flow) /\ StoredFits
        /\ ActiveFits(TabSet(tabs), active, live, bench, flow) /\ DragHolds(tabs, nextId, drag)
        /\ active \in (1 .. nextId - 1) \cup {NoTab}
        /\ \A t \in TabSet(tabs) : t.id # NoTab
    BY TabsInvParts
  <1>1. PICK id \in closing :
          LET left == Without(tabs, id)
              next == left[IF TabAt(tabs, id) <= Len(left) THEN TabAt(tabs, id) ELSE Len(left)]
          IN /\ closing' = closing \ {id}
             /\ damaged' = IF active = id /\ InFlight THEN damaged \cup {id} ELSE damaged
             /\ IF id \notin Open(tabs)
                THEN UNCHANGED <<tabs, tabHistory, active, live, bench, flow, stored>>
                ELSE IF active # id
                THEN /\ tabs' = left /\ Persist(left)
                     /\ UNCHANGED <<tabHistory, active, live, bench, flow>>
                ELSE IF left = <<>>
                THEN /\ tabs' = left /\ active' = NoTab /\ Persist(left)
                     /\ live' = Closed /\ bench' = [bench EXCEPT !.on = FALSE]
                     /\ UNCHANGED <<tabHistory, flow>>
                ELSE SwitchTo(left, next.id)
             /\ UNCHANGED <<drag, unsaved, language, nextId, mine, edited>>
    BY DEF ChipGone
  <1> DEFINE left == Without(tabs, id)
             at == IF TabAt(tabs, id) <= Len(left) THEN TabAt(tabs, id) ELSE Len(left)
             next == left[at]
  <1>2. UNCHANGED <<drag, unsaved, nextId, mine, edited>> /\ damaged \subseteq damaged'
    BY <1>1
  <1>3. /\ RowFits(left, nextId) /\ Open(left) = Open(tabs) \ {id}
        /\ TabSet(left) = {t \in TabSet(tabs) : t.id # id}
    BY <1>0, TabsWithout
  <1>4. DragHolds(left, nextId, drag)
    BY <1>0, DragWithout
  <1>5. mine' = [i \in Ids |-> mine'[i]] /\ (\A i \in Ids : mine'[i] \in SeenTabs)
    BY <1>2 DEF TabsInv, TabTypes
  <1>6. CASE id \notin Open(tabs)
    <2>1. UNCHANGED <<tabs, tabHistory, active, live, bench, flow, stored>>
      BY <1>1, <1>6
    <2>2. StoredFits'
      BY <1>0, <1>2, <2>1 DEF StoredFits, InFlight
    <2>3. LiveFits' /\ FlowFits(active', live', flow')
          /\ ActiveFits(TabSet(tabs'), active', live', bench', flow')
      BY <1>0, <2>1 DEF LiveFits
    <2>4. TabsShown(TabSet(tabs'), tabHistory', active', live', flow', mine', damaged', edited')
      BY <1>2, <2>1 DEF TabsInv, TabsExpected, TabsShown
    <2>5. \A i \in Ids : i >= nextId' => tabHistory'[i] = <<>>
      BY <1>2, <2>1 DEF TabsInv, TabTypes
    <2>6. QED  BY <1>0, <1>2, <1>5, <2>1, <2>2, <2>3, <2>4, <2>5, TabsInvFrom
  <1>7. TabsShown(TabSet(left), tabHistory, active, live, flow, mine', damaged', edited')
    BY <1>2, <1>3 DEF TabsInv, TabsExpected, TabsShown
  <1>8. CASE id \in Open(tabs) /\ active # id
    <2>1. tabs' = left /\ stored' = left /\ UNCHANGED <<tabHistory, active, live, bench, flow>>
      BY <1>1, <1>8 DEF Persist
    <2> HIDE DEF left
    <2>2. LiveFits' /\ FlowFits(active', live', flow')
      BY <1>0, <2>1 DEF LiveFits
    <2>3. ActiveFits(TabSet(tabs'), active', live', bench', flow')
      BY <1>0, <1>3, <1>8, <2>1 DEF ActiveFits
    <2>4. TabsShown(TabSet(tabs'), tabHistory', active', live', flow', mine', damaged', edited')
      BY <1>7, <2>1
    <2>5. StoredFits'
      BY <2>1 DEF StoredFits
    <2>6. \A i \in Ids : i >= nextId' => tabHistory'[i] = <<>>
      BY <1>2, <2>1 DEF TabsInv, TabTypes
    <2>7. QED  BY <1>0, <1>2, <1>3, <1>4, <1>5, <2>1, <2>2, <2>3, <2>4, <2>5, <2>6, TabsInvFrom
  <1>9. CASE id \in Open(tabs) /\ active = id /\ left = <<>>
    <2>1. /\ tabs' = left /\ active' = NoTab /\ stored' = left /\ live' = Closed
          /\ bench' = [bench EXCEPT !.on = FALSE] /\ UNCHANGED <<tabHistory, flow>>
      BY <1>1, <1>9 DEF Persist
    <2> HIDE DEF left
    <2>2. bench' \in Benches /\ bench'.on = FALSE
      BY <1>0, <2>1 DEF LiveFits, Benches
    <2>3. LiveFits' /\ FlowFits(active', live', flow')
      BY <1>0, <2>1, <2>2, TabConsts DEF LiveFits, FlowFits
    <2>4. TabSet(tabs') = {}
      BY <1>9, <2>1 DEF TabSet
    <2>5. ActiveFits(TabSet(tabs'), active', live', bench', flow')
      BY <2>2, <2>4 DEF ActiveFits
    <2>6. TabsShown(TabSet(tabs'), tabHistory', active', live', flow', mine', damaged', edited')
      BY <2>4 DEF TabsShown
    <2>7. StoredFits'
      BY <2>1 DEF StoredFits
    <2>8. \A i \in Ids : i >= nextId' => tabHistory'[i] = <<>>
      BY <1>2, <2>1 DEF TabsInv, TabTypes
    <2>9. QED  BY <1>0, <1>2, <1>3, <1>4, <1>5, <2>1, <2>3, <2>5, <2>6, <2>7, <2>8, TabsInvFrom
  <1>10. CASE id \in Open(tabs) /\ active = id /\ left # <<>>
    <2>1. SwitchTo(left, next.id)
      BY <1>1, <1>10
    <2>2. active \notin Open(left)
      BY <1>3, <1>10
    <2>3. InFlight => ActiveFits(TabSet(left), active, live, bench, flow)
      BY <1>0, <1>3, <1>10 DEF ActiveFits, InFlight
    <2>4. CASE InFlight
      <3>1. tabs' = left /\ UNCHANGED <<tabHistory, active, live, bench, flow, stored>>
        BY <2>1, <2>4 DEF SwitchTo
      <3> HIDE DEF left
      <3>2. LiveFits' /\ FlowFits(active', live', flow')
        BY <1>0, <3>1 DEF LiveFits
      <3>3. ActiveFits(TabSet(tabs'), active', live', bench', flow')
        BY <2>3, <2>4, <3>1
      <3>4. TabsShown(TabSet(tabs'), tabHistory', active', live', flow', mine', damaged', edited')
        BY <1>7, <3>1
      <3>5. StoredFits'
        <4>1. active' # NoTab
          BY <1>0, <1>10, <3>1, TabsOpen
        <4>2. active' \notin Open(tabs')
          BY <2>2, <3>1
        <4>3. QED  BY <4>1, <4>2 DEF StoredFits
      <3>6. \A i \in Ids : i >= nextId' => tabHistory'[i] = <<>>
        BY <1>2, <3>1 DEF TabsInv, TabTypes
      <3>7. QED  BY <1>0, <1>2, <1>3, <1>4, <1>5, <3>1, <3>2, <3>3, <3>4, <3>5, <3>6, TabsInvFrom
    <2>5. CASE ~InFlight
      <3>1. Activate(left, next.id, stored)
        BY <2>1, <2>5 DEF SwitchTo
      <3>2. next.id \in Open(left)
        <4>1. /\ left \in Seq(TabRecords) /\ Len(left) = Len(tabs) - 1
              /\ TabAt(tabs, id) \in DOMAIN tabs /\ tabs \in Seq(TabRecords)
          BY <1>0, <1>10, TabTakenOut, TabPlace DEF RowFits
        <4> HIDE DEF left
        <4>2. at \in DOMAIN left
          BY <4>1, <1>10
        <4>3. QED  BY <4>2 DEF Open
      <3>3. RowFits(left, nextId') /\ RowFits(stored, nextId') /\ DragHolds(left, nextId', drag')
            /\ nextId' \in 1 .. MaxTabs + 1 /\ nextId <= nextId'
        BY <1>0, <1>2, <1>3, <1>4
      <3>4. /\ active # next.id /\ unsaved' = unsaved
            /\ mine' = [i \in Ids |-> mine'[i]] /\ \A i \in Ids : mine'[i] \in SeenTabs
            /\ TabsShown(TabSet(left), tabHistory, active, live, flow, mine', damaged', edited')
        BY <1>2, <1>5, <1>7, <2>2, <3>2
      <3> HIDE DEF left, next
      <3>5. QED  BY <2>2, <3>1, <3>2, <3>3, <3>4, TabBroughtUp
    <2>6. QED  BY <2>4, <2>5
  <1>11. QED  BY <1>6, <1>8, <1>9, <1>10

(* duplicateTab: the copy of a tab is expected to hold what its source does *)
(* but its history, unless the source is being loaded.                     *)
LEMMA DuplicateKeeps == ASSUME TabsInv, drag = NoDrag, Duplicate PROVE TabsInv'
  <1>0. /\ RowFits(tabs, nextId) /\ RowFits(stored, nextId) /\ LiveFits /\ nextId \in Nat
        /\ nextId \in 1 .. MaxTabs + 1 /\ FlowFits(active, live, flow) /\ StoredFits
        /\ ActiveFits(TabSet(tabs), active, live, bench, flow) /\ DragHolds(tabs, nextId, drag)
        /\ active \in (1 .. nextId - 1) \cup {NoTab}
        /\ \A t \in TabSet(tabs) : t.id \in Open(tabs) /\ t.id # NoTab
    BY TabsInvParts
  <1>1. PICK id \in Open(tabs) :
          LET ts == IF id = active THEN Flushed(tabs) ELSE tabs
              source == Tab(ts, id)
              clone == [source EXCEPT !.id = nextId, !.pinned = FALSE]
              all == Inserted(ts, IF source.pinned THEN PinnedCount(ts) ELSE TabAt(ts, id), clone)
          IN /\ IF InFlight
                THEN /\ tabs' = all /\ Persist(all)
                     /\ tabHistory' = IF id = active THEN HistoryFlushed(ts) ELSE tabHistory
                     /\ UNCHANGED <<active, live, bench, flow>>
                ELSE Activate(all, nextId, all)
             /\ mine' = [mine EXCEPT ![nextId] =
                  [content |-> mine[id].content, community |-> mine[id].community,
                   history |-> <<>>]]
             /\ damaged' = IF id \in damaged \/ (Loading /\ flow.tab = id)
                           THEN damaged \cup {nextId} ELSE damaged
             /\ edited' = (IF id \in edited THEN edited \cup {nextId} ELSE edited)
                            \cup (IF Loading /\ flow.tab = id THEN {id} ELSE {})
    BY DEF Duplicate
  <1>2. /\ nextId \in Ids /\ nextId' = nextId + 1 /\ drag' = NoDrag /\ unsaved' = unsaved
    BY DEF Duplicate
  <1> DEFINE ts == IF id = active THEN Flushed(tabs) ELSE tabs
             source == Tab(ts, id)
             clone == [source EXCEPT !.id = nextId, !.pinned = FALSE]
             at == IF source.pinned THEN PinnedCount(ts) ELSE TabAt(ts, id)
             all == Inserted(ts, at, clone)
             past == IF InFlight /\ id = active THEN HistoryFlushed(ts) ELSE tabHistory
  <1>3. /\ IF InFlight
           THEN /\ tabs' = all /\ stored' = all /\ tabHistory' = past
                /\ UNCHANGED <<active, live, bench, flow>>
           ELSE Activate(all, nextId, all)
        /\ mine' = [mine EXCEPT ![nextId] =
             [content |-> mine[id].content, community |-> mine[id].community, history |-> <<>>]]
        /\ damaged' = IF id \in damaged \/ (Loading /\ flow.tab = id)
                      THEN damaged \cup {nextId} ELSE damaged
        /\ edited' = (IF id \in edited THEN edited \cup {nextId} ELSE edited)
                       \cup (IF Loading /\ flow.tab = id THEN {id} ELSE {})
    BY <1>1 DEF Persist
  <1>4. /\ Kin(tabs, ts)
        /\ \A u \in TabSet(ts) : \E t \in TabSet(tabs) :
             /\ u.id = t.id /\ u.kind = t.kind /\ u.community = t.community
             /\ u = t \/ (t.id = active /\ id = active /\ InFlight)
        /\ \A t \in TabSet(tabs) : t.id # active => t \in TabSet(ts)
        /\ InFlight \/ ts = tabs
    <2>1. Kin(tabs, tabs)
      BY <1>0 DEF Kin, RowFits
    <2>2. CASE id # active \/ ~InFlight
      <3>1. ts = tabs
        BY <1>0, <2>2, QuietFlush
      <3>2. QED  BY <2>1, <3>1
    <2>3. CASE id = active /\ InFlight
      <3>1. /\ Kin(tabs, Flushed(tabs)) /\ ts = Flushed(tabs)
            /\ \/ ts = tabs
               \/ \E content \in Contents :
                    TabSet(ts) = Rewritten(TabSet(tabs), active, content, Tab(tabs, active).community)
        BY <1>0, <2>3, FlushedTabs
      <3> HIDE DEF ts
      <3>2. CASE ts = tabs
        BY <2>1, <3>2
      <3>3. CASE ts # tabs
        <4>1. PICK content \in Contents :
                TabSet(ts) = Rewritten(TabSet(tabs), active, content, Tab(tabs, active).community)
          BY <3>1, <3>3
        <4>2. TabSet(tabs) \subseteq TabRecords
              /\ \A t \in TabSet(tabs) : t.id = active => t = Tab(tabs, active)
          BY <1>0, <2>3, TabsAlone, TabPlace
        <4>3. ASSUME NEW u \in TabSet(ts)
              PROVE  \E t \in TabSet(tabs) :
                       /\ u.id = t.id /\ u.kind = t.kind /\ u.community = t.community
                       /\ u = t \/ t.id = active
          BY <4>1, <4>2, RewrittenTab
        <4>4. \A t \in TabSet(tabs) : t.id # active => t \in TabSet(ts)
          BY <4>1, <4>2 DEF Rewritten, TabRecords
        <4>5. QED  BY <2>3, <3>1, <4>3, <4>4
      <3>4. QED  BY <3>2, <3>3
    <2>4. QED  BY <2>2, <2>3
  <1>5. RowFits(ts, nextId) /\ Open(ts) = Open(tabs)
    BY <1>0, <1>4, KinFit
  <1> HIDE DEF ts
  <1>6. /\ source \in TabSet(ts) /\ source.id = id /\ source = ts[TabAt(ts, id)]
        /\ TabAt(ts, id) \in DOMAIN ts /\ id \in Ids /\ id < nextId /\ source \in TabRecords
    <2>1. TabSet(ts) \subseteq TabRecords
      BY <1>5, TabsAlone
    <2>2. QED  BY <2>1, <1>5, TabPlace
  <1> HIDE DEF source
  <1>7. /\ clone \in TabRecords /\ clone.id = nextId /\ ~clone.pinned /\ clone.kind = source.kind
        /\ clone.content = source.content /\ clone.community = source.community
    BY <1>2, <1>6 DEF TabRecords
  <1>8. nextId \notin Open(ts)
    <2>1. \A t \in TabSet(ts) : t.id \in Nat /\ t.id < nextId
      BY <1>5, TabsAlone, TabNumbers
    <2>2. QED  BY <2>1, <1>0, TabsOpen
  <1>9. at \in 0 .. Len(ts) /\ PinnedCount(ts) <= at
    <2>1. /\ PinnedCount(ts) \in 0 .. Len(ts)
          /\ \A i \in DOMAIN ts : ts[i].pinned <=> i <= PinnedCount(ts)
      BY <1>5, PinnedLead
    <2>2. DOMAIN ts = 1 .. Len(ts) /\ Len(ts) \in Nat
      BY <1>5 DEF RowFits
    <2>3. QED  BY <2>1, <2>2, <1>6
  <1> HIDE DEF clone, at
  <1>10. /\ RowFits(all, nextId') /\ TabSet(all) = TabSet(ts) \cup {clone}
         /\ Open(all) = Open(ts) \cup {nextId}
    <2>1. nextId + 1 \in Nat /\ nextId <= nextId + 1 /\ clone.id < nextId + 1
      BY <1>0, <1>7
    <2>2. clone.id \notin Open(ts) /\ IF clone.pinned THEN at <= PinnedCount(ts) ELSE PinnedCount(ts) <= at
      BY <1>7, <1>8, <1>9
    <2> DEFINE m == nextId + 1
    <2> HIDE DEF m
    <2>3. /\ RowFits(all, m) /\ TabSet(all) = TabSet(ts) \cup {clone}
          /\ Open(all) = Open(ts) \cup {clone.id}
      <3>1. m \in Nat /\ nextId <= m /\ clone.id < m
        BY <2>1 DEF m
      <3>2. QED  BY <3>1, <2>2, <1>0, <1>5, <1>7, <1>9, TabInserted
    <2>4. QED  BY <2>3, <1>2, <1>7 DEF m
  <1> HIDE DEF all
  <1>11. /\ mine' = [i \in Ids |-> mine'[i]] /\ \A i \in Ids : mine'[i] \in SeenTabs
         /\ \A i \in Ids : i # nextId => mine'[i] = mine[i]
         /\ mine'[nextId] = [content |-> mine[id].content, community |-> mine[id].community,
                             history |-> <<>>]
    <2>1. mine = [i \in Ids |-> mine[i]] /\ \A i \in Ids : mine[i] \in SeenTabs
      BY DEF TabsInv, TabTypes
    <2>2. [content |-> mine[id].content, community |-> mine[id].community, history |-> <<>>]
            \in SeenTabs
      BY <2>1, <1>6 DEF SeenTabs
    <2>3. QED  BY <2>1, <2>2, <1>2, <1>3
  <1>12. /\ past = [j \in Ids |-> past[j]] /\ \A j \in Ids : past[j] \in Seq(Contents)
         /\ \A j \in Ids : (j # active \/ id # active \/ ~InFlight) => past[j] = tabHistory[j]
         /\ past[nextId] = <<>>
    <2>1. past = [j \in Ids |-> past[j]] /\ (\A j \in Ids : past[j] \in Seq(Contents))
          /\ \A j \in Ids : (j # active \/ id # active \/ ~InFlight) => past[j] = tabHistory[j]
      BY <1>0, <1>5, PastFlushed DEF LiveFits
    <2>2. nextId # active
      BY <1>0, <1>2, TabNumbers
    <2>3. tabHistory[nextId] = <<>>
      BY <1>0, <1>2 DEF TabsInv, TabTypes
    <2>4. QED  BY <2>1, <2>2, <2>3, <1>2
  <1> HIDE DEF past
  <1>13. TabsShown(TabSet(all), past, active, live, flow, mine', damaged', edited')
    <2>1. ASSUME InFlight, id = active PROVE Loading /\ flow.tab = id
      <3>1. PICK t \in TabSet(tabs) : t.id = active
        BY <2>1, TabsOpen
      <3>2. flow.kind # "none" /\ live.on /\ active # NoTab
        BY <3>1, <2>1, <1>0 DEF ActiveFits, InFlight
      <3>3. flow.stage \notin {"none", "preparing"}
        BY <3>2, <1>0 DEF FlowFits
      <3>4. QED  BY <3>2, <3>3, <2>1, <1>0 DEF FlowFits, InFlight, Loading
    <2>2. ASSUME NEW u \in TabSet(ts), u.id \notin damaged'
          PROVE  TabShows(u, past[u.id], active, live, flow, mine'[u.id], edited')
      <3>1. PICK t \in TabSet(tabs) :
               /\ u.id = t.id /\ u.kind = t.kind /\ u.community = t.community
               /\ u = t \/ (t.id = active /\ id = active /\ InFlight)
        BY <1>4, <2>2
      <3>2. t.id \notin damaged /\ t.id # nextId /\ t.id \in Ids /\ mine'[u.id] = mine[t.id]
        <4>1. t.id \notin damaged
          BY <1>3, <2>2, <3>1
        <4>2. t.id # nextId /\ t.id \in Ids
          BY <1>0, <1>5, <1>8, TabPlace
        <4>3. QED  BY <4>1, <4>2, <3>1, <1>11
      <3>3. TabShows(t, tabHistory[t.id], active, live, flow, mine[t.id], edited)
        BY <3>2 DEF TabsInv, TabsExpected, TabsShown
      <3>4. edited \subseteq edited'
        BY <1>3
      <3>5. CASE u = t /\ ~(t.id = active /\ id = active /\ InFlight)
        <4>1. past[t.id] = tabHistory[t.id]
          BY <1>12, <3>2, <3>5
        <4>2. QED
          BY <3>2, <3>3, <3>4, <3>5, <4>1 DEF TabShows, ShownAs, LoadShows
      <3>6. CASE t.id = active /\ id = active /\ InFlight
        <4>1. id \in edited'
          BY <1>3, <2>1, <3>6
        <4>2. ~IsBench(t) /\ ~IsBench(u) /\ flow.kind # "none"
          BY <1>0, <3>1, <3>6 DEF ActiveFits, IsBench, InFlight
        <4>3. QED
          BY <3>1, <3>2, <3>3, <3>6, <4>1, <4>2 DEF TabShows, LoadShows
      <3>7. QED  BY <3>1, <3>5, <3>6
    <2>3. ASSUME clone.id \notin damaged'
          PROVE  TabShows(clone, past[clone.id], active, live, flow, mine'[clone.id], edited')
      <3>1. id \notin damaged /\ ~(InFlight /\ id = active)
        BY <1>3, <1>7, <2>1, <2>3
      <3>2. source \in TabSet(tabs) /\ source.id = id
        BY <1>4, <1>6, <3>1
      <3>3. TabShows(source, tabHistory[id], active, live, flow, mine[id], edited)
        BY <3>1, <3>2 DEF TabsInv, TabsExpected, TabsShown
      <3>4. clone.id # active /\ clone.id = nextId /\ past[clone.id] = <<>>
        BY <1>0, <1>2, <1>7, <1>12, TabNumbers
      <3>5. id \in edited => nextId \in edited'
        BY <1>3
      <3>6. mine'[clone.id].content = mine[id].content /\ mine'[clone.id].community = mine[id].community
            /\ mine'[clone.id].history = <<>>
        BY <1>7, <1>11
      <3>7. CASE IsBench(source)
        BY <3>3, <3>6, <3>7, <1>7 DEF TabShows, IsBench
      <3>8. CASE ~IsBench(source)
        <4>1. ~IsBench(clone)
          BY <1>7, <3>8 DEF IsBench
        <4>2. mine[id].community \in {NoTab, mine[id].content}
          BY <3>3, <3>8 DEF TabShows
        <4>3. /\ source.content = mine[id].content
              /\ id \in edited \/ source.community = mine[id].community
          <5>1. CASE id # active
            BY <3>2, <3>3, <3>8, <5>1 DEF TabShows, ShownAs
          <5>2. CASE id = active
            <6>1. flow.kind = "none" /\ source.content = live.build /\ source.community = live.community
              BY <5>2, <3>1, <3>2, <3>8, <1>0 DEF ActiveFits, InFlight
            <6>2. QED  BY <5>2, <6>1, <3>2, <3>3, <3>8 DEF TabShows, ShownAs
          <5>3. QED  BY <5>1, <5>2
        <4>4. QED
          BY <4>1, <4>2, <4>3, <3>4, <3>5, <3>6, <1>7 DEF TabShows, ShownAs
      <3>9. QED  BY <3>7, <3>8
    <2>4. QED  BY <1>10, <2>2, <2>3 DEF TabsShown
  <1>14. DragHolds(all, nextId', drag') /\ nextId' \in 1 .. MaxTabs + 1 /\ nextId <= nextId'
    BY <1>0, <1>2, TabNumbers DEF DragHolds, Ids
  <1>15. CASE InFlight
    <2>1. /\ tabs' = all /\ stored' = all /\ tabHistory' = past
          /\ UNCHANGED <<active, live, bench, flow>>
      BY <1>3, <1>15
    <2>2. LiveFits' /\ FlowFits(active', live', flow')
      BY <1>0, <1>12, <2>1 DEF LiveFits
    <2>3. ActiveFits(TabSet(tabs'), active', live', bench', flow')
      <3>1. flow.kind # "none" /\ active # nextId
        BY <1>0, <1>2, <1>15, TabNumbers DEF InFlight
      <3>2. ~bench.on
        BY <1>0, <3>1 DEF ActiveFits
      <3>3. ASSUME NEW u \in TabSet(all), u.id = active
            PROVE  \E t \in TabSet(tabs) : u.id = t.id /\ u.kind = t.kind /\ u.community = t.community
        BY <1>4, <1>7, <1>10, <3>1, <3>3
      <3>4. QED  BY <1>0, <2>1, <3>1, <3>2, <3>3 DEF ActiveFits, IsBench
    <2>4. TabsShown(TabSet(tabs'), tabHistory', active', live', flow', mine', damaged', edited')
      BY <1>13, <2>1
    <2>5. StoredFits'
      BY <2>1 DEF StoredFits
    <2>6. \A i \in Ids : i >= nextId' => tabHistory'[i] = <<>>
      <3> SUFFICES ASSUME NEW i \in Ids, i >= nextId' PROVE past[i] = <<>>
        BY <2>1
      <3>1. i \in Nat /\ i >= nextId /\ i # active
        BY <1>0, <1>2, TabNumbers
      <3>2. tabHistory[i] = <<>>
        BY <3>1 DEF TabsInv, TabTypes
      <3>3. QED  BY <3>1, <3>2, <1>12
    <2>7. active' \in (1 .. nextId' - 1) \cup {NoTab}
      BY <1>0, <1>2, <2>1
    <2>8. QED  BY <1>10, <1>11, <1>14, <2>1, <2>2, <2>3, <2>4, <2>5, <2>6, <2>7, TabsInvFrom
  <1>16. CASE ~InFlight
    <2>1. ts = tabs /\ Activate(all, nextId, all) /\ past = tabHistory
      BY <1>3, <1>4, <1>16 DEF past
    <2>2. /\ active \in Open(all) => ActiveFits(TabSet(all), active, live, bench, flow)
      <3>1. active # clone.id
        BY <1>0, <1>2, <1>7, TabNumbers
      <3>2. QED  BY <3>1, <1>0, <1>10, <2>1 DEF ActiveFits
    <2>3. nextId \in Open(all) /\ RowFits(all, nextId')
          /\ TabsShown(TabSet(all), tabHistory, active, live, flow, mine', damaged', edited')
      BY <1>10, <1>13, <2>1
    <2>4. QED  BY <1>2, <1>11, <1>14, <1>16, <2>1, <2>2, <2>3, TabBroughtUp
  <1>17. QED  BY <1>15, <1>16

(* togglePinTab. *)
LEMMA TogglePinKeeps == ASSUME TabsInv, drag = NoDrag, TogglePin PROVE TabsInv'
  <1>0. /\ RowFits(tabs, nextId) /\ RowFits(stored, nextId) /\ LiveFits /\ nextId \in Nat
        /\ nextId \in 1 .. MaxTabs + 1 /\ FlowFits(active, live, flow)
        /\ ActiveFits(TabSet(tabs), active, live, bench, flow)
        /\ active \in (1 .. nextId - 1) \cup {NoTab}
    BY TabsInvParts
  <1>1. PICK id \in Open(tabs) :
          LET tab == [Tab(tabs, id) EXCEPT !.pinned = ~@]
              others == Without(tabs, id)
              all == Inserted(others, PinnedCount(others), tab)
          IN tabs' = all /\ stored' = all
    BY DEF TogglePin, Persist
  <1>2. UNCHANGED <<tabHistory, active, live, bench, flow, drag, unsaved, nextId, mine,
                    damaged, edited>>
    BY DEF TogglePin
  <1> DEFINE old == Tab(tabs, id)
             tab == [old EXCEPT !.pinned = ~@]
             others == Without(tabs, id)
             all == Inserted(others, PinnedCount(others), tab)
  <1>3. tabs' = all /\ stored' = all
    BY <1>1
  <1>4. /\ RowFits(others, nextId) /\ Open(others) = Open(tabs) \ {id}
        /\ TabSet(others) = {t \in TabSet(tabs) : t.id # id}
    BY <1>0, TabsWithout
  <1>5. old \in TabSet(tabs) /\ old.id = id /\ old \in TabRecords /\ id < nextId /\ id \in Nat
    <2>1. TabSet(tabs) \subseteq TabRecords
      BY <1>0, TabsAlone
    <2>2. old \in TabSet(tabs) /\ old.id = id /\ id \in Ids /\ id < nextId
      BY <1>0, TabPlace
    <2>3. QED  BY <2>1, <2>2, TabNumbers
  <1> HIDE DEF old, others
  <1>6. /\ tab \in TabRecords /\ tab.id = id /\ tab.kind = old.kind
        /\ tab.content = old.content /\ tab.community = old.community
    BY <1>5 DEF TabRecords
  <1>7. PinnedCount(others) \in 0 .. Len(others) /\ PinnedCount(others) \in Nat
    <2>1. Len(others) \in Nat
      BY <1>4 DEF RowFits
    <2>2. QED  BY <2>1, <1>4, PinnedLead
  <1> HIDE DEF tab
  <1>8. RowFits(all, nextId) /\ TabSet(all) = TabSet(others) \cup {tab}
    BY <1>0, <1>4, <1>5, <1>6, <1>7, TabInserted
  <1> HIDE DEF all
  <1>9. \A u \in TabSet(all) : \E t \in TabSet(tabs) :
          u.id = t.id /\ u.kind = t.kind /\ u.content = t.content /\ u.community = t.community
    BY <1>4, <1>5, <1>6, <1>8
  <1>10. \A t \in TabSet(tabs) : \E u \in TabSet(all) : u.id = t.id /\ u.kind = t.kind
    BY <1>4, <1>5, <1>6, <1>8, <1>0, TabsAlone
  <1>11. LiveFits' /\ FlowFits(active', live', flow')
    BY <1>0, <1>2 DEF LiveFits
  <1>12. ActiveFits(TabSet(tabs'), active', live', bench', flow')
    <2>1. ActiveFits(TabSet(all), active, live, bench, flow)
      BY <1>0, <1>9, <1>10 DEF ActiveFits, IsBench
    <2>2. QED  BY <2>1, <1>2, <1>3
  <1>13. TabsShown(TabSet(tabs'), tabHistory', active', live', flow', mine', damaged', edited')
    <2>1. TabsShown(TabSet(all), tabHistory, active, live, flow, mine, damaged, edited)
      BY <1>9 DEF TabsInv, TabsExpected, TabsShown, TabShows, IsBench
    <2>2. QED  BY <2>1, <1>2, <1>3
  <1>14. StoredFits'
    BY <1>3 DEF StoredFits
  <1>15. /\ \A i \in Ids : i >= nextId' => tabHistory'[i] = <<>>
         /\ mine' = [i \in Ids |-> mine'[i]] /\ \A i \in Ids : mine'[i] \in SeenTabs
    BY <1>2 DEF TabsInv, TabTypes
  <1>16. DragHolds(tabs', nextId', drag') /\ RowFits(tabs', nextId') /\ RowFits(stored', nextId')
    BY <1>2, <1>3, <1>8 DEF DragHolds
  <1>17. QED
    BY <1>0, <1>2, <1>11, <1>12, <1>13, <1>14, <1>15, <1>16, TabsInvFrom

(* Numbers taken in their order from an interval, all of them, follow each *)
(* other.                                                                  *)
LEMMA TakenInOrder ==
  ASSUME NEW n \in Nat, NEW s \in Nat, NEW e \in Nat, NEW at \in [1 .. n -> (s + 1) .. e],
         \A k, l \in 1 .. n : k < l => at[k] < at[l],
         \A i \in (s + 1) .. e : \E k \in 1 .. n : at[k] = i
  PROVE  \A k \in 1 .. n : at[k] = s + k
  <1> DEFINE N == {k \in 1 .. n : at[k] # s + k}
  <1>1. N \subseteq Nat
    OBVIOUS
  <1>2. ASSUME N # {} PROVE FALSE
    <2> HIDE DEF N
    <2>1. PICK k \in N : \A l \in N : k <= l
      BY <1>1, <1>2, LeastNumber
    <2> USE DEF N
    <2>2. k \in 1 .. n /\ at[k] # s + k /\ \A l \in 1 .. n : l < k => at[l] = s + l
      BY <2>1
    <2> HIDE DEF N
    <2>3. \A l \in 1 .. n : at[l] \in Nat /\ s + 1 <= at[l] /\ at[l] <= e
      OBVIOUS
    <2>4. s + k < at[k]
      <3>1. CASE k = 1
        BY <2>2, <2>3, <3>1
      <3>2. CASE k # 1
        <4>1. k - 1 \in 1 .. n /\ k - 1 < k
          BY <2>2, <3>2
        <4>2. at[k - 1] = s + (k - 1) /\ at[k - 1] < at[k]
          BY <2>2, <4>1
        <4>3. QED  BY <2>2, <2>3, <4>2
      <3>3. QED  BY <3>1, <3>2
    <2>5. s + k \in (s + 1) .. e
      BY <2>2, <2>3, <2>4
    <2>6. PICK l \in 1 .. n : at[l] = s + k
      BY <2>5
    <2>7. l < k \/ l = k \/ k < l
      BY <2>2
    <2>8. QED  BY <2>2, <2>3, <2>4, <2>6, <2>7
  <1>3. QED  BY <1>2

(* _tdBeginDrag: the group of a tab lies side by side.                     *)
LEMMA BeginDragKeeps == ASSUME TabsInv, BeginDrag PROVE TabsInv'
  <1>0. /\ RowFits(tabs, nextId) /\ RowFits(stored, nextId) /\ LiveFits /\ nextId \in Nat
        /\ StoredFits
    BY TabsInvParts
  <1>1. PICK id \in Open(tabs) :
          drag' = [tab |-> id,
                   group |-> LET g == Group(Tab(tabs, id).pinned)
                             IN [i \in DOMAIN g |-> g[i].id]]
    BY DEF BeginDrag
  <1>2. UNCHANGED <<tabs, tabHistory, active, live, bench, flow, unsaved, stored, nextId,
                    mine, damaged, edited>>
    BY DEF BeginDrag
  <1> DEFINE P == Tab(tabs, id).pinned
             I == {i \in DOMAIN tabs : tabs[i].pinned = P}
             g == Group(P)
             ids == [i \in DOMAIN g |-> g[i].id]
             c == PinnedCount(tabs)
             n == Len(tabs)
             s == IF P THEN 0 ELSE c
             e == IF P THEN c ELSE n
  <1>3. drag' = [tab |-> id, group |-> ids]
    BY <1>1
  <1>4. /\ tabs \in Seq(TabRecords) /\ n \in Nat /\ DOMAIN tabs = 1 .. n
        /\ \A i \in 1 .. n : tabs[i] \in TabRecords /\ tabs[i].id \in 1 .. nextId - 1
                             /\ tabs[i].pinned \in BOOLEAN
    <2>1. tabs \in Seq(TabRecords) /\ DOMAIN tabs = 1 .. n /\ n \in Nat
      BY <1>0 DEF RowFits
    <2>2. \A i \in 1 .. n : tabs[i] \in TabRecords /\ tabs[i].id < nextId
      BY <1>0, <2>1, ElementOf DEF RowFits
    <2>3. QED  BY <1>0, <2>1, <2>2 DEF TabRecords, Ids
  <1>5. /\ TabAt(tabs, id) \in 1 .. n /\ tabs[TabAt(tabs, id)].id = id
        /\ P = tabs[TabAt(tabs, id)].pinned /\ P \in BOOLEAN
    BY <1>0, <1>4, TabPlace
  <1>6. c \in 0 .. n /\ \A i \in 1 .. n : tabs[i].pinned <=> i <= c
    BY <1>0, <1>4, PinnedLead
  <1> HIDE DEF P, c, n
  <1>7. s \in Nat /\ e \in Nat /\ s <= n /\ e <= n
    BY <1>4, <1>6
  <1>8. I = (s + 1) .. e
    BY <1>4, <1>5, <1>6
  <1>9. g \in Seq(TabRecords) /\ Len(g) \in Nat /\ \E at : Selects(at, g, tabs, I, n)
    <2>1. g = ElementsAt(tabs, I)
      BY DEF Group
    <2> HIDE DEF I, g
    <2>2. g \in Seq(TabRecords) /\ \E at : Selects(at, g, tabs, I, n)
      BY <1>4, <2>1, ElementsAtSelects DEF n
    <2>3. QED  BY <2>2
  <1> HIDE DEF g
  <1>10. PICK at : Selects(at, g, tabs, I, n)
    BY <1>9
  <1>11. I \cap (1 .. n) = (s + 1) .. e
    BY <1>4, <1>7, <1>8
  <1> HIDE DEF I, s, e
  <1>12. \A k \in 1 .. Len(g) : at[k] = s + k
    <2>1. /\ at \in [1 .. Len(g) -> (s + 1) .. e]
          /\ \A k, l \in 1 .. Len(g) : k < l => at[k] < at[l]
          /\ \A i \in (s + 1) .. e : \E k \in 1 .. Len(g) : at[k] = i
      BY <1>10, <1>11 DEF Selects
    <2>2. QED  BY <2>1, <1>7, <1>9, TakenInOrder
  <1>13. \A k \in 1 .. Len(g) :
           /\ s + k \in 1 .. n /\ g[k] = tabs[s + k] /\ tabs[s + k].pinned = P
    <2> SUFFICES ASSUME NEW k \in 1 .. Len(g)
                 PROVE  s + k \in 1 .. n /\ g[k] = tabs[s + k] /\ tabs[s + k].pinned = P
      OBVIOUS
    <2>1. at[k] \in I \cap (1 .. n) /\ g[k] = tabs[at[k]]
      BY <1>10 DEF Selects
    <2>2. QED  BY <2>1, <1>12 DEF I
  <1>14. \E k \in 1 .. Len(g) : g[k] = tabs[TabAt(tabs, id)]
    <2>1. TabAt(tabs, id) \in I \cap (1 .. n)
      BY <1>4, <1>5 DEF I
    <2>2. PICK k \in 1 .. Len(g) : at[k] = TabAt(tabs, id)
      BY <1>10, <2>1 DEF Selects
    <2>3. QED  BY <2>2, <1>10 DEF Selects
  <1>15. /\ DOMAIN g = 1 .. Len(g) /\ DOMAIN ids = 1 .. Len(g)
         /\ \A k \in 1 .. Len(g) : ids[k] = g[k].id
    BY <1>9
  <1> HIDE DEF ids
  <1>16. ids \in Seq(1 .. nextId - 1)
    <2>1. \A k \in 1 .. Len(g) : ids[k] \in 1 .. nextId - 1
      BY <1>4, <1>13, <1>15
    <2>2. ids = [k \in 1 .. Len(g) |-> ids[k]]
      BY <1>15 DEF ids
    <2>3. QED  BY <2>1, <2>2, <1>9
  <1>17. \A i, j \in DOMAIN ids : ids[i] = ids[j] => i = j
    <2> SUFFICES ASSUME NEW i \in 1 .. Len(g), NEW j \in 1 .. Len(g), ids[i] = ids[j] PROVE i = j
      BY <1>15
    <2>1. tabs[s + i].id = tabs[s + j].id /\ s + i \in DOMAIN tabs /\ s + j \in DOMAIN tabs
      BY <1>4, <1>13, <1>15
    <2>2. s + i = s + j
      BY <2>1, <1>0 DEF RowFits, InOrder
    <2>3. QED  BY <2>2, <1>7, <1>9
  <1>18. Window(tabs, ids)
    <2>1. s \in 0 .. Len(tabs)
      BY <1>4, <1>7 DEF n
    <2>2. ASSUME NEW k \in DOMAIN ids
          PROVE  s + k \in DOMAIN tabs /\ tabs[s + k].id = ids[k]
                 /\ tabs[s + k].pinned = tabs[s + 1].pinned
      <3>1. k \in 1 .. Len(g) /\ 1 \in 1 .. Len(g)
        BY <1>9, <1>15, <2>2
      <3>2. QED  BY <3>1, <1>4, <1>13, <1>15
    <2>3. QED  BY <2>1, <2>2 DEF Window
  <1>19. DragHolds(tabs, nextId, drag')
    <2>1. \E i \in DOMAIN ids : ids[i] = id
      BY <1>5, <1>14, <1>15
    <2>2. drag'.group = ids /\ drag'.tab = id
      BY <1>3
    <2>3. QED  BY <2>1, <2>2, <1>16, <1>17, <1>18 DEF DragHolds
  <1>20. StoredFits' /\ RowFits(stored', nextId)
    BY <1>0, <1>2 DEF StoredFits, InFlight
  <1>21. QED  BY <1>2, <1>19, <1>20, TabsUnmoved

(* _tdEndDrag: the tabs of the group stand in a new order where the group  *)
(* stood.                                                                  *)
LEMMA EndDragKeeps == ASSUME TabsInv, EndDrag PROVE TabsInv'
  <1>0. /\ RowFits(tabs, nextId) /\ RowFits(stored, nextId) /\ LiveFits /\ nextId \in Nat
        /\ nextId \in 1 .. MaxTabs + 1 /\ FlowFits(active, live, flow) /\ StoredFits
        /\ ActiveFits(TabSet(tabs), active, live, bench, flow) /\ DragHolds(tabs, nextId, drag)
        /\ active \in (1 .. nextId - 1) \cup {NoTab}
    BY TabsInvParts
  <1> DEFINE g == drag.group
             at == CHOOSE i \in DOMAIN g : g[i] = drag.tab
             s == TabAt(tabs, g[1])
  <1>1. PICK to \in DOMAIN g :
          LET others == RemoveAt(g, at)
              order == Inserted(others, to - 1, drag.tab)
              all == [i \in DOMAIN tabs |->
                        IF i \in s .. s + Len(order) - 1
                        THEN Tab(tabs, order[i - s + 1]) ELSE tabs[i]]
          IN IF order # g /\ ToSet(order) \subseteq Open(tabs)
             THEN tabs' = all /\ stored' = all
             ELSE UNCHANGED <<tabs, stored>>
    BY DEF EndDrag, Persist
  <1>2. /\ drag # NoDrag /\ drag' = NoDrag
        /\ UNCHANGED <<tabHistory, active, live, bench, flow, unsaved, nextId, mine,
                       damaged, edited>>
    BY DEF EndDrag
  <1> DEFINE order == Inserted(RemoveAt(g, at), to - 1, drag.tab)
             all == [i \in DOMAIN tabs |->
                       IF i \in s .. s + Len(order) - 1
                       THEN Tab(tabs, order[i - s + 1]) ELSE tabs[i]]
  <1>3. CASE UNCHANGED <<tabs, stored>>
    <2>1. StoredFits' /\ RowFits(stored', nextId) /\ DragHolds(tabs, nextId, drag')
      BY <1>0, <1>2, <1>3 DEF StoredFits, InFlight, DragHolds
    <2>2. QED  BY <1>2, <1>3, <2>1, TabsUnmoved
  <1>4. CASE ToSet(order) \subseteq Open(tabs) /\ tabs' = all /\ stored' = all
    <2>1. /\ g \in Seq(1 .. nextId - 1) /\ DOMAIN g = 1 .. Len(g) /\ Len(g) \in Nat
          /\ at \in DOMAIN g /\ g[at] = drag.tab
          /\ Window(tabs, g) \/ \E k \in DOMAIN g : g[k] \notin Open(tabs)
      <3>1. g \in Seq(1 .. nextId - 1) /\ \E i \in DOMAIN g : g[i] = drag.tab
        BY <1>0, <1>2 DEF DragHolds
      <3>2. Window(tabs, g) \/ \E k \in DOMAIN g : g[k] \notin Open(tabs)
        BY <1>0, <1>2 DEF DragHolds
      <3> HIDE DEF g
      <3>3. QED  BY <3>1, <3>2
    <2> HIDE DEF g, at
    <2>2. to \in 1 .. Len(g) /\ to \in Int /\ (to - 1) + 1 = to
      BY <1>1, <2>1
    <2>3. /\ order \in Seq(1 .. nextId - 1) /\ Len(order) = Len(g) /\ DOMAIN order = DOMAIN g
          /\ \E from, back \in [DOMAIN g -> DOMAIN g] : Moves(from, back, g, order)
      <3>1. order = InsertAt(RemoveAt(g, at), to, g[at])
        BY <2>1, <2>2 DEF Inserted
      <3> HIDE DEF order
      <3>2. LET w == InsertAt(RemoveAt(g, at), to, g[at]) IN
            /\ w \in Seq(1 .. nextId - 1) /\ Len(w) = Len(g) /\ DOMAIN w = DOMAIN g
            /\ \E from, back \in [DOMAIN g -> DOMAIN g] : Moves(from, back, g, w)
        BY <2>1, <2>2, MovedElement
      <3>3. QED  BY <3>1, <3>2
    <2> HIDE DEF order
    <2>4. PICK from \in [DOMAIN g -> DOMAIN g], back \in [DOMAIN g -> DOMAIN g] :
            Moves(from, back, g, order)
      BY <2>3
    <2>5. \A k \in DOMAIN g : g[k] \in Open(tabs)
      <3> SUFFICES ASSUME NEW k \in DOMAIN g PROVE g[k] \in Open(tabs)
        OBVIOUS
      <3>1. back[k] \in DOMAIN order /\ order[back[k]] = g[k]
        BY <2>3, <2>4 DEF Moves
      <3>2. QED  BY <3>1, <1>4 DEF ToSet
    <2>6. PICK r \in 0 .. Len(tabs) : \A k \in DOMAIN g :
            r + k \in DOMAIN tabs /\ tabs[r + k].id = g[k] /\ tabs[r + k].pinned = tabs[r + 1].pinned
      BY <2>1, <2>5 DEF Window
    <2>7. /\ tabs \in Seq(TabRecords) /\ DOMAIN tabs = 1 .. Len(tabs) /\ Len(tabs) \in Nat /\ r \in Nat
      BY <1>0, <2>6 DEF RowFits
    <2>8. \A k \in DOMAIN g : r + k = TabAt(tabs, g[k]) /\ Tab(tabs, g[k]) = tabs[r + k]
      BY <1>0, <2>5, <2>6, TabPlace
    <2>9. s = r + 1
      BY <2>1, <2>2, <2>8
    <2> HIDE DEF s
    <2> DEFINE where == [i \in DOMAIN tabs |-> IF i - r \in DOMAIN g THEN r + from[i - r] ELSE i]
               again == [i \in DOMAIN tabs |-> IF i - r \in DOMAIN g THEN r + back[i - r] ELSE i]
    <2>10. ASSUME NEW i \in DOMAIN tabs
           PROVE  /\ where[i] \in DOMAIN tabs /\ all[i] = tabs[where[i]]
                  /\ tabs[where[i]].pinned = tabs[i].pinned
                  /\ again[i] \in DOMAIN tabs
                  /\ where[again[i]] = i /\ again[where[i]] = i
      <3>1. i \in Int /\ i \in 1 .. Len(tabs) /\ (i - s) + 1 = i - r
        BY <2>7, <2>9
      <3>2. i \in s .. s + Len(order) - 1 <=> i - r \in DOMAIN g
        BY <2>1, <2>3, <2>7, <2>9, <3>1
      <3>3. CASE i - r \in DOMAIN g
        <4> DEFINE k == i - r
        <4>1. /\ from[k] \in DOMAIN g /\ back[k] \in DOMAIN g /\ back[from[k]] = k
              /\ from[back[k]] = k /\ order[k] = g[from[k]]
          BY <3>3, <2>4 DEF Moves
        <4>2. all[i] = Tab(tabs, order[k])
          BY <3>1, <3>2, <3>3
        <4>3. r + k = i /\ (r + from[k]) - r = from[k] /\ (r + back[k]) - r = back[k]
          BY <4>1, <3>1, <2>1, <2>7
        <4>4. /\ r + from[k] \in DOMAIN tabs /\ r + back[k] \in DOMAIN tabs
              /\ tabs[r + from[k]].pinned = tabs[i].pinned
          BY <4>1, <4>3, <3>3, <2>6
        <4>5. all[i] = tabs[r + from[k]]
          BY <4>1, <4>2, <2>8
        <4>6. where[i] = r + from[k] /\ again[i] = r + back[k]
          BY <3>3
        <4> HIDE DEF all
        <4>7. where[r + back[k]] = r + from[back[k]] /\ again[r + from[k]] = r + back[from[k]]
          BY <4>1, <4>3, <4>4
        <4>8. QED  BY <4>1, <4>3, <4>4, <4>5, <4>6, <4>7
      <3>4. CASE i - r \notin DOMAIN g
        BY <3>2, <3>4
      <3>5. QED  BY <3>3, <3>4
    <2>11. DOMAIN all = DOMAIN tabs
      OBVIOUS
    <2> HIDE DEF where, again
    <2>12. all \in Seq(TabRecords) /\ Len(all) = Len(tabs)
      <3>1. \A i \in DOMAIN tabs : all[i] \in TabRecords
        BY <2>7, <2>10, ElementOf
      <3>2. all = [i \in 1 .. Len(tabs) |-> all[i]]
        BY <2>7
      <3> HIDE DEF all
      <3>3. QED  BY <3>1, <3>2, <2>7
    <2> HIDE DEF all
    <2>13. RowFits(all, nextId)
      <3>1. ASSUME NEW i \in DOMAIN tabs, NEW j \in DOMAIN tabs, all[i].id = all[j].id PROVE i = j
        <4>0. /\ all[i] = tabs[where[i]] /\ all[j] = tabs[where[j]]
              /\ where[i] \in DOMAIN tabs /\ where[j] \in DOMAIN tabs
          BY <2>10
        <4>1. where[i] = where[j]
          BY <1>0, <3>1, <4>0 DEF RowFits, InOrder
        <4>2. again[where[i]] = i /\ again[where[j]] = j
          BY <2>10
        <4>3. QED  BY <4>1, <4>2
      <3>2. ASSUME NEW i \in DOMAIN tabs, NEW j \in DOMAIN tabs, i < j, all[j].pinned
            PROVE  all[i].pinned
        <4>0. all[j] = tabs[where[j]] /\ tabs[where[j]].pinned = tabs[j].pinned
          BY <2>10
        <4>1. tabs[j].pinned
          BY <3>2, <4>0
        <4>2. tabs[i].pinned
          BY <1>0, <3>2, <4>1 DEF RowFits, InOrder
        <4>3. QED  BY <4>2, <2>10
      <3>3. \A i \in DOMAIN all : all[i].id < nextId
        BY <1>0, <2>10, <2>11 DEF RowFits
      <3>4. QED  BY <3>1, <3>2, <3>3, <2>11, <2>12 DEF RowFits, InOrder
    <2>14. TabSet(all) = TabSet(tabs)
      <3>1. \A i \in DOMAIN all : \E j \in DOMAIN tabs : all[i] = tabs[j]
        BY <2>10, <2>11
      <3>2. ASSUME NEW j \in DOMAIN tabs PROVE \E i \in DOMAIN all : all[i] = tabs[j]
        <4>1. again[j] \in DOMAIN all /\ where[again[j]] = j
          BY <2>10, <2>11
        <4>2. all[again[j]] = tabs[where[again[j]]]
          BY <4>1, <2>10, <2>11
        <4>3. QED  BY <4>1, <4>2
      <3>3. QED  BY <3>1, <3>2 DEF TabSet
    <2>15. TabSet(tabs') = TabSet(tabs) /\ tabs' = all /\ stored' = all
      BY <2>14, <1>4
    <2>16. LiveFits' /\ FlowFits(active', live', flow')
      BY <1>0, <1>2 DEF LiveFits
    <2>17. ActiveFits(TabSet(tabs'), active', live', bench', flow')
      BY <1>0, <1>2, <2>15
    <2>18. TabsShown(TabSet(tabs'), tabHistory', active', live', flow', mine', damaged', edited')
      BY <1>2, <2>15 DEF TabsInv, TabsExpected
    <2>19. StoredFits'
      BY <2>15 DEF StoredFits
    <2>20. /\ \A i \in Ids : i >= nextId' => tabHistory'[i] = <<>>
           /\ mine' = [i \in Ids |-> mine'[i]] /\ \A i \in Ids : mine'[i] \in SeenTabs
      BY <1>2 DEF TabsInv, TabTypes
    <2>21. DragHolds(tabs', nextId', drag') /\ RowFits(tabs', nextId') /\ RowFits(stored', nextId')
      BY <1>2, <2>13, <2>15 DEF DragHolds
    <2>22. QED
      BY <1>0, <1>2, <2>16, <2>17, <2>18, <2>19, <2>20, <2>21, TabsInvFrom
  <1>5. QED  BY <1>1, <1>3, <1>4

(* Tabs that were just restored, none of them active.                      *)
LEMMA RestoredShown ==
  ASSUME NEW n, NEW ts, RowFits(ts, n), NEW old, \A id \in Ids : old[id] \in SeenTabs,
         NEW dm, \A t \in TabSet(ts) : t.id \notin dm => t.community \in {NoTab, t.content}
  PROVE  LET m == [id \in Ids |->
                     IF id \in Open(ts)
                     THEN [content |-> Tab(ts, id).content,
                           community |-> Tab(ts, id).community, history |-> <<>>]
                     ELSE old[id]]
         IN /\ \A id \in Ids : m[id] \in SeenTabs
            /\ TabsShown(TabSet(ts), [id \in Ids |-> <<>>], NoTab, Closed, NoFlow, m, dm, {})
  <1> DEFINE m == [id \in Ids |->
                     IF id \in Open(ts)
                     THEN [content |-> Tab(ts, id).content,
                           community |-> Tab(ts, id).community, history |-> <<>>]
                     ELSE old[id]]
  <1>1. ASSUME NEW t \in TabSet(ts)
        PROVE  /\ t.id \in Ids /\ t.id # NoTab /\ t.id \in Open(ts) /\ t = Tab(ts, t.id)
               /\ t.content \in Contents /\ t.community \in Communities
    <2>1. t \in TabRecords /\ t.id \in Open(ts)
      BY TabsAlone, TabsOpen
    <2>2. t = Tab(ts, t.id)
      BY <2>1, TabPlace
    <2>3. QED  BY <2>1, <2>2, TabNumbers DEF TabRecords
  <1>2. ASSUME NEW id \in Ids PROVE m[id] \in SeenTabs
    <2>1. CASE id \in Open(ts)
      <3>1. Tab(ts, id) \in TabSet(ts)
        BY <2>1, TabPlace
      <3>2. QED  BY <2>1, <3>1, <1>1 DEF SeenTabs
    <2>2. CASE id \notin Open(ts)
      BY <2>2
    <2>3. QED  BY <2>1, <2>2
  <1>3. ASSUME NEW t \in TabSet(ts), t.id \notin dm
        PROVE  TabShows(t, [id \in Ids |-> <<>>][t.id], NoTab, Closed, NoFlow, m[t.id], {})
    <2>1. m[t.id] = [content |-> t.content, community |-> t.community, history |-> <<>>]
      BY <1>1
    <2> HIDE DEF m
    <2>2. [id \in Ids |-> <<>>][t.id] = <<>> /\ t.id # NoTab
      BY <1>1
    <2>3. t.community \in {NoTab, t.content}
      BY <1>3
    <2>4. QED  BY <2>1, <2>2, <2>3 DEF TabShows, ShownAs
  <1>4. QED  BY <1>2, <1>3 DEF TabsShown

(* Nothing is active.                                                      *)
LEMMA NothingActive ==
  ASSUME NEW T, \A t \in T : t.id # NoTab, NEW loadout \in Contents
  PROVE  /\ Closed \in LiveBuilds /\ NoFlow \in TabFlows
         /\ [on |-> FALSE, tab |-> NoTab, loadout |-> loadout] \in Benches
         /\ [id \in Ids |-> <<>>] = [id \in Ids |-> [j \in Ids |-> <<>>][id]]
         /\ FlowFits(NoTab, Closed, NoFlow)
         /\ ActiveFits(T, NoTab, Closed, [on |-> FALSE, tab |-> NoTab, loadout |-> loadout], NoFlow)
  BY TabConsts DEF Benches, FlowFits, ActiveFits

(* restoreTabsFromStorage. *)
LEMMA ReloadKeeps == ASSUME TabsInv, Reload PROVE TabsInv'
  <1>0. RowFits(stored, nextId) /\ nextId \in Nat /\ nextId \in 1 .. MaxTabs + 1
    BY TabsInvParts
  <1>1. /\ tabs' = stored /\ stored' = stored /\ nextId' = nextId /\ drag' = NoDrag
        /\ tabHistory' = [id \in Ids |-> <<>>] /\ active' = NoTab /\ live' = Closed /\ flow' = NoFlow
        /\ bench' = [on |-> FALSE, tab |-> NoTab, loadout |-> NoLoadout] /\ edited' = {}
        /\ mine' = [id \in Ids |->
             IF id \in Open(stored)
             THEN [content |-> Tab(stored, id).content,
                   community |-> Tab(stored, id).community, history |-> <<>>]
             ELSE mine[id]]
        /\ damaged' = damaged \cup {stored[i].id : i \in
                        {j \in DOMAIN stored :
                           stored[j].community \notin {NoTab, stored[j].content}}}
    BY DEF Reload
  <1>2. \A id \in Ids : mine[id] \in SeenTabs
    BY DEF TabsInv, TabTypes
  <1>3. ASSUME NEW t \in TabSet(stored), t.id \notin damaged'
        PROVE  t.community \in {NoTab, t.content}
    BY <1>1, <1>3 DEF TabSet
  <1>4. /\ \A id \in Ids : mine'[id] \in SeenTabs
        /\ TabsShown(TabSet(stored), [id \in Ids |-> <<>>], NoTab, Closed, NoFlow, mine', damaged', {})
    BY <1>0, <1>1, <1>2, <1>3, RestoredShown
  <1>5. \A t \in TabSet(stored) : t.id # NoTab
    BY <1>0, TabsAlone, TabNumbers
  <1>6. LiveFits' /\ FlowFits(active', live', flow')
        /\ ActiveFits(TabSet(tabs'), active', live', bench', flow')
    <2>1. NoLoadout \in Contents
      BY DEF Contents
    <2>2. QED  BY <1>1, <1>5, <2>1, NothingActive DEF LiveFits
  <1>7. TabsShown(TabSet(tabs'), tabHistory', active', live', flow', mine', damaged', edited')
    BY <1>1, <1>4
  <1>8. StoredFits' /\ DragHolds(tabs', nextId', drag')
    BY <1>1 DEF StoredFits, DragHolds
  <1>9. /\ \A i \in Ids : i >= nextId' => tabHistory'[i] = <<>>
        /\ mine' = [i \in Ids |-> mine'[i]]
    BY <1>1
  <1>10. RowFits(tabs', nextId') /\ RowFits(stored', nextId') /\ nextId' \in 1 .. MaxTabs + 1
         /\ active' \in (1 .. nextId' - 1) \cup {NoTab}
    BY <1>0, <1>1
  <1>11. QED  BY <1>4, <1>6, <1>7, <1>8, <1>9, <1>10, TabsInvFrom

(* The page is loaded for the first time.                                  *)
LEMMA TabsStart == TabsInit => TabsInv
  <1> SUFFICES ASSUME TabsInit PROVE TabsInv
    OBVIOUS
  <1>1. /\ stored \in RestoredTabs /\ tabs = stored /\ nextId = Len(stored) + 1 /\ drag = NoDrag
        /\ tabHistory = [id \in Ids |-> <<>>] /\ active = NoTab /\ live = Closed /\ flow = NoFlow
        /\ bench = [on |-> FALSE, tab |-> NoTab, loadout |-> NoLoadout]
        /\ mine = [id \in Ids |->
             IF id \in Open(stored)
             THEN [content |-> Tab(stored, id).content,
                   community |-> Tab(stored, id).community, history |-> <<>>]
             ELSE [content |-> Bare, community |-> NoTab, history |-> <<>>]]
        /\ damaged = {} /\ edited = {}
    BY DEF TabsInit
  <1>2. /\ stored \in Seq(TabRecords) /\ Len(stored) <= MaxTabs /\ InOrder(stored)
        /\ \A i \in DOMAIN stored :
             stored[i].id <= Len(stored) /\ stored[i].community \in {NoTab, stored[i].content}
        /\ MaxTabs \in Nat
    BY <1>1, TabConstants
  <1>3. Len(stored) \in Nat /\ nextId \in Nat /\ nextId \in 1 .. MaxTabs + 1
    BY <1>1, <1>2
  <1>4. RowFits(stored, nextId)
    <2>1. \A i \in DOMAIN stored : stored[i].id \in Nat
      <3>1. \A i \in DOMAIN stored : stored[i] \in TabRecords
        BY <1>2, ElementOf
      <3>2. QED  BY <3>1, TabNumbers DEF TabRecords
    <2>2. \A i \in DOMAIN stored : stored[i].id < nextId
      BY <1>1, <1>2, <1>3, <2>1
    <2>3. QED  BY <1>2, <2>2 DEF RowFits
  <1> DEFINE old == [id \in Ids |-> [content |-> Bare, community |-> NoTab, history |-> <<>>]]
  <1>5. \A id \in Ids : old[id] \in SeenTabs
    BY TabConstants DEF SeenTabs, Contents, Communities
  <1>6. mine = [id \in Ids |->
             IF id \in Open(stored)
             THEN [content |-> Tab(stored, id).content,
                   community |-> Tab(stored, id).community, history |-> <<>>]
             ELSE old[id]]
    BY <1>1
  <1> HIDE DEF old
  <1>7. \A t \in TabSet(stored) : t.community \in {NoTab, t.content}
    BY <1>2 DEF TabSet
  <1>8. /\ \A id \in Ids : mine[id] \in SeenTabs
        /\ TabsShown(TabSet(stored), [id \in Ids |-> <<>>], NoTab, Closed, NoFlow, mine, {}, {})
    BY <1>4, <1>5, <1>6, <1>7, RestoredShown
  <1>9. \A t \in TabSet(stored) : t.id # NoTab
    BY <1>4, TabsAlone, TabNumbers
  <1>10. LiveFits /\ TabsLive
    <2>1. NoLoadout \in Contents
      BY DEF Contents
    <2>2. QED  BY <1>1, <1>9, <2>1, NothingActive DEF LiveFits, TabsLive
  <1>11. TabsExpected /\ StoredFits /\ DragHolds(tabs, nextId, drag)
    BY <1>1, <1>8 DEF TabsExpected, StoredFits, DragHolds
  <1>12. TabTypes
    BY <1>1, <1>3, <1>4, <1>8, <1>10 DEF TabTypes
  <1>13. QED  BY <1>10, <1>11, <1>12 DEF TabsInv

(* The tabs keep their invariant whatever is done.                         *)
LEMMA TabsStep == TabsInv /\ [TabsNext]_tabVars => TabsInv'
  <1> SUFFICES ASSUME TabsInv, [TabsNext]_tabVars PROVE TabsInv'
    OBVIOUS
  <1>1. CASE UNCHANGED tabVars
    <2>1. UNCHANGED <<tabs, tabHistory, active, live, bench, flow, drag, unsaved, stored,
                      nextId, mine, damaged, edited>>
      BY <1>1 DEF tabVars
    <2>2. StoredFits /\ RowFits(stored, nextId) /\ DragHolds(tabs, nextId, drag)
      BY TabsInvParts
    <2>3. StoredFits'
      BY <2>1, <2>2 DEF StoredFits, InFlight
    <2>4. QED  BY <2>1, <2>2, <2>3, TabsUnmoved
  <1>2. ASSUME drag = NoDrag, PointerActs PROVE TabsInv'
    <2>1. CASE PickGun
      BY <1>2, <2>1, PickGunKeeps
    <2>2. CASE OpenBallistics
      BY <1>2, <2>2, OpenBallisticsKeeps
    <2>3. CASE ClickTab
      BY <2>3, ClickTabKeeps
    <2>4. CASE UseBench
      BY <2>4, UseBenchKeeps
    <2>5. CASE Back
      BY <2>5, BackKeeps
    <2>6. CASE SwitchLanguage
      BY <2>6, SwitchLanguageKeeps
    <2>7. CASE Duplicate
      BY <1>2, <2>7, DuplicateKeeps
    <2>8. CASE TogglePin
      BY <1>2, <2>8, TogglePinKeeps
    <2>9. CASE BeginDrag
      BY <2>9, BeginDragKeeps
    <2>10. CASE \E build \in Builds : Edit(build)
      BY <2>10, EditKeeps
    <2>11. ASSUME NEW build \in Builds, NEW attributed \in BOOLEAN,
                  OpenPayload(build, IF attributed THEN build ELSE NoTab)
           PROVE  TabsInv'
      <3>1. (IF attributed THEN build ELSE NoTab) \in {NoTab, build}
        OBVIOUS
      <3>2. QED  BY <1>2, <2>11, <3>1, OpenPayloadKeeps
    <2>12. QED
      BY <1>2, <2>1, <2>2, <2>3, <2>4, <2>5, <2>6, <2>7, <2>8, <2>9, <2>10, <2>11
         DEF PointerActs
  <1>3. CASE UserActs
    BY <1>2, <1>3, CloseKeeps, ReloadKeeps DEF UserActs
  <1>4. CASE \/ EndDrag \/ GunPrepared \/ LanguageSwitched \/ ChipGone
             \/ LoadAbandoned \/ InitLoaded \/ WeaponShown \/ PartsLoaded
             \/ TreeDrawn \/ LoadEnds \/ TimerPersists
    BY <1>4, EndDragKeeps, GunPreparedKeeps, LanguageSwitchedKeeps, ChipGoneKeeps,
       LoadAbandonedKeeps, InitLoadedKeeps, WeaponShownKeeps, PartsLoadedKeeps,
       TreeDrawnKeeps, LoadEndsKeeps, TimerKeeps
  <1>5. QED  BY <1>1, <1>3, <1>4 DEF TabsNext

(* What is promised follows.                                               *)
LEMMA TabsHold == TabsInv => TabsAreKept
  <1> SUFFICES ASSUME TabsInv PROVE TabsAreKept
    OBVIOUS
  <1>0. /\ RowFits(tabs, nextId) /\ StoredFits
        /\ ActiveFits(TabSet(tabs), active, live, bench, flow)
    BY TabsInvParts
  <1>1. EachTabKeepsItsBuild
    <2> SUFFICES ASSUME NEW i \in DOMAIN tabs, tabs[i].id \notin damaged,
                        ~(active = tabs[i].id /\ InFlight)
                 PROVE  LET t == tabs[i] IN
                   \/ IsBench(t) /\ t.content = mine[t.id].content
                   \/ active # t.id /\ Shows(t.id, t.content, t.community, tabHistory[t.id])
                   \/ /\ active = t.id /\ live.on
                      /\ Shows(t.id, live.build, live.community, live.history)
                      /\ t.content = live.build /\ t.community = live.community
      BY DEF EachTabKeepsItsBuild
    <2> DEFINE t == tabs[i]
    <2>1. t \in TabSet(tabs)
      BY DEF TabSet
    <2> HIDE DEF t
    <2>2. TabShows(t, tabHistory[t.id], active, live, flow, mine[t.id], edited)
      BY <2>1 DEF TabsInv, TabsExpected, TabsShown, t
    <2>3. CASE IsBench(t)
      BY <2>2, <2>3 DEF TabShows, t
    <2>4. CASE ~IsBench(t) /\ active # t.id
      <3>1. Shows(t.id, t.content, t.community, tabHistory[t.id])
        BY <2>2, <2>4 DEF TabShows, ShownAs, Shows
      <3>2. QED  BY <2>4, <3>1 DEF t
    <2>5. CASE ~IsBench(t) /\ active = t.id
      <3>1. flow.kind = "none"
        BY <2>5 DEF InFlight, t
      <3>2. live.on /\ t.content = live.build /\ t.community = live.community
        BY <1>0, <2>1, <2>5, <3>1 DEF ActiveFits
      <3>3. Shows(t.id, live.build, live.community, live.history)
        BY <2>2, <2>5, <3>1 DEF TabShows, ShownAs, Shows
      <3>4. QED  BY <2>5, <3>2, <3>3 DEF t
    <2>6. QED  BY <2>3, <2>4, <2>5
  <1>2. Cardinality(Open(tabs)) = Len(tabs)
    <2> DEFINE f == [i \in 1 .. Len(tabs) |-> tabs[i].id]
    <2>1. DOMAIN tabs = 1 .. Len(tabs) /\ Len(tabs) \in Nat
      BY <1>0 DEF RowFits
    <2>2. f \in Bijection(1 .. Len(tabs), Open(tabs))
      <3>1. \A i, j \in 1 .. Len(tabs) : tabs[i].id = tabs[j].id => i = j
        BY <1>0, <2>1 DEF RowFits, InOrder
      <3>2. Open(tabs) = {tabs[i].id : i \in 1 .. Len(tabs)}
        BY <2>1 DEF Open
      <3>3. QED
        BY <3>1, <3>2 DEF Bijection, Injection, Surjection, IsInjective
    <2>3. ExistsBijection(1 .. Len(tabs), Open(tabs))
      BY <2>2 DEF ExistsBijection
    <2>4. IsFiniteSet(1 .. Len(tabs)) /\ Cardinality(1 .. Len(tabs)) = Len(tabs)
      <3> DEFINE n == Len(tabs)
      <3>1. n \in Nat
        BY <2>1
      <3> HIDE DEF n
      <3>2. IsFiniteSet(1 .. n) /\ Cardinality(1 .. n) = IF 1 > n THEN 0 ELSE n - 1 + 1
        BY <3>1, FS_Interval
      <3>3. QED  BY <3>1, <3>2 DEF n
    <2>5. QED  BY <2>3, <2>4, FS_Bijection
  <1>3. QuietTabsAreStored
    BY <1>0, <1>2 DEF QuietTabsAreStored, StoredFits, RowFits, InOrder
  <1>4. QED  BY <1>1, <1>3 DEF TabsAreKept
================================================================================
