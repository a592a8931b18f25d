------------------------------- MODULE DataLemmas -------------------------------
(***************************************************************************)
(* What the proofs about the components need of sequences, numbers and     *)
(* finite sets.  A least element of a set takes the place of induction.    *)
(***************************************************************************)
EXTENDS Subsequences, Integers, Sequences, SequencesExt, FiniteSetTheorems, SequenceTheorems,
        WellFoundedInduction, TLAPS

--------------------------------------------------------------------------------
(* A sequence without its element i.                                        *)
LEMMA RemoveAtRest ==
  ASSUME NEW S, NEW s \in Seq(S), NEW i \in DOMAIN s
  PROVE  /\ RemoveAt(s, i) \in Seq(S) /\ Len(RemoveAt(s, i)) = Len(s) - 1
         /\ DOMAIN RemoveAt(s, i) = 1..(Len(s) - 1)
         /\ \A j \in DOMAIN RemoveAt(s, i) : RemoveAt(s, i)[j] = IF j < i THEN s[j] ELSE s[j + 1]
  <1> DEFINE l == SubSeq(s, 1, i - 1)  r == SubSeq(s, i + 1, Len(s))
  <1>1. i \in 1..Len(s) /\ Len(s) \in Nat
    OBVIOUS
  <1>2. l \in Seq(S) /\ Len(l) = i - 1 /\ \A j \in 1..(i - 1) : l[j] = s[j]
    BY <1>1
  <1>3. r \in Seq(S) /\ Len(r) = Len(s) - i /\ \A j \in 1..(Len(s) - i) : r[j] = s[i + j]
    BY <1>1
  <1>4. RemoveAt(s, i) = l \o r
    BY DEF RemoveAt
  <1> HIDE DEF l, r
  <1>5. l \o r \in Seq(S) /\ Len(l \o r) = Len(s) - 1
    BY <1>1, <1>2, <1>3
  <1>6. ASSUME NEW j \in 1..(Len(s) - 1)
        PROVE  (l \o r)[j] = IF j < i THEN s[j] ELSE s[j + 1]
    <2>1. CASE j < i
      BY <1>1, <1>2, <1>3, <2>1
    <2>2. CASE ~(j < i)
      <3>1. (l \o r)[j] = r[j - Len(l)]
        BY <1>1, <1>2, <1>3, <2>2
      <3>2. j - Len(l) \in 1..(Len(s) - i) /\ i + (j - Len(l)) = j + 1
        BY <1>1, <1>2, <2>2
      <3>3. QED  BY <3>1, <3>2, <1>3, <2>2
    <2>3. QED  BY <2>1, <2>2
  <1>7. DOMAIN (l \o r) = 1..(Len(s) - 1)
    BY <1>5
  <1>8. QED  BY <1>4, <1>5, <1>6, <1>7, Zenon

(* An element of a sequence is in its set.                                  *)
LEMMA ElementOf ==
  ASSUME NEW S, NEW s \in Seq(S), NEW i \in DOMAIN s
  PROVE  s[i] \in S
  OBVIOUS

(* A sequence whose elements are mapped one by one.                         *)
LEMMA SameLength ==
  ASSUME NEW T, NEW s \in Seq(T), NEW S, NEW t, t = [j \in DOMAIN s |-> t[j]],
         \A j \in DOMAIN s : t[j] \in S
  PROVE  t \in Seq(S) /\ Len(t) = Len(s)
  OBVIOUS

(* A sequence with one more element.                                        *)
LEMMA AppendLast ==
  ASSUME NEW S, NEW s \in Seq(S), NEW e \in S
  PROVE  /\ Append(s, e) \in Seq(S) /\ Append(s, e) # <<>> /\ Len(Append(s, e)) = Len(s) + 1
         /\ \A j \in DOMAIN s : Append(s, e)[j] = s[j]
         /\ Append(s, e)[Len(s) + 1] = e
  OBVIOUS

(* A sequence without its first element.                                    *)
LEMMA HeadAndTail ==
  ASSUME NEW S, NEW s \in Seq(S), s # <<>>
  PROVE  /\ Head(s) \in S /\ Tail(s) \in Seq(S) /\ Len(Tail(s)) = Len(s) - 1
         /\ \A j \in DOMAIN Tail(s) : Tail(s)[j] = s[j + 1]
  OBVIOUS

Occurs(s, x) == \E k \in DOMAIN s : s[k] = x

(* What one sequence or the other has, the two have one after the other.    *)
LEMMA ConcatHas ==
  ASSUME NEW S, NEW s \in Seq(S), NEW t \in Seq(S)
  PROVE  \A x : Occurs(s \o t, x) <=> Occurs(s, x) \/ Occurs(t, x)
  <1> DEFINE n == Len(s)  k == Len(t)  u == s \o t
  <1>1. /\ n \in Nat /\ k \in Nat /\ DOMAIN u = 1 .. n + k /\ DOMAIN s = 1 .. n
        /\ DOMAIN t = 1 .. k /\ \A i \in 1 .. n : u[i] = s[i]
    OBVIOUS
  <1>2. \A i \in 1 .. k : u[n + i] = t[i]
    OBVIOUS
  <1> HIDE DEF u, n, k
  <1>3. ASSUME NEW j \in 1 .. n + k
        PROVE  (\E i \in 1 .. n : u[j] = s[i]) \/ (\E i \in 1 .. k : u[j] = t[i])
    <2>1. CASE j <= n
      BY <1>1, <2>1
    <2>2. CASE ~(j <= n)
      <3> DEFINE i == j - n
      <3>1. i \in 1 .. k /\ n + i = j
        BY <1>1, <2>2
      <3> HIDE DEF i
      <3>2. u[n + i] = t[i]
        BY <1>2, <3>1
      <3>3. QED  BY <3>1, <3>2
    <2>3. QED  BY <2>1, <2>2
  <1>4. (\A i \in 1 .. n : i \in 1 .. n + k) /\ (\A i \in 1 .. k : n + i \in 1 .. n + k)
    BY <1>1
  <1>5. \A x : (\E j \in DOMAIN u : u[j] = x)
               <=> (\E j \in DOMAIN s : s[j] = x) \/ (\E j \in DOMAIN t : t[j] = x)
    <2>1. ASSUME NEW x, NEW j \in DOMAIN u, u[j] = x
          PROVE  (\E i \in DOMAIN s : s[i] = x) \/ (\E i \in DOMAIN t : t[i] = x)
      BY <1>1, <1>3, <2>1
    <2>2. ASSUME NEW x, NEW j \in DOMAIN s, s[j] = x PROVE \E i \in DOMAIN u : u[i] = x
      BY <1>1, <1>4, <2>2
    <2>3. ASSUME NEW x, NEW j \in DOMAIN t, t[j] = x PROVE \E i \in DOMAIN u : u[i] = x
      BY <1>1, <1>2, <1>4, <2>3
    <2>4. QED  BY <2>1, <2>2, <2>3
  <1>6. QED  BY <1>5 DEF u, Occurs

(* Each element of the two together is one of the first or of the second.   *)
LEMMA ConcatFrom ==
  ASSUME NEW S, NEW s \in Seq(S), NEW t \in Seq(S)
  PROVE  \A k \in DOMAIN (s \o t) :
           (\E i \in DOMAIN s : (s \o t)[k] = s[i]) \/ (\E i \in DOMAIN t : (s \o t)[k] = t[i])
  <1> DEFINE u == s \o t
  <1>1. \A k \in DOMAIN u : Occurs(u, u[k])
    BY DEF Occurs
  <1>2. \A x : Occurs(u, x) <=> Occurs(s, x) \/ Occurs(t, x)
    BY ConcatHas
  <1> HIDE DEF u
  <1>3. \A k \in DOMAIN u : (\E i \in DOMAIN s : u[k] = s[i]) \/ (\E i \in DOMAIN t : u[k] = t[i])
    BY <1>1, <1>2 DEF Occurs
  <1>4. QED  BY <1>3 DEF u

--------------------------------------------------------------------------------
(* A family of finite sets has a member that none of the others is a part  *)
(* of properly.                                                            *)
LEMMA LeastFiniteSet ==
  ASSUME NEW F, \A T \in F : IsFiniteSet(T), F # {}
  PROVE  \E T \in F : \A U \in F : U \subseteq T => U = T
  <1> DEFINE S == UNION F
  <1>1. F \subseteq FiniteSubsetsOf(S)
    BY DEF FiniteSubsetsOf
  <1>2. PICK T \in F : \A U \in F : ~(<<U, T>> \in StrictSubsetOrdering(S))
    BY <1>1, FS_StrictSubsetOrderingWellFounded, WFMin
  <1>3. \A U \in F : U \subseteq T => U = T
    BY <1>2 DEF StrictSubsetOrdering
  <1>4. QED  BY <1>3

(* A set of numbers has a least one.                                       *)
LEMMA LeastNumber ==
  ASSUME NEW N, N \subseteq Nat, N # {}
  PROVE  \E n \in N : \A m \in N : n <= m
  <1> DEFINE F == {1..n : n \in N}
  <1>1. \A T \in F : IsFiniteSet(T)
    <2>1. \A n \in Nat : IsFiniteSet(1..n)
      BY FS_Interval
    <2>2. QED  BY <2>1
  <1>2. PICK n \in N : \A m \in N : 1..m \subseteq 1..n => 1..m = 1..n
    <2>1. F # {}
      OBVIOUS
    <2>2. \A m \in N : 1..m \in F
      OBVIOUS
    <2>3. \A T \in F : \E m \in N : T = 1..m
      OBVIOUS
    <2> HIDE DEF F
    <2>4. PICK T \in F : \A U \in F : U \subseteq T => U = T
      BY <1>1, <2>1, LeastFiniteSet
    <2>5. PICK n \in N : T = 1..n
      BY <2>3
    <2>6. \A m \in N : 1..m \subseteq 1..n => 1..m = 1..n
      BY <2>2, <2>4, <2>5
    <2>7. QED  BY <2>6
  <1>3. ASSUME NEW m \in N PROVE n <= m
    <2>1. CASE m < n
      <3>1. 1..m \subseteq 1..n /\ n \in 1..n /\ n \notin 1..m
        BY <2>1
      <3>2. QED  BY <1>2, <3>1
    <2>2. QED  BY <2>1
  <1>4. QED  BY <1>3
--------------------------------------------------------------------------------
(* Flattening, one sequence after the other.                                *)
LEMMA FlattenParts ==
  ASSUME NEW S, NEW seqs \in Seq(Seq(S))
  PROVE  \E f \in [0 .. Len(seqs) -> Seq(S)] :
           /\ f[0] = <<>> /\ f[Len(seqs)] = FlattenSeq(seqs)
           /\ \A i \in 1 .. Len(seqs) : f[i] = f[i - 1] \o seqs[i]
  <1> DEFINE n == Len(seqs)
             Parts(f, m) == /\ f \in [0 .. m -> Seq(S)] /\ f[0] = <<>>
                            /\ \A i \in 1 .. m : f[i] = f[i - 1] \o seqs[i]
  <1>n. n \in Nat /\ \A i \in 1 .. n : seqs[i] \in Seq(S)
    OBVIOUS
  <1> HIDE DEF n
  <1>1. \E f : Parts(f, 0)
    <2>1. Parts([i \in 0 .. 0 |-> <<>>], 0)
      OBVIOUS
    <2>2. QED  BY <2>1
  <1>2. ASSUME NEW m \in Nat, m + 1 <= n, NEW f, Parts(f, m) PROVE \E g : Parts(g, m + 1)
    <2> DEFINE last == f[m] \o seqs[m + 1]
               g == [i \in 0 .. m + 1 |-> IF i = m + 1 THEN last ELSE f[i]]
    <2>1. last \in Seq(S)
      <3>1. f[m] \in Seq(S) /\ seqs[m + 1] \in Seq(S)
        BY <1>n, <1>2
      <3>2. QED  BY <3>1
    <2> HIDE DEF last
    <2>2. g \in [0 .. m + 1 -> Seq(S)] /\ g[m + 1] = last /\ \A i \in 0 .. m : g[i] = f[i]
      BY <1>2, <2>1
    <2> HIDE DEF g
    <2>3. ASSUME NEW i \in 1 .. m + 1 PROVE g[i] = g[i - 1] \o seqs[i]
      <3>0. (m + 1) - 1 = m /\ m \in 0 .. m /\ (i = m + 1 \/ i \in 1 .. m)
        OBVIOUS
      <3>1. CASE i = m + 1
        <4>1. g[m + 1] = last /\ g[m] = f[m]
          BY <2>2, <3>0
        <4>2. i - 1 = m
          BY <3>0, <3>1
        <4>3. QED  BY <3>1, <4>1, <4>2 DEF last
      <3>2. CASE i \in 1 .. m
        <4>1. i \in 0 .. m /\ i - 1 \in 0 .. m
          BY <3>2
        <4>2. g[i] = f[i] /\ g[i - 1] = f[i - 1]
          BY <2>2, <4>1
        <4>3. f[i] = f[i - 1] \o seqs[i]
          BY <1>2, <3>2
        <4>4. QED  BY <4>2, <4>3
      <3>3. QED  BY <3>0, <3>1, <3>2
    <2>4. g[0] = <<>>
      BY <1>2, <2>2
    <2>5. QED  BY <2>2, <2>3, <2>4
  <1> HIDE DEF Parts
  <1>3. \A m \in 0 .. n : \E f : Parts(f, m)
    <2> DEFINE N == {m \in 0 .. n : ~\E f : Parts(f, m)}
    <2>0. N \subseteq Nat /\ \A m : m \in N <=> m \in 0 .. n /\ ~\E f : Parts(f, m)
      OBVIOUS
    <2> HIDE DEF N
    <2> SUFFICES ASSUME N # {} PROVE FALSE
      BY <2>0
    <2>1. PICK m \in N : \A k \in N : m <= k
      BY <2>0, LeastNumber
    <2>2. m # 0 /\ m \in 0 .. n
      BY <1>1, <2>0, <2>1
    <2>3. m - 1 \in 0 .. n /\ m - 1 \in Nat /\ m - 1 \notin N /\ (m - 1) + 1 = m
      BY <1>n, <2>1, <2>2
    <2>4. PICK f : Parts(f, m - 1)
      BY <2>0, <2>3
    <2>5. \E g : Parts(g, (m - 1) + 1)
      BY <1>2, <1>n, <2>2, <2>3, <2>4
    <2>6. QED  BY <2>0, <2>1, <2>3, <2>5
  <1>4. PICK f : Parts(f, n)
    <2>1. n \in 0 .. n
      BY <1>n
    <2>2. QED  BY <1>3, <2>1
  <1>5. /\ f \in [0 .. n -> Seq(S)] /\ f[0] = <<>>
        /\ \A i \in 1 .. n : f[i] = f[i - 1] \o seqs[i]
    BY <1>4 DEF Parts
  <1>6. f[n] = FlattenSeq(seqs)
    <2>1. CASE n = 0
      <3>1. seqs = <<>> /\ FlattenSeq(seqs) = seqs
        BY <2>1 DEF FlattenSeq, n
      <3>2. QED  BY <1>5, <2>1, <3>1
    <2>2. CASE n # 0
      <3> DEFINE flatten == CHOOSE g : g = [i \in 1 .. n |->
                              IF i = 1 THEN seqs[i] ELSE g[i - 1] \o seqs[i]]
                 h == [i \in 1 .. n |-> f[i]]
      <3>1. FlattenSeq(seqs) = flatten[n]
        BY <2>2 DEF FlattenSeq, n
      <3>2. ASSUME NEW i \in 1 .. n PROVE f[i] = IF i = 1 THEN seqs[i] ELSE h[i - 1] \o seqs[i]
        <4>1. CASE i = 1
          <5>1. f[1] = f[1 - 1] \o seqs[1] /\ seqs[1] \in Seq(S) /\ 1 - 1 = 0
            <6>1. 1 \in 1 .. n /\ 1 - 1 = 0
              BY <4>1
            <6>2. QED  BY <1>5, <1>n, <6>1
          <5>2. f[1] = <<>> \o seqs[1]
            BY <1>5, <5>1
          <5>3. QED  BY <4>1, <5>1, <5>2
        <4>2. CASE i # 1
          <5>1. i - 1 \in 1 .. n
            BY <4>2, <1>n
          <5>2. QED  BY <1>5, <4>2, <5>1
        <4>3. QED  BY <4>1, <4>2
      <3>3. h = [i \in 1 .. n |-> IF i = 1 THEN seqs[i] ELSE h[i - 1] \o seqs[i]]
        BY <3>2
      <3>4. flatten = [i \in 1 .. n |-> IF i = 1 THEN seqs[i] ELSE flatten[i - 1] \o seqs[i]]
        BY <3>3
      <3> HIDE DEF flatten
      <3> DEFINE N == {i \in 1 .. n : flatten[i] # f[i]}
      <3>5. N \subseteq Nat /\ \A i : i \in N <=> i \in 1 .. n /\ flatten[i] # f[i]
        OBVIOUS
      <3> HIDE DEF N
      <3>6. N = {}
        <4> SUFFICES ASSUME N # {} PROVE FALSE
          OBVIOUS
        <4>1. PICK i \in N : \A k \in N : i <= k
          BY <3>5, LeastNumber
        <4>2. i \in 1 .. n /\ flatten[i] # f[i]
          BY <3>5, <4>1
        <4>3. i # 1
          <5>1. ASSUME i = 1 PROVE flatten[i] = seqs[i] /\ f[i] = seqs[i]
            BY <3>2, <3>4, <4>2, <5>1
          <5>2. QED  BY <4>2, <5>1
        <4>4. i - 1 \in 1 .. n /\ i - 1 \notin N
          BY <1>n, <4>1, <4>2, <4>3
        <4>5. flatten[i - 1] = f[i - 1]
          BY <3>5, <4>4
        <4>6. flatten[i] = flatten[i - 1] \o seqs[i]
          BY <3>4, <4>2, <4>3
        <4>7. QED  BY <1>5, <4>2, <4>5, <4>6
      <3>7. n \in 1 .. n
        BY <1>n, <2>2
      <3>8. QED  BY <3>1, <3>5, <3>6, <3>7
    <2>3. QED  BY <2>1, <2>2
  <1>7. QED  BY <1>5, <1>6 DEF n

(* part is what seq has at the positions in I up to n, in their order, when *)
(* at says where each element comes from.                                   *)
Selects(at, part, seq, I, n) ==
  /\ at \in [1 .. Len(part) -> I \cap (1 .. n)]
  /\ \A k \in 1 .. Len(part) : part[k] = seq[at[k]]
  /\ \A k, l \in 1 .. Len(part) : k < l => at[k] < at[l]
  /\ \A i \in I \cap (1 .. n) : \E k \in 1 .. Len(part) : at[k] = i

(* One more position, selected or not.                                      *)
LEMMA SelectsNext ==
  ASSUME NEW S, NEW seq \in Seq(S), NEW I, NEW n \in Nat, n + 1 <= Len(seq),
         NEW part \in Seq(S), NEW at, Selects(at, part, seq, I, n)
  PROVE  LET next == IF n + 1 \in I THEN Append(part, seq[n + 1]) ELSE part IN
         next \in Seq(S) /\ \E b : Selects(b, next, seq, I, n + 1)
  <1>1. CASE n + 1 \notin I
    <2>1. I \cap (1 .. n) = I \cap (1 .. n + 1)
      BY <1>1
    <2>2. Selects(at, part, seq, I, n + 1)
      BY <2>1 DEF Selects
    <2>3. QED  BY <1>1, <2>2
  <1>2. CASE n + 1 \in I
    <2> DEFINE m == Len(part)  next == Append(part, seq[n + 1])
               b == [k \in 1 .. m + 1 |-> IF k = m + 1 THEN n + 1 ELSE at[k]]
    <2>1. seq[n + 1] \in S
      <3>1. n + 1 \in DOMAIN seq
        OBVIOUS
      <3>2. QED  BY <3>1, ElementOf
    <2>2. /\ next \in Seq(S) /\ Len(next) = m + 1 /\ m \in Nat
          /\ next[m + 1] = seq[n + 1] /\ \A k \in 1 .. m : next[k] = part[k]
      BY <2>1, AppendLast
    <2>3. \A k \in 1 .. m : at[k] \in I \cap (1 .. n)
      BY DEF Selects
    <2>4. /\ b[m + 1] = n + 1
          /\ \A k \in 1 .. m : b[k] = at[k]
      BY <2>2
    <2>5. b \in [1 .. m + 1 -> I \cap (1 .. n + 1)]
      BY <1>2, <2>2, <2>3
    <2> HIDE DEF b, next, m
    <2>6. \A k \in 1 .. m + 1 : k = m + 1 \/ k \in 1 .. m
      BY <2>2
    <2>7. \A k \in 1 .. m + 1 : next[k] = seq[b[k]]
      BY <2>2, <2>4, <2>6 DEF Selects, m
    <2>8. \A k, l \in 1 .. m + 1 : k < l => b[k] < b[l]
      <3> SUFFICES ASSUME NEW k \in 1 .. m + 1, NEW l \in 1 .. m + 1, k < l PROVE b[k] < b[l]
        OBVIOUS
      <3>1. k \in 1 .. m
        BY <2>2
      <3>2. CASE l = m + 1
        BY <2>3, <2>4, <3>1, <3>2
      <3>3. CASE l \in 1 .. m
        BY <2>4, <3>1, <3>3 DEF Selects, m
      <3>4. QED  BY <2>6, <3>2, <3>3
    <2>9. \A i \in I \cap (1 .. n + 1) : \E k \in 1 .. m + 1 : b[k] = i
      <3> SUFFICES ASSUME NEW i \in I \cap (1 .. n + 1) PROVE \E k \in 1 .. m + 1 : b[k] = i
        OBVIOUS
      <3>1. CASE i = n + 1
        <4>1. m + 1 \in 1 .. m + 1
          BY <2>2
        <4>2. QED  BY <2>4, <3>1, <4>1
      <3>2. CASE i \in 1 .. n
        <4>1. PICK k \in 1 .. m : at[k] = i
          BY <3>2 DEF Selects, m
        <4>2. k \in 1 .. m + 1 /\ b[k] = i
          BY <2>2, <2>4, <4>1
        <4>3. QED  BY <4>2
      <3>3. QED  BY <3>1, <3>2
    <2>10. Selects(b, next, seq, I, n + 1)
      BY <2>2, <2>5, <2>7, <2>8, <2>9 DEF Selects
    <2>11. QED  BY <1>2, <2>2, <2>10 DEF next
  <1>3. QED  BY <1>1, <1>2

(* ElementsAt keeps the order of seq and takes what is at I, and only that. *)
LEMMA ElementsAtSelects ==
  ASSUME NEW S, NEW seq \in Seq(S), NEW I
  PROVE  /\ ElementsAt(seq, I) \in Seq(S)
         /\ \E at : Selects(at, ElementsAt(seq, I), seq, I, Len(seq))
  <1> DEFINE D == 0 .. Len(seq)
             seqs == [i \in DOMAIN seq |-> IF i \in I THEN <<seq[i]>> ELSE <<>>]
  <1>1. seqs \in Seq(Seq(S)) /\ Len(seqs) = Len(seq)
    <2>1. \A i \in DOMAIN seq : (IF i \in I THEN <<seq[i]>> ELSE <<>>) \in Seq(S)
      <3>1. \A i \in DOMAIN seq : seq[i] \in S
        BY ElementOf
      <3>2. QED  BY <3>1
    <2>2. DOMAIN seq = 1 .. Len(seq) /\ Len(seq) \in Nat
      OBVIOUS
    <2>3. QED  BY <2>1, <2>2
  <1>2. \A i \in DOMAIN seq : seqs[i] = IF i \in I THEN <<seq[i]>> ELSE <<>>
    OBVIOUS
  <1>3. ElementsAt(seq, I) = FlattenSeq(seqs)
    BY DEF ElementsAt
  <1> HIDE DEF seqs
  <1>4. PICK E \in [0 .. Len(seqs) -> Seq(S)] :
           /\ E[0] = <<>> /\ E[Len(seqs)] = FlattenSeq(seqs)
           /\ \A i \in 1 .. Len(seqs) : E[i] = E[i - 1] \o seqs[i]
    BY <1>1, FlattenParts
  <1> DEFINE Good(i) == E[i] \in Seq(S) /\ \E at : Selects(at, E[i], seq, I, i)
  <1>5. Good(0)
    <2>1. E[0] = <<>>
      BY <1>4
    <2>2. Selects(<<>>, <<>>, seq, I, 0)
      BY DEF Selects
    <2>3. QED  BY <2>1, <2>2
  <1>6. ASSUME NEW i \in D, i + 1 \in D, Good(i) PROVE Good(i + 1)
    <2>0. i \in Nat /\ (i + 1) - 1 = i /\ i + 1 \in 1 .. Len(seqs) /\ i + 1 \in DOMAIN seq
          /\ seq[i + 1] \in S
      <3>1. i + 1 \in DOMAIN seq
        BY <1>6
      <3>2. QED  BY <1>1, <1>6, <3>1, ElementOf
    <2>1. E[i + 1] = E[i] \o seqs[i + 1]
      BY <1>4, <2>0
    <2> DEFINE x == seq[i + 1]
    <2>a. E[i] \o <<>> = E[i] /\ E[i] \o <<x>> = Append(E[i], x) /\ x \in S
      BY <1>6, <2>0
    <2>b. seqs[i + 1] = IF i + 1 \in I THEN <<x>> ELSE <<>>
      BY <1>2, <2>0
    <2> HIDE DEF x
    <2>c. E[i + 1] = IF i + 1 \in I THEN Append(E[i], x) ELSE E[i]
      BY <2>1, <2>a, <2>b
    <2>2. E[i + 1] = IF i + 1 \in I THEN Append(E[i], seq[i + 1]) ELSE E[i]
      BY <2>c DEF x
    <2>3. PICK at : Selects(at, E[i], seq, I, i)
      BY <1>6
    <2>4. QED  BY <1>6, <2>0, <2>2, <2>3, SelectsNext
  <1>7. \A i \in D : Good(i)
    <2> DEFINE N == {i \in D : ~Good(i)}
    <2> HIDE DEF Good
    <2>0. N \subseteq Nat /\ \A i : i \in N <=> i \in D /\ ~Good(i)
      OBVIOUS
    <2> HIDE DEF N
    <2> SUFFICES ASSUME N # {} PROVE FALSE
      BY <2>0
    <2>1. PICK n \in N : \A m \in N : n <= m
      BY <2>0, LeastNumber
    <2>2. n # 0 /\ n \in Nat
      BY <1>5, <2>0, <2>1
    <2>3. n - 1 \in D /\ n - 1 \notin N
      BY <2>0, <2>1, <2>2
    <2>4. Good(n - 1) /\ (n - 1) + 1 = n
      BY <2>0, <2>2, <2>3
    <2>5. QED  BY <1>6, <2>0, <2>1, <2>3, <2>4
  <1>8. QED  BY <1>1, <1>3, <1>4, <1>7

(* The elements at I are in it, and no other.                               *)
LEMMA ElementsAtHas ==
  ASSUME NEW S, NEW seq \in Seq(S), NEW I
  PROVE  LET part == ElementsAt(seq, I) IN
         /\ part \in Seq(S)
         /\ \A k \in DOMAIN part : \E i \in I \cap DOMAIN seq : part[k] = seq[i]
         /\ \A i \in I \cap DOMAIN seq : \E k \in DOMAIN part : part[k] = seq[i]
  <1> DEFINE part == ElementsAt(seq, I)  n == Len(seq)
  <1>1. part \in Seq(S) /\ \E at : Selects(at, part, seq, I, n)
    BY ElementsAtSelects
  <1>2. PICK at : Selects(at, part, seq, I, n)
    BY <1>1
  <1> HIDE DEF part
  <1>3. DOMAIN part = 1 .. Len(part) /\ DOMAIN seq = 1 .. n
    BY <1>1
  <1>4. ASSUME NEW k \in DOMAIN part PROVE \E i \in I \cap DOMAIN seq : part[k] = seq[i]
    <2>1. at[k] \in I \cap DOMAIN seq /\ part[k] = seq[at[k]]
      BY <1>2, <1>3 DEF Selects
    <2>2. QED  BY <2>1
  <1>5. ASSUME NEW i \in I \cap DOMAIN seq PROVE \E k \in DOMAIN part : part[k] = seq[i]
    BY <1>2, <1>3 DEF Selects
  <1>6. QED  BY <1>1, <1>4, <1>5 DEF part

(* An element put among others, at a place or behind them.                   *)
LEMMA ElementPut ==
  ASSUME NEW S, NEW s \in Seq(S), NEW e \in S, NEW i \in 1 .. (Len(s) + 1)
  PROVE  LET t == InsertAt(s, i, e) IN
         /\ t \in Seq(S) /\ Len(t) = Len(s) + 1
         /\ \A j \in 1 .. (Len(s) + 1) : t[j] = IF j < i THEN s[j] ELSE IF j = i THEN e ELSE s[j - 1]
  <1> DEFINE front == SubSeq(s, 1, i - 1)
             back == SubSeq(s, i, Len(s))
  <1>1. Len(s) \in Nat /\ i \in Nat /\ 1 <= i /\ i <= Len(s) + 1
    OBVIOUS
  <1>2. front \in Seq(S) /\ Len(front) = i - 1 /\ \A j \in 1 .. (i - 1) : front[j] = s[j]
    BY <1>1
  <1>3. back \in Seq(S) /\ Len(back) = Len(s) - i + 1 /\ \A j \in 1 .. (Len(s) - i + 1) : back[j] = s[j + i - 1]
    BY <1>1
  <1> DEFINE one == <<e>>
  <1>4. one \in Seq(S) /\ Len(one) = 1 /\ one[1] = e
    OBVIOUS
  <1> HIDE DEF front, back, one
  <1> DEFINE start == front \o one
  <1>5. /\ start \in Seq(S) /\ Len(start) = i /\ (\A j \in 1 .. (i - 1) : start[j] = front[j])
        /\ start[i] = e
    <2>1. /\ start \in Seq(S) /\ Len(start) = Len(front) + Len(one)
          /\ \A j \in 1 .. Len(front) + Len(one) :
               start[j] = IF j <= Len(front) THEN front[j] ELSE one[j - Len(front)]
      BY <1>2, <1>4, ConcatProperties
    <2>2. Len(front) + Len(one) = i
      BY <1>1, <1>2, <1>4
    <2>3. ASSUME NEW j \in 1 .. (i - 1) PROVE start[j] = front[j]
      BY <2>1, <2>2, <2>3, <1>1, <1>2
    <2>4. i \in 1 .. Len(front) + Len(one) /\ ~(i <= Len(front)) /\ i - Len(front) = 1
      BY <1>1, <1>2, <2>2
    <2>5. QED  BY <2>1, <2>2, <2>3, <2>4, <1>4
  <1> HIDE DEF start
  <1> DEFINE u == start \o back
  <1>6. /\ u \in Seq(S) /\ Len(u) = Len(start) + Len(back)
        /\ \A j \in 1 .. Len(start) + Len(back) :
             u[j] = IF j <= Len(start) THEN start[j] ELSE back[j - Len(start)]
    BY <1>3, <1>5, ConcatProperties
  <1>6a. Len(start) + Len(back) = Len(s) + 1
    BY <1>1, <1>3, <1>5
  <1>7. ASSUME NEW j \in 1 .. (Len(s) + 1)
        PROVE  u[j] = IF j < i THEN s[j] ELSE IF j = i THEN e ELSE s[j - 1]
    <2>0. j \in Int
      BY <1>7, <1>1
    <2> HIDE DEF u
    <2>1. CASE j < i
      <3>1. u[j] = start[j]
        BY <2>1, <1>7, <1>1, <1>5, <1>6, <1>6a
      <3>2. j \in 1 .. (i - 1)
        BY <2>1, <1>7, <1>1
      <3>3. QED  BY <3>1, <3>2, <2>1, <1>2, <1>5
    <2>2. CASE j = i
      <3>1. u[j] = start[j]
        BY <2>2, <1>1, <1>7, <1>5, <1>6, <1>6a
      <3>2. QED  BY <3>1, <2>2, <1>5, <1>1
    <2>3. CASE j > i
      <3>1. j - i \in 1 .. (Len(s) - i + 1) /\ (j - i) + i - 1 = j - 1 /\ ~(j <= i)
        BY <2>3, <1>7, <1>1
      <3>2. u[j] = back[j - i]
        BY <3>1, <1>7, <1>5, <1>6, <1>6a
      <3>3. back[j - i] = s[(j - i) + i - 1]
        BY <3>1, <1>3
      <3>4. ~(j < i) /\ j # i
        BY <2>3, <1>1, <2>0
      <3>5. QED  BY <3>1, <3>2, <3>3, <3>4
    <2>4. QED  BY <2>1, <2>2, <2>3, <2>0, <1>1
  <1>8. u = InsertAt(s, i, e)
    BY DEF u, start, one, front, back, InsertAt
  <1> HIDE DEF u
  <1>9. QED  BY <1>6, <1>6a, <1>7, <1>8

(* An element is taken out and put in again at another place: t has at j     *)
(* what s has at from[j].                                                   *)
Moves(from, back, s, t) ==
  \A j \in DOMAIN s : t[j] = s[from[j]] /\ back[from[j]] = j /\ from[back[j]] = j

LEMMA MovedElement ==
  ASSUME NEW S, NEW s \in Seq(S), NEW p \in DOMAIN s, NEW i \in 1 .. Len(s)
  PROVE  LET t == InsertAt(RemoveAt(s, p), i, s[p]) IN
         /\ t \in Seq(S) /\ Len(t) = Len(s) /\ DOMAIN t = DOMAIN s
         /\ \E from, back \in [DOMAIN s -> DOMAIN s] : Moves(from, back, s, t)
  <1> DEFINE e == s[p]
             rest == RemoveAt(s, p)
             t == InsertAt(rest, i, e)
  <1>1. DOMAIN s = 1 .. Len(s) /\ Len(s) \in Nat /\ p \in 1 .. Len(s) /\ e \in S
    BY ElementOf
  <1>2. /\ rest \in Seq(S) /\ Len(rest) = Len(s) - 1 /\ DOMAIN rest = 1 .. (Len(s) - 1)
        /\ \A j \in DOMAIN rest : rest[j] = IF j < p THEN s[j] ELSE s[j + 1]
    BY RemoveAtRest
  <1> HIDE DEF rest, e
  <1>3. Len(rest) + 1 = Len(s)
    BY <1>1, <1>2
  <1>4. /\ t \in Seq(S) /\ Len(t) = Len(rest) + 1
        /\ \A j \in 1 .. (Len(rest) + 1) : t[j] = IF j < i THEN rest[j] ELSE IF j = i THEN e ELSE rest[j - 1]
    <2>1. i \in 1 .. (Len(rest) + 1)
      BY <1>3
    <2>2. rest \in Seq(S) /\ e \in S
      BY <1>1, <1>2
    <2>3. ASSUME NEW r \in Seq(S), NEW x \in S, NEW k \in 1 .. (Len(r) + 1)
          PROVE  /\ InsertAt(r, k, x) \in Seq(S) /\ Len(InsertAt(r, k, x)) = Len(r) + 1
                 /\ \A j \in 1 .. (Len(r) + 1) :
                      InsertAt(r, k, x)[j] = IF j < k THEN r[j] ELSE IF j = k THEN x ELSE r[j - 1]
      BY ElementPut
    <2>4. QED  BY <2>1, <2>2, <2>3
  <1>5. /\ t \in Seq(S) /\ Len(t) = Len(s) /\ DOMAIN t = DOMAIN s
        /\ \A j \in 1 .. Len(s) : t[j] = IF j < i THEN rest[j] ELSE IF j = i THEN e ELSE rest[j - 1]
    <2> HIDE DEF t
    <2>1. t \in Seq(S) /\ Len(t) = Len(s) /\ DOMAIN t = 1 .. Len(s)
      BY <1>3, <1>4
    <2>2. \A j \in 1 .. Len(s) : t[j] = IF j < i THEN rest[j] ELSE IF j = i THEN e ELSE rest[j - 1]
      BY <1>3, <1>4
    <2>3. QED  BY <2>1, <2>2, <1>1
  <1> HIDE DEF t
  <1> DEFINE from == [j \in 1 .. Len(s) |->
                        IF j = i THEN p
                        ELSE LET k == IF j < i THEN j ELSE j - 1 IN IF k < p THEN k ELSE k + 1]
             back == [j \in 1 .. Len(s) |->
                        IF j = p THEN i
                        ELSE LET k == IF j < p THEN j ELSE j - 1 IN IF k < i THEN k ELSE k + 1]
  <1>6. \A j \in 1 .. Len(s) : from[j] \in 1 .. Len(s) /\ back[from[j]] = j
    BY <1>1
  <1>7. \A j \in 1 .. Len(s) : back[j] \in 1 .. Len(s) /\ from[back[j]] = j
    BY <1>1
  <1>8. ASSUME NEW j \in 1 .. Len(s) PROVE t[j] = s[from[j]]
    <2>1. CASE j = i
      BY <2>1, <1>5, <1>1 DEF e
    <2>2. CASE j < i
      <3>1. t[j] = rest[j] /\ j \in DOMAIN rest
        BY <2>2, <1>8, <1>5, <1>2, <1>1
      <3>2. QED  BY <3>1, <2>2, <1>2, <1>1
    <2>3. CASE j > i
      <3>1. t[j] = rest[j - 1] /\ j - 1 \in DOMAIN rest
        BY <2>3, <1>8, <1>5, <1>2, <1>1
      <3>2. QED  BY <3>1, <2>3, <1>2, <1>1
    <2>4. QED  BY <2>1, <2>2, <2>3, <1>8, <1>1
  <1>9. from \in [DOMAIN s -> DOMAIN s] /\ back \in [DOMAIN s -> DOMAIN s]
    BY <1>1, <1>6, <1>7
  <1> HIDE DEF from, back
  <1>10. Moves(from, back, s, t)
    BY <1>1, <1>6, <1>7, <1>8 DEF Moves
  <1>11. QED  BY <1>5, <1>9, <1>10 DEF t, rest, e
================================================================================
