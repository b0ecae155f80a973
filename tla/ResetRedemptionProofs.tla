----------------------- MODULE ResetRedemptionProofs -----------------------
EXTENDS ResetRedemption, FiniteSetTheorems, SequenceTheorems, WellFoundedInduction, TLAPS

\* A journal whose order lists recorded receipts, each once.
Ordered(j) ==
  /\ j \in Journals
  /\ ToSet(j.order) \subseteq DOMAIN j.completed /\ IsInjective(j.order)

\* An order that goes on with new requests.
OrderGrows(old, order, new) ==
  /\ Len(order) = Len(old) + Cardinality(new)
  /\ \A r \in new : \E i \in Len(old) + 1 .. Len(order) : order[i] = r
  /\ \A i \in 1..Len(old) : order[i] = old[i]

\* Receipts with those of a batch among them.
Receipted(old, new, batch, code) ==
  /\ DOMAIN new = DOMAIN old \cup batch
  /\ \A r \in DOMAIN new : new[r] = IF r \in batch THEN code ELSE old[r]

\* The receipts dropped from the order are the oldest of it.
OldestGone(j, k) ==
  \E e \in 0..Len(j.order) :
    /\ \A r \in DOMAIN j.completed \ DOMAIN k.completed :
         r \in ToSet(j.order) => \E i \in 1..e : j.order[i] = r
    /\ \A i \in 1..e : j.order[i] \notin DOMAIN k.completed

\* A journal and what completing a batch makes of it.
Completed(j, k, batch, code) ==
  /\ Ordered(k) /\ k.pending = j.pending
  /\ DOMAIN k.completed \subseteq DOMAIN j.completed \cup batch
  /\ batch \ DOMAIN j.completed \subseteq DOMAIN k.completed
  /\ \A r \in DOMAIN k.completed :
       k.completed[r] = IF r \in batch THEN code ELSE j.completed[r]
  /\ DOMAIN j.completed \ DOMAIN k.completed # {} => Len(k.order) >= ReceiptLimit
  /\ OldestGone(j, k)

\* A function from some requests to codes is a set of receipts, and the other way round.
LEMMA ReceiptsAre ==
  ASSUME NEW f
  PROVE  f \in Receipts <=> /\ f = [r \in DOMAIN f |-> f[r]] /\ DOMAIN f \subseteq Requests
                            /\ \A r \in DOMAIN f : f[r] \in Codes
<1>1. ASSUME f \in Receipts
      PROVE  f = [r \in DOMAIN f |-> f[r]] /\ DOMAIN f \subseteq Requests
             /\ \A r \in DOMAIN f : f[r] \in Codes
  <2>1. PICK S \in SUBSET Requests : f \in [S -> Codes]
    BY <1>1 DEF Receipts
  <2> QED
    BY <2>1
<1>2. ASSUME f = [r \in DOMAIN f |-> f[r]], DOMAIN f \subseteq Requests,
             \A r \in DOMAIN f : f[r] \in Codes
      PROVE  f \in Receipts
  <2>1. f \in [DOMAIN f -> Codes]
    BY <1>2
  <2> QED
    BY <1>2, <2>1 DEF Receipts
<1> QED
  BY <1>1, <1>2

\* What an injective sequence lists, by position; and the other way round.
LEMMA Listed ==
  ASSUME NEW S, NEW s \in Seq(S)
  PROVE  /\ Len(s) \in Nat /\ DOMAIN s = 1..Len(s)
         /\ \A i \in 1..Len(s) : s[i] \in ToSet(s)
         /\ \A r \in ToSet(s) : \E i \in 1..Len(s) : s[i] = r
         /\ IsInjective(s) <=> \A h, i \in 1..Len(s) : s[h] = s[i] => h = i
<1>1. Len(s) \in Nat /\ DOMAIN s = 1..Len(s)
  OBVIOUS
<1> QED
  BY <1>1 DEF ToSet, IsInjective

\* A set of numbers that is not empty has a least one.
LEMMA Least ==
  ASSUME NEW T \in SUBSET Nat, T # {}
  PROVE  \E m \in T : \A n \in T : ~(n < m)
<1> DEFINE R == OpToRel(<, Nat)
<1>1. IsWellFoundedOn(R, Nat)
  BY NatLessThanWellFounded
<1>2. \A x, y \in Nat : <<x, y>> \in R <=> x < y
  BY DEF OpToRel
<1> HIDE DEF R
<1>3. \E m \in T : \A n \in T : ~(<<n, m>> \in R)
  BY <1>1, WFMin
<1> QED
  BY <1>2, <1>3

\* A sequence that lists a set of requests in their order.
Ascending(s, S) ==
  /\ s \in [1..Cardinality(S) -> S] /\ \A r \in S : \E i \in DOMAIN s : s[i] = r
  /\ \A h, i \in DOMAIN s : h < i => s[h] < s[i]

\* One request below all others goes in front.
LEMMA Prepended ==
  ASSUME NEW S \in SUBSET Requests, NEW m \in S, \A r \in S : ~(r < m),
         NEW s, Ascending(s, S \ {m})
  PROVE  \E t : Ascending(t, S)
<1> DEFINE n == Cardinality(S)
           t == [i \in 1..n |-> IF i = 1 THEN m ELSE s[i - 1]]
<1>1. S \subseteq Nat /\ IsFiniteSet(S) /\ n \in Nat
  BY RequestsAssumption, FS_Subset, FS_CardinalityType
<1>2. Cardinality(S \ {m}) = n - 1 /\ n > 0
  <2>1. Cardinality(S) # 0
    BY <1>1, FS_EmptySet
  <2>2. Cardinality(S \ {m}) = Cardinality(S) - 1
    BY <1>1, FS_RemoveElement
  <2> QED
    BY <1>1, <2>1, <2>2
<1> HIDE DEF n
<1>3. /\ s \in [1..n - 1 -> S \ {m}] /\ \A r \in S \ {m} : \E i \in 1..n - 1 : s[i] = r
      /\ \A h, i \in 1..n - 1 : h < i => s[h] < s[i]
  BY <1>2 DEF Ascending
<1>4. \A i \in 1..n : t[i] = IF i = 1 THEN m ELSE s[i - 1]
  OBVIOUS
<1>5. \A i \in 1..n : i # 1 => i - 1 \in 1..n - 1 /\ t[i] = s[i - 1] /\ t[i] \in S \ {m}
  BY <1>1, <1>3, <1>4
<1>6. t \in [1..n -> S]
  BY <1>4, <1>5
<1>7. ASSUME NEW r \in S PROVE \E i \in 1..n : t[i] = r
  <2>1. CASE r = m
    BY <1>1, <1>2, <1>4, <2>1
  <2>2. CASE r # m
    <3>1. PICK i \in 1..n - 1 : s[i] = r
      BY <1>3, <2>2
    <3>2. i + 1 \in 1..n /\ i + 1 # 1 /\ (i + 1) - 1 = i
      BY <1>1
    <3> QED
      BY <1>4, <3>1, <3>2
  <2> QED
    BY <2>1, <2>2
<1>8. ASSUME NEW h \in 1..n, NEW i \in 1..n, h < i PROVE t[h] < t[i]
  <2>0. h \in Int /\ i \in Int /\ n \in Int /\ i # 1
    BY <1>1, <1>8
  <2>1. CASE h = 1
    <3>1. t[h] = m /\ t[i] \in S /\ t[i] # m
      BY <1>4, <1>5, <2>0, <2>1
    <3>2. t[i] \in Nat /\ m \in Nat /\ ~(t[i] < m)
      BY <1>1, <3>1
    <3> QED
      BY <3>1, <3>2
  <2>2. CASE h # 1
    <3>1. h - 1 \in 1..n - 1 /\ i - 1 \in 1..n - 1 /\ h - 1 < i - 1
      BY <1>8, <2>0, <2>2
    <3>2. t[h] = s[h - 1] /\ t[i] = s[i - 1]
      BY <1>5, <2>0, <2>2
    <3> QED
      BY <1>3, <3>1, <3>2
  <2> QED
    BY <2>1, <2>2
<1>9. DOMAIN t = 1..n
  OBVIOUS
<1> HIDE DEF t
<1> QED
  BY <1>6, <1>7, <1>8, <1>9 DEF Ascending, n

\* Every set of requests can be listed so: the least size of one that could not is none.
LEMMA Sortable == \A S \in SUBSET Requests : \E s : Ascending(s, S)
<1> DEFINE T == {n \in Nat : \E S \in SUBSET Requests : Cardinality(S) = n /\ ~\E s : Ascending(s, S)}
<1>0. \A S \in SUBSET Requests : S \subseteq Nat /\ IsFiniteSet(S) /\ Cardinality(S) \in Nat
  BY RequestsAssumption, FS_Subset, FS_CardinalityType
<1>1. ASSUME T # {} PROVE FALSE
  <2>1. PICK n \in T : \A k \in T : ~(k < n)
    BY <1>1, Least
  <2>2. PICK S \in SUBSET Requests : Cardinality(S) = n /\ ~\E s : Ascending(s, S)
    BY <2>1
  <2>3. S # {}
    <3>1. ASSUME S = {} PROVE FALSE
      <4>1. Cardinality(S) = 0
        BY <3>1, FS_EmptySet
      <4>2. Ascending(<<>>, S)
        BY <3>1, <4>1 DEF Ascending
      <4> QED
        BY <2>2, <4>2
    <3> QED
      BY <3>1
  <2>4. PICK m \in S : \A r \in S : ~(r < m)
    BY <1>0, <2>3, Least
  <2>5. Cardinality(S \ {m}) = n - 1 /\ Cardinality(S \ {m}) \in Nat /\ n \in Nat
    BY <1>0, <2>2, FS_RemoveElement
  <2>6. \E s : Ascending(s, S \ {m})
    <3>1. n - 1 \notin T
      BY <2>1, <2>5
    <3> QED
      BY <2>5, <3>1
  <2> QED
    BY <2>2, <2>4, <2>6, Prepended
<1>2. T = {}
  BY <1>1
<1> QED
  BY <1>0, <1>2

\* What InOrder is relied on for: it lists a set of requests, each once.
LEMMA InOrderIs ==
  ASSUME NEW S \in SUBSET Requests, NEW s, s = InOrder(S)
  PROVE  s \in Seq(Requests) /\ ToSet(s) = S /\ IsInjective(s) /\ Len(s) = Cardinality(S)
<1>1. S \subseteq Nat /\ IsFiniteSet(S) /\ Cardinality(S) \in Nat
  BY RequestsAssumption, FS_Subset, FS_CardinalityType
<1>2. \A t : Ascending(t, S) => t \in SetToSeqs(S)
  <2> SUFFICES ASSUME NEW t, Ascending(t, S) PROVE t \in SetToSeqs(S)
    OBVIOUS
  <2>1. /\ t \in [1..Cardinality(S) -> S] /\ DOMAIN t = 1..Cardinality(S)
        /\ \A h, i \in 1..Cardinality(S) : h < i => t[h] < t[i]
    BY DEF Ascending
  <2>2. ASSUME NEW h \in 1..Cardinality(S), NEW i \in 1..Cardinality(S), h # i
        PROVE  t[h] # t[i]
    <3>1. h \in Int /\ i \in Int
      BY <1>1
    <3>2. h < i \/ i < h
      BY <2>2, <3>1
    <3>3. t[h] \in S /\ t[i] \in S
      BY <2>1
    <3>4. t[h] \in Nat /\ t[i] \in Nat
      BY <1>1, <3>3
    <3> QED
      BY <2>1, <3>2, <3>4
  <2> QED
    BY <2>1, <2>2 DEF SetToSeqs
<1>3. s \in SetToSeqs(S)
  BY <1>2, Sortable DEF InOrder, Ascending
<1>4. s \in [1..Cardinality(S) -> S] /\ \A h, i \in 1..Cardinality(S) : h # i => s[h] # s[i]
  BY <1>3 DEF SetToSeqs
<1>5. /\ s \in Seq(Requests) /\ Len(s) = Cardinality(S)
      /\ DOMAIN s = 1..Cardinality(S)
  <2> DEFINE n == Cardinality(S)
  <2>1. n \in Nat /\ s \in [1..n -> S]
    BY <1>1, <1>4
  <2> HIDE DEF n
  <2>2. s \in Seq(S) /\ Len(s) = n /\ DOMAIN s = 1..n
    BY <2>1
  <2>3. s \in Seq(Requests)
    BY <2>2
  <2> QED
    BY <2>2, <2>3 DEF n
<1>6. IsInjective(s)
  BY <1>4, <1>5 DEF IsInjective
<1>7. s \in Injection(1..Cardinality(S), S)
  BY <1>4, <1>5, <1>6 DEF Injection, IsInjective
<1>8. Cardinality(1..Cardinality(S)) = Cardinality(S)
  BY <1>1, FS_Interval
<1>9. s \in Surjection(1..Cardinality(S), S)
  BY <1>1, <1>7, <1>8, FS_Injection
<1>10. \A r \in S : \E i \in 1..Cardinality(S) : s[i] = r
  BY <1>9 DEF Surjection
<1> QED
  BY <1>4, <1>5, <1>6, <1>10 DEF ToSet

\* The elements of two sequences, one after the other.
LEMMA Appended ==
  ASSUME NEW S, NEW s \in Seq(S), NEW t \in Seq(S)
  PROVE  /\ s \o t \in Seq(S) /\ Len(s \o t) = Len(s) + Len(t)
         /\ Len(s) \in Nat /\ Len(t) \in Nat
         /\ \A i \in 1..Len(s) : (s \o t)[i] = s[i]
         /\ \A i \in 1..Len(t) : (s \o t)[Len(s) + i] = t[i]
<1>1. /\ s \o t \in Seq(S) /\ Len(s \o t) = Len(s) + Len(t)
      /\ \A i \in 1..Len(s) + Len(t) : (s \o t)[i] = IF i <= Len(s) THEN s[i] ELSE t[i - Len(s)]
  BY ConcatProperties
<1>2. Len(s) \in Nat /\ Len(t) \in Nat
  OBVIOUS
<1> DEFINE u == s \o t
<1> HIDE DEF u
<1>3. \A i \in 1..Len(s) + Len(t) : u[i] = IF i <= Len(s) THEN s[i] ELSE t[i - Len(s)]
  BY <1>1 DEF u
<1>4. \A i \in 1..Len(s) : u[i] = s[i]
  BY <1>2, <1>3
<1>5. ASSUME NEW i \in 1..Len(t) PROVE u[Len(s) + i] = t[i]
  <2>1. Len(s) + i \in 1..Len(s) + Len(t) /\ ~(Len(s) + i <= Len(s)) /\ (Len(s) + i) - Len(s) = i
    BY <1>2
  <2> QED
    BY <1>3, <2>1
<1> QED
  BY <1>1, <1>2, <1>4, <1>5 DEF u

\* The first step of a settlement: the batch has its receipts, new ones last in order.
LEMMA RecordedGives ==
  ASSUME NEW j, Ordered(j), NEW batch \in SUBSET Requests, NEW code \in Codes,
         NEW k, k = Recorded(j, batch, code)
  PROVE  /\ Ordered(k) /\ k.pending = j.pending
         /\ Receipted(j.completed, k.completed, batch, code)
         /\ OrderGrows(j.order, k.order, batch \ DOMAIN j.completed)
<1> DEFINE new == batch \ DOMAIN j.completed
           s == InOrder(new)
           completed == [r \in DOMAIN j.completed \cup batch |->
                           IF r \in batch THEN code ELSE j.completed[r]]
           order == j.order \o s
<1>1. /\ j.completed \in Receipts /\ j.order \in Seq(Requests) /\ j.pending \in Pendings \cup {None}
      /\ DOMAIN j.completed \subseteq Requests
      /\ \A r \in DOMAIN j.completed : j.completed[r] \in Codes
  BY ReceiptsAre DEF Ordered, Journals
<1>2. s \in Seq(Requests) /\ ToSet(s) = new /\ IsInjective(s) /\ Len(s) = Cardinality(new)
  BY InOrderIs
<1>3. k = [j EXCEPT !.completed = completed, !.order = order]
  BY DEF Recorded
<1>4. completed \in Receipts
  BY <1>1, ReceiptsAre
<1> HIDE DEF s, completed
<1>5. /\ order \in Seq(Requests) /\ Len(order) = Len(j.order) + Len(s)
      /\ \A i \in 1..Len(j.order) : order[i] = j.order[i]
      /\ \A i \in 1..Len(s) : order[Len(j.order) + i] = s[i]
  <2>1. j.order \in Seq(Requests) /\ s \in Seq(Requests)
    BY <1>1, <1>2
  <2>2. /\ j.order \o s \in Seq(Requests) /\ Len(j.order \o s) = Len(j.order) + Len(s)
        /\ \A i \in 1..Len(j.order) : (j.order \o s)[i] = j.order[i]
        /\ \A i \in 1..Len(s) : (j.order \o s)[Len(j.order) + i] = s[i]
    BY ONLY <2>1, Appended
  <2> QED
    BY <2>2 DEF order
<1> HIDE DEF order
<1>6. k \in Journals /\ k.completed = completed /\ k.order = order /\ k.pending = j.pending
  BY <1>1, <1>3, <1>4, <1>5 DEF Journals, Ordered
<1>7. /\ \A i \in 1..Len(j.order) : j.order[i] \in DOMAIN j.completed
      /\ \A h, i \in 1..Len(j.order) : j.order[h] = j.order[i] => h = i
  BY <1>1, Listed DEF Ordered
<1>8. /\ \A i \in 1..Len(s) : s[i] \in new
      /\ \A r \in new : \E i \in 1..Len(s) : s[i] = r
      /\ \A h, i \in 1..Len(s) : s[h] = s[i] => h = i
  BY <1>2, Listed
<1>9. \A i \in 1..Len(order) :
        \/ i \in 1..Len(j.order) /\ order[i] = j.order[i] /\ order[i] \in DOMAIN j.completed
        \/ /\ i - Len(j.order) \in 1..Len(s) /\ order[i] = s[i - Len(j.order)]
           /\ order[i] \in new
  <2> TAKE i \in 1..Len(order)
  <2>1. CASE i <= Len(j.order)
    BY <1>1, <1>5, <1>7, <2>1
  <2>2. CASE i > Len(j.order)
    <3>0. Len(j.order) \in Nat /\ Len(s) \in Nat /\ Len(order) = Len(j.order) + Len(s)
      BY <1>1, <1>2, <1>5
    <3>1. i - Len(j.order) \in 1..Len(s) /\ Len(j.order) + (i - Len(j.order)) = i
      BY <2>2, <3>0
    <3> QED
      BY <1>5, <1>8, <3>1
  <2>3. Len(j.order) \in Nat /\ i \in Int
    BY <1>1
  <2> QED
    BY <2>1, <2>2, <2>3
<1>10. ToSet(order) \subseteq DOMAIN completed
  BY <1>5, <1>9 DEF ToSet, completed
<1>11. IsInjective(order)
  <2>1. ASSUME NEW h \in 1..Len(order), NEW i \in 1..Len(order), order[h] = order[i]
        PROVE  h = i
    <3>0. h \in Int /\ i \in Int /\ Len(j.order) \in Nat
      BY <1>1
    <3>1. CASE order[h] \in DOMAIN j.completed
      <4>1. /\ h \in 1..Len(j.order) /\ order[h] = j.order[h]
            /\ i \in 1..Len(j.order) /\ order[i] = j.order[i]
        BY <1>9, <2>1, <3>1
      <4> QED
        BY <1>7, <2>1, <4>1
    <3>2. CASE order[h] \notin DOMAIN j.completed
      <4>1. /\ h - Len(j.order) \in 1..Len(s) /\ order[h] = s[h - Len(j.order)]
            /\ i - Len(j.order) \in 1..Len(s) /\ order[i] = s[i - Len(j.order)]
        BY <1>9, <2>1, <3>2
      <4>2. h - Len(j.order) = i - Len(j.order)
        BY <1>8, <2>1, <4>1
      <4> QED
        BY <3>0, <4>2
    <3> QED
      BY <3>1, <3>2
  <2> QED
    BY <1>5, <2>1, Listed
<1>12. \A r \in new : \E i \in Len(j.order) + 1 .. Len(order) : order[i] = r
  <2> TAKE r \in new
  <2>1. PICK i \in 1..Len(s) : s[i] = r
    BY <1>8
  <2>2. order[Len(j.order) + i] = r
    BY <1>5, <2>1
  <2>3. Len(j.order) \in Nat /\ Len(s) \in Nat /\ Len(order) = Len(j.order) + Len(s)
    BY <1>1, <1>2, <1>5
  <2>4. Len(j.order) + i \in Len(j.order) + 1 .. Len(order)
    BY <2>3
  <2> QED
    BY <2>2, <2>4
<1>13. /\ DOMAIN completed = DOMAIN j.completed \cup batch
       /\ \A r \in DOMAIN completed : completed[r] = IF r \in batch THEN code ELSE j.completed[r]
  BY DEF completed
<1>14. Ordered(k)
  BY <1>6, <1>10, <1>11 DEF Ordered
<1> QED
  BY <1>2, <1>5, <1>6, <1>12, <1>13, <1>14 DEF OrderGrows, Receipted

\* The receipts of unknown age that are dropped are none of the ordered ones.
LEMMA WithoutUnorderedGives ==
  ASSUME NEW j, Ordered(j), NEW limit \in Nat
  PROVE  LET k == WithoutUnordered(j, limit)
         IN /\ Ordered(k) /\ k.pending = j.pending /\ k.order = j.order
            /\ DOMAIN k.completed \subseteq DOMAIN j.completed
            /\ ToSet(j.order) \subseteq DOMAIN k.completed
            /\ \A r \in DOMAIN k.completed : k.completed[r] = j.completed[r]
            /\ DOMAIN k.completed # DOMAIN j.completed => Len(j.order) >= limit
<1> DEFINE completed == [r \in DOMAIN j.completed \cap ToSet(j.order) |-> j.completed[r]]
           k == [j EXCEPT !.completed = completed]
<1>1. CASE ~(Cardinality(DOMAIN j.completed) > limit /\ Len(j.order) >= limit)
  BY <1>1 DEF WithoutUnordered, Ordered
<1>2. CASE Cardinality(DOMAIN j.completed) > limit /\ Len(j.order) >= limit
  <2>1. /\ j.completed \in Receipts /\ j.order \in Seq(Requests)
        /\ j.pending \in Pendings \cup {None} /\ DOMAIN j.completed \subseteq Requests
        /\ \A r \in DOMAIN j.completed : j.completed[r] \in Codes
    BY ReceiptsAre DEF Ordered, Journals
  <2>2. /\ completed \in Receipts /\ DOMAIN completed = DOMAIN j.completed \cap ToSet(j.order)
        /\ \A r \in DOMAIN completed : completed[r] = j.completed[r]
    BY <2>1, ReceiptsAre
  <2> HIDE DEF completed
  <2>3. k \in Journals /\ k.completed = completed /\ k.order = j.order /\ k.pending = j.pending
    BY <2>1, <2>2 DEF Journals, Ordered
  <2>4. k = WithoutUnordered(j, limit)
    BY <1>2 DEF WithoutUnordered, completed
  <2> HIDE DEF k
  <2> QED
    BY <1>2, <2>2, <2>3, <2>4 DEF Ordered
<1> QED
  BY <1>1, <1>2

\* The oldest ordered receipts go, and only those: what stays is ordered as it was.
LEMMA TrimmedGives ==
  ASSUME NEW j, Ordered(j), NEW limit \in Nat
  PROVE  LET k == Trimmed(j, limit)
             excess == IF Len(j.order) > limit THEN Len(j.order) - limit ELSE 0
         IN /\ Ordered(k) /\ k.pending = j.pending
            /\ DOMAIN k.completed \subseteq DOMAIN j.completed
            /\ \A r \in DOMAIN k.completed : k.completed[r] = j.completed[r]
            /\ \A r \in DOMAIN j.completed \ DOMAIN k.completed :
                 \E i \in 1..excess : j.order[i] = r
            /\ \A i \in 1..excess : j.order[i] \notin DOMAIN k.completed
            /\ Len(k.order) = Len(j.order) - excess
<1> DEFINE excess == IF Len(j.order) > limit THEN Len(j.order) - limit ELSE 0
           oldest == ToSet(SubSeq(j.order, 1, excess))
           order == SubSeq(j.order, excess + 1, Len(j.order))
           completed == [r \in DOMAIN j.completed \ oldest |-> j.completed[r]]
           k == [j EXCEPT !.order = order, !.completed = completed]
<1>1. /\ j.completed \in Receipts /\ j.order \in Seq(Requests)
      /\ j.pending \in Pendings \cup {None} /\ DOMAIN j.completed \subseteq Requests
      /\ \A r \in DOMAIN j.completed : j.completed[r] \in Codes
  BY ReceiptsAre DEF Ordered, Journals
<1>2. /\ Len(j.order) \in Nat /\ excess \in 0..Len(j.order)
      /\ \A i \in 1..Len(j.order) : j.order[i] \in Requests /\ j.order[i] \in DOMAIN j.completed
      /\ \A h, i \in 1..Len(j.order) : j.order[h] = j.order[i] => h = i
  BY <1>1, Listed DEF Ordered
<1>3. Trimmed(j, limit) = k
  BY DEF Trimmed
<1> HIDE DEF excess
<1>4. oldest = {j.order[i] : i \in 1..excess}
  <2> DEFINE s == SubSeq(j.order, 1, excess)
  <2>1. s \in Seq(Requests) /\ Len(s) = excess /\ \A i \in 1..excess : s[i] = j.order[i]
    BY <1>2, SubSeqProperties
  <2> HIDE DEF s
  <2>2. ToSet(s) = {j.order[i] : i \in 1..excess}
    BY <2>1 DEF ToSet
  <2> QED
    BY <2>2 DEF s
<1>5. /\ order \in Seq(Requests) /\ Len(order) = Len(j.order) - excess
      /\ \A i \in 1..Len(order) : order[i] = j.order[excess + i]
  BY <1>2, SubSeqProperties
<1> HIDE DEF oldest, order
<1>6. /\ completed \in Receipts /\ DOMAIN completed = DOMAIN j.completed \ oldest
      /\ \A r \in DOMAIN completed : completed[r] = j.completed[r]
  BY <1>1, ReceiptsAre
<1> HIDE DEF completed
<1>7. k \in Journals /\ k.completed = completed /\ k.order = order /\ k.pending = j.pending
  BY <1>1, <1>5, <1>6 DEF Journals, Ordered
<1>8. \A i \in 1..Len(order) : excess + i \in 1..Len(j.order) /\ excess + i \notin 1..excess
  BY <1>2, <1>5
<1>9. \A i \in 1..Len(order) : order[i] \in DOMAIN completed
  <2> TAKE i \in 1..Len(order)
  <2>1. j.order[excess + i] \notin oldest
    BY <1>2, <1>4, <1>8
  <2> QED
    BY <1>2, <1>5, <1>6, <1>8, <2>1
<1>10. ToSet(order) \subseteq DOMAIN completed
  BY <1>5, <1>9, Listed
<1>11. ASSUME NEW h \in 1..Len(order), NEW i \in 1..Len(order), order[h] = order[i] PROVE h = i
  <2>1. excess + h = excess + i
    BY <1>2, <1>5, <1>8, <1>11
  <2> QED
    BY <1>2, <2>1
<1>12. Ordered(k)
  BY <1>5, <1>7, <1>10, <1>11, Listed DEF Ordered
<1> HIDE DEF k
<1>13. /\ \A r \in DOMAIN j.completed \ DOMAIN completed : \E i \in 1..excess : j.order[i] = r
       /\ \A i \in 1..excess : j.order[i] \notin DOMAIN completed
       /\ DOMAIN completed \subseteq DOMAIN j.completed
  BY <1>4, <1>6
<1>14. /\ Ordered(k) /\ k.pending = j.pending
       /\ DOMAIN k.completed \subseteq DOMAIN j.completed
       /\ \A r \in DOMAIN k.completed : k.completed[r] = j.completed[r]
       /\ \A r \in DOMAIN j.completed \ DOMAIN k.completed : \E i \in 1..excess : j.order[i] = r
       /\ \A i \in 1..excess : j.order[i] \notin DOMAIN k.completed
       /\ Len(k.order) = Len(j.order) - excess
  BY <1>5, <1>6, <1>7, <1>12, <1>13
<1> QED
  BY <1>3, <1>14 DEF excess

\* Journal::complete: the batch is on record with its code, a receipt that goes is older
\* than every ordered one that stays, and it goes for a full window of them.
LEMMA CompleteGives ==
  ASSUME NEW j, Ordered(j), NEW batch \in SUBSET Requests, NEW code \in Codes
  PROVE  Completed(j, Complete(j, batch, code), batch, code)
<1> DEFINE limit == BatchLimit(batch)
           new == batch \ DOMAIN j.completed
           l == Recorded(j, batch, code)
           m == WithoutUnordered(l, limit)
           k == Trimmed(m, limit)
           e == IF Len(m.order) > limit THEN Len(m.order) - limit ELSE 0
<1>1. /\ IsFiniteSet(batch) /\ Cardinality(batch) \in Nat
      /\ Cardinality(new) \in Nat /\ Cardinality(new) <= Cardinality(batch)
  BY RequestsAssumption, FS_Subset, FS_CardinalityType
<1>2. limit \in Nat /\ limit >= ReceiptLimit /\ limit >= Cardinality(new) /\ ReceiptLimit \in Nat
  BY <1>1, LimitAssumption DEF BatchLimit
<1>3. k = Complete(j, batch, code)
  BY DEF Complete
<1>0. new = batch \ DOMAIN j.completed
  OBVIOUS
<1> HIDE DEF limit, new, l
<1>4. /\ Ordered(l) /\ l.pending = j.pending
      /\ DOMAIN l.completed = DOMAIN j.completed \cup batch
      /\ \A r \in DOMAIN l.completed : l.completed[r] = IF r \in batch THEN code ELSE j.completed[r]
      /\ Len(l.order) = Len(j.order) + Cardinality(new)
      /\ \A r \in new : \E i \in Len(j.order) + 1 .. Len(l.order) : l.order[i] = r
      /\ \A i \in 1..Len(j.order) : l.order[i] = j.order[i]
  <2>1. l = Recorded(j, batch, code)
    BY DEF l
  <2>2. /\ Ordered(l) /\ l.pending = j.pending
        /\ Receipted(j.completed, l.completed, batch, code)
        /\ OrderGrows(j.order, l.order, batch \ DOMAIN j.completed)
    BY ONLY Ordered(j), batch \in SUBSET Requests, code \in Codes, <2>1, RecordedGives
  <2> QED
    BY <1>0, <2>2 DEF OrderGrows, Receipted
<1>5. /\ Ordered(m) /\ m.pending = l.pending /\ m.order = l.order
      /\ DOMAIN m.completed \subseteq DOMAIN l.completed
      /\ ToSet(l.order) \subseteq DOMAIN m.completed
      /\ \A r \in DOMAIN m.completed : m.completed[r] = l.completed[r]
      /\ DOMAIN m.completed # DOMAIN l.completed => Len(l.order) >= limit
  BY <1>2, <1>4, WithoutUnorderedGives
<1> HIDE DEF m
<1>6. /\ Ordered(k) /\ k.pending = m.pending
      /\ DOMAIN k.completed \subseteq DOMAIN m.completed
      /\ \A r \in DOMAIN k.completed : k.completed[r] = m.completed[r]
      /\ \A r \in DOMAIN m.completed \ DOMAIN k.completed : \E i \in 1..e : m.order[i] = r
      /\ \A i \in 1..e : m.order[i] \notin DOMAIN k.completed
      /\ Len(k.order) = Len(m.order) - e
  <2>1. Ordered(m) /\ limit \in Nat
    BY <1>2, <1>5
  <2> QED
    BY <2>1, TrimmedGives
<1> HIDE DEF k
<1>7. /\ Len(j.order) \in Nat /\ Len(m.order) \in Nat /\ j.order \in Seq(Requests)
      /\ m.order \in Seq(Requests) /\ Len(m.order) = Len(j.order) + Cardinality(new)
  BY <1>1, <1>4, <1>5 DEF Ordered, Journals
<1>8. e \in 0..Len(j.order)
  <2>1. CASE Len(m.order) > limit
    BY <1>1, <1>2, <1>7, <2>1
  <2>2. CASE ~(Len(m.order) > limit)
    BY <1>7, <2>2
  <2> QED
    BY <2>1, <2>2
<1>9. \A h, i \in 1..Len(m.order) : m.order[h] = m.order[i] => h = i
  BY <1>5, <1>7, Listed DEF Ordered
<1>10. ASSUME NEW r \in new PROVE r \in DOMAIN k.completed
  <2>1. PICK i \in Len(j.order) + 1 .. Len(m.order) : m.order[i] = r
    BY <1>4, <1>5
  <2>2. i \in 1..Len(m.order) /\ \A h \in 1..e : h \in 1..Len(m.order) /\ h # i
    BY <1>1, <1>7, <1>8
  <2>3. r \in DOMAIN m.completed
    BY <1>5, <1>7, <2>1, <2>2, Listed
  <2> QED
    BY <1>6, <1>9, <2>1, <2>2, <2>3
<1>11. \A r \in DOMAIN j.completed \ DOMAIN k.completed :
         r \in ToSet(j.order) => \E i \in 1..e : j.order[i] = r
  <2> TAKE r \in DOMAIN j.completed \ DOMAIN k.completed
  <2> HAVE r \in ToSet(j.order)
  <2>1. PICK i \in 1..Len(j.order) : j.order[i] = r
    BY <1>7, Listed
  <2>2. i \in 1..Len(m.order) /\ m.order[i] = r
    BY <1>1, <1>4, <1>5, <1>7, <2>1
  <2>3. r \in DOMAIN m.completed
    BY <1>5, <1>7, <2>2, Listed
  <2>4. PICK h \in 1..e : m.order[h] = r
    BY <1>6, <2>3
  <2>5. h \in 1..Len(j.order) /\ m.order[h] = j.order[h]
    BY <1>4, <1>5, <1>7, <1>8
  <2> QED
    BY <2>4, <2>5
<1>12. \A i \in 1..e : j.order[i] \notin DOMAIN k.completed
  <2> TAKE i \in 1..e
  <2>1. i \in 1..Len(j.order) /\ m.order[i] = j.order[i]
    BY <1>4, <1>5, <1>7, <1>8
  <2> QED
    BY <1>6, <2>1
<1>13. DOMAIN j.completed \ DOMAIN k.completed # {} => Len(k.order) >= ReceiptLimit
  <2>1. CASE e > 0
    BY <1>1, <1>2, <1>6, <1>7, <2>1
  <2>2. CASE e = 0 /\ DOMAIN m.completed # DOMAIN l.completed
    BY <1>1, <1>2, <1>5, <1>6, <1>7, <2>2
  <2>3. CASE e = 0 /\ DOMAIN m.completed = DOMAIN l.completed
    <3>1. 1..e = {}
      BY <2>3
    <3>2. DOMAIN k.completed = DOMAIN m.completed
      BY <1>6, <3>1
    <3> QED
      BY <1>4, <2>3, <3>2
  <2> QED
    BY <1>8, <1>7, <2>1, <2>2, <2>3
<1> HIDE DEF e
<1>14. /\ DOMAIN k.completed \subseteq DOMAIN j.completed \cup batch
       /\ \A r \in DOMAIN k.completed :
            k.completed[r] = IF r \in batch THEN code ELSE j.completed[r]
  BY <1>4, <1>5, <1>6
<1>15. k.pending = j.pending /\ Ordered(k)
  BY <1>4, <1>5, <1>6
<1>16. OldestGone(j, k)
  BY <1>8, <1>11, <1>12 DEF OldestGone
<1>17. batch \ DOMAIN j.completed \subseteq DOMAIN k.completed
  BY <1>10 DEF new
<1> QED
  BY <1>3, <1>13, <1>14, <1>15, <1>16, <1>17 DEF Completed

---------------------------------------------------------------------------
\* A worker that has nothing to do is well formed.
LEMMA IdleWorks == Idle \in Works
<1>1. <<>> \in Receipts
  <2>1. <<>> = [r \in DOMAIN <<>> |-> <<>>[r]] /\ DOMAIN <<>> = {}
    OBVIOUS
  <2> QED
    BY <2>1, ReceiptsAre
<1>2. EmptyJournal \in Journals
  BY <1>1 DEF EmptyJournal, Journals
<1> QED
  BY <1>2 DEF Idle, Works, Codes

\* What one worker becomes, and that the others stay as they are.
LEMMA OneWorks ==
  ASSUME work \in [Workers -> Works], NEW w \in Workers, NEW x \in Works,
         work' = [work EXCEPT ![w] = x]
  PROVE  /\ work' \in [Workers -> Works] /\ work'[w] = x
         /\ \A v \in Workers : v # w => work'[v] = work[v]
OBVIOUS

\* A worker at another place, the rest of it as it was.
LEMMA Entered ==
  ASSUME NEW x \in Works,
         NEW pc \in {"idle", "loading", "reading", "reserving", "sending", "waiting",
                     "settling", "writing"}
  PROVE  LET y == [x EXCEPT !.pc = pc]
         IN  /\ y \in Works /\ y.pc = pc /\ y.req = x.req /\ y.revision = x.revision
             /\ y.version = x.version /\ y.journal = x.journal /\ y.sent = x.sent
             /\ y.code = x.code
BY DEF Works

---------------------------------------------------------------------------
\* The invariants that speak of the journal and of what the provider did.
JournalPart ==
  CoveredOnce /\ SpendRemembered /\ Accounted /\ ReceiptsTrue /\ FreshOnce /\ JournalSound

\* They hold after a step that changes none of it.
LEMMA JournalFrame ==
  ASSUME JournalPart, UNCHANGED <<row, outcome, covers, fresh, evicted>>
  PROVE  JournalPart'
<1>1. CoveredOnce'
  BY DEF JournalPart, CoveredOnce
<1>2. SpendRemembered'
  BY DEF JournalPart, SpendRemembered
<1>3. Accounted'
  BY DEF JournalPart, Accounted
<1>4. ReceiptsTrue'
  BY DEF JournalPart, ReceiptsTrue, TrueOf
<1>5. FreshOnce'
  BY DEF JournalPart, FreshOnce
<1>6. JournalSound'
  BY DEF JournalPart, JournalSound
<1> QED
  BY <1>1, <1>2, <1>3, <1>4, <1>5, <1>6 DEF JournalPart

\* What a worker knows stays true when others work on: they replace the row with a later
\* one, add to what is covered, and no outcome changes.
LEMMA WorkFrame ==
  ASSUME TypeOK, NEW w \in Workers, WorkOf(w), work'[w] = work[w],
         \/ row' = row
         \/ row'.version \in Nat /\ row'.version > row.version,
         \A k \in Keys : outcome[k] # None => outcome'[k] = outcome[k],
         \A k \in Keys : covers[k] \subseteq covers'[k]
  PROVE  WorkOf(w)'
<1>1. /\ work[w] \in Works /\ row.version \in Nat /\ work[w].version \in Nat
      /\ work[w].code # None
  BY ScopesAssumption, NoneAssumption DEF TypeOK, Works
<1>2. /\ (work[w].version <= row.version)'
      /\ (~At(w, "idle") => work[w].req \in Requests)'
  BY <1>1 DEF WorkOf, At
<1>3. (work[w].pc \in {"sending", "waiting", "settling", "writing"} =>
         work[w].sent \in Pendings /\ work[w].req \in covers[work[w].sent.request])'
  BY DEF WorkOf, Pendings, Keys
<1>4. (work[w].pc \in {"settling", "writing"} => outcome[work[w].sent.request] = work[w].code)'
  BY <1>1 DEF WorkOf, Pendings, Keys
<1>5. CASE row' = row
  BY <1>2, <1>3, <1>4, <1>5 DEF WorkOf, At, Cas, HasReceipt, Intent, SameIntent
<1>6. CASE row'.version \in Nat /\ row'.version > row.version
  <2>1. ~Cas(w)'
    BY <1>1, <1>6 DEF WorkOf, Cas
  <2> QED
    BY <1>2, <1>3, <1>4, <2>1 DEF WorkOf
<1> QED
  BY <1>5, <1>6

\* Some workers end, by themselves, with their custody or with their replica; what was told
\* to a caller does not matter.
LEMMA Ended ==
  ASSUME IInv, NEW W \in SUBSET Workers,
         work' = [w \in Workers |-> IF w \in W THEN Idle ELSE work[w]],
         custody' = IF custody \in W THEN None ELSE custody,
         found' \in [Replicas -> {"absent", "boot", "inserted"}],
         owner' \in [Replicas -> Workers \cup {"free", "refresh"}],
         \A w \in Workers \ W : /\ found'[Home[w]] = found[Home[w]]
                                /\ owner'[Home[w]] = w <=> owner[Home[w]] = w,
         recover' \in SUBSET Replicas, told' \in SUBSET Requests,
         UNCHANGED <<scope, account, row, lease, calls, outcome, avail, covers, fresh, evicted>>
  PROVE  IInv'
<1>1. TypeOK /\ JournalPart /\ WorkTrue /\ CredentialStable
  BY DEF IInv, JournalPart
<1>2. work' \in [Workers -> Works]
  BY <1>1, IdleWorks DEF TypeOK
<1>3. TypeOK'
  BY <1>1, <1>2 DEF TypeOK
<1>4. JournalPart'
  BY <1>1, JournalFrame
<1>5. ASSUME NEW w \in Workers PROVE WorkOf(w)'
  <2>1. CASE w \in W
    <3>1. work'[w] = Idle
      BY <2>1
    <3>2. row'.version \in Nat
      BY <1>1, ScopesAssumption DEF TypeOK
    <3> QED
      BY <3>1, <3>2 DEF WorkOf, Idle, At
  <2>2. CASE w \notin W
    BY <1>1, <2>2, WorkFrame DEF WorkTrue
  <2> QED
    BY <2>1, <2>2
<1>6. CredentialStable'
  <2>1. ASSUME NEW w \in Workers, custody' = w
        PROVE  /\ custody = w /\ w \notin W /\ work'[w] = work[w]
               /\ found'[Home[w]] = found[Home[w]]
               /\ (owner'[Home[w]] = w <=> owner[Home[w]] = w)
    BY <2>1, ActorsAssumption
  <2> QED
    BY <1>1, <2>1 DEF CredentialStable, At
<1> QED
  BY <1>3, <1>4, <1>5, <1>6 DEF WorkTrue, IInv, JournalPart

\* A worker goes on, and the rest of the system does not.
LEMMA Moved ==
  ASSUME IInv, NEW w \in Workers, NEW x \in Works,
         work' = [work EXCEPT ![w] = x], WorkOf(w)',
         custody = w => x.pc # "idle",
         custody = w /\ x.pc \in {"sending", "waiting"} =>
           /\ lease.open => lease.holder = Home[w]
           /\ owner[Home[w]] = w => x.revision = account.revision,
         calls' \in SUBSET [key : Keys, credit : Credits],
         UNCHANGED <<scope, central, outcome, avail, history>>
  PROVE  IInv'
<1>1. TypeOK /\ JournalPart /\ WorkTrue /\ CredentialStable
  BY DEF IInv, JournalPart
<1>2. /\ work' \in [Workers -> Works] /\ work'[w] = x
      /\ \A v \in Workers : v # w => work'[v] = work[v]
  BY <1>1 DEF TypeOK
<1>3. TypeOK'
  BY <1>1, <1>2 DEF TypeOK, central, history
<1>4. JournalPart'
  BY <1>1, JournalFrame DEF central, history
<1>5. WorkTrue'
  BY <1>1, <1>2, WorkFrame DEF WorkTrue, central, history
<1>6. CredentialStable'
  BY <1>1, <1>2 DEF CredentialStable, At, central
<1> QED
  BY <1>3, <1>4, <1>5, <1>6 DEF IInv, JournalPart

\* The end of one worker takes no mutex from another.
LEMMA MutexFrame ==
  ASSUME TypeOK, NEW w \in Workers, End(w)
  PROVE  \A v \in Workers \ {w} : owner'[Home[v]] = v <=> owner[Home[v]] = v
<1> SUFFICES ASSUME NEW v \in Workers \ {w} PROVE owner'[Home[v]] = v <=> owner[Home[v]] = v
  OBVIOUS
<1>1. owner' = [owner EXCEPT ![Home[w]] = IF @ = w THEN "free" ELSE @]
  BY DEF End
<1>2. Home[v] \in Replicas /\ Home[w] \in Replicas /\ v # "free" /\ DOMAIN owner = Replicas
  BY HomeAssumption, ActorsAssumption DEF TypeOK
<1>3. CASE Home[v] = Home[w]
  BY <1>1, <1>2, <1>3
<1>4. CASE Home[v] # Home[w]
  BY <1>1, <1>2, <1>4
<1> QED
  BY <1>3, <1>4

\* One worker ends.
LEMMA EndsAlone ==
  ASSUME IInv, NEW w \in Workers, End(w), told' \in SUBSET Requests,
         UNCHANGED <<scope, account, row, lease, found, recover, calls, outcome, avail, covers,
                     fresh, evicted>>
  PROVE  IInv'
<1>1. TypeOK /\ CredentialStable
  BY DEF IInv
<1> DEFINE W == {w}
<1>2. work' = [v \in Workers |-> IF v \in W THEN Idle ELSE work[v]]
  BY <1>1 DEF End, TypeOK
<1>3. custody' = IF custody \in W THEN None ELSE custody
  BY DEF End
<1>4. owner' \in [Replicas -> Workers \cup {"free", "refresh"}]
  BY <1>1 DEF End, TypeOK
<1>5. \A v \in Workers \ W : /\ found'[Home[v]] = found[Home[v]]
                             /\ owner'[Home[v]] = v <=> owner[Home[v]] = v
  BY <1>1, MutexFrame
<1>6. /\ recover' \in SUBSET Replicas /\ W \in SUBSET Workers
      /\ found' \in [Replicas -> {"absent", "boot", "inserted"}]
  BY <1>1 DEF TypeOK
<1> HIDE DEF W
<1> QED
  BY <1>2, <1>3, <1>4, <1>5, <1>6, Ended

\* The small steps of a worker: a replay, an end of it, a move that writes nothing.
LEMMA ReplayKeeps ==
  ASSUME IInv, NEW w \in Workers, NEW r \in Requests, Replay(w, r), UNCHANGED scope
  PROVE  IInv'
<1>1. TypeOK /\ JournalPart /\ WorkTrue /\ CredentialStable
  BY DEF IInv, JournalPart
<1>2. TypeOK'
  BY <1>1 DEF TypeOK, Replay, Told, central, provider
<1>3. JournalPart'
  BY <1>1, JournalFrame DEF Replay, central, provider
<1>4. \A v \in Workers : WorkOf(v)'
  BY <1>1, WorkFrame DEF WorkTrue, Replay, central, provider
<1>5. CredentialStable'
  BY <1>1 DEF CredentialStable, Replay, At, central
<1> QED
  BY <1>2, <1>3, <1>4, <1>5 DEF IInv, JournalPart, WorkTrue

\* run: custody goes to a worker while nobody has it.
LEMMA TakeCustodyKeeps ==
  ASSUME IInv, NEW w \in Workers, NEW r \in Requests, TakeCustody(w, r), UNCHANGED scope
  PROVE  IInv'
<1>1. TypeOK /\ JournalPart /\ WorkTrue /\ CredentialStable
  BY DEF IInv, JournalPart
<1> DEFINE x == [Idle EXCEPT !.pc = "loading", !.req = r]
<1>2. x \in Works
  BY IdleWorks DEF Works
<1>2a. x.pc = "loading" /\ x.req = r /\ x.version = 0
  BY DEF Idle
<1>3. work' = [work EXCEPT ![w] = x]
  BY DEF TakeCustody
<1> HIDE DEF x
<1>4. /\ work' \in [Workers -> Works] /\ work'[w] = x
      /\ \A v \in Workers : v # w => work'[v] = work[v]
  BY <1>1, <1>2, <1>3 DEF TypeOK
<1>5. TypeOK'
  BY <1>1, <1>4, HomeAssumption DEF TypeOK, TakeCustody, provider, history
<1>6. JournalPart'
  BY <1>1, JournalFrame DEF TakeCustody, provider, history
<1>7. ASSUME NEW v \in Workers PROVE WorkOf(v)'
  <2>1. CASE v = w
    <3>1. row'.version \in Nat
      BY <1>1, ScopesAssumption DEF TypeOK, TakeCustody
    <3> QED
      BY <1>2a, <1>4, <2>1, <3>1 DEF WorkOf, At
  <2>2. CASE v # w
    BY <1>1, <1>4, <2>2, WorkFrame DEF WorkTrue, TakeCustody, provider, history
  <2> QED
    BY <2>1, <2>2
<1>8. CredentialStable'
  BY <1>1, <1>2a, <1>4, ActorsAssumption, HomeAssumption DEF CredentialStable, TakeCustody, At, TypeOK
<1> QED
  BY <1>5, <1>6, <1>7, <1>8 DEF WorkTrue, IInv, JournalPart

\* run and execute: the account is read, or refused.
LEMMA LoadAccountKeeps ==
  ASSUME IInv, NEW w \in Workers, LoadAccount(w), UNCHANGED scope
  PROVE  IInv'
<1>1. TypeOK /\ WorkTrue /\ work[w] \in Works
  BY DEF IInv, TypeOK
<1>2. CASE account.active /\ account.routed
  <2> DEFINE x == [work[w] EXCEPT !.pc = "reading", !.revision = account.revision]
  <2>1. x \in Works /\ x.pc = "reading" /\ x.version = work[w].version /\ x.req = work[w].req
    <3>1. account.revision \in Nat
      BY <1>1, ScopesAssumption DEF TypeOK
    <3> QED
      BY <1>1, <3>1 DEF Works
  <2>2. work' = [work EXCEPT ![w] = x]
    BY <1>1, <1>2 DEF LoadAccount, TypeOK
  <2> HIDE DEF x
  <2>3. work'[w] = x
    BY <1>1, <2>2 DEF TypeOK
  <2>4. WorkOf(w)'
    BY <1>1, <2>1, <2>3 DEF WorkTrue, WorkOf, At, LoadAccount
  <2>5. calls' \in SUBSET [key : Keys, credit : Credits]
    BY <1>1 DEF LoadAccount, provider, TypeOK
  <2> QED
    BY <1>2, <2>1, <2>2, <2>4, <2>5, Moved DEF LoadAccount, Hold, central, provider
<1>3. CASE ~(account.active /\ account.routed)
  BY <1>1, <1>3, EndsAlone DEF LoadAccount, provider, history, TypeOK
<1> QED
  BY <1>2, <1>3

\* The endings: a refusal, a call without an answer, a custody that is lost.
LEMMA EndingKeeps ==
  ASSUME IInv, NEW w \in Workers, Refused(w) \/ Unanswered(w) \/ NoticeLost(w), UNCHANGED scope
  PROVE  IInv'
<1>1. told \in SUBSET Requests
  BY DEF IInv, TypeOK
<1> QED
  BY <1>1, EndsAlone DEF Refused, Unanswered, NoticeLost, provider, history

\* A worker goes to a place where it knows no more than before.
LEMMA EnterKeeps ==
  ASSUME IInv, NEW w \in Workers, NEW pc, UNCHANGED <<scope, central, outcome, avail, history>>,
         Enter(w, pc), calls' \in SUBSET [key : Keys, credit : Credits],
         \/ At(w, "reserving") /\ pc = "reading"
         \/ At(w, "sending") /\ pc = "waiting"
         \/ At(w, "writing") /\ pc = "settling"
  PROVE  IInv'
<1>1. TypeOK /\ WorkTrue /\ CredentialStable /\ work[w] \in Works
  BY DEF IInv, TypeOK
<1> DEFINE x == [work[w] EXCEPT !.pc = pc]
<1>2. /\ x \in Works /\ x.pc = pc /\ x.req = work[w].req /\ x.revision = work[w].revision
      /\ x.version = work[w].version /\ x.journal = work[w].journal /\ x.sent = work[w].sent
      /\ x.code = work[w].code
  <2>1. pc \in {"reading", "waiting", "settling"}
    OBVIOUS
  <2> QED
    BY <1>1, <2>1 DEF Works
<1>3. work' = [work EXCEPT ![w] = x]
  BY <1>1 DEF Enter, TypeOK
<1> HIDE DEF x
<1>4. work'[w] = x
  BY <1>1, <1>2, <1>3 DEF TypeOK
<1>5. WorkOf(w)'
  BY <1>1, <1>2, <1>4 DEF WorkTrue, WorkOf, At, central, history
<1> QED
  BY <1>1, <1>2, <1>3, <1>5, Moved DEF CredentialStable, At

\* The loops' retries, the provider call, and its answer.
LEMMA RetriesKeep ==
  ASSUME IInv, NEW w \in Workers, ReserveRetry(w) \/ SettleRetry(w) \/ Consume(w), UNCHANGED scope
  PROVE  IInv'
<1>1. TypeOK /\ WorkTrue /\ work[w] \in Works
  BY DEF IInv, TypeOK
<1>2. told \in SUBSET Requests /\ calls \in SUBSET [key : Keys, credit : Credits]
  BY <1>1 DEF TypeOK
<1>3. CASE ReserveRetry(w)
  BY <1>2, <1>3, EndsAlone, EnterKeeps DEF ReserveRetry, Hold, central, provider, history
<1>4. CASE SettleRetry(w)
  BY <1>2, <1>4, EndsAlone, EnterKeeps DEF SettleRetry, Hold, central, provider, history
<1>5. CASE Consume(w)
  <2>1. work[w].sent \in Pendings
    BY <1>1, <1>5 DEF Consume, At, WorkTrue, WorkOf
  <2>2. calls' \in SUBSET [key : Keys, credit : Credits]
    BY <1>2, <1>5, <2>1 DEF Consume, Pendings, Keys
  <2> QED
    BY <1>5, <2>2, EnterKeeps DEF Consume
<1> QED
  BY <1>3, <1>4, <1>5

LEMMA AnsweredKeeps ==
  ASSUME IInv, NEW w \in Workers, Answered(w), UNCHANGED scope
  PROVE  IInv'
<1>1. TypeOK /\ WorkTrue /\ work[w] \in Works
  BY DEF IInv, TypeOK
<1> DEFINE code == outcome[work[w].sent.request]
           x == [work[w] EXCEPT !.pc = "settling", !.code = code]
<1>2. code \in Codes
  <2>1. work[w].sent.request \in Keys
    BY <1>1 DEF Answered, At, WorkTrue, WorkOf, Pendings, Keys
  <2> QED
    BY <1>1, <2>1 DEF Answered, TypeOK
<1> HIDE DEF code
<1>3. /\ x \in Works /\ x.pc = "settling" /\ x.req = work[w].req /\ x.version = work[w].version
      /\ x.sent = work[w].sent /\ x.code = code
  BY <1>1, <1>2 DEF Works
<1>4. work' = [work EXCEPT ![w] = x]
  BY <1>1 DEF Answered, TypeOK, code
<1> HIDE DEF x
<1>5. work'[w] = x
  BY <1>1, <1>4 DEF TypeOK
<1>6. WorkOf(w)'
  BY <1>1, <1>3, <1>5 DEF WorkTrue, WorkOf, At, Answered, central, provider, history, code
<1>7. calls' \in SUBSET [key : Keys, credit : Credits]
  BY <1>1 DEF Answered, provider, TypeOK
<1> QED
  BY <1>3, <1>4, <1>6, <1>7, Moved DEF Answered, provider

\* The session of the custody is gone, or a whole replica.
LEMMA LoseSessionKeeps ==
  ASSUME IInv, NEW w \in Workers, LoseSession(w), UNCHANGED scope
  PROVE  IInv'
<1>1. TypeOK /\ JournalPart /\ WorkTrue /\ CredentialStable
  BY DEF IInv, JournalPart
<1>2. TypeOK'
  BY <1>1 DEF TypeOK, LoseSession, provider, history
<1>3. JournalPart'
  BY <1>1, JournalFrame DEF LoseSession, provider, history
<1>4. \A v \in Workers : WorkOf(v)'
  BY <1>1, WorkFrame DEF WorkTrue, LoseSession, provider, history
<1>5. CredentialStable'
  BY <1>1, ActorsAssumption DEF CredentialStable, LoseSession, At
<1> QED
  BY <1>2, <1>3, <1>4, <1>5 DEF WorkTrue, IInv, JournalPart

LEMMA CrashKeeps ==
  ASSUME IInv, NEW h \in Replicas, Crash(h), UNCHANGED scope
  PROVE  IInv'
<1>1. TypeOK
  BY DEF IInv
<1> DEFINE W == {w \in Workers : Home[w] = h}
<1>2. work' = [w \in Workers |-> IF w \in W THEN Idle ELSE work[w]]
  BY DEF Crash
<1>3. custody' = IF custody \in W THEN None ELSE custody
  BY <1>1, ActorsAssumption DEF Crash, TypeOK
<1>4. owner' \in [Replicas -> Workers \cup {"free", "refresh"}]
  BY <1>1 DEF Crash, TypeOK
<1>5. /\ found' \in [Replicas -> {"absent", "boot", "inserted"}]
      /\ \A w \in Workers \ W : /\ found'[Home[w]] = found[Home[w]]
                                /\ owner'[Home[w]] = w <=> owner[Home[w]] = w
  BY <1>1, HomeAssumption DEF Crash, TypeOK
<1>6. recover' \in SUBSET Replicas /\ told' \in SUBSET Requests
  BY <1>1 DEF Crash, history, TypeOK
<1>7. UNCHANGED <<scope, account, row, lease, calls, outcome, avail, covers, fresh, evicted>>
  BY DEF Crash, provider, history
<1> HIDE DEF W
<1>8. W \in SUBSET Workers
  BY DEF W
<1> QED
  BY <1>2, <1>3, <1>4, <1>5, <1>6, <1>7, <1>8, Ended

---------------------------------------------------------------------------
\* The other actors: a refresh, the removal of the account, observations.  They leave the
\* journal and the workers alone, and what they do to the account, the lease and the mutexes
\* does not reach a worker with custody.
LEMMA AccountMoves ==
  ASSUME IInv, TypeOK',
         UNCHANGED <<scope, row, custody, work, outcome, covers, fresh, told, evicted>>,
         CredentialStable'
  PROVE  IInv'
<1>1. TypeOK /\ JournalPart /\ WorkTrue
  BY DEF IInv, JournalPart
<1>2. JournalPart'
  BY <1>1, JournalFrame
<1>3. \A v \in Workers : WorkOf(v)'
  BY <1>1, WorkFrame DEF WorkTrue
<1> QED
  BY <1>2, <1>3 DEF IInv, JournalPart, WorkTrue

LEMMA RefreshKeeps ==
  ASSUME IInv, NEW h \in Replicas, RefreshStep(h), UNCHANGED scope
  PROVE  IInv'
<1>1. TypeOK /\ CredentialStable /\ account.revision \in Nat /\ scope.revisions \in Nat
  BY ScopesAssumption DEF IInv, TypeOK
<1>2. custody = None \/ custody \in Workers
  BY <1>1 DEF TypeOK
<1>3. ASSUME NEW wait \in BOOLEAN, RefreshBegin(h, wait) PROVE IInv'
  <2>1. TypeOK'
    BY <1>1, <1>3 DEF TypeOK, RefreshBegin, provider, history
  <2>2. CredentialStable'
    BY <1>3, ActorsAssumption DEF CredentialStable, RefreshBegin, MutationAllowed
  <2> QED
    BY <1>3, <2>1, <2>2, AccountMoves DEF RefreshBegin, provider, history
<1>8. ASSUME SelectOwner(h) PROVE IInv'
  <2>1. TypeOK'
    BY <1>1, <1>8 DEF TypeOK, SelectOwner, provider, history
  <2>2. \A g \in Replicas : found'[g] = "boot" => found[g] = "boot"
    BY <1>1, <1>8 DEF TypeOK, SelectOwner
  <2>3. CredentialStable'
    BY <1>1, <1>8, <2>2, HomeAssumption DEF CredentialStable, SelectOwner, At
  <2> QED
    BY <1>8, <2>1, <2>3, AccountMoves DEF SelectOwner, provider, history
<1>4. ASSUME RecoverResume(h) PROVE IInv'
  <2>1. TypeOK'
    BY <1>1, <1>4 DEF TypeOK, RecoverResume, provider, history
  <2>2. CredentialStable'
    BY <1>1, <1>2, <1>4, ActorsAssumption, HomeAssumption
       DEF CredentialStable, RecoverResume, TypeOK, At
  <2> QED
    BY <1>4, <2>1, <2>2, AccountMoves DEF RecoverResume, provider, history
<1>5. ASSUME NEW proved \in BOOLEAN, RefreshPublish(h, proved) PROVE IInv'
  <2>1. account' \in [active : BOOLEAN, revision : 0..scope.revisions, routed : BOOLEAN]
    <3>1. account.revision + 1 \in 0..scope.revisions
      BY <1>1, <1>5 DEF RefreshPublish
    <3> QED
      BY <1>1, <1>5, <3>1 DEF TypeOK, RefreshPublish
  <2>2. TypeOK'
    BY <1>1, <1>5, <2>1 DEF TypeOK, RefreshPublish, provider, history
  <2>3. ASSUME NEW w \in Workers, custody = w, work[w].pc \in {"sending", "waiting"}
        PROVE  owner[Home[w]] # w
    <3>1. lease.open /\ lease.holder = Home[w]
      BY <1>1, <1>5, <2>3 DEF CredentialStable, RefreshPublish
    <3> QED
      BY <1>5, <3>1, ActorsAssumption DEF RefreshPublish
  <2>4. CredentialStable'
    BY <1>1, <1>5, <2>3 DEF CredentialStable, RefreshPublish, At
  <2> QED
    BY <1>5, <2>2, <2>4, AccountMoves DEF RefreshPublish, provider, history
<1>6. ASSUME NEW released \in BOOLEAN, RefreshEnd(h, released) PROVE IInv'
  <2>1. TypeOK'
    BY <1>1, <1>6 DEF TypeOK, RefreshEnd, provider, history
  <2>2. \A w \in Workers : owner'[Home[w]] = w <=> owner[Home[w]] = w
    BY <1>1, <1>6, ActorsAssumption, HomeAssumption DEF RefreshEnd, TypeOK
  <2>3. lease'.live => lease'.open
    BY <1>1, <1>6 DEF CredentialStable, RefreshEnd, TypeOK
  <2>4. lease'.open => lease.open /\ lease'.holder = lease.holder
    BY <1>1, <1>6 DEF RefreshEnd, TypeOK
  <2>5. CredentialStable'
    BY <1>1, <1>6, <2>2, <2>3, <2>4 DEF CredentialStable, RefreshEnd, At
  <2> QED
    BY <1>6, <2>1, <2>5, AccountMoves DEF RefreshEnd, provider, history
<1>7. ASSUME RemoveAccount(h) PROVE IInv'
  <2>1. TypeOK'
    BY <1>1, <1>7 DEF TypeOK, RemoveAccount, provider, history
  <2>2. CredentialStable'
    BY <1>1, <1>7, ActorsAssumption DEF CredentialStable, RemoveAccount, MutationAllowed, TypeOK
  <2> QED
    BY <1>7, <2>1, <2>2, AccountMoves DEF RemoveAccount, provider, history
<1> QED
  BY <1>3, <1>4, <1>5, <1>6, <1>7, <1>8 DEF RefreshStep

LEMMA ObserveKeeps ==
  ASSUME IInv, LeaseExpires \/ Observe, UNCHANGED scope
  PROVE  IInv'
<1>1. TypeOK /\ CredentialStable
  BY DEF IInv
<1>2. TypeOK'
  <2>1. CASE LeaseExpires
    <3>1. lease' \in [holder : Replicas \cup {None}, live : BOOLEAN, open : BOOLEAN]
      BY <1>1, <2>1 DEF TypeOK, LeaseExpires
    <3> QED
      BY <1>1, <2>1, <3>1 DEF TypeOK, LeaseExpires, provider, history
  <2>2. CASE Observe
    <3>1. account' \in [active : BOOLEAN, revision : 0..scope.revisions, routed : BOOLEAN]
      BY <1>1, <2>2 DEF TypeOK, Observe
    <3> QED
      BY <1>1, <2>2, <3>1 DEF TypeOK, Observe, provider, history
  <2> QED
    BY <2>1, <2>2
<1>3. CredentialStable'
  BY <1>1 DEF CredentialStable, LeaseExpires, Observe, At, TypeOK
<1> QED
  BY <1>2, <1>3, AccountMoves DEF LeaseExpires, Observe, provider, history

\* The provider decides on a key once; nothing held a receipt of it before.
LEMMA ProcessKeeps ==
  ASSUME IInv, NEW call \in calls, Process(call), UNCHANGED scope
  PROVE  IInv'
<1>1. TypeOK /\ JournalPart /\ WorkTrue /\ CredentialStable
  BY DEF IInv, JournalPart
<1>2. call.key \in Keys /\ call.credit \in Credits
  BY <1>1 DEF TypeOK
<1>3. PICK code \in Codes :
        /\ outcome' = [outcome EXCEPT ![call.key] = code]
        /\ avail' = IF code = "reset" THEN avail \ {call.credit} ELSE avail
  BY DEF Process
<1>4. /\ outcome' \in [Keys -> Codes \cup {None}] /\ avail' \in SUBSET Credits
      /\ \A k \in Keys : outcome[k] # None => outcome'[k] = outcome[k]
      /\ outcome[call.key] = None /\ outcome'[call.key] = code
      /\ \A k \in Keys : k # call.key => outcome'[k] = outcome[k]
  BY <1>1, <1>2, <1>3 DEF TypeOK, Process
<1>5. UNCHANGED <<account, row, lease, custody, found, owner, recover, work, calls, covers, fresh,
                  told, evicted>>
  BY DEF Process, central, history
<1>6. TypeOK'
  BY <1>1, <1>4, <1>5 DEF TypeOK
<1>7. \A r \in DOMAIN row.journal.completed : row.journal.completed[r] \in Codes
  BY <1>1, ReceiptsAre DEF TypeOK, Journals
<1>8. Accounted'
  <2>1. \A k \in Keys : \A r \in covers[k] \ evicted :
          r \in DOMAIN row.journal.completed /\ row.journal.completed[r] = outcome[k]
            => row.journal.completed[r] = outcome'[k]
    BY <1>4, <1>7, NoneAssumption
  <2> QED
    BY <1>1, <1>5, <2>1 DEF JournalPart, Accounted
<1>9. ReceiptsTrue'
  BY <1>1, <1>4, <1>5, NoneAssumption DEF JournalPart, ReceiptsTrue, TrueOf, Spent, Codes
<1>10. CoveredOnce' /\ FreshOnce' /\ JournalSound'
  BY <1>1, <1>5 DEF JournalPart, CoveredOnce, FreshOnce, JournalSound
<1>11. SpendRemembered'
  BY <1>5, <1>8 DEF Accounted, SpendRemembered, Spent
<1>12. \A v \in Workers : WorkOf(v)'
  BY <1>1, <1>4, <1>5, WorkFrame DEF WorkTrue
<1>13. CredentialStable'
  BY <1>1, <1>5 DEF CredentialStable, At
<1> QED
  BY <1>6, <1>8, <1>9, <1>10, <1>11, <1>12, <1>13 DEF IInv, WorkTrue

---------------------------------------------------------------------------
\* What is left when a worker ends in a step that writes.
LEMMA EndGives ==
  ASSUME TypeOK, CredentialStable, NEW w \in Workers, End(w),
         account'.revision = account.revision, lease' = lease, found' = found
  PROVE  /\ work' \in [Workers -> Works] /\ work'[w] = Idle
         /\ \A v \in Workers : v # w => work'[v] = work[v]
         /\ custody' \in Workers \cup {None}
         /\ owner' \in [Replicas -> Workers \cup {"free", "refresh"}]
         /\ CredentialStable'
<1>1. /\ work' \in [Workers -> Works] /\ work'[w] = Idle
      /\ \A v \in Workers : v # w => work'[v] = work[v]
  BY IdleWorks DEF TypeOK, End
<1>2. /\ custody' \in Workers \cup {None}
      /\ owner' \in [Replicas -> Workers \cup {"free", "refresh"}]
  BY DEF TypeOK, End
<1>3. ASSUME NEW v \in Workers, custody' = v
      PROVE  v # w /\ custody = v /\ (owner'[Home[v]] = v <=> owner[Home[v]] = v)
  <2>1. v # w /\ custody = v
    BY <1>3, ActorsAssumption DEF End
  <2> QED
    BY <2>1, MutexFrame
<1>4. CredentialStable'
  BY <1>1, <1>3 DEF CredentialStable, At
<1> QED
  BY <1>1, <1>2, <1>4

\* The intent a worker writes: it covers the request and all that was pending.
LEMMA IntentGives ==
  ASSUME IInv, NEW w \in Workers, At(w, "reserving"), Cas(w),
         NEW p, p = work[w].journal.pending
  PROVE  /\ p \in Pendings /\ work[w].req \in Covers(p)
         /\ work[w].journal = [row.journal EXCEPT !.pending = p]
         /\ Sound(work[w].journal)
         /\ IF row.journal.pending = None
            THEN p.request = work[w].req /\ Covers(p) = {work[w].req}
            ELSE /\ p.request = row.journal.pending.request
                 /\ Covers(p) = Covers(row.journal.pending) \cup {work[w].req}
<1> DEFINE j == row.journal
           r == work[w].req
<1>1. j \in Journals /\ r \in Requests /\ r \notin DOMAIN j.completed /\ Sound(j)
  BY DEF IInv, TypeOK, JournalSound, WorkTrue, WorkOf, At, HasReceipt
<1>2. PICK c \in Credits : work[w].journal = [j EXCEPT !.pending = Intent(w, c)]
  BY DEF IInv, WorkTrue, WorkOf
<1>3. j.pending \in Pendings \cup {None} /\ j.completed \in Receipts /\ j.order \in Seq(Requests)
      /\ j = [pending |-> j.pending, completed |-> j.completed, order |-> j.order]
  BY <1>1 DEF Journals
<1>4. p = Intent(w, c)
  BY <1>2, <1>3
<1> HIDE DEF j, r
<1>5. CASE j.pending = None
  <2>1. p = [request |-> r, credit |-> c, joined |-> {}]
    BY <1>4, <1>5 DEF Intent, j, r
  <2>2. p \in Pendings /\ p.request = r /\ Covers(p) = {r}
    BY <1>1, <2>1 DEF Pendings, Covers
  <2>3. Sound([j EXCEPT !.pending = p])
    BY <1>1, <1>3, <2>2 DEF Sound, Journals
  <2> QED
    BY <1>2, <1>4, <1>5, <2>2, <2>3 DEF j, r
<1>6. CASE j.pending # None
  <2>1. p = Join(j.pending, r) /\ j.pending \in Pendings
    BY <1>3, <1>4, <1>6 DEF Intent, j, r
  <2>2. p \in Pendings /\ p.request = j.pending.request /\ Covers(p) = Covers(j.pending) \cup {r}
    <3>1. CASE r \in Covers(j.pending)
      BY <2>1, <3>1 DEF Join
    <3>2. CASE r \notin Covers(j.pending)
      <4>1. p = [j.pending EXCEPT !.joined = @ \cup {r}]
        BY <2>1, <3>2 DEF Join
      <4> QED
        BY <1>1, <2>1, <4>1 DEF Pendings, Covers
    <3> QED
      BY <3>1, <3>2
  <2>3. Sound([j EXCEPT !.pending = p])
    BY <1>1, <1>3, <1>6, <2>2 DEF Sound, Journals
  <2> QED
    BY <1>2, <1>4, <1>6, <2>2, <2>3 DEF j, r
<1> QED
  BY <1>5, <1>6

\* write_reset_journal, Reserve: a request without a receipt joins what is pending or begins
\* it, so no other key that is not yet dropped was written for it.
LEMMA ReserveKeeps ==
  ASSUME IInv, NEW w \in Workers, NEW answered \in BOOLEAN, Reserve(w, answered), UNCHANGED scope
  PROVE  IInv'
<1> DEFINE p == work[w].journal.pending
           j == row.journal
           r == work[w].req
<1>1. TypeOK /\ JournalPart /\ WorkTrue /\ CredentialStable /\ work[w] \in Works
  BY DEF IInv, JournalPart, TypeOK
<1>2. /\ p \in Pendings /\ r \in Covers(p)
      /\ work[w].journal = [j EXCEPT !.pending = p]
      /\ Sound(work[w].journal)
      /\ IF j.pending = None
         THEN p.request = r /\ Covers(p) = {r}
         ELSE p.request = j.pending.request /\ Covers(p) = Covers(j.pending) \cup {r}
  BY IntentGives DEF Reserve
<1>3. /\ At(w, "reserving") /\ Admitted(w) /\ Cas(w) /\ Write(work[w].journal)
      /\ covers' = [covers EXCEPT ![p.request] = @ \cup Covers(p)]
      /\ IF answered
         THEN work' = [work EXCEPT ![w].pc = "sending", ![w].sent = p] /\ Hold
         ELSE End(w)
      /\ UNCHANGED <<account, lease, found, recover, calls, outcome, avail, fresh, told>>
  BY DEF Reserve, provider
<1> HIDE DEF p
<1>4. /\ j \in Journals /\ r \notin DOMAIN j.completed /\ r \in Requests
      /\ j.pending # None => Covers(j.pending) \subseteq covers[j.pending.request]
  BY <1>1, <1>3 DEF JournalPart, JournalSound, TypeOK, WorkTrue, WorkOf, At, HasReceipt
<1> HIDE DEF r
<1>5. /\ row' = [version |-> row.version + 1, journal |-> work[w].journal]
      /\ row'.journal.completed = j.completed /\ row'.journal.pending = p
      /\ row'.version = row.version + 1 /\ row.version < scope.versions
  BY <1>2, <1>3, <1>4 DEF Write, Journals
<1>6. evicted' = evicted
  BY <1>3, <1>2, <1>4 DEF Write, Journals
<1>7. /\ p.request \in Keys /\ Covers(p) \in SUBSET Requests /\ p # None
      /\ covers' \in [Keys -> SUBSET Requests]
      /\ covers'[p.request] = covers[p.request] \cup Covers(p)
      /\ \A k \in Keys : k # p.request => covers'[k] = covers[k]
  BY <1>1, <1>2, <1>3, NoneAssumption DEF TypeOK, Pendings, Covers, Keys
<1>8. \A k \in Keys : k # p.request => covers[k] \cap Covers(p) \subseteq evicted
  <2> SUFFICES ASSUME NEW k \in Keys, k # p.request, NEW x \in covers[k] \cap Covers(p)
               PROVE  x \in evicted
    OBVIOUS
  <2>1. CASE x = r
    BY <1>1, <1>2, <1>4, <2>1 DEF JournalPart, Accounted
  <2>2. CASE x # r
    <3>1. j.pending # None /\ x \in covers[p.request]
      BY <1>2, <1>4, <2>2
    <3> QED
      BY <1>1, <1>7, <3>1 DEF JournalPart, CoveredOnce
  <2> QED
    BY <2>1, <2>2
<1>9. CoveredOnce'
  <2> SUFFICES ASSUME NEW k \in Keys, NEW l \in Keys, k # l
               PROVE  covers'[k] \cap covers'[l] \subseteq evicted
    BY <1>6 DEF CoveredOnce
  <2>0. covers[k] \cap covers[l] \subseteq evicted
    BY <1>1 DEF JournalPart, CoveredOnce
  <2>1. CASE k = p.request
    BY <1>7, <1>8, <2>0, <2>1
  <2>2. CASE l = p.request
    BY <1>7, <1>8, <2>0, <2>2
  <2>3. CASE k # p.request /\ l # p.request
    BY <1>7, <2>0, <2>3
  <2> QED
    BY <2>1, <2>2, <2>3
<1>10. Accounted'
  <2> SUFFICES ASSUME NEW k \in Keys, NEW x \in covers'[k] \ evicted
               PROVE  \/ x \in DOMAIN j.completed /\ j.completed[x] = outcome[k]
                      \/ p.request = k /\ x \in Covers(p)
    BY <1>3, <1>5, <1>6, <1>7 DEF Accounted
  <2>1. CASE x \in covers[k]
    <3>1. \/ x \in DOMAIN j.completed /\ j.completed[x] = outcome[k]
          \/ j.pending # None /\ j.pending.request = k /\ x \in Covers(j.pending)
      BY <1>1, <2>1 DEF JournalPart, Accounted
    <3> QED
      BY <1>2, <3>1
  <2>2. CASE x \notin covers[k]
    BY <1>7, <2>2
  <2> QED
    BY <2>1, <2>2
<1>11. SpendRemembered'
  BY <1>10 DEF Accounted, SpendRemembered, Spent
<1>12. \A k \in Keys : covers[k] \subseteq covers'[k]
  BY <1>7
<1>13. ReceiptsTrue'
  BY <1>1, <1>3, <1>5, <1>12 DEF JournalPart, ReceiptsTrue, TrueOf
<1>14. FreshOnce'
  BY <1>1, <1>3, <1>5, <1>6 DEF JournalPart, FreshOnce
<1>15. JournalSound'
  BY <1>2, <1>5, <1>7 DEF JournalSound
<1>16. scope.versions \in Nat /\ row.version \in Nat /\ row'.version \in 0..scope.versions
  BY <1>1, <1>5, ScopesAssumption DEF TypeOK
<1>17. row' \in [version : 0..scope.versions, journal : Journals]
  BY <1>2, <1>5, <1>16 DEF Sound
<1>18. CASE answered
  <2> DEFINE x == [work[w] EXCEPT !.pc = "sending", !.sent = p]
  <2>1. /\ x \in Works /\ x.pc = "sending" /\ x.sent = p /\ x.req = r
        /\ x.version = work[w].version /\ x.revision = work[w].revision
    BY <1>1, <1>2 DEF Works, r
  <2>2. work' = [work EXCEPT ![w] = x]
    BY <1>1, <1>3, <1>18 DEF TypeOK
  <2> HIDE DEF x
  <2>3. /\ work' \in [Workers -> Works] /\ work'[w] = x
        /\ \A v \in Workers : v # w => work'[v] = work[v]
    BY <1>1, <2>1, <2>2 DEF TypeOK
  <2>4. UNCHANGED <<custody, owner>>
    BY <1>3, <1>18 DEF Hold
  <2>5. TypeOK'
    BY <1>1, <1>3, <1>6, <1>7, <1>17, <2>3, <2>4 DEF TypeOK
  <2>6. WorkOf(w)'
    <3>1. (work[w].version <= row.version)' /\ (work[w].req \in Requests)'
      BY <1>1, <1>3, <1>4, <1>5, <1>16, <2>1, <2>3 DEF WorkTrue, WorkOf, Works, Cas
    <3> QED
      BY <1>2, <1>7, <2>1, <2>3, <3>1 DEF WorkOf, At
  <2>7. \A v \in Workers : WorkOf(v)'
    BY <1>1, <1>3, <1>5, <1>12, <1>16, <2>3, <2>6, WorkFrame DEF WorkTrue
  <2>8. CredentialStable'
    BY <1>1, <1>3, <2>1, <2>3, <2>4 DEF CredentialStable, At, Admitted
  <2> QED
    BY <1>9, <1>10, <1>11, <1>13, <1>14, <1>15, <2>5, <2>7, <2>8 DEF IInv, WorkTrue
<1>19. CASE ~answered
  <2>1. /\ work' \in [Workers -> Works] /\ work'[w] = Idle
        /\ \A v \in Workers : v # w => work'[v] = work[v]
        /\ custody' \in Workers \cup {None}
        /\ owner' \in [Replicas -> Workers \cup {"free", "refresh"}]
        /\ CredentialStable'
    BY <1>1, <1>3, <1>19, EndGives
  <2>2. TypeOK'
    BY <1>1, <1>3, <1>6, <1>7, <1>17, <2>1 DEF TypeOK
  <2>3. WorkOf(w)'
    BY <1>5, <1>16, <2>1 DEF WorkOf, At, Idle
  <2>4. \A v \in Workers : WorkOf(v)'
    BY <1>1, <1>3, <1>5, <1>12, <1>16, <2>1, <2>3, WorkFrame DEF WorkTrue
  <2> QED
    BY <1>9, <1>10, <1>11, <1>13, <1>14, <1>15, <2>1, <2>2, <2>4 DEF IInv, WorkTrue
<1> QED
  BY <1>18, <1>19

\* The row a settlement leaves: the intent is gone, its batch on record with the answer.
LEMMA SettledGives ==
  ASSUME IInv, NEW w \in Workers, At(w, "writing"), Cas(w),
         NEW j, j = row.journal, NEW k, k = work[w].journal
  PROVE  /\ j.pending \in Pendings /\ j.pending.request = work[w].sent.request
         /\ Covers(j.pending) \in SUBSET Requests
         /\ Covers(j.pending) \cap DOMAIN j.completed = {}
         /\ Covers(j.pending) \subseteq covers[j.pending.request]
         /\ Sound(k) /\ k.pending = None
         /\ DOMAIN k.completed \subseteq DOMAIN j.completed \cup Covers(j.pending)
         /\ Covers(j.pending) \subseteq DOMAIN k.completed
         /\ \A r \in DOMAIN k.completed :
              k.completed[r] = IF r \in Covers(j.pending) THEN work[w].code ELSE j.completed[r]
         /\ DOMAIN j.completed \ DOMAIN k.completed # {} => Len(k.order) >= ReceiptLimit
         /\ OldestGone(j, k)
<1> DEFINE base == [j EXCEPT !.pending = None]
           batch == Covers(j.pending)
           code == work[w].code
<1>1. /\ Sound(j) /\ j.pending # None /\ j.pending.request = work[w].sent.request
      /\ k = Complete(base, batch, code) /\ code \in Codes
      /\ Covers(j.pending) \subseteq covers[j.pending.request]
  BY DEF IInv, JournalSound, WorkTrue, WorkOf, SameIntent, TypeOK, Works, At
<1>2. /\ j \in Journals /\ j.pending \in Pendings /\ batch \in SUBSET Requests
      /\ batch \cap DOMAIN j.completed = {}
  BY <1>1 DEF Sound, Journals, Pendings, Covers
<1>3. base.completed = j.completed /\ base.order = j.order /\ base.pending = None
  BY <1>2 DEF Journals
<1>4. Ordered(base)
  BY <1>1, <1>2, <1>3 DEF Ordered, Sound, Journals
<1> HIDE DEF base, batch, code
<1>5. Completed(base, k, batch, code)
  <2>1. k = Complete(base, batch, code) /\ batch \in SUBSET Requests /\ code \in Codes
    BY <1>1, <1>2
  <2> QED
    BY ONLY <1>4, <2>1, CompleteGives
<1>6. Sound(k)
  BY <1>3, <1>5 DEF Completed, Ordered, Sound
<1>7. OldestGone(j, k)
  <2>1. OldestGone(base, k)
    BY <1>5 DEF Completed
  <2> QED
    BY ONLY <1>3, <2>1 DEF OldestGone
<1> QED
  BY <1>1, <1>2, <1>3, <1>5, <1>6, <1>7 DEF Completed, batch, code

\* write_reset_journal, Settle: what is covered is on record with the provider's answer, or
\* dropped for later completions.
LEMMA SettleKeeps ==
  ASSUME IInv, NEW w \in Workers, NEW answered \in BOOLEAN, Settle(w, answered), UNCHANGED scope
  PROVE  IInv'
<1> DEFINE j == row.journal
           n == work[w].journal
           batch == Covers(j.pending)
           code == work[w].code
           key == j.pending.request
<1>1. TypeOK /\ JournalPart /\ WorkTrue /\ CredentialStable /\ work[w] \in Works /\ WorkOf(w)
  BY DEF IInv, JournalPart, TypeOK, WorkTrue
<1>2. /\ j.pending \in Pendings /\ key = work[w].sent.request
      /\ batch \in SUBSET Requests /\ batch \cap DOMAIN j.completed = {}
      /\ batch \subseteq covers[key]
      /\ Sound(n) /\ n.pending = None
      /\ DOMAIN n.completed \subseteq DOMAIN j.completed \cup batch
      /\ batch \subseteq DOMAIN n.completed
      /\ \A r \in DOMAIN n.completed :
           n.completed[r] = IF r \in batch THEN code ELSE j.completed[r]
  BY SettledGives DEF Settle
<1>3. /\ At(w, "writing") /\ account.active /\ Cas(w) /\ Write(n)
      /\ account' = [account EXCEPT !.routed = @ /\ code \notin Spent \cup {"unknown"}]
      /\ fresh' = IF answered /\ code = "reset" /\ fresh[key] < 2
                  THEN [fresh EXCEPT ![key] = @ + 1] ELSE fresh
      /\ IF answered THEN Told(work[w].req, code) ELSE UNCHANGED told
      /\ End(w)
      /\ UNCHANGED <<lease, found, recover, calls, outcome, avail, covers>>
  BY <1>2 DEF Settle, provider
<1>4. outcome[key] = code /\ code \in Codes /\ work[w].req \in Requests /\ key \in batch
      /\ key \in Keys
  BY <1>1, <1>2, <1>3 DEF WorkOf, At, Works, Covers, Pendings, Keys
<1> HIDE DEF j, n, batch, code, key
<1>5. /\ row' = [version |-> row.version + 1, journal |-> n]
      /\ row'.journal = n /\ row'.version = row.version + 1 /\ row.version < scope.versions
      /\ evicted' = evicted \cup (DOMAIN j.completed \ DOMAIN n.completed)
  BY <1>3 DEF Write, j
<1>6. CoveredOnce'
  BY <1>1, <1>3, <1>5 DEF JournalPart, CoveredOnce
<1>7. \A k \in Keys : \A r \in covers[k] \ evicted :
        \/ r \in DOMAIN j.completed /\ j.completed[r] = outcome[k]
        \/ k = key /\ r \in batch
  BY <1>1 DEF JournalPart, Accounted, j, key, batch
<1>8. Accounted'
  <2> SUFFICES ASSUME NEW k \in Keys, NEW r \in covers[k] \ evicted'
               PROVE  r \in DOMAIN n.completed /\ n.completed[r] = outcome[k]
    BY <1>3, <1>5 DEF Accounted
  <2>1. CASE r \in DOMAIN j.completed /\ j.completed[r] = outcome[k]
    BY <1>2, <1>5, <2>1
  <2>2. CASE k = key /\ r \in batch
    BY <1>2, <1>4, <2>2
  <2> QED
    BY <1>5, <1>7, <2>1, <2>2
<1>9. SpendRemembered'
  BY <1>8, <1>2, <1>5 DEF Accounted, SpendRemembered, Spent
<1>10. ReceiptsTrue'
  <2> SUFFICES ASSUME NEW r \in DOMAIN n.completed, n.completed[r] \in Spent
               PROVE  TrueOf(r)
    BY <1>3, <1>5 DEF ReceiptsTrue, TrueOf
  <2>1. CASE r \in batch
    BY <1>2, <1>4, <2>1 DEF TrueOf
  <2>2. CASE r \notin batch
    BY <1>1, <1>2, <2>2 DEF JournalPart, ReceiptsTrue, j
  <2> QED
    BY <2>1, <2>2
<1>11. /\ fresh' \in [Keys -> 0..2]
       /\ \A k \in Keys : k # key => fresh'[k] = fresh[k]
       /\ fresh'[key] > 1 => fresh[key] > 0
  BY <1>1, <1>3, <1>4 DEF TypeOK
<1>12. FreshOnce'
  <2> SUFFICES ASSUME NEW k \in Keys
               PROVE  /\ fresh'[k] > 0 => k \in evicted' \cup DOMAIN n.completed
                      /\ fresh'[k] > 1 => k \in evicted'
    BY <1>5 DEF FreshOnce
  <2>1. /\ fresh[k] > 0 => k \in evicted \cup DOMAIN j.completed
        /\ fresh[k] > 1 => k \in evicted
    BY <1>1 DEF JournalPart, FreshOnce, j
  <2>2. CASE k = key
    BY <1>2, <1>4, <1>5, <1>11, <2>1, <2>2
  <2>3. CASE k # key
    BY <1>5, <1>11, <2>1, <2>3
  <2> QED
    BY <2>2, <2>3
<1>13. JournalSound'
  BY <1>2, <1>5 DEF JournalSound
<1>14. scope.versions \in Nat /\ row.version \in Nat /\ row'.version \in 0..scope.versions
  BY <1>1, <1>5, ScopesAssumption DEF TypeOK
<1>15. row' \in [version : 0..scope.versions, journal : Journals]
  BY <1>2, <1>5, <1>14 DEF Sound
<1>16. told' \in SUBSET Requests
  BY <1>1, <1>3, <1>4 DEF TypeOK, Told
<1>17. /\ account' \in [active : BOOLEAN, revision : 0..scope.revisions, routed : BOOLEAN]
       /\ account'.revision = account.revision
  BY <1>1, <1>3 DEF TypeOK
<1>18. /\ work' \in [Workers -> Works] /\ work'[w] = Idle
       /\ \A v \in Workers : v # w => work'[v] = work[v]
       /\ custody' \in Workers \cup {None}
       /\ owner' \in [Replicas -> Workers \cup {"free", "refresh"}]
       /\ CredentialStable'
  BY <1>1, <1>3, <1>17, EndGives
<1>19. DOMAIN j.completed \subseteq Requests
  BY <1>1, ReceiptsAre DEF TypeOK, Journals, j
<1>20. TypeOK'
  BY <1>1, <1>3, <1>5, <1>11, <1>15, <1>16, <1>17, <1>18, <1>19 DEF TypeOK
<1>21. WorkOf(w)'
  BY <1>5, <1>14, <1>18 DEF WorkOf, At, Idle
<1>22. \A v \in Workers : WorkOf(v)'
  BY <1>1, <1>3, <1>5, <1>14, <1>18, <1>21, WorkFrame DEF WorkTrue
<1> QED
  BY <1>6, <1>8, <1>9, <1>10, <1>12, <1>13, <1>18, <1>20, <1>22 DEF IInv, WorkTrue

---------------------------------------------------------------------------
\* execute: what a worker read is what it would write, and the row's revision tells whether
\* it is still so.
LEMMA ReadJournalKeeps ==
  ASSUME IInv, NEW w \in Workers, ReadJournal(w), UNCHANGED scope
  PROVE  IInv'
<1> DEFINE j == row.journal
           r == work[w].req
<1>1. TypeOK /\ WorkTrue /\ work[w] \in Works /\ WorkOf(w) /\ r \in Requests
  BY DEF IInv, TypeOK, WorkTrue, WorkOf, ReadJournal, At
<1>2. told' \in SUBSET Requests
  BY <1>1 DEF ReadJournal, Told, TypeOK
<1>3. CASE End(w)
  BY <1>2, <1>3, EndsAlone DEF ReadJournal, provider
<1>4. ASSUME NEW c \in Credits, ~HasReceipt(w), Hold, UNCHANGED told,
             work' = [work EXCEPT ![w].pc = "reserving", ![w].version = row.version,
                                  ![w].journal = [j EXCEPT !.pending = Intent(w, c)]]
      PROVE  IInv'
  <2> DEFINE i == Intent(w, c)
             n == [j EXCEPT !.pending = i]
             x == [work[w] EXCEPT !.pc = "reserving", !.version = row.version, !.journal = n]
  <2>1. /\ j \in Journals /\ j.pending \in Pendings \cup {None} /\ row.version \in Nat
    BY <1>1, ScopesAssumption DEF TypeOK, Journals
  <2>2. i \in Pendings
    <3>1. CASE j.pending = None
      BY <1>1, <3>1 DEF Intent, Pendings
    <3>2. CASE j.pending # None
      BY <1>1, <2>1, <3>2 DEF Intent, Join, Pendings
    <3> QED
      BY <3>1, <3>2
  <2> HIDE DEF i
  <2>3. n \in Journals
    BY <2>1, <2>2 DEF Journals
  <2> HIDE DEF n
  <2>4. /\ x \in Works /\ x.pc = "reserving" /\ x.version = row.version /\ x.journal = n
        /\ x.req = r
    BY <1>1, <2>1, <2>3 DEF Works
  <2>5. work' = [work EXCEPT ![w] = x]
    BY <1>1, <1>4 DEF TypeOK, n, i
  <2> HIDE DEF x
  <2>6. work'[w] = x
    BY <1>1, <2>4, <2>5 DEF TypeOK
  <2>7. UNCHANGED <<account, row, lease, custody, found, owner, recover, calls, outcome, avail,
                    covers, fresh, told, evicted>>
    BY <1>4 DEF ReadJournal, Hold, provider
  <2>8. (~HasReceipt(w))' /\ Intent(w, c)' = i
    <3>1. row' = row /\ work'[w].req = work[w].req
      BY <2>4, <2>6, <2>7
    <3>2. (~HasReceipt(w))'
      BY <1>4, <3>1 DEF HasReceipt
    <3>3. Intent(w, c)' = Intent(w, c)
      BY <3>1 DEF Intent, Join, Covers
    <3> QED
      BY <3>2, <3>3 DEF i
  <2>9. WorkOf(w)'
    <3>1. (work[w].version <= row.version)' /\ (work[w].req \in Requests)'
      BY <1>1, <2>1, <2>4, <2>6, <2>7
    <3>2. work'[w].journal = [row'.journal EXCEPT !.pending = Intent(w, c)']
      BY <2>4, <2>6, <2>7, <2>8 DEF n
    <3>3. (\E d \in Credits : work[w].journal = [row.journal EXCEPT !.pending = Intent(w, d)])'
      BY <3>2
    <3> QED
      BY <2>4, <2>6, <2>8, <3>1, <3>3 DEF WorkOf, At
  <2> QED
    BY <1>1, <2>4, <2>5, <2>7, <2>9, Moved DEF TypeOK, central, history
<1> QED
  BY <1>3, <1>4 DEF ReadJournal

LEMMA SettleReadKeeps ==
  ASSUME IInv, NEW w \in Workers, SettleRead(w), UNCHANGED scope
  PROVE  IInv'
<1> DEFINE j == row.journal
           r == work[w].req
           base == [j EXCEPT !.pending = None]
           batch == Covers(j.pending)
           n == Complete(base, batch, work[w].code)
<1>1. TypeOK /\ WorkTrue /\ work[w] \in Works /\ WorkOf(w) /\ r \in Requests
  BY DEF IInv, TypeOK, WorkTrue, WorkOf, SettleRead, At
<1>2. told' \in SUBSET Requests
  BY <1>1 DEF SettleRead, Told, TypeOK
<1>3. CASE End(w)
  BY <1>2, <1>3, EndsAlone DEF SettleRead, provider
<1>4. ASSUME SameIntent(w), Hold, UNCHANGED told,
             work' = [work EXCEPT ![w].pc = "writing", ![w].version = row.version,
                                  ![w].journal = n]
      PROVE  IInv'
  <2> DEFINE x == [work[w] EXCEPT !.pc = "writing", !.version = row.version, !.journal = n]
  <2>1. /\ j \in Journals /\ j.pending \in Pendings /\ row.version \in Nat /\ Sound(j)
    BY <1>1, <1>4, ScopesAssumption DEF IInv, TypeOK, Journals, SameIntent, JournalSound
  <2>2. batch \in SUBSET Requests /\ work[w].code \in Codes
    BY <1>1, <2>1 DEF Covers, Pendings, Works
  <2>3. Ordered(base)
    BY <2>1 DEF Ordered, Sound, Journals
  <2>0. n = Complete(base, batch, work[w].code)
    OBVIOUS
  <2> HIDE DEF n, base, batch
  <2>4. n \in Journals
    <3>1. Completed(base, n, batch, work[w].code)
      BY ONLY <2>0, <2>2, <2>3, CompleteGives
    <3> QED
      BY <3>1 DEF Completed, Ordered
  <2>5. /\ x \in Works /\ x.pc = "writing" /\ x.version = row.version /\ x.journal = n
        /\ x.req = r /\ x.sent = work[w].sent /\ x.code = work[w].code
    BY <1>1, <2>1, <2>4 DEF Works
  <2>6. work' = [work EXCEPT ![w] = x]
    BY <1>1, <1>4 DEF TypeOK
  <2> HIDE DEF x
  <2>7. work'[w] = x
    BY <1>1, <2>5, <2>6 DEF TypeOK
  <2>8. UNCHANGED <<account, row, lease, custody, found, owner, recover, calls, outcome, avail,
                    covers, fresh, told, evicted>>
    BY <1>4 DEF SettleRead, Hold, provider
  <2>9. WorkOf(w)'
    <3>1. (work[w].version <= row.version)' /\ (work[w].req \in Requests)'
      BY <1>1, <2>1, <2>5, <2>7, <2>8
    <3>2. work'[w].journal = Complete([row'.journal EXCEPT !.pending = None],
                                      Covers(row'.journal.pending), work'[w].code)
      BY <2>0, <2>5, <2>7, <2>8 DEF base, batch
    <3>3. SameIntent(w)'
      BY <1>4, <2>5, <2>7, <2>8 DEF SameIntent
    <3>4. /\ work[w].sent \in Pendings /\ r \in covers[work[w].sent.request]
          /\ outcome[work[w].sent.request] = work[w].code
      BY <1>1 DEF WorkOf, SettleRead, At
    <3> QED
      BY <2>5, <2>7, <2>8, <3>1, <3>2, <3>3, <3>4 DEF WorkOf, At
  <2> QED
    BY <1>1, <2>5, <2>6, <2>8, <2>9, Moved DEF TypeOK, central, history
<1> QED
  BY <1>3, <1>4 DEF SettleRead

---------------------------------------------------------------------------
\* An initial journal is sound, and its receipts stand for outcomes.
LEMMA InitGives == Init => IInv /\ AnswerTruthful
<1> SUFFICES ASSUME Init PROVE IInv /\ AnswerTruthful
  OBVIOUS
<1>1. PICK j \in scope.journals :
        /\ row = [version |-> IF j = EmptyJournal THEN 0 ELSE 1, journal |-> j]
        /\ covers = [k \in Keys |->
                       IF j.pending # None /\ k = j.pending.request THEN Covers(j.pending)
                       ELSE IF k \in DOMAIN j.completed THEN {k} ELSE {}]
        /\ outcome = [k \in Keys |->
                        IF k \in DOMAIN j.completed THEN j.completed[k] ELSE None]
  BY DEF Init
<1>2. /\ scope.versions \in Nat \ {0} /\ scope.revisions \in Nat /\ Sound(j)
  BY <1>1, ScopesAssumption DEF Init
<1>3. /\ j \in Journals /\ j.pending \in Pendings \cup {None} /\ j.completed \in Receipts
      /\ DOMAIN j.completed \subseteq Requests
      /\ \A r \in DOMAIN j.completed : j.completed[r] \in Codes
      /\ j.pending # None => Covers(j.pending) \cap DOMAIN j.completed = {}
  BY <1>2, ReceiptsAre DEF Sound, Journals
<1>4. j.pending # None =>
        /\ j.pending.request \in Covers(j.pending) /\ Covers(j.pending) \in SUBSET Requests
  BY <1>3 DEF Covers, Pendings
<1>5. row.journal = j /\ row \in [version : 0..scope.versions, journal : Journals]
      /\ row.version \in Nat
  BY <1>1, <1>2, <1>3
<1>6. covers \in [Keys -> SUBSET Requests]
  BY <1>1, <1>4 DEF Keys
<1>7. outcome \in [Keys -> Codes \cup {None}]
  BY <1>1, <1>3
<1>8. TypeOK
  BY <1>2, <1>5, <1>6, <1>7, IdleWorks DEF Init, TypeOK
<1>9. CoveredOnce
  BY <1>1, <1>3, <1>4 DEF CoveredOnce
<1>10. Accounted
  BY <1>1, <1>5 DEF Accounted
<1>11. SpendRemembered
  BY <1>10 DEF Accounted, SpendRemembered, Spent
<1>12. ReceiptsTrue
  <2> SUFFICES ASSUME NEW r \in DOMAIN j.completed, j.completed[r] \in Spent PROVE TrueOf(r)
    BY <1>5 DEF ReceiptsTrue
  <2>1. r \in Keys /\ r \in covers[r] /\ outcome[r] = j.completed[r]
    BY <1>1, <1>3, <1>4 DEF Keys
  <2> QED
    BY <2>1 DEF TrueOf
<1>13. FreshOnce
  BY DEF Init, FreshOnce
<1>14. JournalSound
  <2>1. j.pending # None => j.pending.request \in Keys /\ covers[j.pending.request] = Covers(j.pending)
    BY <1>1, <1>3 DEF Keys, Pendings
  <2> QED
    BY <1>2, <1>5, <2>1 DEF JournalSound
<1>15. WorkTrue
  BY <1>5 DEF Init, WorkTrue, WorkOf, Idle, At
<1>16. CredentialStable
  BY ActorsAssumption DEF Init, CredentialStable
<1>17. AnswerTruthful
  BY DEF Init, AnswerTruthful
<1> QED
  BY <1>8, <1>9, <1>10, <1>11, <1>12, <1>13, <1>14, <1>15, <1>16, <1>17 DEF IInv

\* Every step keeps the invariant.
LEMMA StepKeeps ==
  ASSUME IInv, [Next]_vars
  PROVE  IInv'
<1>0. scope.refreshers \subseteq Replicas
  BY ScopesAssumption DEF IInv, TypeOK
<1>1. CASE UNCHANGED vars
  <2>1. \A v \in Workers : WorkOf(v)'
    BY <1>1, WorkFrame DEF IInv, WorkTrue, vars, central, provider, history
  <2>2. TypeOK' /\ CredentialStable'
    BY <1>1 DEF IInv, TypeOK, CredentialStable, At, vars, central, provider, history
  <2> QED
    BY <1>1, <2>1, <2>2, AccountMoves DEF vars, central, provider, history
<1>2. ASSUME NEW w \in Workers, WorkerStep(w), UNCHANGED scope PROVE IInv'
  BY <1>2, ReplayKeeps, TakeCustodyKeeps, LoadAccountKeeps, ReadJournalKeeps, RetriesKeep,
     EndingKeeps, AnsweredKeeps, SettleReadKeeps, ReserveKeeps, SettleKeeps, LoseSessionKeeps
     DEF WorkerStep
<1>3. CASE Next
  BY <1>0, <1>2, <1>3, CrashKeeps, RefreshKeeps, ProcessKeeps, ObserveKeeps DEF Next, Step
<1> QED
  BY <1>1, <1>3

\* The types, and all that the invariant says, in every reachable state and for any number
\* of requests, credits, workers and replicas.
THEOREM Invariant == Spec => []IInv
<1>1. Init => IInv
  BY InitGives
<1>2. IInv /\ [Next]_vars => IInv'
  BY StepKeeps
<1> QED
  BY <1>1, <1>2, PTL DEF Spec

\* A request spends at most one credit while its receipt is retained.
THEOREM SpendsOnce == Spec => []OneSpend
<1>1. IInv => OneSpend
  BY DEF IInv, CoveredOnce, OneSpend
<1> QED
  BY <1>1, Invariant, PTL

\* The steps that write the history: what a key is written for, what the provider answers to
\* it, and who is told of a receipt.
TellsReceipt == \E r : r \in DOMAIN row.journal.completed /\ Told(r, row.journal.completed[r])
LEMMA HistoryWriters ==
  ASSUME [Next]_vars
  PROVE  /\ covers' = covers \/ \E w \in Workers, answered \in BOOLEAN : Reserve(w, answered)
         /\ outcome' = outcome \/ \E call \in calls : Process(call)
         /\ \/ told' = told
            \/ \E w \in Workers, answered \in BOOLEAN : Settle(w, answered)
            \/ TellsReceipt
<1>1. CASE UNCHANGED vars
  BY <1>1 DEF vars, history, provider
<1>2. ASSUME NEW w \in Workers, WorkerStep(w)
      PROVE  /\ covers' = covers \/ \E answered \in BOOLEAN : Reserve(w, answered)
             /\ outcome' = outcome
             /\ \/ told' = told \/ TellsReceipt
                \/ \E answered \in BOOLEAN : Settle(w, answered)
  <2>1. CASE \E r \in Requests : Replay(w, r) \/ TakeCustody(w, r)
    BY <2>1 DEF Replay, TakeCustody, HasReceipt, TellsReceipt, history, provider
  <2>2. CASE LoadAccount(w) \/ ReadJournal(w) \/ ReserveRetry(w) \/ Refused(w)
    BY <2>2 DEF LoadAccount, ReadJournal, ReserveRetry, Refused, HasReceipt, TellsReceipt, history,
       provider
  <2>3. CASE Consume(w) \/ Unanswered(w) \/ Answered(w)
    BY <2>3 DEF Consume, Unanswered, Answered, history, provider
  <2>4. CASE SettleRead(w)
    BY <2>4 DEF SettleRead, HasReceipt, TellsReceipt, history, provider
  <2>7. CASE SettleRetry(w) \/ LoseSession(w) \/ NoticeLost(w)
    BY <2>7 DEF SettleRetry, LoseSession, NoticeLost, history, provider
  <2>5. ASSUME NEW answered \in BOOLEAN, Reserve(w, answered)
        PROVE  outcome' = outcome /\ told' = told
    BY <2>5 DEF Reserve, history, provider
  <2>6. ASSUME NEW answered \in BOOLEAN, Settle(w, answered)
        PROVE  covers' = covers /\ outcome' = outcome
    BY <2>6 DEF Settle, history, provider
  <2> QED
    BY <1>2, <2>1, <2>2, <2>3, <2>4, <2>5, <2>6, <2>7 DEF WorkerStep
<1>3. ASSUME NEW h, RefreshStep(h)
      PROVE  UNCHANGED <<covers, outcome, told>>
  <2>1. CASE SelectOwner(h) \/ RecoverResume(h) \/ RemoveAccount(h)
    BY <2>1 DEF SelectOwner, RecoverResume, RemoveAccount, history, provider
  <2>2. CASE \E b \in BOOLEAN : RefreshBegin(h, b) \/ RefreshPublish(h, b) \/ RefreshEnd(h, b)
    BY <2>2 DEF RefreshBegin, RefreshPublish, RefreshEnd, history, provider
  <2> QED
    BY <1>3, <2>1, <2>2 DEF RefreshStep
<1>4. ASSUME NEW call \in calls, Process(call)
      PROVE  covers' = covers /\ told' = told
  BY <1>4 DEF Process, history
<1>5. ASSUME LeaseExpires \/ Observe \/ \E h \in Replicas : Crash(h)
      PROVE  UNCHANGED <<covers, outcome, told>>
  BY <1>5 DEF LeaseExpires, Observe, Crash, history, provider
<1>6. CASE Step
  BY <1>2, <1>3, <1>4, <1>5, <1>6 DEF Step
<1> QED
  BY <1>1, <1>6 DEF Next

\* No step takes back what a key was written for, nor what the provider answered, and a
\* caller is told only what is so.
LEMMA TruthKept ==
  ASSUME IInv, AnswerTruthful, [Next]_vars
  PROVE  AnswerTruthful'
<1>1. TypeOK /\ ReceiptsTrue /\ WorkTrue
  BY DEF IInv
<1>2. \A k \in Keys : covers[k] \subseteq covers'[k]
  <2>1. ASSUME NEW w \in Workers, NEW answered \in BOOLEAN, Reserve(w, answered)
        PROVE  \A k \in Keys : covers[k] \subseteq covers'[k]
    BY <1>1, <2>1 DEF TypeOK, Reserve
  <2>2. covers' = covers \/ \E w \in Workers, answered \in BOOLEAN : Reserve(w, answered)
    BY HistoryWriters
  <2> QED
    BY <2>1, <2>2
<1>3. \A k \in Keys : outcome[k] # None => outcome'[k] = outcome[k]
  <2>1. ASSUME NEW call \in calls, Process(call)
        PROVE  \A k \in Keys : outcome[k] # None => outcome'[k] = outcome[k]
    BY <1>1, <2>1 DEF TypeOK, Process
  <2>2. outcome' = outcome \/ \E call \in calls : Process(call)
    BY HistoryWriters
  <2> QED
    BY <2>1, <2>2
<1>4. ASSUME NEW r, TrueOf(r) PROVE TrueOf(r)'
  BY <1>2, <1>3, <1>4, NoneAssumption DEF TrueOf, Spent, Codes
<1>5. \A r \in told' : r \in told \/ TrueOf(r)
  <2>1. ASSUME NEW r, r \in DOMAIN row.journal.completed, Told(r, row.journal.completed[r])
        PROVE  \A q \in told' : q \in told \/ TrueOf(q)
    BY <1>1, <2>1 DEF Told, ReceiptsTrue
  <2>2. ASSUME NEW w \in Workers, NEW answered \in BOOLEAN, Settle(w, answered)
        PROVE  \A q \in told' : q \in told \/ TrueOf(q)
    <3>1. work[w].code \in Spent => TrueOf(work[w].req)
      BY <1>1, <2>2 DEF WorkTrue, WorkOf, Settle, At, TrueOf, Pendings, Keys
    <3> QED
      BY <2>2, <3>1 DEF Settle, Told
  <2>3. \/ told' = told
        \/ \E w \in Workers, answered \in BOOLEAN : Settle(w, answered)
        \/ \E r : r \in DOMAIN row.journal.completed /\ Told(r, row.journal.completed[r])
    BY HistoryWriters DEF TellsReceipt
  <2> QED
    BY <2>1, <2>2, <2>3
<1> QED
  BY <1>4, <1>5 DEF AnswerTruthful

\* Whoever was told of a reset was covered by a call that reset.
THEOREM ToldTheTruth == Spec => []AnswerTruthful
<1>1. Init => AnswerTruthful
  BY InitGives
<1>2. IInv /\ AnswerTruthful /\ [Next]_vars => AnswerTruthful'
  BY TruthKept
<1> QED
  BY <1>1, <1>2, Invariant, PTL DEF Spec

\* The position of a request in an order without repetition.
LEMMA OrderOfIs ==
  ASSUME NEW j, Sound(j), NEW i \in 1..Len(j.order)
  PROVE  OrderOf(j, j.order[i]) = i
<1>1. j.order \in Seq(Requests) /\ IsInjective(j.order)
  BY DEF Sound, Journals
<1>2. DOMAIN j.order = 1..Len(j.order) /\ \A h \in 1..Len(j.order) : j.order[h] = j.order[i] => h = i
  BY <1>1, Listed
<1> QED
  BY <1>2 DEF OrderOf

\* Only two steps write the row: one that reserves drops nothing, and one that settles drops
\* the oldest.
LEMMA RowKept ==
  ASSUME IInv, [Next]_vars
  PROVE  [Kept]_row
<1>1. TypeOK /\ JournalSound
  BY DEF IInv
<1>2. \/ row' = row
      \/ \E w \in Workers, answered \in BOOLEAN : Reserve(w, answered) \/ Settle(w, answered)
  BY DEF vars, central, Next, Step, WorkerStep, RefreshStep, Replay, TakeCustody,
         LoadAccount, ReadJournal, ReserveRetry, Refused, Consume, Unanswered, Answered,
         SettleRead, SettleRetry, LoseSession, NoticeLost, Crash, SelectOwner, RefreshBegin,
         RecoverResume, RefreshPublish, RefreshEnd, RemoveAccount, Process, LeaseExpires, Observe
<1>3. ASSUME NEW w \in Workers, NEW answered \in BOOLEAN, Reserve(w, answered) PROVE Kept
  <2> DEFINE p == work[w].journal.pending
  <2>1. p \in Pendings /\ work[w].journal = [row.journal EXCEPT !.pending = p]
    BY <1>3, IntentGives DEF Reserve
  <2>2. row'.journal = work[w].journal
    BY <1>3 DEF Reserve, Write
  <2>3. row'.journal.completed = row.journal.completed /\ row'.journal.pending # None
    BY <1>1, <2>1, <2>2, NoneAssumption DEF TypeOK, Journals
  <2> QED
    BY <2>3 DEF Kept
<1>4. ASSUME NEW w \in Workers, NEW answered \in BOOLEAN, Settle(w, answered) PROVE Kept
  <2> DEFINE j == row.journal
             k == work[w].journal
  <2>1. /\ Covers(j.pending) \subseteq DOMAIN k.completed
        /\ DOMAIN j.completed \ DOMAIN k.completed # {} => Len(k.order) >= ReceiptLimit
        /\ OldestGone(j, k)
    BY <1>4, SettledGives DEF Settle
  <2>2. row'.journal = k /\ Sound(j) /\ j.order \in Seq(Requests)
    BY <1>1, <1>4 DEF Settle, Write, JournalSound, Sound, Journals
  <2> HIDE DEF k
  <2>3. ASSUME NEW r \in DOMAIN j.completed \ DOMAIN k.completed, r \in ToSet(j.order),
               NEW q \in DOMAIN k.completed \cap ToSet(j.order)
        PROVE  OrderOf(j, r) < OrderOf(j, q)
    <3>1. PICK e \in 0..Len(j.order) :
            /\ \A x \in DOMAIN j.completed \ DOMAIN k.completed :
                 x \in ToSet(j.order) => \E i \in 1..e : j.order[i] = x
            /\ \A i \in 1..e : j.order[i] \notin DOMAIN k.completed
      BY <2>1 DEF OldestGone
    <3>2. PICK h \in 1..e : j.order[h] = r
      BY <2>3, <3>1
    <3>3. PICK i \in 1..Len(j.order) : j.order[i] = q
      BY <2>2, Listed
    <3>4. Len(j.order) \in Nat /\ i \notin 1..e /\ h \in 1..Len(j.order)
      BY <2>2, <3>1, <3>3
    <3>5. OrderOf(j, r) = h /\ OrderOf(j, q) = i
      BY <2>2, <3>2, <3>3, <3>4, OrderOfIs
    <3> QED
      BY <3>4, <3>5
  <2> QED
    BY <2>1, <2>2, <2>3 DEF Kept
<1> QED
  BY <1>2, <1>3, <1>4

\* A receipt is dropped for a full window of later completions, the oldest first, and a
\* settlement records all it was called for.
THEOREM Retained == Spec => ReceiptsKept
<1>1. IInv /\ [Next]_vars => [Kept]_row
  BY RowKept
<1> QED
  BY <1>1, Invariant, PTL DEF Spec, ReceiptsKept
============================================================================
