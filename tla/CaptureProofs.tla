---- MODULE CaptureProofs ----
(***************************************************************************)
(* Proofs about Capture.  First what its operators return: the least and   *)
(* the greatest of a set of numbers, the entries of a page, the items of a *)
(* batch.  A fact about every finite set, or every number, is proved from  *)
(* its least counterexample, as < is well-founded on Nat.                  *)
(***************************************************************************)
EXTENDS Capture, FiniteSetTheorems, TLAPS

LessThan == {ss \in Nat \X Nat : ss[1] < ss[2]}

\* A set of naturals that is not empty has a least element.
LEMMA Least ==
  ASSUME NEW S, S \subseteq Nat, S # {}
  PROVE  \E m \in S : \A k \in S : m <= k
<1>0. IsWellFoundedOn(LessThan, Nat)
  BY NatLessThanWellFounded DEF OpToRel, LessThan
<1>1. PICK m \in S : \A k \in S : <<k, m>> \notin LessThan
  BY <1>0, WFMin
<1>2. ASSUME NEW k \in S, k < m
      PROVE  <<k, m>> \in LessThan
  <2>1. <<k, m>> \in Nat \X Nat  OBVIOUS
  <2> QED  BY <1>2, <2>1 DEF LessThan
<1>3. ASSUME NEW k \in S
      PROVE  m <= k
  <2>1. ~ (k < m)  BY <1>1, <1>2
  <2>2. k \in Nat /\ m \in Nat  OBVIOUS
  <2> QED  BY <2>1, <2>2
<1> QED  BY <1>3

\* A finite one has a greatest, which Max returns.
LEMMA Greatest ==
  ASSUME NEW S, S \subseteq Nat, IsFiniteSet(S), S # {}
  PROVE  Max(S) \in S /\ \A k \in S : k <= Max(S)
<1> DEFINE HasMax(U) == \E x \in U : \A y \in U : x >= y
           Bad == {U \in SUBSET Nat : IsFiniteSet(U) /\ U # {} /\ ~ HasMax(U)}
<1>1. SUFFICES ASSUME ~ HasMax(S)
               PROVE  FALSE
  BY DEF Max
<1>2. S \in Bad  BY <1>1
<1> DEFINE Sizes == {Cardinality(U) : U \in Bad}
<1>3. Sizes \subseteq Nat  BY FS_CardinalityType
<1>4. Sizes # {}  BY <1>2
<1>5. PICK U \in Bad : \A V \in Bad : Cardinality(U) <= Cardinality(V)
  <2> HIDE DEF Bad
  <2>1. PICK c \in Sizes : \A k \in Sizes : c <= k  BY <1>3, <1>4, Least
  <2> QED  BY <2>1
<1>6. PICK u \in U : TRUE  OBVIOUS
<1>7. /\ IsFiniteSet(U \ {u}) /\ Cardinality(U \ {u}) = Cardinality(U) - 1
      /\ Cardinality(U) \in Nat
  BY <1>6, FS_RemoveElement, FS_CardinalityType
<1>8. U \ {u} \notin Bad
  <2> HIDE DEF Bad
  <2> QED  BY <1>5, <1>7
<1>9. HasMax(U)
  <2>1. CASE U \ {u} = {}
    <3>1. \A y \in U : u >= y  BY <2>1
    <3> QED  BY <3>1, <1>6
  <2>2. CASE U \ {u} # {}
    <3>1. PICK x \in U \ {u} : \A y \in U \ {u} : x >= y  BY <1>7, <1>8, <2>2
    <3>2. x \in Nat /\ u \in Nat /\ U \subseteq Nat  OBVIOUS
    <3>3. CASE x >= u
      BY <3>1, <3>2, <3>3
    <3>4. CASE u >= x
      <4>1. \A y \in U : u >= y  BY <3>1, <3>2, <3>4
      <4> QED  BY <4>1, <1>6
    <3> QED  BY <3>2, <3>3, <3>4
  <2> QED  BY <2>1, <2>2
<1> QED  BY <1>9

\* A finite set of naturals has an element of every rank.
LEMMA Ranked ==
  ASSUME NEW K, K \subseteq Nat, IsFiniteSet(K), NEW n \in 1 .. Cardinality(K)
  PROVE  \E k \in K : Cardinality({j \in K : j <= k}) = n
<1> DEFINE Upto(k) == {j \in K : j <= k}
           rank == [k \in K |-> Cardinality(Upto(k))]
<1>1. Cardinality(K) \in Nat  BY FS_CardinalityType
<1>2. ASSUME NEW k \in K
      PROVE  /\ IsFiniteSet(Upto(k)) /\ Cardinality(Upto(k)) \in 1 .. Cardinality(K)
             /\ \A T : T \subseteq Upto(k) /\ Cardinality(T) = Cardinality(Upto(k)) => T = Upto(k)
  <2>1. Upto(k) \subseteq K /\ k \in Upto(k)  OBVIOUS
  <2> HIDE DEF Upto
  <2>2. IsFiniteSet(Upto(k)) /\ Cardinality(Upto(k)) <= Cardinality(K)  BY <2>1, FS_Subset
  <2>3. Cardinality(Upto(k)) # 0 /\ Cardinality(Upto(k)) \in Nat
    BY <2>1, <2>2, FS_EmptySet, FS_CardinalityType
  <2>4. \A T : T \subseteq Upto(k) /\ Cardinality(T) = Cardinality(Upto(k)) => T = Upto(k)
    BY <2>2, FS_Subset
  <2> QED  BY <1>1, <2>2, <2>3, <2>4
<1>3. ASSUME NEW k \in K, NEW l \in K, k < l
      PROVE  Cardinality(Upto(k)) # Cardinality(Upto(l))
  <2>1. Upto(k) \subseteq Upto(l)
    <3>1. ASSUME NEW j \in K, j <= k
          PROVE  j <= l
      <4>1. j \in Nat /\ k \in Nat /\ l \in Nat  OBVIOUS
      <4> QED  BY <4>1, <3>1, <1>3
    <3> QED  BY <3>1
  <2>2. l \in Upto(l) /\ l \notin Upto(k)
    <3>1. k \in Nat /\ l \in Nat  OBVIOUS
    <3> QED  BY <3>1, <1>3
  <2> QED  BY <2>1, <2>2, <1>2
<1>4. rank \in [K -> 1 .. Cardinality(K)]  BY <1>2
<1>5. ASSUME NEW k \in K, NEW l \in K, rank[k] = rank[l]
      PROVE  k = l
  <2>1. k \in Nat /\ l \in Nat /\ ~ (k < l) /\ ~ (l < k)  BY <1>3, <1>5
  <2> QED  BY <2>1
<1>6. rank \in Injection(K, 1 .. Cardinality(K))
  <2> HIDE DEF rank
  <2> QED  BY <1>4, <1>5 DEF Injection, IsInjective
<1>7. rank \in Surjection(K, 1 .. Cardinality(K))
  <2>1. IsFiniteSet(1 .. Cardinality(K)) /\ Cardinality(1 .. Cardinality(K)) = Cardinality(K)
    BY <1>1, FS_Interval
  <2> HIDE DEF rank
  <2> QED  BY <1>6, <2>1, FS_Injection
<1>8. \E k \in K : rank[k] = n
  <2> HIDE DEF rank
  <2> QED  BY <1>7 DEF Surjection
<1> QED  BY <1>8
\* The elements of two sequences, one after the other.
LEMMA Joined ==
  ASSUME NEW S, NEW s \in Seq(S), NEW t \in Seq(S)
  PROVE  /\ s \o t \in Seq(S) /\ Len(s \o t) = Len(s) + Len(t)
         /\ \A i \in 1 .. Len(s) : (s \o t)[i] = s[i]
         /\ \A i \in Len(s) + 1 .. Len(s \o t) : (s \o t)[i] = t[i - Len(s)]
OBVIOUS
----
(* The items of a batch *)

\* What fetch_multi returns for a page that was fetched.
Good == {b \in Batches : b.primary.ok}

LEMMA GoodType ==
  ASSUME NEW b \in Good
  PROVE  /\ b.primary \in Resource /\ b.also \in Seq(Resource)
         /\ b.primary.final \in DOMAIN Hints /\ b.primary.seq = 0
         /\ Hints[b.primary.final] \in Seq(Mention)
<1>1. b \in [primary : Resource, also : Seq(Resource)] /\ b.primary.final \in DOMAIN Hints
      /\ b.primary.seq = 0
  BY BatchTypes DEF Good
<1> QED  BY <1>1, HintTypes

\* catalog_start is greater than every request_seq.
LEMMA StartsAfter ==
  ASSUME NEW b \in Good
  PROVE  /\ CatalogStart(b) \in Nat /\ b.primary.seq < CatalogStart(b)
         /\ \A k \in DOMAIN b.also : b.also[k].seq < CatalogStart(b)
<1> DEFINE Later == {b.also[k].seq : k \in DOMAIN b.also}
           S == {b.primary.seq} \cup Later
<1>1. /\ b.primary \in Resource /\ b.also \in Seq(Resource)
  BY GoodType
<1>2. Len(b.also) \in Nat /\ DOMAIN b.also = 1 .. Len(b.also)
      /\ \A k \in DOMAIN b.also : b.also[k] \in Resource
  BY <1>1
<1>3. S \subseteq Nat /\ S # {}
  BY <1>1, <1>2 DEF Resource
<1>4. IsFiniteSet(S)
  <2>1. IsFiniteSet(DOMAIN b.also)  BY <1>2, FS_Interval
  <2>2. IsFiniteSet(Later)
    <3> DEFINE g == [k \in DOMAIN b.also |-> b.also[k].seq]
    <3>1. g \in Surjection(DOMAIN b.also, Later)  BY DEF Surjection
    <3> HIDE DEF g, Later
    <3> QED  BY <2>1, <3>1, FS_Surjection
  <2> HIDE DEF Later
  <2> QED  BY <2>2, FS_Singleton, FS_Union
<1>5. CatalogStart(b) = 1 + Max(S)  BY DEF CatalogStart
<1>6. Max(S) \in Nat /\ \A k \in S : k <= Max(S)
  <2> HIDE DEF S
  <2> QED  BY <1>3, <1>4, Greatest
<1>7. ASSUME NEW k \in S
      PROVE  k < CatalogStart(b)
  <2> HIDE DEF S
  <2>1. k \in Nat /\ k <= Max(S)  BY <1>3, <1>6
  <2> QED  BY <2>1, <1>5, <1>6
<1> QED
  <2>1. b.primary.seq \in S /\ \A k \in DOMAIN b.also : b.also[k].seq \in S  OBVIOUS
  <2> HIDE DEF S
  <2> QED  BY <1>5, <1>6, <1>7, <2>1

\* What is kept of a page's hints is no resource that was fetched, or has no URL.
LEMMA KeptFacts ==
  ASSUME NEW b \in Good
  PROVE  LET hints == Hints[b.primary.final]  kept == Kept(hints, b)
         IN  /\ kept \subseteq Nat /\ IsFiniteSet(kept) /\ Cardinality(kept) \in Nat
             /\ \A k \in kept : /\ hints[k] \in Mention
                                /\ hints[k].url \notin FetchedAbs(b) \/ hints[k].url = NoUrl
<1> DEFINE hints == Hints[b.primary.final]
           kept == Kept(hints, b)
<1>1. hints \in Seq(Mention) /\ b.primary.final \in DOMAIN Hints  BY GoodType
<1>2. DOMAIN hints = 1 .. Len(hints) /\ Len(hints) \in Nat /\ \A k \in DOMAIN hints : hints[k] \in Mention
  <2> HIDE DEF hints
  <2> QED  BY <1>1
<1>3. IsFiniteSet(DOMAIN hints)
  <2> HIDE DEF hints
  <2> QED  BY <1>2, FS_Interval
<1>4. kept \subseteq DOMAIN hints  BY DEF Kept
<1>5. ASSUME NEW k \in kept
      PROVE  hints[k].url \notin FetchedAbs(b) \/ hints[k].url = NoUrl
  BY <1>1, HintTypes DEF Kept
<1>6. IsFiniteSet(kept) /\ Cardinality(kept) \in Nat
  <2> HIDE DEF kept, hints
  <2> QED  BY <1>3, <1>4, FS_Subset, FS_CardinalityType
<1>7. kept \subseteq Nat
  <2> HIDE DEF kept, hints
  <2> QED  BY <1>2, <1>4
<1>8. \A k \in kept : hints[k] \in Mention
  <2> HIDE DEF kept, hints
  <2> QED  BY <1>2, <1>4
<1> QED  BY <1>5, <1>6, <1>7, <1>8

\* The entries are numbered from catalog_start on.
LEMMA PresentFacts ==
  ASSUME NEW b \in Good
  PROVE  /\ Present(b) \in Seq(ItemType)
         /\ \A n \in DOMAIN Present(b) :
              /\ Present(b)[n].part = "present" /\ Present(b)[n].seq = CatalogStart(b) + n - 1
              /\ Present(b)[n].url \notin FetchedAbs(b) \/ Present(b)[n].url = NoUrl
<1> DEFINE hints == Hints[b.primary.final]
           kept == Kept(hints, b)
           Nth(n) == CHOOSE k \in kept : Cardinality({j \in kept : j <= k}) = n
           Entry(n) == [part |-> "present", source |-> hints[Nth(n)].source,
                        url |-> hints[Nth(n)].url, seq |-> CatalogStart(b) + n - 1, ok |-> TRUE]
<1>1. /\ kept \subseteq Nat /\ IsFiniteSet(kept) /\ Cardinality(kept) \in Nat
      /\ \A k \in kept : /\ hints[k] \in Mention
                         /\ hints[k].url \notin FetchedAbs(b) \/ hints[k].url = NoUrl
  BY KeptFacts
<1>2. Present(b) = [n \in 1 .. Cardinality(kept) |-> Entry(n)]  BY DEF Present
<1>3. ASSUME NEW n \in 1 .. Cardinality(kept)
      PROVE  Nth(n) \in kept
  <2> HIDE DEF kept
  <2> QED  BY <1>1, Ranked
<1>4. CatalogStart(b) \in Nat  BY StartsAfter
<1>5. ASSUME NEW n \in 1 .. Cardinality(kept)
      PROVE  /\ Entry(n) \in ItemType /\ Entry(n).part = "present"
             /\ Entry(n).seq = CatalogStart(b) + n - 1
             /\ Entry(n).url \notin FetchedAbs(b) \/ Entry(n).url = NoUrl
  <2>1. Nth(n) \in kept  BY <1>3
  <2> HIDE DEF Nth, kept
  <2>2. /\ hints[Nth(n)] \in Mention
        /\ hints[Nth(n)].url \notin FetchedAbs(b) \/ hints[Nth(n)].url = NoUrl
    BY <1>1, <2>1
  <2>3. CatalogStart(b) + n - 1 \in Nat  BY <1>1, <1>4
  <2> HIDE DEF hints
  <2> QED  BY <2>2, <2>3 DEF ItemType, Mention
<1> HIDE DEF Entry, kept
<1>6. DOMAIN Present(b) = 1 .. Cardinality(kept) /\ \A n \in DOMAIN Present(b) : Present(b)[n] = Entry(n)
  BY <1>2
<1>7. Present(b) \in Seq(ItemType)
  BY <1>1, <1>2, <1>5
<1> QED  BY <1>5, <1>6, <1>7

\* An item is a resource that was fetched, or an entry of the page.
LEMMA ItemFacts ==
  ASSUME NEW b \in Good
  PROVE  /\ Items(b) \in Seq(ItemType) /\ Len(b.also) \in Nat
         /\ 1 + Len(b.also) <= Len(Items(b)) /\ Items(b)[1].seq = 0
         /\ \A i \in 1 .. Len(Items(b)) :
              /\ i <= 1 + Len(b.also) =>
                   /\ Items(b)[i].part = "fetched" /\ Items(b)[i].seq < CatalogStart(b)
                   /\ Items(b)[i].ok => Items(b)[i].url \in FetchedAbs(b) \/ Items(b)[i].url = NoUrl
              /\ i > 1 + Len(b.also) =>
                   /\ Items(b)[i].part = "present"
                   /\ Items(b)[i].seq = CatalogStart(b) + i - 2 - Len(b.also)
                   /\ Items(b)[i].url \notin FetchedAbs(b) \/ Items(b)[i].url = NoUrl
<1> DEFINE Entry(res) == [part |-> "fetched", source |-> res.source, url |-> res.final,
                          seq |-> res.seq, ok |-> res.ok]
           first == <<Entry(b.primary)>>
           rest == [k \in DOMAIN b.also |-> Entry(b.also[k])]
           m == 1 + Len(b.also)
<1>1. /\ b.primary \in Resource /\ b.also \in Seq(Resource) /\ b.primary.seq = 0
  BY GoodType
<1>2. Len(b.also) \in Nat /\ DOMAIN b.also = 1 .. Len(b.also)
      /\ \A k \in DOMAIN b.also : b.also[k] \in Resource
  BY <1>1
<1>3. ASSUME NEW res \in Resource
      PROVE  Entry(res) \in ItemType
  BY DEF Resource, ItemType
<1>4. first \in Seq(ItemType) /\ Len(first) = 1 /\ first[1] = Entry(b.primary)
  <2> HIDE DEF Entry
  <2> QED  BY <1>1, <1>3
<1>5. rest \in Seq(ItemType) /\ Len(rest) = Len(b.also)
      /\ \A k \in 1 .. Len(b.also) : rest[k] = Entry(b.also[k])
  <2> HIDE DEF Entry
  <2> QED  BY <1>2, <1>3
<1>6. Fetched(b) = first \o rest  BY DEF Fetched
<1>7. /\ Fetched(b) \in Seq(ItemType) /\ Len(Fetched(b)) = m
      /\ Fetched(b)[1] = Entry(b.primary)
      /\ \A i \in 2 .. m : Fetched(b)[i] = Entry(b.also[i - 1])
  <2> HIDE DEF Entry, first, rest
  <2>1. /\ Fetched(b) \in Seq(ItemType) /\ Len(Fetched(b)) = 1 + Len(b.also)
        /\ \A i \in 1 .. 1 : Fetched(b)[i] = first[i]
        /\ \A i \in 1 + 1 .. 1 + Len(b.also) : Fetched(b)[i] = rest[i - 1]
    <3>1. /\ first \o rest \in Seq(ItemType) /\ Len(first \o rest) = Len(first) + Len(rest)
          /\ \A i \in 1 .. Len(first) : (first \o rest)[i] = first[i]
          /\ \A i \in Len(first) + 1 .. Len(first \o rest) :
               (first \o rest)[i] = rest[i - Len(first)]
      <4>1. first \in Seq(ItemType) /\ rest \in Seq(ItemType)  BY <1>4, <1>5
      <4> QED  BY <4>1, Joined, Zenon
    <3> QED  BY <1>4, <1>5, <1>6, <3>1
  <2>2. ASSUME NEW i \in 2 .. m
        PROVE  i \in 1 + 1 .. 1 + Len(b.also) /\ i - 1 \in 1 .. Len(b.also)
    BY <1>2
  <2> QED  BY <1>4, <1>5, <2>1, <2>2
<1>8. /\ Present(b) \in Seq(ItemType)
      /\ \A n \in 1 .. Len(Present(b)) :
           /\ Present(b)[n].part = "present" /\ Present(b)[n].seq = CatalogStart(b) + n - 1
           /\ Present(b)[n].url \notin FetchedAbs(b) \/ Present(b)[n].url = NoUrl
  BY PresentFacts
<1>9. /\ Items(b) \in Seq(ItemType) /\ Len(Items(b)) = m + Len(Present(b))
      /\ \A i \in 1 .. m : Items(b)[i] = Fetched(b)[i]
      /\ \A i \in m + 1 .. Len(Items(b)) : Items(b)[i] = Present(b)[i - m]
  <2>1. Items(b) = Fetched(b) \o Present(b)  BY DEF Items
  <2>2. Fetched(b) \in Seq(ItemType) /\ Present(b) \in Seq(ItemType) /\ Len(Fetched(b)) = m
    BY <1>7, <1>8
  <2>3. /\ Fetched(b) \o Present(b) \in Seq(ItemType)
        /\ Len(Fetched(b) \o Present(b)) = Len(Fetched(b)) + Len(Present(b))
        /\ \A i \in 1 .. Len(Fetched(b)) : (Fetched(b) \o Present(b))[i] = Fetched(b)[i]
        /\ \A i \in Len(Fetched(b)) + 1 .. Len(Fetched(b) \o Present(b)) :
             (Fetched(b) \o Present(b))[i] = Present(b)[i - Len(Fetched(b))]
    <3>1. Fetched(b) \in Seq(ItemType) /\ Present(b) \in Seq(ItemType)  BY <2>2
    <3> QED  BY <3>1, Joined, Zenon
  <2> HIDE DEF m
  <2> QED  BY <2>1, <2>2, <2>3
<1>10. /\ CatalogStart(b) \in Nat /\ b.primary.seq < CatalogStart(b)
       /\ \A k \in DOMAIN b.also : b.also[k].seq < CatalogStart(b)
  BY StartsAfter
<1>11. ASSUME NEW i \in 1 .. m
       PROVE  /\ Items(b)[i].part = "fetched" /\ Items(b)[i].seq < CatalogStart(b)
              /\ Items(b)[i].ok => Items(b)[i].url \in FetchedAbs(b) \/ Items(b)[i].url = NoUrl
  <2>1. CASE i = 1
    <3>1. Items(b)[i] = Entry(b.primary)  BY <1>2, <1>7, <1>9, <2>1
    <3> QED  BY <1>10, <3>1 DEF FetchedAbs
  <2>2. CASE i # 1
    <3>1. i \in 2 .. m /\ i - 1 \in DOMAIN b.also  BY <1>2, <2>2
    <3>2. Items(b)[i] = Entry(b.also[i - 1])  BY <1>7, <1>9, <3>1
    <3>3. b.also[i - 1].ok => b.also[i - 1].final \in FetchedAbs(b) \/ b.also[i - 1].final = NoUrl
      BY <3>1 DEF FetchedAbs
    <3> QED  BY <1>10, <3>1, <3>2, <3>3
  <2> QED  BY <2>1, <2>2
<1>12. ASSUME NEW i \in 1 .. Len(Items(b)), i > m
       PROVE  /\ Items(b)[i].part = "present"
              /\ Items(b)[i].seq = CatalogStart(b) + i - 2 - Len(b.also)
              /\ Items(b)[i].url \notin FetchedAbs(b) \/ Items(b)[i].url = NoUrl
  <2>0. Len(Present(b)) \in Nat  BY <1>8
  <2>1. i \in m + 1 .. Len(Items(b)) /\ i - m \in 1 .. Len(Present(b))
        /\ i - m = i - 1 - Len(b.also)
    BY <1>2, <1>9, <1>12, <2>0
  <2>2. Items(b)[i] = Present(b)[i - m]  BY <1>9, <2>1
  <2>3. CatalogStart(b) + (i - m) - 1 = CatalogStart(b) + i - 2 - Len(b.also)
    <3>1. i \in Nat /\ Len(b.also) \in Nat /\ CatalogStart(b) \in Nat
      BY <1>2, <1>9, <1>10, <2>0
    <3>2. \A x, y, z \in Nat : x + (y - (1 + z)) - 1 = x + y - 2 - z  OBVIOUS
    <3> QED  BY <3>1, <3>2
  <2> QED  BY <1>8, <2>1, <2>2, <2>3
<1>13. Items(b)[1].seq = 0
  BY <1>1, <1>2, <1>7, <1>9
<1> HIDE DEF Entry, first, rest
<1>14. ASSUME NEW i \in 1 .. Len(Items(b)), i <= 1 + Len(b.also)
       PROVE  i \in 1 .. m
  BY <1>2, <1>14
<1>15. 1 + Len(b.also) <= Len(Items(b))
  <2>1. Len(Present(b)) \in Nat  BY <1>8
  <2> QED  BY <1>2, <1>9, <2>1
<1> QED  BY <1>2, <1>9, <1>11, <1>12, <1>13, <1>14, <1>15
----
(* Type correctness *)

PC == {"idle", "probe", "create", "fetch", "pick", "body", "meta", "catalog", "exited"}

Process == [pc : PC, n : Nat, owns : BOOLEAN, batch : Batches \cup {NoBatch},
            item : Nat \ {0}, suffix : 1 .. MaxSuffix + 1, present : Nat, failed : Nat,
            code : {0, 1, 134}]

ProcType == proc \in [Run -> Process]

\* The run has a page to write.
Writing(r) == proc[r].pc \in {"pick", "body", "meta", "catalog"}

\* What a run has, at each point of the program.
Progress ==
  \A r \in Run :
    /\ proc[r].pc \in {"idle", "probe", "create"} => ~ proc[r].owns
    /\ proc[r].pc = "fetch" \/ Writing(r) => proc[r].owns
    /\ proc[r].owns => Dir(r) \in dirs
    /\ Writing(r) => proc[r].batch \in Good
    /\ proc[r].pc \in {"body", "meta"} => ~ AllWritten(r)
    /\ proc[r].pc = "meta" => Folder(r, proc[r].suffix) \in DOMAIN bodies

DirType == [second : Nat, label : STRING, n : Nat]

TypeInv == TypeOK /\ ProcType /\ Progress /\ dirs \subseteq DirType

\* What one run does.
Step(r) ==
  \/ Begin(r) \/ Probe(r) \/ Create(r) \/ FetchMulti(r)
  \/ Pick(r) \/ WriteBody(r) \/ BodyFails(r) \/ WriteMeta(r) \/ MetaFails(r)
  \/ WriteRunJson(r) \/ WriteCatalog(r) \/ Die(r)

\* unique_request_dir: the suffixes before the one it returns are taken, and it
\* is free unless all that are tested are taken.
LEMMA Unique ==
  ASSUME NEW r \in Run
  PROVE  /\ FreeSuffix(r) \in 1 .. MaxSuffix + 1
         /\ FreeSuffix(r) <= MaxSuffix => Folder(r, FreeSuffix(r)) \notin folders
         /\ \A k \in 1 .. FreeSuffix(r) - 1 : Folder(r, k) \in folders
<1> DEFINE S == {n \in 1 .. MaxSuffix + 1 : n <= MaxSuffix => Folder(r, n) \notin folders}
<1>1. MaxSuffix \in Nat  BY CaptureConstants
<1>2. MaxSuffix + 1 \in S /\ S \subseteq Nat  BY <1>1
<1>3. PICK m \in S : \A k \in S : m <= k
  <2> HIDE DEF S
  <2> QED  BY <1>2, Least
<1>4. ASSUME NEW k \in 1 .. m - 1
      PROVE  Folder(r, k) \in folders
  <2>1. m \in 1 .. MaxSuffix + 1 /\ m \in Nat  BY <1>2
  <2>2. k \in 1 .. MaxSuffix + 1 /\ k \in Nat /\ k < m  BY <1>1, <2>1
  <2>3. k \notin S
    <3> HIDE DEF S
    <3> QED  BY <1>3, <2>1, <2>2
  <2> QED  BY <2>2, <2>3
<1>5. \E n \in 1 .. MaxSuffix + 1 : /\ n <= MaxSuffix => Folder(r, n) \notin folders
                                    /\ \A k \in 1 .. n - 1 : Folder(r, k) \in folders
  BY <1>4
<1> QED  BY <1>5 DEF FreeSuffix

\* A body that is taken for written, whole or not.
LEMMA BodyWritten ==
  ASSUME ProcType, NEW r \in Run, WriteBody(r)
  PROVE  /\ proc' \in [Run -> Process] /\ \A s \in Run \ {r} : proc'[s] = proc[s]
         /\ proc[r].pc = "body" /\ proc'[r].pc = "meta"
         /\ proc'[r].n = proc[r].n /\ proc'[r].owns = proc[r].owns
         /\ proc'[r].batch = proc[r].batch /\ proc'[r].item = proc[r].item
         /\ proc'[r].suffix = proc[r].suffix
         /\ proc'[r].present = IF Item(r).part = "present" THEN proc[r].present + 1
                               ELSE proc[r].present
         /\ \E whole \in BOOLEAN :
              /\ bodies' = Written(Folder(r, proc[r].suffix), Body(r, whole), bodies)
              /\ proc'[r].failed = IF whole THEN proc[r].failed ELSE proc[r].failed + 1
<1> DEFINE more == IF Item(r).part = "present" THEN proc[r].present + 1 ELSE proc[r].present
           count(whole) == IF whole THEN proc[r].failed ELSE proc[r].failed + 1
           After(whole) == [proc[r] EXCEPT !.pc = "meta", !.present = more, !.failed = count(whole)]
<1>1. proc \in [Run -> Process] /\ proc[r] \in Process
  BY DEF ProcType
<1>2. PICK whole \in BOOLEAN :
        /\ bodies' = Written(Folder(r, proc[r].suffix), Body(r, whole), bodies)
        /\ proc' = [proc EXCEPT ![r].pc = "meta",
                                ![r].present = IF Item(r).part = "present" THEN @ + 1 ELSE @,
                                ![r].failed = IF whole THEN @ ELSE @ + 1]
  BY DEF WriteBody
<1>3. proc' = [proc EXCEPT ![r] = After(whole)]
  BY <1>1, <1>2, ZenonT(60)
<1>4. more \in Nat /\ count(whole) \in Nat
  BY <1>1 DEF Process
<1> HIDE DEF more, count
<1>5. After(whole) \in Process
  BY <1>1, <1>4 DEF Process, PC
<1>6. /\ After(whole).pc = "meta" /\ After(whole).n = proc[r].n /\ After(whole).owns = proc[r].owns
      /\ After(whole).batch = proc[r].batch /\ After(whole).item = proc[r].item
      /\ After(whole).suffix = proc[r].suffix /\ After(whole).present = more
      /\ After(whole).failed = count(whole)
  BY <1>1 DEF Process
<1>7. proc[r].pc = "body"
  BY DEF WriteBody
<1>8. proc'[r] = After(whole) /\ proc' \in [Run -> Process] /\ \A s \in Run \ {r} : proc'[s] = proc[s]
  <2> HIDE DEF After
  <2> QED  BY <1>1, <1>3, <1>5
<1> HIDE DEF After
<1> USE DEF more, count
<1> QED  BY <1>2, <1>6, <1>7, <1>8

\* What is left of a body lies in the folder that was picked for it.
LEMMA BodyStore ==
  ASSUME NEW r \in Run, WriteBody(r) \/ BodyFails(r) \/ CutBody(r)
  PROVE  /\ folders' = folders \cup {Folder(r, proc[r].suffix)}
         /\ \/ UNCHANGED bodies
            \/ \E whole \in BOOLEAN : bodies' = Written(Folder(r, proc[r].suffix), Body(r, whole), bodies)
         /\ UNCHANGED <<dirs, metas, runs, catalogs>>
         /\ dirs \subseteq dirs' /\ folders \subseteq folders' /\ DOMAIN bodies \subseteq DOMAIN bodies'
         /\ \A f : f # Folder(r, proc[r].suffix) =>
              /\ f \in DOMAIN bodies' <=> f \in DOMAIN bodies
              /\ f \in DOMAIN bodies => bodies'[f] = bodies[f]
<1> DEFINE folder == Folder(r, proc[r].suffix)
<1>1. /\ folders' = folders \cup {folder}
      /\ \/ UNCHANGED bodies
         \/ \E whole \in BOOLEAN : bodies' = Written(folder, Body(r, whole), bodies)
      /\ UNCHANGED <<dirs, metas, runs, catalogs>>
  BY DEF WriteBody, BodyFails, CutBody
<1> HIDE DEF folder
<1>2. CASE UNCHANGED bodies
  BY <1>1, <1>2 DEF folder
<1>3. ASSUME NEW content, bodies' = Written(folder, content, bodies)
      PROVE  /\ DOMAIN bodies \subseteq DOMAIN bodies'
             /\ \A f : f # folder => /\ f \in DOMAIN bodies' <=> f \in DOMAIN bodies
                                     /\ f \in DOMAIN bodies => bodies'[f] = bodies[f]
  BY <1>3 DEF Written
<1>4. CASE ~ UNCHANGED bodies
  <2>1. PICK whole \in BOOLEAN : bodies' = Written(folder, Body(r, whole), bodies)
    BY <1>1, <1>4
  <2>2. /\ DOMAIN bodies \subseteq DOMAIN bodies'
        /\ \A f : f # folder => /\ f \in DOMAIN bodies' <=> f \in DOMAIN bodies
                                /\ f \in DOMAIN bodies => bodies'[f] = bodies[f]
    BY <1>3, <2>1
  <2> QED  BY <1>1, <2>2 DEF folder
<1> QED  BY <1>2, <1>4

\* One run's variables change; run directories, folders and files stay.
LEMMA ProcStep ==
  ASSUME ProcType, Progress, NEW r \in Run, Step(r)
  PROVE  /\ ProcType' /\ \A s \in Run \ {r} : proc'[s] = proc[s]
         /\ dirs \subseteq dirs' /\ folders \subseteq folders' /\ DOMAIN bodies \subseteq DOMAIN bodies'
<1> USE DEF ProcType, Process, PC
<1>0. proc \in [Run -> Process] /\ proc[r] \in Process  OBVIOUS
<1>1. CASE Begin(r)  BY <1>1 DEF Begin, store
<1>2. CASE Probe(r)  BY <1>2 DEF Probe, store
<1>3. CASE Create(r)
  <2>1. proc' = [proc EXCEPT ![r] = [proc[r] EXCEPT !.pc = "fetch", !.owns = TRUE]]
    BY <1>0, <1>3, ZenonT(60) DEF Create
  <2>2. [proc[r] EXCEPT !.pc = "fetch", !.owns = TRUE] \in Process  BY <1>0
  <2>3. dirs \subseteq dirs' /\ folders \subseteq folders' /\ DOMAIN bodies \subseteq DOMAIN bodies'
    BY <1>3 DEF Create
  <2> QED  BY <1>0, <2>1, <2>2, <2>3
<1>4. CASE FetchMulti(r)  BY <1>4 DEF FetchMulti, Exit, store
<1>5. CASE Pick(r)
  <2>1. proc' = [proc EXCEPT ![r] = [proc[r] EXCEPT !.pc = "body", !.suffix = FreeSuffix(r)]]
    BY <1>0, <1>5, ZenonT(60) DEF Pick
  <2>2. [proc[r] EXCEPT !.pc = "body", !.suffix = FreeSuffix(r)] \in Process  BY <1>0, Unique
  <2>3. dirs \subseteq dirs' /\ folders \subseteq folders' /\ DOMAIN bodies \subseteq DOMAIN bodies'
    BY <1>5 DEF Pick, store
  <2> QED  BY <1>0, <2>1, <2>2, <2>3
<1>6. CASE WriteBody(r)
  <2>1. ProcType' /\ \A s \in Run \ {r} : proc'[s] = proc[s]
    BY <1>6, BodyWritten
  <2>2. dirs \subseteq dirs' /\ folders \subseteq folders' /\ DOMAIN bodies \subseteq DOMAIN bodies'
    BY <1>6, BodyStore
  <2> QED  BY <2>1, <2>2
<1>7. CASE BodyFails(r)
  <2>1. ProcType' /\ \A s \in Run \ {r} : proc'[s] = proc[s]
    BY <1>7 DEF BodyFails, Exit
  <2>2. dirs \subseteq dirs' /\ folders \subseteq folders' /\ DOMAIN bodies \subseteq DOMAIN bodies'
    BY <1>7, BodyStore
  <2> QED  BY <2>1, <2>2
<1>8. CASE WriteMeta(r)  BY <1>8 DEF WriteMeta
<1>9. CASE MetaFails(r)  BY <1>9 DEF MetaFails, store
<1>10. CASE WriteRunJson(r)
  <2>1. proc' = [proc EXCEPT ![r] = [proc[r] EXCEPT !.pc = "catalog"]]
    BY <1>0, <1>10 DEF WriteRunJson
  <2>2. [proc[r] EXCEPT !.pc = "catalog"] \in Process  BY <1>0
  <2>3. dirs \subseteq dirs' /\ folders \subseteq folders' /\ DOMAIN bodies \subseteq DOMAIN bodies'
    BY <1>10 DEF WriteRunJson
  <2> QED  BY <1>0, <2>1, <2>2, <2>3
<1>11. CASE WriteCatalog(r)
  <2>1. proc' = [proc EXCEPT ![r] = [proc[r] EXCEPT !.pc = "exited", !.code = 0]]
    BY <1>0, <1>11, ZenonT(60) DEF WriteCatalog, Exit
  <2>2. [proc[r] EXCEPT !.pc = "exited", !.code = 0] \in Process  BY <1>0
  <2>3. dirs \subseteq dirs' /\ folders \subseteq folders' /\ DOMAIN bodies \subseteq DOMAIN bodies'
    BY <1>11 DEF WriteCatalog
  <2> QED  BY <1>0, <2>1, <2>2, <2>3
<1>12. CASE Die(r)
  <2>1. proc' = [proc EXCEPT ![r] = [proc[r] EXCEPT !.pc = "exited", !.code = 134]]
    BY <1>0, <1>12, ZenonT(60) DEF Die, Exit
  <2>2. [proc[r] EXCEPT !.pc = "exited", !.code = 134] \in Process  BY <1>0, ZenonT(60)
  <2>3. dirs \subseteq dirs' /\ folders \subseteq folders' /\ DOMAIN bodies \subseteq DOMAIN bodies'
    <3>1. CASE UNCHANGED store  BY <3>1 DEF store
    <3>2. CASE CutBody(r)  BY <3>2, BodyStore
    <3> QED  BY <1>12, <3>1, <3>2 DEF Die
  <2> QED  BY <1>0, <2>1, <2>2, <2>3
<1> QED  BY <1>1, <1>2, <1>3, <1>4, <1>5, <1>6, <1>7, <1>8, <1>9, <1>10, <1>11, <1>12 DEF Step

\* What a run has is not taken from it.
LEMMA ProgressStep ==
  ASSUME ProcType, Progress, NEW r \in Run, Step(r)
  PROVE  Progress'
<1> DEFINE Has(s) ==
      /\ proc[s].pc \in {"idle", "probe", "create"} => ~ proc[s].owns
      /\ proc[s].pc = "fetch" \/ Writing(s) => proc[s].owns
      /\ proc[s].owns => Dir(s) \in dirs
      /\ Writing(s) => proc[s].batch \in Good
      /\ proc[s].pc \in {"body", "meta"} => ~ AllWritten(s)
      /\ proc[s].pc = "meta" => Folder(s, proc[s].suffix) \in DOMAIN bodies
<1>1. /\ ProcType' /\ \A s \in Run \ {r} : proc'[s] = proc[s]
      /\ dirs \subseteq dirs' /\ DOMAIN bodies \subseteq DOMAIN bodies'
  BY ProcStep
<1>2. ASSUME NEW s \in Run \ {r}
      PROVE  Has(s)'
  BY <1>1, <1>2 DEF Progress, Writing, Dir, AllWritten, Folder, Item
<1>3. Has(r)
  BY DEF Progress
<1>4. proc \in [Run -> Process] /\ proc[r] \in Process
  BY DEF ProcType
<1> HIDE DEF Has
<1>5. Has(r)'
  <2> USE DEF Has, Writing
  <2>1. CASE Begin(r)
    BY <1>3, <1>4, <2>1 DEF Begin, store, Dir
  <2>2. CASE Probe(r)
    BY <1>3, <1>4, <2>2 DEF Probe, store, Dir
  <2>3. CASE Create(r)
    BY <1>3, <1>4, <2>3 DEF Create, Dir
  <2>4. CASE FetchMulti(r)
    <3>1. \/ Exit(r, 1)
          \/ \E b \in Good : proc' = [proc EXCEPT ![r].pc = "pick", ![r].batch = b]
      BY <2>4 DEF FetchMulti, Good
    <3>2. dirs' = dirs /\ proc[r].pc = "fetch"
      BY <2>4 DEF FetchMulti, store
    <3>3. CASE Exit(r, 1)
      BY <1>3, <1>4, <3>2, <3>3 DEF Exit, Dir
    <3>4. ASSUME NEW b \in Good, proc' = [proc EXCEPT ![r].pc = "pick", ![r].batch = b]
          PROVE  Has(r)'
      BY <1>3, <1>4, <3>2, <3>4 DEF Dir
    <3> QED  BY <3>1, <3>3, <3>4
  <2>5. CASE Pick(r)
    BY <1>3, <1>4, <2>5 DEF Pick, store, Dir, AllWritten
  <2>6. CASE WriteBody(r)
    <3>2. /\ proc[r].pc = "body" /\ proc'[r].pc = "meta"
          /\ proc'[r].owns = proc[r].owns /\ proc'[r].n = proc[r].n
          /\ proc'[r].batch = proc[r].batch /\ proc'[r].item = proc[r].item
          /\ proc'[r].suffix = proc[r].suffix
      BY <2>6, BodyWritten
    <3>3. Dir(r)' = Dir(r) /\ Folder(r, proc[r].suffix)' = Folder(r, proc[r].suffix)
          /\ (AllWritten(r)' <=> AllWritten(r))
      BY <3>2 DEF Dir, Folder, Item, AllWritten
    <3>4. dirs' = dirs /\ Folder(r, proc[r].suffix) \in DOMAIN bodies'
      <4>1. dirs' = dirs /\ \E content : bodies' = Written(Folder(r, proc[r].suffix), content, bodies)
        BY <2>6 DEF WriteBody
      <4> QED  BY <4>1 DEF Written
    <3> HIDE DEF Dir, Folder, AllWritten
    <3> QED  BY <1>3, <3>2, <3>3, <3>4
  <2>7. CASE BodyFails(r)
    <3>1. proc[r].pc = "body" /\ dirs' = dirs
      BY <2>7, BodyStore DEF BodyFails
    <3>2. CASE proc[r].item = 1
      <4>1. proc' = [proc EXCEPT ![r] = [proc[r] EXCEPT !.pc = "exited", !.code = 1]]
        BY <1>4, <2>7, <3>2 DEF BodyFails, Exit
      <4> QED  BY <1>3, <1>4, <3>1, <4>1 DEF Dir
    <3>3. CASE proc[r].item # 1
      <4>1. proc' = [proc EXCEPT ![r] = [proc[r] EXCEPT !.pc = "pick", !.item = @ + 1,
                                                        !.failed = @ + 1]]
        BY <1>4, <2>7, <3>3 DEF BodyFails
      <4> QED  BY <1>3, <1>4, <3>1, <4>1 DEF Dir
    <3> QED  BY <3>2, <3>3
  <2>8. CASE WriteMeta(r)
    BY <1>3, <1>4, <2>8 DEF WriteMeta, Dir
  <2>9. CASE MetaFails(r)
    BY <1>3, <1>4, <2>9 DEF MetaFails, store, Dir
  <2>10. CASE WriteRunJson(r)
    BY <1>3, <1>4, <2>10 DEF WriteRunJson, Dir
  <2>11. CASE WriteCatalog(r)
    BY <1>3, <1>4, <2>11 DEF WriteCatalog, Exit, Dir
  <2>12. CASE Die(r)
    <3>1. dirs' = dirs
      BY <2>12, BodyStore DEF Die, store
    <3>2. proc' = [proc EXCEPT ![r] = [proc[r] EXCEPT !.pc = "exited", !.code = 134]]
      BY <1>4, <2>12, ZenonT(60) DEF Die, Exit
    <3> QED  BY <1>3, <1>4, <3>1, <3>2 DEF Dir
  <2> QED  BY <2>1, <2>2, <2>3, <2>4, <2>5, <2>6, <2>7, <2>8, <2>9, <2>10, <2>11, <2>12 DEF Step
<1> USE DEF Has
<1> QED  BY <1>2, <1>5 DEF Progress

\* What is being written is an item of the batch, and lies in a folder of the
\* run's directory.
LEMMA Current ==
  ASSUME ProcType, Progress, NEW r \in Run, Writing(r), ~ AllWritten(r)
  PROVE  /\ Dir(r) \in dirs /\ proc[r].batch \in Good
         /\ proc[r].item \in 1 .. Len(Items(proc[r].batch)) /\ Item(r) \in ItemType
         /\ dirs \subseteq DirType => \A n \in 1 .. MaxSuffix + 1 : Folder(r, n) \in FolderType
<1>1. Dir(r) \in dirs /\ proc[r].batch \in Good
  BY DEF Progress
<1>2. Items(proc[r].batch) \in Seq(ItemType)
  BY <1>1, ItemFacts
<1>3. proc[r].item \in Nat \ {0}
  BY DEF ProcType, Process
<1>4. proc[r].item \in 1 .. Len(Items(proc[r].batch))
  BY <1>2, <1>3 DEF AllWritten
<1>5. Item(r) \in ItemType
  BY <1>2, <1>4 DEF Item
<1>6. ASSUME dirs \subseteq DirType, NEW n \in 1 .. MaxSuffix + 1
      PROVE  Folder(r, n) \in FolderType
  <2>1. Dir(r) \in [second : Nat, label : STRING, n : Nat]  BY <1>1, <1>6 DEF DirType
  <2> HIDE DEF Dir, Item
  <2> QED  BY <1>5, <2>1 DEF Folder, FolderType, ItemType
<1> QED  BY <1>1, <1>4, <1>5, <1>6

LEMMA TypeStep ==
  ASSUME TypeInv, NEW r \in Run, Step(r)
  PROVE  TypeOK' /\ (dirs \subseteq DirType)'
<1>1. ProcType /\ Progress /\ dirs \subseteq DirType
  BY DEF TypeInv
<1>2. /\ DOMAIN bodies \subseteq folders /\ DOMAIN metas \subseteq DOMAIN bodies
      /\ \A f \in folders : f \in FolderType /\ f.dir \in dirs
      /\ \A f \in DOMAIN metas : metas[f] \in ItemType
      /\ \A d \in DOMAIN runs : d \in dirs /\ runs[d] \in [fetched : Nat, present : Nat]
      /\ DOMAIN catalogs \subseteq dirs
  BY DEF TypeInv, TypeOK
<1>3. proc[r] \in Process
  BY <1>1 DEF ProcType
<1>4. CASE UNCHANGED store
  BY <1>1, <1>2, <1>4 DEF store, TypeOK
<1>5. CASE Create(r)
  <2>1. Dir(r) \in DirType
    BY <1>3, CaptureConstants DEF Dir, DirType, Process
  <2> HIDE DEF Dir
  <2> QED  BY <1>1, <1>2, <1>5, <2>1 DEF Create, TypeOK
<1>6. CASE proc[r].pc = "body" /\ (WriteBody(r) \/ BodyFails(r) \/ CutBody(r))
  <2>1. proc[r].pc = "body" /\ Writing(r) /\ ~ AllWritten(r)
    BY <1>1, <1>6 DEF Progress, Writing
  <2>2. proc[r].suffix \in 1 .. MaxSuffix + 1
    BY <1>3 DEF Process
  <2> DEFINE folder == Folder(r, proc[r].suffix)
  <2>3. folder \in FolderType /\ folder.dir \in dirs
    BY <1>1, <2>1, <2>2, Current DEF Folder
  <2>4. /\ folders' = folders \cup {folder}
        /\ DOMAIN bodies' \subseteq DOMAIN bodies \cup {folder} /\ DOMAIN bodies \subseteq DOMAIN bodies'
        /\ UNCHANGED <<dirs, metas, runs, catalogs>>
    BY <1>6, BodyStore DEF Written
  <2> HIDE DEF folder
  <2> QED  BY <1>1, <1>2, <2>3, <2>4 DEF TypeOK
<1>7. CASE WriteMeta(r)
  <2>1. proc[r].pc = "meta" /\ Writing(r) /\ ~ AllWritten(r)
    BY <1>1, <1>7 DEF WriteMeta, Progress, Writing
  <2>2. Item(r) \in ItemType
    BY <1>1, <2>1, Current
  <2>3. Folder(r, proc[r].suffix) \in DOMAIN bodies
    BY <1>1, <2>1 DEF Progress
  <2>4. /\ metas' = Written(Folder(r, proc[r].suffix), Item(r), metas)
        /\ UNCHANGED <<dirs, folders, bodies, runs, catalogs>>
    BY <1>7 DEF WriteMeta
  <2> HIDE DEF Folder, Item
  <2> QED  BY <1>1, <1>2, <2>2, <2>3, <2>4 DEF TypeOK, Written
<1>8. CASE WriteRunJson(r)
  <2>1. Writing(r)
    BY <1>8 DEF WriteRunJson, Writing
  <2>2. Dir(r) \in dirs /\ proc[r].batch \in Good
    BY <1>1, <2>1 DEF Progress
  <2> DEFINE count == [fetched |-> 1 + Len(proc[r].batch.also), present |-> proc[r].present]
  <2>3. count \in [fetched : Nat, present : Nat]
    <3>1. Len(proc[r].batch.also) \in Nat  BY <2>2, ItemFacts
    <3> QED  BY <1>3, <3>1 DEF Process
  <2>4. /\ runs' = Written(Dir(r), count, runs) \/ runs' = runs
        /\ UNCHANGED <<dirs, folders, bodies, metas, catalogs>>
    BY <1>8 DEF WriteRunJson
  <2> HIDE DEF count, Dir
  <2> QED  BY <1>1, <1>2, <2>2, <2>3, <2>4 DEF TypeOK, Written
<1>9. CASE WriteCatalog(r)
  <2>1. Writing(r)
    BY <1>9 DEF WriteCatalog, Writing
  <2>2. Dir(r) \in dirs
    BY <1>1, <2>1 DEF Progress
  <2>3. /\ DOMAIN catalogs' \subseteq DOMAIN catalogs \cup {Dir(r)}
        /\ UNCHANGED <<dirs, folders, bodies, metas, runs>>
    BY <1>9 DEF WriteCatalog, Written
  <2> HIDE DEF Dir
  <2> QED  BY <1>1, <1>2, <2>2, <2>3 DEF TypeOK
<1>10. \/ UNCHANGED store \/ Create(r) \/ WriteMeta(r) \/ WriteRunJson(r) \/ WriteCatalog(r)
       \/ proc[r].pc = "body" /\ (WriteBody(r) \/ BodyFails(r) \/ CutBody(r))
  BY DEF Step, Begin, Probe, FetchMulti, Pick, WriteBody, BodyFails, MetaFails, Die
<1> QED  BY <1>4, <1>5, <1>6, <1>7, <1>8, <1>9, <1>10

\* Every variable keeps its type, and what a run is about to write is there to
\* be written.
LEMMA TypeInvariant == Spec => []TypeInv
<1>1. Init => TypeInv
  <2> SUFFICES ASSUME Init
               PROVE  TypeInv
    OBVIOUS
  <2> USE DEF Init
  <2>1. ProcType
    BY CaptureConstants DEF ProcType, Process, PC
  <2>2. Progress
    BY DEF Progress, Writing
  <2>3. TypeOK /\ dirs \subseteq DirType
    BY DEF TypeOK
  <2> QED  BY <2>1, <2>2, <2>3 DEF TypeInv
<1>2. TypeInv /\ [Next]_vars => TypeInv'
  <2> SUFFICES ASSUME TypeInv, [Next]_vars
               PROVE  TypeInv'
    OBVIOUS
  <2>1. CASE UNCHANGED vars
    BY <2>1 DEF TypeInv, TypeOK, ProcType, Progress, Writing, AllWritten, Dir, Folder, Item, vars, store
  <2>2. ASSUME NEW r \in Run, Step(r)
        PROVE  TypeInv'
    BY <2>2, ProcStep, ProgressStep, TypeStep DEF TypeInv
  <2> QED  BY <2>1, <2>2 DEF Next, Step
<1> QED  BY <1>1, <1>2, PTL DEF Spec

\* Files lie in folders, folders in run directories, and each holds what belongs
\* there, however many runs share the store.
THEOREM TypeCorrect == Spec => []TypeOK
<1>1. TypeInv => TypeOK
  BY DEF TypeInv
<1> QED  BY <1>1, TypeInvariant, PTL
----
(* One run at a time *)

Asleep(r) == proc[r].pc \in {"idle", "exited"}

\* Between the test of the name and the making of the directory nobody takes it.
OwnInv ==
  /\ \A r, s \in Run : ~ Asleep(r) /\ ~ Asleep(s) => r = s
  /\ OwnRunDir
  /\ \A r \in Run : proc[r].pc = "create" => Dir(r) \notin dirs

\* Only create_directories gives a run its directory, and only the test for a
\* name changes which one that is.
LEMMA SameDirectory ==
  ASSUME ProcType, NEW r \in Run, Step(r), ~ Create(r)
  PROVE  /\ proc'[r].owns = proc[r].owns
         /\ ~ Probe(r) => Dir(r)' = Dir(r)
<1> DEFINE Same == proc'[r].owns = proc[r].owns /\ proc'[r].n = proc[r].n
<1>0. proc \in [Run -> Process] /\ proc[r] \in Process  BY DEF ProcType
<1> USE DEF Process
<1>1. CASE Begin(r)
  <2>1. Same  BY <1>0, <1>1 DEF Begin
  <2> QED  BY <2>1 DEF Dir
<1>2. CASE Probe(r)
  <2>1. proc'[r].owns = proc[r].owns  BY <1>0, <1>2 DEF Probe
  <2> QED  BY <1>2, <2>1
<1>3. CASE FetchMulti(r)
  <2>1. Same  BY <1>0, <1>3 DEF FetchMulti, Exit
  <2> QED  BY <2>1 DEF Dir
<1>4. CASE Pick(r)
  <2>1. Same  BY <1>0, <1>4 DEF Pick
  <2> QED  BY <2>1 DEF Dir
<1>5. CASE WriteBody(r)
  <2>1. Same  BY <1>5, BodyWritten
  <2> QED  BY <2>1 DEF Dir
<1>6. CASE BodyFails(r)
  <2>1. Same  BY <1>0, <1>6 DEF BodyFails, Exit
  <2> QED  BY <2>1 DEF Dir
<1>7. CASE WriteMeta(r) \/ MetaFails(r)
  <2>1. Same  BY <1>0, <1>7 DEF WriteMeta, MetaFails
  <2> QED  BY <2>1 DEF Dir
<1>8. CASE WriteRunJson(r) \/ WriteCatalog(r) \/ Die(r)
  <2>1. Same  BY <1>0, <1>8 DEF WriteRunJson, WriteCatalog, Die, Exit
  <2> QED  BY <2>1 DEF Dir
<1> QED  BY <1>1, <1>2, <1>3, <1>4, <1>5, <1>6, <1>7, <1>8 DEF Step

LEMMA OwnStep ==
  ASSUME ~ Concurrent, TypeInv, OwnInv, NEW r \in Run, Step(r)
  PROVE  OwnInv'
<1>1. /\ ProcType /\ Progress
      /\ proc \in [Run -> Process] /\ proc' \in [Run -> Process]
      /\ \A s \in Run \ {r} : proc'[s] = proc[s]
  BY ProcStep DEF TypeInv, ProcType
<1>2. \A s \in Run \ {r} : Asleep(s)
  <2>1. CASE Begin(r)
    BY <2>1 DEF Begin, Asleep
  <2>2. CASE ~ Begin(r)
    <3>1. ~ Asleep(r)
      BY <2>2 DEF Step, Probe, Create, FetchMulti, Pick, WriteBody, BodyFails, WriteMeta, MetaFails,
                  WriteRunJson, WriteCatalog, Die, Asleep
    <3> QED  BY <3>1 DEF OwnInv
  <2> QED  BY <2>1, <2>2
<1>3. \A s \in Run \ {r} : Asleep(s)' /\ proc'[s].pc # "create"
  BY <1>1, <1>2 DEF Asleep
<1>4. proc'[r].pc = "create" => Dir(r)' \notin dirs'
  <2>1. CASE Probe(r)
    BY <1>1, <2>1 DEF Probe, store, Dir, Process
  <2>2. CASE ~ Probe(r)
    <3>1. proc'[r].pc # "create"
      BY <1>1, <2>2 DEF Step, Begin, Create, FetchMulti, Pick, WriteBody, BodyFails, WriteMeta, MetaFails,
                  WriteRunJson, WriteCatalog, Die, Exit, Process
    <3> QED  BY <3>1
  <2> QED  BY <2>1, <2>2
<1>5. OwnRunDir'
  <2>1. ASSUME NEW s \in Run \ {r}, proc'[s].owns, proc'[r].owns
        PROVE  Dir(s)' # Dir(r)'
    <3>1. proc[s].owns /\ Dir(s) \in dirs /\ Dir(s)' = Dir(s)
      BY <1>1, <2>1 DEF Progress, Dir
    <3>2. CASE Create(r)
      <4>1. Dir(r) \notin dirs /\ Dir(r)' = Dir(r)
        BY <1>1, <3>2 DEF Create, OwnInv, Dir
      <4> QED  BY <3>1, <4>1
    <3>3. CASE ~ Create(r)
      <4>1. proc[r].owns
        BY <1>1, <2>1, <3>3, SameDirectory
      <4>2. ~ Probe(r)
        BY <1>1, <4>1 DEF Probe, Progress
      <4>3. Dir(r)' = Dir(r)
        BY <1>1, <3>3, <4>2, SameDirectory
      <4>4. Dir(s) # Dir(r)
        BY <3>1, <4>1 DEF OwnInv, OwnRunDir
      <4> QED  BY <3>1, <4>3, <4>4
    <3> QED  BY <3>2, <3>3
  <2>2. ASSUME NEW s \in Run \ {r}, NEW t \in Run \ {r}, s # t, proc'[s].owns, proc'[t].owns
        PROVE  Dir(s)' # Dir(t)'
    BY <1>1, <2>2 DEF OwnInv, OwnRunDir, Dir
  <2> QED  BY <2>1, <2>2 DEF OwnRunDir
<1> QED  BY <1>3, <1>4, <1>5 DEF OwnInv

LEMMA OwnInvariant ==
  ASSUME ~ Concurrent
  PROVE  Spec => [](TypeInv /\ OwnInv)
<1>1. Init => OwnInv
  BY DEF Init, OwnInv, OwnRunDir, Asleep
<1>2. TypeInv /\ OwnInv /\ [Next]_vars => OwnInv'
  <2> SUFFICES ASSUME TypeInv, OwnInv, [Next]_vars
               PROVE  OwnInv'
    OBVIOUS
  <2>1. CASE UNCHANGED vars
    BY <2>1 DEF OwnInv, OwnRunDir, Asleep, Dir, vars, store
  <2>2. ASSUME NEW r \in Run, Step(r)
        PROVE  OwnInv'
    BY <2>2, OwnStep
  <2> QED  BY <2>1, <2>2 DEF Next, Step
<1> QED  BY <1>1, <1>2, TypeInvariant, PTL DEF Spec

\* Runs that do not overlap never write into one directory: each tests for the
\* name and creates it before another starts.
THEOREM OwnDirectory ==
  ASSUME ~ Concurrent
  PROVE  Spec => []OwnRunDir
<1>1. TypeInv /\ OwnInv => OwnRunDir
  BY DEF OwnInv
<1> QED  BY <1>1, OwnInvariant, PTL
----
(* What the runs leave alone *)

\* Nothing below run directory d changes.
Untouched(d) ==
  /\ \A f : f.dir = d =>
       /\ f \in folders' <=> f \in folders
       /\ f \in DOMAIN bodies' <=> f \in DOMAIN bodies
       /\ f \in DOMAIN bodies => bodies'[f] = bodies[f]
       /\ f \in DOMAIN metas' <=> f \in DOMAIN metas
       /\ f \in DOMAIN metas => metas'[f] = metas[f]
  /\ d \in DOMAIN runs' <=> d \in DOMAIN runs
  /\ d \in DOMAIN runs => runs'[d] = runs[d]
  /\ d \in DOMAIN catalogs' <=> d \in DOMAIN catalogs
  /\ d \in DOMAIN catalogs => catalogs'[d] = catalogs[d]

\* A run writes below its own directory, and only once it has one.
LEMMA Elsewhere ==
  ASSUME NEW r \in Run, Step(r), NEW d, d # Dir(r) \/ proc[r].pc \in {"idle", "probe", "create", "exited"}
  PROVE  Untouched(d)
<1>1. CASE UNCHANGED <<folders, bodies, metas, runs, catalogs>>
  BY <1>1 DEF Untouched
<1>2. CASE \/ proc[r].pc = "body" /\ (WriteBody(r) \/ BodyFails(r) \/ CutBody(r))
           \/ WriteMeta(r)
  <2>1. d # Dir(r)
    BY <1>2 DEF WriteMeta
  <2> DEFINE folder == Folder(r, proc[r].suffix)
  <2>2. folder.dir = Dir(r)
    BY DEF Folder
  <2>3. /\ \A f : f # folder =>
             /\ f \in folders' <=> f \in folders
             /\ f \in DOMAIN bodies' <=> f \in DOMAIN bodies
             /\ f \in DOMAIN bodies => bodies'[f] = bodies[f]
             /\ f \in DOMAIN metas' <=> f \in DOMAIN metas
             /\ f \in DOMAIN metas => metas'[f] = metas[f]
        /\ UNCHANGED <<runs, catalogs>>
    <3>1. CASE WriteMeta(r)
      BY <3>1 DEF WriteMeta, Written
    <3>2. CASE WriteBody(r) \/ BodyFails(r) \/ CutBody(r)
      <4>1. /\ folders' = folders \cup {folder} /\ UNCHANGED <<metas, runs, catalogs>>
            /\ \A f : f # folder => /\ f \in DOMAIN bodies' <=> f \in DOMAIN bodies
                                    /\ f \in DOMAIN bodies => bodies'[f] = bodies[f]
        BY <3>2, BodyStore
      <4> HIDE DEF folder
      <4> QED  BY <4>1
    <3> QED  BY <1>2, <3>1, <3>2
  <2> HIDE DEF folder
  <2> QED  BY <2>1, <2>2, <2>3 DEF Untouched
<1>3. CASE WriteRunJson(r)
  <2>1. d # Dir(r)
    BY <1>3 DEF WriteRunJson
  <2> QED  BY <1>3, <2>1 DEF WriteRunJson, Written, Untouched
<1>4. CASE WriteCatalog(r)
  <2>1. d # Dir(r)
    BY <1>4 DEF WriteCatalog
  <2> QED  BY <1>4, <2>1 DEF WriteCatalog, Written, Untouched
<1> QED  BY <1>1, <1>2, <1>3, <1>4
         DEF Step, Begin, Probe, Create, FetchMulti, Pick, WriteBody, BodyFails, MetaFails, Die, store

\* No other run touches what a run has written.
LEMMA Private ==
  ASSUME TypeInv, OwnInv, NEW r \in Run, NEW s \in Run \ {r}, Step(s), proc[r].owns
  PROVE  proc'[r] = proc[r] /\ Dir(r)' = Dir(r) /\ Untouched(Dir(r))
<1>1. proc'[r] = proc[r]
  BY ProcStep DEF TypeInv
<1>2. Dir(r)' = Dir(r)
  BY <1>1 DEF Dir
<1>3. CASE proc[s].owns
  <2>1. Dir(r) # Dir(s)
    BY <1>3 DEF OwnInv, OwnRunDir
  <2> QED  BY <1>1, <1>2, <2>1, Elsewhere
<1>4. CASE ~ proc[s].owns
  <2>1. proc[s].pc \in {"idle", "probe", "create", "exited"}
    BY <1>4 DEF TypeInv, ProcType, Process, PC, Progress, Writing
  <2> QED  BY <1>1, <1>2, <2>1, Elsewhere
<1> QED  BY <1>3, <1>4
----
(* The exit code *)

Ended(r, code) == proc[r].pc = "exited" /\ proc[r].code = code

\* The page's body file is there, whole unless a write failed.
Saved(r) == \E f \in DOMAIN bodies : /\ bodies[f].run = r /\ f.dir = Dir(r) /\ f.seq = 0
                                     /\ proc[r].failed = 0 => bodies[f].whole

\* There is nothing but, perhaps, a part of a body.
Unsaved(r) == /\ \A f \in DOMAIN bodies : f.dir = Dir(r) => ~bodies[f].whole
              /\ \A f \in DOMAIN metas : f.dir # Dir(r)

CodePart(r) ==
  /\ Ended(r, 0) \/ Ended(r, 1) => proc[r].owns
  /\ proc[r].pc \in {"idle", "probe", "create", "fetch"} =>
       proc[r].item = 1 /\ proc[r].present = 0 /\ proc[r].failed = 0
  /\ proc[r].pc = "fetch" => \A f \in folders : f.dir # Dir(r)
  /\ \/ proc[r].pc = "fetch" \/ Ended(r, 1)
     \/ proc[r].pc \in {"pick", "body"} /\ proc[r].item = 1
     => Unsaved(r)
  /\ proc[r].pc \in {"fetch", "pick", "body", "meta"} \/ Ended(r, 1) =>
       Dir(r) \notin DOMAIN runs \cup DOMAIN catalogs
  /\ proc[r].pc = "catalog" => AllWritten(r) /\ Dir(r) \notin DOMAIN catalogs
  /\ Ended(r, 0) \/ proc[r].pc = "meta" \/ (Writing(r) /\ proc[r].item > 1) => Saved(r)

\* What lies in the directory of a run, at each point of the program.
CodeInv == \A r \in Run : CodePart(r)

LEMMA CodeElsewhere ==
  ASSUME TypeInv, OwnInv, CodeInv, NEW r \in Run, NEW s \in Run \ {r}, Step(s)
  PROVE  CodePart(r)'
<1>1. CodePart(r)
  BY DEF CodeInv
<1>2. proc'[r] = proc[r]
  BY ProcStep DEF TypeInv
<1>3. CASE proc[r].owns
  <2>1. Dir(r)' = Dir(r) /\ Untouched(Dir(r))
    BY <1>3, Private
  <2> HIDE DEF Dir
  <2>2. Saved(r) => Saved(r)'
    BY <1>2, <2>1 DEF Saved, Untouched
  <2>3. Unsaved(r) => Unsaved(r)'
    BY <2>1 DEF Unsaved, Untouched
  <2>4. (\A f \in folders : f.dir # Dir(r)) => (\A f \in folders : f.dir # Dir(r))'
    BY <2>1 DEF Untouched
  <2>5. Dir(r)' \in DOMAIN runs' \cup DOMAIN catalogs' <=> Dir(r) \in DOMAIN runs \cup DOMAIN catalogs
    BY <2>1 DEF Untouched
  <2>6. Dir(r)' \in DOMAIN catalogs' <=> Dir(r) \in DOMAIN catalogs
    BY <2>1 DEF Untouched
  <2>7. (Ended(r, 0)' <=> Ended(r, 0)) /\ (Ended(r, 1)' <=> Ended(r, 1))
        /\ (Writing(r)' <=> Writing(r)) /\ (AllWritten(r)' <=> AllWritten(r))
    BY <1>2 DEF Ended, Writing, AllWritten
  <2> QED  BY <1>1, <1>2, <2>2, <2>3, <2>4, <2>5, <2>6, <2>7 DEF CodePart
<1>4. CASE ~ proc[r].owns
  <2>1. proc[r].pc # "fetch" /\ ~ Writing(r) /\ ~ Ended(r, 0) /\ ~ Ended(r, 1)
    BY <1>1, <1>4 DEF TypeInv, Progress, CodePart
  <2> QED  BY <1>1, <1>2, <2>1 DEF CodePart, Ended, Writing
<1> QED  BY <1>3, <1>4

LEMMA CodeStep ==
  ASSUME TypeInv, OwnInv, CodeInv, NEW r \in Run, Step(r)
  PROVE  CodePart(r)'
<1>1. CodePart(r)
  BY DEF CodeInv
<1>2. /\ proc \in [Run -> Process] /\ proc[r] \in Process /\ ProcType /\ Progress
      /\ proc[r].item \in Nat /\ proc[r].item # 0 /\ proc[r].failed \in Nat
  BY DEF TypeInv, ProcType, Process
<1>3. /\ DOMAIN bodies \subseteq folders /\ DOMAIN metas \subseteq DOMAIN bodies
      /\ DOMAIN runs \cup DOMAIN catalogs \subseteq dirs
      /\ \A f \in folders : f.dir \in dirs
  BY DEF TypeInv, TypeOK
<1> DEFINE NowAt(pc, item) == /\ proc'[r].pc = pc /\ proc'[r].item = item
                              /\ proc'[r].owns = proc[r].owns /\ Dir(r)' = Dir(r)
                              /\ proc'[r].batch = proc[r].batch
           SameFailed == proc'[r].failed = proc[r].failed
<1>4. CASE Begin(r)
  BY <1>1, <1>2, <1>4 DEF Begin, CodePart, Ended, Writing, Process
<1>5. CASE Probe(r)
  BY <1>1, <1>2, <1>5 DEF Probe, CodePart, Ended, Writing, Process
<1>6. CASE Create(r)
  <2>2. /\ proc[r].pc = "create" /\ Dir(r)' = Dir(r)
        /\ proc'[r].pc = "fetch" /\ proc'[r].item = 1 /\ proc'[r].present = 0 /\ proc'[r].failed = 0
        /\ UNCHANGED <<folders, bodies, metas, runs, catalogs>>
    BY <1>1, <1>2, <1>6 DEF Create, Dir, CodePart, Process
  <2>3. Dir(r) \notin dirs
    BY <2>2 DEF OwnInv
  <2> HIDE DEF Dir
  <2>4. Unsaved(r)'
    BY <1>3, <2>2, <2>3 DEF Unsaved
  <2> QED  BY <1>3, <2>2, <2>3, <2>4 DEF CodePart, Ended, Writing
<1>7. CASE FetchMulti(r)
  <2>1. /\ proc[r].pc = "fetch" /\ Dir(r)' = Dir(r) /\ proc'[r].owns = proc[r].owns
        /\ proc'[r].item = proc[r].item
        /\ proc'[r].pc = "pick" \/ Ended(r, 1)'
        /\ UNCHANGED <<folders, bodies, metas, runs, catalogs>>
    BY <1>2, <1>7 DEF FetchMulti, Exit, store, Dir, Ended, Process
  <2>2. proc'[r].pc # "exited" \/ Ended(r, 1)'
    BY <2>1
  <2> HIDE DEF Dir
  <2> QED  BY <1>1, <1>2, <2>1, <2>2 DEF CodePart, Ended, Writing, Unsaved, Progress
<1>8. CASE Pick(r)
  <2>1. /\ NowAt("body", proc[r].item) /\ SameFailed /\ proc[r].pc = "pick"
        /\ UNCHANGED <<folders, bodies, metas, runs, catalogs>>
    BY <1>2, <1>8 DEF Pick, store, Dir, Process
  <2> HIDE DEF Dir
  <2> QED  BY <1>1, <2>1 DEF CodePart, Ended, Writing, Unsaved, Saved
<1>9. CASE WriteBody(r)
  <2> DEFINE folder == Folder(r, proc[r].suffix)
  <2>1. NowAt("meta", proc[r].item) /\ proc[r].pc = "body" /\ UNCHANGED <<metas, runs, catalogs>>
    BY <1>2, <1>9, BodyWritten, BodyStore DEF Dir
  <2>2. PICK whole \in BOOLEAN :
          /\ bodies' = Written(folder, Body(r, whole), bodies)
          /\ proc'[r].failed = IF whole THEN proc[r].failed ELSE proc[r].failed + 1
    BY <1>2, <1>9, BodyWritten
  <2>3. folder.dir = Dir(r) /\ folder.seq = Item(r).seq
    BY DEF Folder
  <2>4. proc'[r].failed = 0 => whole /\ proc[r].failed = 0
    BY <1>2, <2>2 DEF Process
  <2>5. Body(r, whole).run = r /\ Body(r, whole).whole = whole
    BY DEF Body
  <2> HIDE DEF folder, Dir
  <2>6. /\ DOMAIN bodies' = DOMAIN bodies \cup {folder} /\ bodies'[folder] = Body(r, whole)
        /\ \A f \in DOMAIN bodies : f # folder => bodies'[f] = bodies[f]
    BY <2>2 DEF Written
  <2>7. Saved(r)'
    <3>1. CASE proc[r].item = 1
      <4>1. proc[r].batch \in Good
        BY <1>2, <2>1 DEF Progress, Writing
      <4>2. Item(r).seq = 0
        BY <3>1, <4>1, ItemFacts DEF Item
      <4> QED  BY <2>1, <2>3, <2>4, <2>5, <2>6, <4>2 DEF Saved
    <3>2. CASE proc[r].item # 1
      <4>1. proc[r].item > 1
        BY <1>2, <3>2
      <4>2. Saved(r)
        BY <1>1, <2>1, <4>1 DEF CodePart, Writing
      <4>3. PICK f \in DOMAIN bodies : /\ bodies[f].run = r /\ f.dir = Dir(r) /\ f.seq = 0
                                       /\ proc[r].failed = 0 => bodies[f].whole
        BY <4>2 DEF Saved
      <4>4. f \in DOMAIN bodies' /\ bodies'[f].run = r /\ (proc'[r].failed = 0 => bodies'[f].whole)
        BY <2>4, <2>5, <2>6, <4>3
      <4> QED  BY <2>1, <4>3, <4>4 DEF Saved
    <3> QED  BY <3>1, <3>2
  <2> QED  BY <1>1, <2>1, <2>7 DEF CodePart, Ended, Writing
<1>10. CASE BodyFails(r)
  <2> DEFINE folder == Folder(r, proc[r].suffix)
  <2>1. proc[r].pc = "body" /\ UNCHANGED <<metas, runs, catalogs>> /\ CutBody(r)
    BY <1>10, BodyStore DEF BodyFails
  <2>2. /\ DOMAIN bodies \subseteq DOMAIN bodies'
        /\ \A f \in DOMAIN bodies' : \/ f \in DOMAIN bodies /\ bodies'[f] = bodies[f]
                                     \/ bodies'[f] = Body(r, FALSE)
    <3>1. UNCHANGED bodies \/ bodies' = Written(folder, Body(r, FALSE), bodies)
      BY <2>1 DEF CutBody
    <3> HIDE DEF folder
    <3> QED  BY <3>1 DEF Written
  <2>3. Body(r, FALSE).run = r /\ Body(r, FALSE).whole = FALSE
    BY DEF Body
  <2>4. CASE proc[r].item = 1
    <3>1. proc' = [proc EXCEPT ![r] = [proc[r] EXCEPT !.pc = "exited", !.code = 1]]
      BY <1>2, <1>10, <2>4 DEF BodyFails, Exit
    <3>2. NowAt("exited", 1) /\ Ended(r, 1)' /\ ~ Ended(r, 0)'
      BY <1>2, <2>4, <3>1 DEF Dir, Ended
    <3>3. Unsaved(r) /\ proc[r].owns /\ Dir(r) \notin DOMAIN runs \cup DOMAIN catalogs
      BY <1>1, <1>2, <2>1, <2>4 DEF CodePart, Progress, Writing
    <3> HIDE DEF Dir
    <3>4. Unsaved(r)'
      BY <2>1, <2>2, <2>3, <3>2, <3>3 DEF Unsaved
    <3> QED  BY <2>1, <3>2, <3>3, <3>4 DEF CodePart, Writing
  <2>5. CASE proc[r].item # 1
    <3>1. proc' = [proc EXCEPT ![r] = [proc[r] EXCEPT !.pc = "pick", !.item = @ + 1, !.failed = @ + 1]]
      BY <1>2, <1>10, <2>5 DEF BodyFails
    <3>2. NowAt("pick", proc[r].item + 1) /\ proc'[r].failed # 0
      BY <1>2, <3>1 DEF Dir, Process
    <3>3. proc[r].item > 1 /\ proc[r].item + 1 > 1 /\ proc[r].item + 1 # 1
      BY <1>2, <2>5 DEF Process
    <3>4. Saved(r) /\ Dir(r) \notin DOMAIN runs \cup DOMAIN catalogs
      BY <1>1, <2>1, <3>3 DEF CodePart, Writing
    <3> HIDE DEF Dir
    <3>5. Saved(r)'
      BY <2>2, <2>3, <3>2, <3>4 DEF Saved
    <3> QED  BY <2>1, <3>2, <3>3, <3>4, <3>5 DEF CodePart, Ended, Writing
  <2> QED  BY <2>4, <2>5
<1>11. CASE WriteMeta(r) \/ MetaFails(r)
  <2>1. NowAt("pick", proc[r].item + 1) /\ proc[r].pc = "meta" /\ UNCHANGED <<bodies, runs, catalogs>>
    BY <1>2, <1>11 DEF WriteMeta, MetaFails, store, Dir, Process
  <2>2. proc[r].item + 1 > 1 /\ proc[r].item + 1 # 1
    BY <1>2 DEF Process
  <2>3. proc'[r].failed = 0 => proc[r].failed = 0
    BY <1>2, <1>11 DEF WriteMeta, MetaFails, Process
  <2>4. Saved(r) /\ Dir(r) \notin DOMAIN runs \cup DOMAIN catalogs
    BY <1>1, <2>1 DEF CodePart
  <2> HIDE DEF Dir
  <2>5. Saved(r)'
    BY <2>1, <2>3, <2>4 DEF Saved
  <2> QED  BY <2>1, <2>2, <2>4, <2>5 DEF CodePart, Ended, Writing
<1>12. CASE WriteRunJson(r)
  <2>1. /\ NowAt("catalog", proc[r].item) /\ SameFailed /\ proc[r].pc = "pick" /\ AllWritten(r)
        /\ UNCHANGED <<bodies, catalogs>>
    BY <1>2, <1>12 DEF WriteRunJson, Dir, Process
  <2>2. AllWritten(r)'
    BY <2>1 DEF AllWritten
  <2>3. proc[r].item > 1
    <3>1. proc[r].batch \in Good
      BY <1>2, <2>1 DEF Progress, Writing
    <3>2. Len(proc[r].batch.also) \in Nat /\ 1 + Len(proc[r].batch.also) <= Len(Items(proc[r].batch))
          /\ Items(proc[r].batch) \in Seq(ItemType)
      BY <3>1, ItemFacts
    <3>3. proc[r].item \in Nat /\ Len(Items(proc[r].batch)) \in Nat
      BY <1>2, <3>2 DEF Process
    <3> QED  BY <2>1, <3>2, <3>3 DEF AllWritten
  <2>4. Saved(r) /\ Dir(r) \notin DOMAIN runs \cup DOMAIN catalogs
    BY <1>1, <2>1, <2>3 DEF CodePart, Writing
  <2> HIDE DEF Dir
  <2>5. Saved(r)'
    BY <2>1, <2>4 DEF Saved
  <2> QED  BY <2>1, <2>2, <2>3, <2>4, <2>5 DEF CodePart, Ended, Writing
<1>13. CASE WriteCatalog(r)
  <2>1. /\ NowAt("exited", proc[r].item) /\ SameFailed /\ proc'[r].code = 0 /\ proc[r].pc = "catalog"
        /\ UNCHANGED <<bodies>>
    BY <1>2, <1>13 DEF WriteCatalog, Exit, Dir, Process
  <2>2. Saved(r)
    <3>1. proc[r].item > 1
      <4>1. proc[r].batch \in Good /\ AllWritten(r)
        BY <1>1, <1>2, <2>1 DEF Progress, Writing, CodePart
      <4>2. Len(proc[r].batch.also) \in Nat /\ 1 + Len(proc[r].batch.also) <= Len(Items(proc[r].batch))
            /\ Items(proc[r].batch) \in Seq(ItemType)
        BY <4>1, ItemFacts
      <4>3. proc[r].item \in Nat /\ Len(Items(proc[r].batch)) \in Nat
        BY <1>2, <4>2 DEF Process
      <4> QED  BY <4>1, <4>2, <4>3 DEF AllWritten
    <3> QED  BY <1>1, <2>1, <3>1 DEF CodePart, Writing
  <2> HIDE DEF Dir
  <2>3. Saved(r)'
    BY <2>1, <2>2 DEF Saved
  <2>4. proc[r].owns
    BY <1>2, <2>1 DEF Progress, Writing
  <2> QED  BY <2>1, <2>3, <2>4 DEF CodePart, Ended, Writing
<1>14. CASE Die(r)
  BY <1>2, <1>14 DEF Die, Exit, CodePart, Ended, Writing
<1> QED  BY <1>4, <1>5, <1>6, <1>7, <1>8, <1>9, <1>10, <1>11, <1>12, <1>13, <1>14 DEF Step

LEMMA CodeInvariant ==
  ASSUME ~ Concurrent
  PROVE  Spec => [](TypeInv /\ OwnInv /\ CodeInv)
<1>1. Init => CodeInv
  BY DEF Init, CodeInv, CodePart, Ended, Writing
<1>2. TypeInv /\ OwnInv /\ CodeInv /\ [Next]_vars => CodeInv'
  <2> SUFFICES ASSUME TypeInv, OwnInv, CodeInv, [Next]_vars
               PROVE  CodeInv'
    OBVIOUS
  <2>1. CASE UNCHANGED vars
    BY <2>1 DEF CodeInv, CodePart, Ended, Writing, Saved, Unsaved, AllWritten, Dir, vars, store
  <2>2. ASSUME NEW s \in Run, Step(s)
        PROVE  CodeInv'
    <3>1. ASSUME NEW r \in Run
          PROVE  CodePart(r)'
      BY <2>2, CodeElsewhere, CodeStep
    <3> QED  BY <3>1 DEF CodeInv
  <2> QED  BY <2>1, <2>2 DEF Next, Step
<1> QED  BY <1>1, <1>2, OwnInvariant, PTL DEF Spec

\* The exit code tells what is there, however many writes failed and wherever
\* the process ended.  After 0 the run's own directory has the body file of the
\* page, all of it unless a write failed, noticed or not; after 1 it has no
\* whole body and no meta.json, run.json or catalogue.
THEOREM ExitCode ==
  ASSUME ~ Concurrent
  PROVE  Spec => []CodeTellsStore
<1>1. TypeInv /\ OwnInv /\ CodeInv => CodeTellsStore
  <2> SUFFICES ASSUME CodeInv, NEW r \in Run, proc[r].pc = "exited"
               PROVE  /\ proc[r].code = 0 => Saved(r)
                      /\ proc[r].code = 1 => Unsaved(r) /\ Dir(r) \notin DOMAIN runs \cup DOMAIN catalogs
    BY Zenon DEF CodeTellsStore, Saved, Unsaved
  <2>1. CodePart(r)
    BY DEF CodeInv
  <2> QED  BY <2>1 DEF CodePart, Ended
<1> QED  BY <1>1, CodeInvariant, PTL
----
(* No name twice *)

\* The first n items of a batch with the part, the source and the number of f.
Twins(b, f, n) ==
  {j \in 1 .. n : /\ Items(b)[j].part = f.part /\ Items(b)[j].source = f.source
                  /\ Items(b)[j].seq = f.seq}

\* No more items have one name than unique_request_dir tests suffixes: the
\* numbers begin again only at a redirect (fetcher.cpp:602-603), so a batch has a
\* number at most as often as there were redirects, and once more.
Namesakes ==
  \A b \in Good : \A i \in 1 .. Len(Items(b)) :
    Cardinality(Twins(b, Items(b)[i], Len(Items(b)))) <= MaxSuffix

LEMMA TwinFacts ==
  ASSUME NEW b, NEW f, NEW n \in Nat
  PROVE  /\ IsFiniteSet(Twins(b, f, n)) /\ Cardinality(Twins(b, f, n)) \in Nat
         /\ \A m \in Nat : n <= m => Cardinality(Twins(b, f, n)) <= Cardinality(Twins(b, f, m))
         /\ LET g == Items(b)[n + 1]
            IN  g.part = f.part /\ g.source = f.source /\ g.seq = f.seq =>
                  Cardinality(Twins(b, f, n + 1)) = Cardinality(Twins(b, f, n)) + 1
<1>1. ASSUME NEW m \in Nat
      PROVE  IsFiniteSet(Twins(b, f, m)) /\ Cardinality(Twins(b, f, m)) \in Nat
  <2>1. IsFiniteSet(1 .. m)  BY FS_Interval
  <2>2. Twins(b, f, m) \subseteq 1 .. m  BY DEF Twins
  <2> QED  BY <2>1, <2>2, FS_Subset, FS_CardinalityType
<1>2. ASSUME NEW m \in Nat, n <= m
      PROVE  Cardinality(Twins(b, f, n)) <= Cardinality(Twins(b, f, m))
  <2>1. Twins(b, f, n) \subseteq Twins(b, f, m)  BY <1>2 DEF Twins
  <2> QED  BY <1>1, <2>1, FS_Subset
<1>3. ASSUME Items(b)[n + 1].part = f.part, Items(b)[n + 1].source = f.source,
             Items(b)[n + 1].seq = f.seq
      PROVE  Cardinality(Twins(b, f, n + 1)) = Cardinality(Twins(b, f, n)) + 1
  <2>1. Twins(b, f, n + 1) = Twins(b, f, n) \cup {n + 1}  BY <1>3 DEF Twins
  <2>2. n + 1 \notin Twins(b, f, n)  BY DEF Twins
  <2> QED  BY <1>1, <2>1, <2>2, FS_AddElement
<1> QED  BY <1>1, <1>2, <1>3

\* How many items have had their folder made.
Begun(r) == IF proc[r].pc = "meta" THEN proc[r].item ELSE proc[r].item - 1

FreshPart(r) ==
  Writing(r) =>
    /\ \A f \in folders :
         f.dir = Dir(r) => f.suffix <= Cardinality(Twins(proc[r].batch, f, Begun(r)))
    /\ proc[r].pc = "body" =>
         /\ Folder(r, proc[r].suffix) \notin folders
         /\ proc[r].suffix <= Cardinality(Twins(proc[r].batch, Item(r), proc[r].item))
    /\ proc[r].pc = "meta" => Folder(r, proc[r].suffix) \notin DOMAIN metas

\* A suffix is taken only by as many items of that name, so one is free.
FreshInv == \A r \in Run : FreshPart(r)

\* Folder and item name the same twins.
LEMMA FolderTwins ==
  ASSUME NEW r \in Run, NEW b, NEW n, NEW k
  PROVE  Twins(b, Folder(r, n), k) = Twins(b, Item(r), k)
BY DEF Twins, Folder

LEMMA PickFresh ==
  ASSUME Namesakes, TypeInv, NEW r \in Run, FreshPart(r), Pick(r)
  PROVE  /\ Folder(r, FreeSuffix(r)) \notin folders
         /\ FreeSuffix(r) <= Cardinality(Twins(proc[r].batch, Item(r), proc[r].item))
<1> DEFINE b == proc[r].batch
           n == FreeSuffix(r)
           count(k) == Cardinality(Twins(b, Item(r), k))
<1>1. proc[r].pc = "pick" /\ Writing(r) /\ ~ AllWritten(r) /\ ProcType /\ Progress
  BY DEF Pick, Writing, TypeInv
<1>2. b \in Good /\ proc[r].item \in 1 .. Len(Items(b)) /\ Item(r) = Items(b)[proc[r].item]
  BY <1>1, Current DEF Item
<1>3. PICK i \in Nat : proc[r].item = i + 1
  <2>1. proc[r].item \in Nat \ {0}  BY <1>1 DEF ProcType, Process
  <2>2. proc[r].item - 1 \in Nat /\ proc[r].item = (proc[r].item - 1) + 1  BY <2>1
  <2> QED  BY <2>2
<1>4. Len(Items(b)) \in Nat
  BY <1>2, ItemFacts
<1>5. MaxSuffix \in Nat
  BY CaptureConstants
<1>6. n \in 1 .. MaxSuffix + 1 /\ n \in Nat
  BY <1>5, Unique
<1> HIDE DEF n, b
<1>7. /\ count(i) \in Nat /\ count(i + 1) = count(i) + 1
      /\ count(i + 1) <= count(Len(Items(b)))
      /\ count(Len(Items(b))) \in Nat /\ count(Len(Items(b))) <= MaxSuffix
  <2>1. count(i) \in Nat /\ count(i + 1) = count(i) + 1
    BY <1>2, <1>3, TwinFacts
  <2>2. i + 1 \in Nat /\ i + 1 <= Len(Items(b))
    BY <1>2, <1>3, <1>4
  <2>3. count(i + 1) <= count(Len(Items(b))) /\ count(Len(Items(b))) \in Nat
    BY <1>4, <2>2, TwinFacts
  <2>4. count(Len(Items(b))) <= MaxSuffix
    BY <1>2 DEF Namesakes
  <2> QED  BY <2>1, <2>3, <2>4
<1>8. n <= count(i) + 1
  <2>1. CASE n = 1
    BY <1>7, <2>1
  <2>2. CASE n # 1
    <3>1. n - 1 \in 1 .. n - 1 /\ n - 1 \in Nat
      BY <1>6, <2>2
    <3>2. Folder(r, n - 1) \in folders
      BY <3>1, Unique DEF n
    <3>3. Folder(r, n - 1).dir = Dir(r) /\ Folder(r, n - 1).suffix = n - 1
      BY DEF Folder
    <3>4. Begun(r) = i
      BY <1>1, <1>3 DEF Begun
    <3>5. n - 1 <= Cardinality(Twins(b, Folder(r, n - 1), i))
      BY <1>1, <3>2, <3>3, <3>4 DEF FreshPart, b
    <3>6. n - 1 <= count(i)
      BY <3>5, FolderTwins
    <3> HIDE DEF count
    <3> QED  BY <1>6, <1>7, <3>6
  <2> QED  BY <2>1, <2>2
<1>9. n <= MaxSuffix /\ n <= count(i + 1)
  <2> HIDE DEF count
  <2> QED  BY <1>5, <1>6, <1>7, <1>8
<1>10. Folder(r, n) \notin folders
  BY <1>9, Unique DEF n
<1> QED  BY <1>3, <1>9, <1>10 DEF n, b

LEMMA FreshElsewhere ==
  ASSUME TypeInv, OwnInv, NEW r \in Run, FreshPart(r), NEW s \in Run \ {r}, Step(s)
  PROVE  FreshPart(r)'
<1>1. proc'[r] = proc[r]
  BY ProcStep DEF TypeInv
<1>2. SUFFICES ASSUME Writing(r)
               PROVE  FreshPart(r)'
  BY <1>1 DEF FreshPart, Writing
<1>3. Dir(r)' = Dir(r) /\ Untouched(Dir(r))
  BY <1>2, Private DEF TypeInv, Progress
<1>4. Folder(r, proc[r].suffix)' = Folder(r, proc[r].suffix) /\ Item(r)' = Item(r)
      /\ Begun(r)' = Begun(r) /\ Folder(r, proc[r].suffix).dir = Dir(r)
  BY <1>1, <1>3 DEF Folder, Item, Begun
<1> HIDE DEF Folder, Item, Begun, Dir
<1>5. \A f : f.dir = Dir(r) => /\ f \in folders' <=> f \in folders
                               /\ f \in DOMAIN metas' <=> f \in DOMAIN metas
  BY <1>3 DEF Untouched
<1>6. ASSUME NEW f \in folders', f.dir = Dir(r)'
      PROVE  f.suffix <= Cardinality(Twins(proc'[r].batch, f, Begun(r)'))
  BY <1>1, <1>2, <1>3, <1>4, <1>5, <1>6 DEF FreshPart
<1>7. proc'[r].pc = "body" =>
        /\ Folder(r, proc[r].suffix)' \notin folders'
        /\ proc'[r].suffix <= Cardinality(Twins(proc'[r].batch, Item(r)', proc'[r].item))
  BY <1>1, <1>2, <1>4, <1>5 DEF FreshPart
<1>8. proc'[r].pc = "meta" => Folder(r, proc[r].suffix)' \notin DOMAIN metas'
  BY <1>1, <1>2, <1>4, <1>5 DEF FreshPart
<1>9. ASSUME NEW f
      PROVE  Twins(proc[r].batch, f, Begun(r))' = Twins(proc'[r].batch, f, Begun(r)')
  BY DEF Twins
<1> QED  BY <1>6, <1>7, <1>8 DEF FreshPart, Twins

LEMMA FreshStep ==
  ASSUME Namesakes, TypeInv, OwnInv, CodeInv, NEW r \in Run, FreshPart(r), Step(r)
  PROVE  FreshPart(r)'
<1> DEFINE b == proc[r].batch
           count(f, k) == Cardinality(Twins(b, f, k))
<1>1. proc \in [Run -> Process] /\ proc[r] \in Process /\ ProcType /\ Progress /\ CodePart(r)
      /\ DOMAIN metas \subseteq DOMAIN bodies /\ DOMAIN bodies \subseteq folders
      /\ proc[r].item \in Nat \ {0} /\ proc[r].item - 1 \in Nat /\ proc[r].item \in Nat
  BY DEF TypeInv, TypeOK, ProcType, CodeInv, Process
<1>2. CASE Begin(r) \/ Probe(r) \/ Create(r) \/ WriteCatalog(r) \/ Die(r)
  <2>1. ~ Writing(r)'
    BY <1>1, <1>2 DEF Begin, Probe, Create, WriteCatalog, Die, Exit, Writing, Process
  <2> QED  BY <2>1 DEF FreshPart
<1>3. CASE FetchMulti(r)
  <2>1. proc[r].pc = "fetch" /\ proc'[r].pc \in {"pick", "exited"} /\ Dir(r)' = Dir(r) /\ folders' = folders
    BY <1>1, <1>3 DEF FetchMulti, Exit, store, Dir, Process
  <2>2. \A f \in folders' : f.dir # Dir(r)'
    BY <1>1, <2>1 DEF CodePart
  <2> HIDE DEF Dir
  <2> QED  BY <2>1, <2>2 DEF FreshPart
<1>4. CASE Pick(r)
  <2>1. /\ proc[r].pc = "pick" /\ proc'[r].pc = "body" /\ proc'[r].batch = b
        /\ proc'[r].item = proc[r].item /\ proc'[r].suffix = FreeSuffix(r)
        /\ Dir(r)' = Dir(r) /\ folders' = folders
    BY <1>1, <1>4 DEF Pick, store, Dir, Process
  <2>2. Item(r)' = Item(r) /\ Begun(r)' = Begun(r)
    BY <2>1 DEF Item, Begun
  <2>3. Folder(r, proc[r].suffix)' = Folder(r, FreeSuffix(r))
    BY <2>1, <2>2 DEF Folder
  <2>4. /\ Folder(r, FreeSuffix(r)) \notin folders
        /\ FreeSuffix(r) <= count(Item(r), proc[r].item)
    BY <1>4, PickFresh
  <2>5. Writing(r)
    BY <2>1 DEF Writing
  <2> HIDE DEF Dir, Folder, Item, Begun
  <2> QED  BY <2>1, <2>2, <2>3, <2>4, <2>5 DEF FreshPart, Twins
<1>5. CASE WriteBody(r) \/ BodyFails(r)
  <2> DEFINE folder == Folder(r, proc[r].suffix)
  <2>1. /\ proc[r].pc = "body" /\ folders' = folders \cup {folder} /\ metas' = metas
        /\ proc'[r].suffix = proc[r].suffix /\ proc'[r].batch = b /\ Dir(r)' = Dir(r)
        /\ \/ proc'[r].pc = "meta" /\ proc'[r].item = proc[r].item
           \/ proc'[r].pc = "pick" /\ proc'[r].item = proc[r].item + 1
           \/ proc'[r].pc = "exited"
    <3>1. folders' = folders \cup {folder} /\ metas' = metas
      BY <1>5, BodyStore
    <3>2. CASE WriteBody(r)
      BY <1>1, <3>1, <3>2, BodyWritten DEF Dir
    <3>3. CASE BodyFails(r)
      BY <1>1, <3>1, <3>3 DEF BodyFails, Exit, Dir, Process
    <3> QED  BY <1>5, <3>2, <3>3
  <2>2. CASE proc'[r].pc = "exited"
    BY <2>2 DEF FreshPart, Writing
  <2>3. CASE proc'[r].pc # "exited"
    <3>1. Begun(r) = proc[r].item - 1 /\ Begun(r)' = proc[r].item
      <4>1. proc[r].item + 1 - 1 = proc[r].item  BY <1>1
      <4>2. CASE proc'[r].pc = "meta"  BY <2>1, <4>2 DEF Begun
      <4>3. CASE proc'[r].pc = "pick"
        <5>1. proc'[r].item - 1 = proc[r].item  BY <1>1, <2>1, <4>3
        <5> QED  BY <2>1, <4>3, <5>1 DEF Begun
      <4> QED  BY <2>1, <2>3, <4>2, <4>3
    <3>2. folder \notin folders /\ folder.suffix = proc[r].suffix
          /\ folder.suffix <= count(folder, proc[r].item)
      <4>1. Writing(r)  BY <2>1 DEF Writing
      <4>2. folder \notin folders /\ proc[r].suffix <= count(Item(r), proc[r].item)
        BY <2>1, <4>1 DEF FreshPart
      <4>3. folder.suffix = proc[r].suffix  BY DEF Folder
      <4> QED  BY <4>2, <4>3, FolderTwins
    <3>3. ASSUME NEW f \in folders', f.dir = Dir(r)
          PROVE  f.suffix <= count(f, proc[r].item)
      <4>1. CASE f = folder
        BY <3>2, <4>1
      <4>2. CASE f # folder
        <5>1. f \in folders /\ f.suffix \in Nat
          BY <2>1, <4>2, CaptureConstants DEF TypeInv, TypeOK, FolderType
        <5>2. f.suffix <= count(f, proc[r].item - 1)
          BY <2>1, <3>1, <3>3, <5>1 DEF FreshPart, Writing
        <5>3. /\ count(f, proc[r].item - 1) <= count(f, proc[r].item)
              /\ count(f, proc[r].item - 1) \in Nat /\ count(f, proc[r].item) \in Nat
          <6>1. proc[r].item - 1 <= proc[r].item  BY <1>1
          <6> HIDE DEF b
          <6> QED  BY <1>1, <6>1, TwinFacts
        <5> HIDE DEF count
        <5> QED  BY <5>1, <5>2, <5>3
      <4> QED  BY <4>1, <4>2
    <3>4. Folder(r, proc[r].suffix)' \notin DOMAIN metas' \/ proc'[r].pc # "meta"
      <4>1. ASSUME proc'[r].pc = "meta"
            PROVE  Folder(r, proc[r].suffix)' = folder
        BY <2>1, <4>1 DEF Folder, Item
      <4> QED  BY <1>1, <2>1, <3>2, <4>1
    <3> HIDE DEF Dir, Folder, Item, Begun, folder
    <3>5. \A f \in folders' : f.dir = Dir(r)' => f.suffix <= count(f, Begun(r)')
      BY <2>1, <3>1, <3>3
    <3>6. \A f \in folders' : Cardinality(Twins(proc[r].batch, f, Begun(r)))' = count(f, Begun(r)')
      BY <2>1 DEF Twins
    <3>7. proc'[r].pc # "body"
      BY <2>1, <2>3
    <3> HIDE DEF count
    <3> QED  BY <3>4, <3>5, <3>6, <3>7 DEF FreshPart
  <2> QED  BY <2>2, <2>3
<1>6. CASE WriteMeta(r) \/ MetaFails(r) \/ WriteRunJson(r)
  <2>1. /\ proc[r].pc \in {"meta", "pick"} /\ folders' = folders
        /\ proc'[r].batch = b /\ Dir(r)' = Dir(r)
        /\ proc'[r].pc \in {"pick", "catalog"}
        /\ IF proc[r].pc = "meta" THEN proc'[r].item = proc[r].item + 1 ELSE proc'[r].item = proc[r].item
    BY <1>1, <1>6 DEF WriteMeta, MetaFails, WriteRunJson, store, Dir, Process
  <2>2. Begun(r)' = Begun(r)
    <3>1. proc[r].item + 1 - 1 = proc[r].item  BY <1>1
    <3>2. CASE proc[r].pc = "meta"
      <4>1. proc'[r].item - 1 = proc[r].item  BY <1>1, <2>1, <3>2
      <4> QED  BY <2>1, <3>2, <4>1 DEF Begun
    <3>3. CASE proc[r].pc # "meta"  BY <2>1, <3>3 DEF Begun
    <3> QED  BY <3>2, <3>3
  <2>3. Writing(r)
    BY <2>1 DEF Writing
  <2> HIDE DEF Dir, Begun
  <2> QED  BY <2>1, <2>2, <2>3 DEF FreshPart, Twins
<1> QED  BY <1>2, <1>3, <1>4, <1>5, <1>6 DEF Step

StoreInv == TypeInv /\ OwnInv /\ CodeInv /\ FreshInv

LEMMA StoreInvariant ==
  ASSUME ~ Concurrent, Namesakes
  PROVE  Spec => []StoreInv
<1>1. Init => FreshInv
  BY DEF Init, FreshInv, FreshPart, Writing
<1>2. TypeInv /\ OwnInv /\ CodeInv /\ FreshInv /\ [Next]_vars => FreshInv'
  <2> SUFFICES ASSUME TypeInv, OwnInv, CodeInv, FreshInv, [Next]_vars
               PROVE  FreshInv'
    OBVIOUS
  <2>1. CASE UNCHANGED vars
    <3>1. proc' = proc /\ folders' = folders /\ metas' = metas
      BY <2>1 DEF vars, store
    <3>2. ASSUME NEW r \in Run, FreshPart(r)
          PROVE  FreshPart(r)'
      <4>1. /\ Dir(r)' = Dir(r) /\ Item(r)' = Item(r) /\ Begun(r)' = Begun(r)
            /\ Folder(r, proc[r].suffix)' = Folder(r, proc[r].suffix)
            /\ Writing(r)' <=> Writing(r)
        BY <3>1 DEF Dir, Item, Begun, Folder, Writing
      <4> HIDE DEF Dir, Item, Begun, Folder
      <4> QED  BY <3>1, <3>2, <4>1 DEF FreshPart, Twins
    <3> QED  BY <3>2 DEF FreshInv
  <2>2. ASSUME NEW s \in Run, Step(s)
        PROVE  FreshInv'
    <3>1. ASSUME NEW r \in Run
          PROVE  FreshPart(r)'
      BY <2>2, FreshElsewhere, FreshStep DEF FreshInv
    <3> QED  BY <3>1 DEF FreshInv
  <2> QED  BY <2>1, <2>2 DEF Next, Step
<1> QED  BY <1>1, <1>2, CodeInvariant, PTL DEF Spec, StoreInv

\* What is written has a name of its own.
LEMMA WritesOnce ==
  ASSUME StoreInv, NEW r \in Run, Step(r)
  PROVE  /\ \A f \in DOMAIN bodies : f \in DOMAIN bodies' /\ bodies'[f] = bodies[f]
         /\ \A f \in DOMAIN metas : f \in DOMAIN metas' /\ metas'[f] = metas[f]
         /\ \A d \in DOMAIN runs : d \in DOMAIN runs' /\ runs'[d] = runs[d]
<1>1. FreshPart(r) /\ CodePart(r) /\ DOMAIN bodies \subseteq folders
  BY DEF StoreInv, FreshInv, CodeInv, TypeInv, TypeOK
<1>2. CASE UNCHANGED <<bodies, metas, runs>>
  BY <1>2
<1>3. CASE proc[r].pc = "body" /\ (WriteBody(r) \/ BodyFails(r) \/ CutBody(r))
  <2>1. Folder(r, proc[r].suffix) \notin DOMAIN bodies
    BY <1>1, <1>3 DEF FreshPart, Writing
  <2>2. /\ \A f : f # Folder(r, proc[r].suffix) =>
             /\ f \in DOMAIN bodies' <=> f \in DOMAIN bodies
             /\ f \in DOMAIN bodies => bodies'[f] = bodies[f]
        /\ UNCHANGED <<metas, runs>>
    BY <1>3, BodyStore
  <2> HIDE DEF Folder
  <2> QED  BY <2>1, <2>2
<1>4. CASE WriteMeta(r)
  <2>1. Folder(r, proc[r].suffix) \notin DOMAIN metas
    BY <1>1, <1>4 DEF WriteMeta, FreshPart, Writing
  <2>2. metas' = Written(Folder(r, proc[r].suffix), Item(r), metas) /\ UNCHANGED <<bodies, runs>>
    BY <1>4 DEF WriteMeta
  <2> HIDE DEF Folder, Item
  <2> QED  BY <2>1, <2>2 DEF Written
<1>5. CASE WriteRunJson(r)
  <2>1. Dir(r) \notin DOMAIN runs
    BY <1>1, <1>5 DEF WriteRunJson, CodePart
  <2> QED  BY <1>5, <2>1 DEF WriteRunJson, Written
<1> QED  BY <1>2, <1>3, <1>4, <1>5
         DEF Step, Begin, Probe, Create, FetchMulti, Pick, WriteBody, BodyFails, MetaFails, WriteCatalog,
             Die, store

\* No write of any run destroys what is there, even where numbers come twice.
THEOREM NothingLost ==
  ASSUME ~ Concurrent, Namesakes
  PROVE  Spec => NothingOverwritten
<1>1. StoreInv /\ [Next]_vars =>
        [/\ \A f \in DOMAIN bodies : f \in DOMAIN bodies' /\ bodies'[f] = bodies[f]
         /\ \A f \in DOMAIN metas : f \in DOMAIN metas' /\ metas'[f] = metas[f]
         /\ \A d \in DOMAIN runs : d \in DOMAIN runs' /\ runs'[d] = runs[d]]_vars
  BY WritesOnce DEF Next, Step
<1> QED  BY <1>1, StoreInvariant, PTL DEF Spec, NothingOverwritten
----
(* The catalogue is complete *)

\* The folders of a run directory that have a meta.json.
Listed(d) == {f \in DOMAIN metas : f.dir = d}

\* How many of the first n items are entries of the page.
LeftOver(b, n) == IF n <= 1 + Len(b.also) THEN 0 ELSE n - 1 - Len(b.also)

LEMMA LeftOverFacts ==
  ASSUME NEW b, Len(b.also) \in Nat, NEW n \in Nat
  PROVE  /\ n # 0 => LeftOver(b, n) = IF n > 1 + Len(b.also) THEN LeftOver(b, n - 1) + 1
                                     ELSE LeftOver(b, n - 1)
         /\ 1 + Len(b.also) <= n => (1 + Len(b.also)) + LeftOver(b, n) = n
<1> PICK m : m = Len(b.also)  OBVIOUS
<1>1. m \in Nat /\ \A k : LeftOver(b, k) = IF k <= 1 + m THEN 0 ELSE k - 1 - m
  BY DEF LeftOver
<1> QED  BY <1>1

WholeCatalog(r) ==
  /\ catalogs[Dir(r)] = Restrict(metas, {f \in DOMAIN metas : f.dir = Dir(r)})
  /\ proc[r].failed = 0 /\ Dir(r) \in DOMAIN runs =>
       Cardinality(DOMAIN catalogs[Dir(r)]) = runs[Dir(r)].fetched + runs[Dir(r)].present

CountPart(r) ==
  /\ Writing(r) =>
       /\ IsFiniteSet(Listed(Dir(r)))
       /\ proc[r].item <= 1 + Len(Items(proc[r].batch))
       /\ proc[r].failed = 0 => /\ Cardinality(Listed(Dir(r))) = proc[r].item - 1
                                /\ proc[r].present = LeftOver(proc[r].batch, Begun(r))
       /\ proc[r].pc = "catalog" /\ Dir(r) \in DOMAIN runs =>
            runs[Dir(r)] = [fetched |-> 1 + Len(proc[r].batch.also), present |-> proc[r].present]
  /\ Ended(r, 0) /\ Dir(r) \in DOMAIN catalogs => WholeCatalog(r)

\* As many meta.json files as items, until one is not written.
CountInv == \A r \in Run : CountPart(r)

LEMMA CountElsewhere ==
  ASSUME TypeInv, OwnInv, CodeInv, NEW r \in Run, CountPart(r), NEW s \in Run \ {r}, Step(s)
  PROVE  CountPart(r)'
<1>1. proc'[r] = proc[r]
  BY ProcStep DEF TypeInv
<1>2. (Writing(r)' <=> Writing(r)) /\ (Ended(r, 0)' <=> Ended(r, 0)) /\ Begun(r)' = Begun(r)
  BY <1>1 DEF Writing, Ended, Begun
<1>3. CASE ~ proc[r].owns
  <2>1. ~ Writing(r) /\ ~ Ended(r, 0)
    BY <1>3 DEF TypeInv, Progress, CodeInv, CodePart
  <2> QED  BY <1>2, <2>1 DEF CountPart
<1>4. CASE proc[r].owns
  <2>1. Dir(r)' = Dir(r) /\ Untouched(Dir(r))
    BY <1>4, Private
  <2> HIDE DEF Dir
  <2>2. Listed(Dir(r))' = Listed(Dir(r))
    BY <2>1 DEF Listed, Untouched
  <2>3. /\ Dir(r)' \in DOMAIN runs' <=> Dir(r) \in DOMAIN runs
        /\ Dir(r)' \in DOMAIN catalogs' <=> Dir(r) \in DOMAIN catalogs
        /\ Dir(r) \in DOMAIN runs => runs'[Dir(r)'] = runs[Dir(r)]
        /\ Dir(r) \in DOMAIN catalogs => catalogs'[Dir(r)'] = catalogs[Dir(r)]
    BY <2>1 DEF Untouched
  <2>4. Restrict(metas, {f \in DOMAIN metas : f.dir = Dir(r)})' = Restrict(metas, {f \in DOMAIN metas : f.dir = Dir(r)})
    BY <2>1, <2>2 DEF Restrict, Listed, Untouched
  <2>5. Ended(r, 0)' /\ Dir(r)' \in DOMAIN catalogs' => WholeCatalog(r)'
    BY <1>1, <1>2, <2>3, <2>4 DEF CountPart, WholeCatalog
  <2> QED  BY <1>1, <1>2, <2>2, <2>3, <2>5 DEF CountPart, LeftOver
<1> QED  BY <1>3, <1>4

LEMMA CountStep ==
  ASSUME StoreInv, NEW r \in Run, CountPart(r), Step(r)
  PROVE  CountPart(r)'
<1> DEFINE b == proc[r].batch
           i == proc[r].item
<1>1. /\ proc \in [Run -> Process] /\ proc[r] \in Process /\ ProcType /\ Progress
      /\ CodePart(r) /\ FreshPart(r)
      /\ DOMAIN metas \subseteq DOMAIN bodies /\ DOMAIN bodies \subseteq folders
      /\ i \in Nat \ {0} /\ i - 1 \in Nat /\ i \in Nat /\ i + 1 - 1 = i
      /\ proc[r].failed \in Nat /\ proc[r].failed + 1 # 0 /\ proc[r].present \in Nat
  BY DEF StoreInv, TypeInv, TypeOK, ProcType, CodeInv, FreshInv, Process
<1>2. Writing(r) =>
        /\ b \in Good /\ Len(b.also) \in Nat /\ Items(b) \in Seq(ItemType) /\ Len(Items(b)) \in Nat
        /\ 1 + Len(b.also) <= Len(Items(b))
  <2> SUFFICES ASSUME Writing(r)
               PROVE  /\ b \in Good /\ Len(b.also) \in Nat /\ Items(b) \in Seq(ItemType)
                      /\ Len(Items(b)) \in Nat /\ 1 + Len(b.also) <= Len(Items(b))
    OBVIOUS
  <2>1. b \in Good  BY <1>1 DEF Progress
  <2> HIDE DEF b
  <2>2. /\ Len(b.also) \in Nat /\ Items(b) \in Seq(ItemType)
        /\ 1 + Len(b.also) <= Len(Items(b))
    BY <2>1, ItemFacts
  <2> QED  BY <2>1, <2>2
<1>3. CASE Begin(r) \/ Probe(r) \/ Create(r) \/ Die(r)
  <2>1. ~ Writing(r)' /\ ~ Ended(r, 0)'
    BY <1>1, <1>3 DEF Begin, Probe, Create, Die, Exit, Writing, Ended, Process
  <2> QED  BY <2>1 DEF CountPart
<1>4. CASE FetchMulti(r)
  <2>1. /\ proc[r].pc = "fetch" /\ Dir(r)' = Dir(r) /\ UNCHANGED <<metas, runs>>
        /\ \/ proc'[r].pc = "pick" /\ proc'[r].batch \in Good /\ proc'[r].item = 1 /\ proc'[r].present = 0
           \/ Ended(r, 1)'
    <3>1. \/ Exit(r, 1)
          \/ \E x \in Good : proc' = [proc EXCEPT ![r].pc = "pick", ![r].batch = x]
      BY <1>4 DEF FetchMulti, Good
    <3>2. proc[r].pc = "fetch" /\ UNCHANGED <<metas, runs>> /\ i = 1 /\ proc[r].present = 0
      BY <1>1, <1>4 DEF FetchMulti, store, CodePart
    <3>3. CASE Exit(r, 1)
      BY <1>1, <3>2, <3>3 DEF Exit, Dir, Ended, Process
    <3>4. ASSUME NEW x \in Good, proc' = [proc EXCEPT ![r].pc = "pick", ![r].batch = x]
          PROVE  /\ Dir(r)' = Dir(r) /\ proc'[r].pc = "pick" /\ proc'[r].batch \in Good
                 /\ proc'[r].item = 1 /\ proc'[r].present = 0
      BY <1>1, <3>2, <3>4 DEF Dir, Process
    <3> QED  BY <3>1, <3>2, <3>3, <3>4
  <2>2. CASE Ended(r, 1)'
    BY <2>2 DEF CountPart, Ended, Writing
  <2>3. CASE proc'[r].pc = "pick" /\ proc'[r].batch \in Good /\ proc'[r].item = 1 /\ proc'[r].present = 0
    <3>1. Listed(Dir(r))' = {}
      BY <1>1, <2>1 DEF CodePart, Listed
    <3>2. IsFiniteSet(Listed(Dir(r))') /\ Cardinality(Listed(Dir(r))') = 0
      BY <3>1, FS_EmptySet
    <3>3. Begun(r)' = 0
      BY <2>3 DEF Begun
    <3>4. PICK x : x = proc'[r].batch  OBVIOUS
    <3>5. Len(x.also) \in Nat /\ Items(x) \in Seq(ItemType)
      BY <2>3, <3>4, ItemFacts
    <3>6. 1 <= 1 + Len(Items(x)) /\ 0 <= 1 + Len(x.also)
      BY <3>5
    <3>7. ~ Ended(r, 0)'
      BY <2>3 DEF Ended
    <3> HIDE DEF Dir
    <3> QED  BY <2>3, <3>2, <3>3, <3>4, <3>6, <3>7 DEF CountPart, LeftOver
  <2> QED  BY <2>1, <2>2, <2>3
<1>5. CASE Pick(r)
  <2>1. /\ proc[r].pc = "pick" /\ proc'[r].pc = "body" /\ proc'[r].batch = b
        /\ proc'[r].item = i /\ proc'[r].failed = proc[r].failed /\ proc'[r].present = proc[r].present
        /\ Dir(r)' = Dir(r) /\ UNCHANGED <<metas, runs, catalogs>>
    BY <1>1, <1>5 DEF Pick, store, Dir, Process
  <2>2. Begun(r)' = Begun(r) /\ Writing(r) /\ ~ Ended(r, 0)'
    BY <2>1 DEF Begun, Writing, Ended
  <2>3. Listed(Dir(r))' = Listed(Dir(r))
    BY <2>1 DEF Listed
  <2> HIDE DEF Dir, Begun
  <2> QED  BY <2>1, <2>2, <2>3 DEF CountPart, LeftOver
<1>6. CASE WriteBody(r)
  <2>1. /\ proc[r].pc = "body" /\ proc'[r].pc = "meta" /\ proc'[r].batch = b
        /\ proc'[r].item = i /\ (proc'[r].failed = 0 => proc[r].failed = 0)
        /\ Dir(r)' = Dir(r) /\ UNCHANGED <<metas, runs, catalogs>>
    <3>1. UNCHANGED <<metas, runs, catalogs>>
      BY <1>6, BodyStore
    <3>2. proc'[r].failed \in {proc[r].failed, proc[r].failed + 1}
      BY <1>1, <1>6, BodyWritten
    <3> QED  BY <1>1, <1>6, <3>1, <3>2, BodyWritten DEF Dir
  <2>2. proc'[r].present = IF Item(r).part = "present" THEN proc[r].present + 1 ELSE proc[r].present
    BY <1>1, <1>6, BodyWritten
  <2>3. Begun(r) = i - 1 /\ Begun(r)' = i /\ Writing(r) /\ ~ Ended(r, 0)'
    BY <2>1 DEF Begun, Writing, Ended
  <2>4. Listed(Dir(r))' = Listed(Dir(r))
    BY <2>1 DEF Listed
  <2>5. Item(r).part = "present" <=> i > 1 + Len(b.also)
    <3>1. ~ AllWritten(r)
      BY <1>1, <2>1 DEF Progress
    <3>2. i \in 1 .. Len(Items(b)) /\ b \in Good /\ Len(b.also) \in Nat
      BY <1>1, <1>2, <2>3, <3>1, Current
    <3>3. (i <= 1 + Len(b.also) => Item(r).part = "fetched")
          /\ (i > 1 + Len(b.also) => Item(r).part = "present")
      BY <3>2, ItemFacts DEF Item
    <3>4. i <= 1 + Len(b.also) \/ i > 1 + Len(b.also)
      BY <1>1, <3>2
    <3> QED  BY <3>3, <3>4
  <2>6. LeftOver(b, i) = IF i > 1 + Len(b.also) THEN LeftOver(b, i - 1) + 1 ELSE LeftOver(b, i - 1)
    <3>1. Len(b.also) \in Nat
      BY <1>2, <2>3
    <3> HIDE DEF b, i
    <3> QED  BY <1>1, <3>1, LeftOverFacts
  <2>7. proc[r].failed = 0 => proc'[r].present = LeftOver(b, i)
    BY <2>2, <2>3, <2>5, <2>6 DEF CountPart
  <2> HIDE DEF Dir, Begun, Item
  <2> QED  BY <2>1, <2>3, <2>4, <2>7 DEF CountPart, LeftOver
<1>7. CASE BodyFails(r) \/ MetaFails(r)
  <2>1. CASE BodyFails(r) /\ i = 1
    <3>1. Ended(r, 1)'
      BY <1>1, <2>1 DEF BodyFails, Exit, Ended, Process
    <3> QED  BY <3>1 DEF CountPart, Ended, Writing
  <2>2. CASE MetaFails(r) \/ i # 1
    <3>1. /\ proc[r].pc \in {"body", "meta"} /\ proc'[r].pc = "pick" /\ proc'[r].batch = b
          /\ proc'[r].item = i + 1 /\ proc'[r].failed = proc[r].failed + 1
          /\ Dir(r)' = Dir(r) /\ UNCHANGED <<metas, runs, catalogs>>
      <4>1. CASE MetaFails(r)
        BY <1>1, <4>1 DEF MetaFails, store, Dir, Process
      <4>2. CASE BodyFails(r) /\ i # 1
        <5>1. UNCHANGED <<metas, runs, catalogs>>
          BY <4>2, BodyStore
        <5> QED  BY <1>1, <4>2, <5>1 DEF BodyFails, Dir, Process
      <4> QED  BY <1>7, <2>2, <4>1, <4>2
    <3>2. Writing(r) /\ ~ Ended(r, 0)' /\ i <= Len(Items(b))
      BY <1>1, <1>2, <3>1 DEF Writing, Ended, Progress, AllWritten
    <3>3. Listed(Dir(r))' = Listed(Dir(r))
      BY <3>1 DEF Listed
    <3>4. i + 1 <= 1 + Len(Items(b))
      BY <1>1, <1>2, <3>2
    <3> HIDE DEF Dir
    <3> QED  BY <1>1, <3>1, <3>2, <3>3, <3>4 DEF CountPart
  <2> QED  BY <1>7, <2>1, <2>2
<1>8. CASE WriteMeta(r)
  <2> DEFINE folder == Folder(r, proc[r].suffix)
  <2>1. /\ proc[r].pc = "meta" /\ proc'[r].pc = "pick" /\ proc'[r].batch = b
        /\ proc'[r].item = i + 1 /\ proc'[r].failed = proc[r].failed /\ proc'[r].present = proc[r].present
        /\ Dir(r)' = Dir(r) /\ UNCHANGED <<runs, catalogs>>
    BY <1>1, <1>8 DEF WriteMeta, Dir, Process
  <2>2. Writing(r) /\ ~ Ended(r, 0)' /\ i <= Len(Items(b))
    BY <1>1, <1>2, <2>1 DEF Writing, Ended, Progress, AllWritten
  <2>3. Begun(r) = i /\ Begun(r)' = i
    <3>1. proc'[r].item - 1 = i  BY <1>1, <2>1
    <3> QED  BY <2>1, <3>1 DEF Begun
  <2>4. DOMAIN metas' = DOMAIN metas \cup {folder} /\ folder.dir = Dir(r)
    BY <1>8 DEF WriteMeta, Written, Folder
  <2>5. folder \notin DOMAIN metas
    BY <1>1, <2>1, <2>2 DEF FreshPart
  <2> HIDE DEF folder, Dir, Begun
  <2>6. Listed(Dir(r))' = Listed(Dir(r)) \cup {folder} /\ folder \notin Listed(Dir(r))
    BY <2>1, <2>4, <2>5 DEF Listed
  <2>7. /\ IsFiniteSet(Listed(Dir(r))')
        /\ Cardinality(Listed(Dir(r))') = Cardinality(Listed(Dir(r))) + 1
    BY <2>2, <2>6, FS_AddElement DEF CountPart
  <2>8. proc[r].failed = 0 => /\ Cardinality(Listed(Dir(r))') = proc'[r].item - 1
                             /\ proc[r].present = LeftOver(b, i)
    BY <1>1, <2>1, <2>2, <2>3, <2>7 DEF CountPart
  <2>9. i + 1 <= 1 + Len(Items(b))
    BY <1>1, <1>2, <2>2
  <2> QED  BY <2>1, <2>2, <2>3, <2>7, <2>8, <2>9 DEF CountPart, LeftOver
<1>9. CASE WriteRunJson(r)
  <2> DEFINE count == [fetched |-> 1 + Len(b.also), present |-> proc[r].present]
  <2>1. /\ proc[r].pc = "pick" /\ proc'[r].pc = "catalog" /\ proc'[r].batch = b
        /\ proc'[r].item = i /\ proc'[r].failed = proc[r].failed /\ proc'[r].present = proc[r].present
        /\ Dir(r)' = Dir(r) /\ UNCHANGED <<metas, catalogs>>
        /\ runs' = Written(Dir(r), count, runs) \/ runs' = runs
    BY <1>1, <1>9 DEF WriteRunJson, Dir, Process
  <2>2. Begun(r)' = Begun(r) /\ Writing(r) /\ ~ Ended(r, 0)'
    BY <2>1 DEF Begun, Writing, Ended
  <2>3. Listed(Dir(r))' = Listed(Dir(r))
    BY <2>1 DEF Listed
  <2>4. Dir(r) \in DOMAIN runs' => runs'[Dir(r)] = count
    <3>1. Dir(r) \notin DOMAIN runs
      BY <1>1, <2>1 DEF CodePart
    <3> HIDE DEF count, Dir
    <3> QED  BY <2>1, <3>1 DEF Written
  <2> HIDE DEF Dir, Begun
  <2> QED  BY <2>1, <2>2, <2>3, <2>4 DEF CountPart, LeftOver
<1>10. CASE WriteCatalog(r)
  <2>1. /\ proc[r].pc = "catalog" /\ proc'[r].pc = "exited" /\ proc'[r].failed = proc[r].failed
        /\ Dir(r)' = Dir(r) /\ UNCHANGED <<metas, runs>>
        /\ catalogs' = Written(Dir(r), ReadMetas(Dir(r)), catalogs) \/ catalogs' = catalogs
    BY <1>1, <1>10 DEF WriteCatalog, Exit, Dir, Process
  <2>2. Writing(r) /\ ~ Writing(r)' /\ Dir(r) \notin DOMAIN catalogs /\ i > Len(Items(b))
    BY <1>1, <2>1 DEF Writing, CodePart, AllWritten
  <2> HIDE DEF Dir
  <2>3. ASSUME Dir(r)' \in DOMAIN catalogs'
        PROVE  catalogs'[Dir(r)'] = Restrict(metas, Listed(Dir(r)))
    BY <2>1, <2>2, <2>3 DEF Written, ReadMetas, Listed
  <2>4. ASSUME proc[r].failed = 0, Dir(r) \in DOMAIN runs
        PROVE  Cardinality(Listed(Dir(r))) = runs[Dir(r)].fetched + runs[Dir(r)].present
    <3>1. /\ Cardinality(Listed(Dir(r))) = i - 1 /\ i <= 1 + Len(Items(b))
          /\ proc[r].present = LeftOver(b, i - 1)
          /\ runs[Dir(r)] = [fetched |-> 1 + Len(b.also), present |-> proc[r].present]
      BY <2>1, <2>2, <2>4 DEF CountPart, Begun
    <3>2. i - 1 = Len(Items(b))
      BY <1>1, <1>2, <2>2, <3>1
    <3>3. (1 + Len(b.also)) + LeftOver(b, Len(Items(b))) = Len(Items(b))
      <4> HIDE DEF b, i
      <4> QED  BY <1>2, <2>2, LeftOverFacts
    <3> QED  BY <3>1, <3>2, <3>3
  <2>5. DOMAIN Restrict(metas, Listed(Dir(r))) = Listed(Dir(r))
    BY DEF Restrict
  <2>6. {f \in DOMAIN metas' : f.dir = Dir(r)'} = Listed(Dir(r))
    BY <2>1 DEF Listed
  <2>7. Dir(r)' \in DOMAIN catalogs' => WholeCatalog(r)'
    <3> HIDE DEF Listed
    <3> QED  BY <2>1, <2>3, <2>4, <2>5, <2>6 DEF WholeCatalog
  <2> QED  BY <2>2, <2>7 DEF CountPart
<1> QED  BY <1>3, <1>4, <1>5, <1>6, <1>7, <1>8, <1>9, <1>10 DEF Step

LEMMA CountInvariant ==
  ASSUME ~ Concurrent, Namesakes
  PROVE  Spec => []CountInv
<1>1. Init => CountInv
  BY DEF Init, CountInv, CountPart, Ended, Writing
<1>2. StoreInv /\ CountInv /\ [Next]_vars => CountInv'
  <2> SUFFICES ASSUME StoreInv, CountInv, [Next]_vars
               PROVE  CountInv'
    OBVIOUS
  <2>1. CASE UNCHANGED vars
    <3>1. proc' = proc /\ metas' = metas /\ runs' = runs /\ catalogs' = catalogs
      BY <2>1 DEF vars, store
    <3>2. ASSUME NEW r \in Run, CountPart(r)
          PROVE  CountPart(r)'
      <4>1. /\ Dir(r)' = Dir(r) /\ Begun(r)' = Begun(r)
            /\ Writing(r)' <=> Writing(r)
            /\ Ended(r, 0)' <=> Ended(r, 0)
        BY <3>1 DEF Dir, Begun, Writing, Ended
      <4>2. Listed(Dir(r))' = Listed(Dir(r))
        BY <3>1, <4>1 DEF Listed
      <4>3. WholeCatalog(r) => WholeCatalog(r)'
        <5> HIDE DEF Dir
        <5> QED  BY <3>1, <4>1 DEF WholeCatalog
      <4> HIDE DEF Dir, Begun
      <4> QED  BY <3>1, <3>2, <4>1, <4>2, <4>3 DEF CountPart, LeftOver
    <3> QED  BY <3>2 DEF CountInv
  <2>2. ASSUME NEW s \in Run, Step(s)
        PROVE  CountInv'
    <3>1. ASSUME NEW r \in Run
          PROVE  CountPart(r)'
      BY <2>2, CountElsewhere, CountStep DEF CountInv, StoreInv
    <3> QED  BY <3>1 DEF CountInv
  <2> QED  BY <2>1, <2>2 DEF Next, Step
<1> QED  BY <1>1, <1>2, StoreInvariant, PTL DEF Spec

\* A catalogue lists all that its run has written, and when no write failed it
\* has as many entries as run.json counts.
THEOREM CompleteCatalogs ==
  ASSUME ~ Concurrent, Namesakes
  PROVE  Spec => []CatalogComplete
<1>1. CountInv => CatalogComplete
  BY DEF CountInv, CountPart, CatalogComplete, WholeCatalog, Ended
<1> QED  BY <1>1, CountInvariant, PTL
----
(* What is listed as present lies apart *)

\* Folder f holds item i of batch b.
Holds(f, b, i) == /\ i \in 1 .. Len(Items(b)) /\ metas[f] = Items(b)[i]
                  /\ f.part = metas[f].part /\ f.seq = metas[f].seq

MetaPart(r) ==
  Writing(r) =>
    /\ \A f \in Listed(Dir(r)) : \E i \in 1 .. proc[r].item - 1 : Holds(f, proc[r].batch, i)
    /\ \A f, g \in Listed(Dir(r)) :
         f # g /\ f.part = "present" /\ g.part = "present" => f.seq # g.seq

\* No fetch of the batch ended where entry f points to.
NotFinal(f, b) == metas[f].url \notin FetchedAbs(b) \/ metas[f].url = NoUrl

\* A catalogue is of a run that has ended, and what it lists is there.
CatalogPart(d) ==
  /\ \E r \in Run : /\ Ended(r, 0) /\ Dir(r) = d /\ proc[r].batch \in Good
                    /\ \A f \in DOMAIN catalogs[d] :
                         f.part = "present" => NotFinal(f, proc[r].batch)
  /\ DOMAIN catalogs[d] \subseteq Listed(d)
  /\ \A f, g \in DOMAIN catalogs[d] :
       f.part = "present" /\ f # g =>
         /\ g.part = "fetched" => g.seq < f.seq
         /\ g.part = "present" => g.seq # f.seq
         /\ g.part = "fetched" /\ metas[g].ok => metas[g].url # metas[f].url \/ metas[f].url = NoUrl

\* What has a meta.json is an item that was reached, each entry once.
MetaInv == /\ \A r \in Run : MetaPart(r)
           /\ \A d \in DOMAIN catalogs : CatalogPart(d)

LEMMA MetaElsewhere ==
  ASSUME TypeInv, OwnInv, NEW r \in Run, MetaPart(r), NEW s \in Run \ {r}, Step(s)
  PROVE  MetaPart(r)'
<1>1. proc'[r] = proc[r]
  BY ProcStep DEF TypeInv
<1>2. SUFFICES ASSUME Writing(r)
               PROVE  MetaPart(r)'
  BY <1>1 DEF MetaPart, Writing
<1>3. Dir(r)' = Dir(r) /\ Untouched(Dir(r))
  BY <1>2, Private DEF TypeInv, Progress
<1> HIDE DEF Dir
<1>4. Listed(Dir(r))' = Listed(Dir(r))
  BY <1>3 DEF Listed, Untouched
<1>5. \A f \in Listed(Dir(r)) : metas'[f] = metas[f]
  BY <1>3 DEF Listed, Untouched
<1>6. ASSUME NEW f \in Listed(Dir(r)), NEW i, Holds(f, proc[r].batch, i)
      PROVE  Holds(f, proc[r].batch, i)'
  BY <1>1, <1>5, <1>6 DEF Holds
<1> QED  BY <1>1, <1>2, <1>4, <1>6 DEF MetaPart

LEMMA MetaStep ==
  ASSUME TypeInv, OwnInv, CodeInv, NEW r \in Run, MetaPart(r), Step(r)
  PROVE  MetaPart(r)'
<1> DEFINE b == proc[r].batch
           i == proc[r].item
<1>1. /\ proc \in [Run -> Process] /\ proc[r] \in Process /\ ProcType /\ Progress /\ CodePart(r)
      /\ DOMAIN metas \subseteq DOMAIN bodies /\ DOMAIN bodies \subseteq folders
      /\ i \in Nat \ {0} /\ i - 1 \in Nat /\ i \in Nat /\ i + 1 - 1 = i
  BY DEF TypeInv, TypeOK, ProcType, CodeInv, Process
<1>2. CASE Begin(r) \/ Probe(r) \/ Create(r) \/ WriteCatalog(r) \/ Die(r)
  <2>1. ~ Writing(r)'
    BY <1>1, <1>2 DEF Begin, Probe, Create, WriteCatalog, Die, Exit, Writing, Process
  <2> QED  BY <2>1 DEF MetaPart
<1>3. CASE FetchMulti(r)
  <2>1. proc[r].pc = "fetch" /\ Dir(r)' = Dir(r) /\ metas' = metas
    BY <1>1, <1>3 DEF FetchMulti, Exit, store, Dir, Process
  <2>2. Listed(Dir(r))' = {}
    BY <1>1, <2>1 DEF CodePart, Listed
  <2> HIDE DEF Dir
  <2> QED  BY <2>2 DEF MetaPart
<1>4. CASE Pick(r) \/ WriteBody(r) \/ BodyFails(r) \/ MetaFails(r) \/ WriteRunJson(r)
  <2>1. CASE ~ Writing(r)'
    BY <2>1 DEF MetaPart
  <2>2. CASE Writing(r)'
    <3>1. /\ Writing(r) /\ proc'[r].batch = b /\ proc'[r].item \in {i, i + 1}
          /\ Dir(r)' = Dir(r) /\ metas' = metas
      <4>1. CASE WriteBody(r)
        BY <1>1, <4>1, BodyWritten, BodyStore DEF Dir, Writing
      <4>2. CASE BodyFails(r)
        <5>1. metas' = metas
          BY <4>2, BodyStore
        <5> QED  BY <1>1, <2>2, <4>2, <5>1 DEF BodyFails, Exit, Dir, Writing, Process
      <4>3. CASE Pick(r) \/ MetaFails(r) \/ WriteRunJson(r)
        BY <1>1, <4>3 DEF Pick, MetaFails, WriteRunJson, store, Dir, Writing, Process
      <4> QED  BY <1>4, <4>1, <4>2, <4>3
    <3>2. Listed(Dir(r))' = Listed(Dir(r))
      BY <3>1 DEF Listed
    <3>3. 1 .. i - 1 \subseteq 1 .. proc'[r].item - 1
      BY <1>1, <3>1
    <3>4. ASSUME NEW f, NEW k
          PROVE  Holds(f, b, k)' <=> Holds(f, b, k)
      BY <3>1 DEF Holds
    <3> HIDE DEF Dir
    <3> QED  BY <3>1, <3>2, <3>3, <3>4 DEF MetaPart
  <2> QED  BY <2>1, <2>2
<1>5. CASE WriteMeta(r)
  <2> DEFINE folder == Folder(r, proc[r].suffix)
  <2>1. /\ proc[r].pc = "meta" /\ proc'[r].batch = b /\ proc'[r].item = i + 1
        /\ Dir(r)' = Dir(r) /\ metas' = Written(folder, Item(r), metas)
    BY <1>1, <1>5 DEF WriteMeta, Dir, Process
  <2>2. Writing(r) /\ ~ AllWritten(r)
    BY <1>1, <2>1 DEF Writing, Progress
  <2>3. b \in Good /\ i \in 1 .. Len(Items(b)) /\ Item(r) = Items(b)[i]
    BY <1>1, <2>2, Current DEF Item
  <2>4. folder.dir = Dir(r) /\ folder.part = Item(r).part /\ folder.seq = Item(r).seq
    BY DEF Folder
  <2> HIDE DEF folder, Dir
  <2>5. /\ Listed(Dir(r))' = Listed(Dir(r)) \cup {folder}
        /\ \A f \in Listed(Dir(r)) : f # folder => metas'[f] = metas[f]
        /\ metas'[folder] = Items(b)[i]
    BY <2>1, <2>3, <2>4 DEF Listed, Written
  <2>6. ASSUME NEW f \in Listed(Dir(r))'
        PROVE  \E k \in 1 .. proc'[r].item - 1 : Holds(f, b, k)'
    <3>1. CASE f = folder
      <4>1. PICK k : k = i  OBVIOUS
      <4>2. Holds(f, b, k)'
        BY <2>1, <2>3, <2>4, <2>5, <3>1, <4>1 DEF Holds
      <4>3. k \in 1 .. proc'[r].item - 1
        BY <1>1, <2>1, <4>1
      <4> QED  BY <4>2, <4>3
    <3>2. CASE f # folder
      <4>1. PICK k \in 1 .. i - 1 : Holds(f, b, k)
        BY <2>2, <2>5, <3>2 DEF MetaPart
      <4>2. Holds(f, b, k)'
        BY <2>1, <2>5, <3>2, <4>1 DEF Holds
      <4>3. k \in 1 .. proc'[r].item - 1
        BY <1>1, <2>1
      <4> QED  BY <4>2, <4>3
    <3> QED  BY <3>1, <3>2
  <2>7. ASSUME NEW f \in Listed(Dir(r)), f # folder, f.part = "present", folder.part = "present"
        PROVE  f.seq # folder.seq
    <3>1. PICK k \in 1 .. i - 1 : Holds(f, b, k)
      BY <2>2 DEF MetaPart
    <3>2. Items(b)[k].part = "present" /\ f.seq = Items(b)[k].seq
      BY <2>7, <3>1 DEF Holds
    <3>3. Items(b)[i].part = "present" /\ folder.seq = Items(b)[i].seq
      BY <2>3, <2>4, <2>7
    <3>4. k \in 1 .. Len(Items(b)) /\ k \in Nat /\ k < i /\ Len(b.also) \in Nat /\ CatalogStart(b) \in Nat
      <4>1. Items(b) \in Seq(ItemType) /\ Len(b.also) \in Nat /\ CatalogStart(b) \in Nat
        BY <2>3, ItemFacts, StartsAfter
      <4>2. Len(Items(b)) \in Nat  BY <4>1
      <4> HIDE DEF b, i
      <4> QED  BY <1>1, <2>3, <4>1, <4>2
    <3>5. /\ Items(b)[k].seq = CatalogStart(b) + k - 2 - Len(b.also)
          /\ Items(b)[i].seq = CatalogStart(b) + i - 2 - Len(b.also)
      <4>1. k > 1 + Len(b.also) /\ i > 1 + Len(b.also)
        <5>1. ~ (k <= 1 + Len(b.also)) /\ ~ (i <= 1 + Len(b.also))
          <6> HIDE DEF b, i
          <6> QED  BY <2>3, <3>2, <3>3, <3>4, ItemFacts
        <5> QED  BY <1>1, <3>4, <5>1
      <4> QED  BY <2>3, <3>4, <4>1, ItemFacts
    <3>6. \A x, y, u, v \in Nat : u < v => x + u - 2 - y # x + v - 2 - y  OBVIOUS
    <3> QED  BY <1>1, <3>2, <3>3, <3>4, <3>5, <3>6, ZenonT(60)
  <2>8. \A f, g \in Listed(Dir(r))' :
          f # g /\ f.part = "present" /\ g.part = "present" => f.seq # g.seq
    BY <2>2, <2>5, <2>7 DEF MetaPart
  <2> QED  BY <2>1, <2>6, <2>8 DEF MetaPart
<1> QED  BY <1>2, <1>3, <1>4, <1>5 DEF Step

\* An entry that has a meta.json is no fetch's final URL.
LEMMA ListedPresent ==
  ASSUME TypeInv, NEW r \in Run, MetaPart(r), Writing(r),
         NEW f \in Listed(Dir(r)), f.part = "present"
  PROVE  proc[r].batch \in Good /\ NotFinal(f, proc[r].batch)
<1> PICK b : b = proc[r].batch  OBVIOUS
<1>1. b \in Good
  BY DEF TypeInv, Progress
<1>2. PICK k \in 1 .. Len(Items(b)) : metas[f] = Items(b)[k] /\ f.part = metas[f].part
  BY DEF MetaPart, Holds
<1>3. Items(b) \in Seq(ItemType) /\ Len(Items(b)) \in Nat /\ Len(b.also) \in Nat
  <2>1. Items(b) \in Seq(ItemType) /\ Len(b.also) \in Nat
    BY <1>1, ItemFacts
  <2> QED  BY <2>1
<1>4. ~ (k <= 1 + Len(b.also))
  BY <1>1, <1>2, ItemFacts, ZenonT(60)
<1>5. k > 1 + Len(b.also)
  BY <1>3, <1>4
<1> QED  BY <1>1, <1>2, <1>5, ItemFacts, ZenonT(60) DEF NotFinal

\* What a run has written may be listed together.
LEMMA ListedApart ==
  ASSUME TypeInv, NEW r \in Run, MetaPart(r), Writing(r),
         NEW f \in Listed(Dir(r)), NEW g \in Listed(Dir(r)), f.part = "present", f # g
  PROVE  /\ g.part = "fetched" => g.seq < f.seq
         /\ g.part = "present" => g.seq # f.seq
         /\ g.part = "fetched" /\ metas[g].ok => metas[g].url # metas[f].url \/ metas[f].url = NoUrl
<1> PICK b : b = proc[r].batch  OBVIOUS
<1>1. b \in Good
  BY DEF TypeInv, Progress
<1>2. (\E k \in 1 .. proc[r].item - 1 : Holds(f, b, k)) /\ (\E l \in 1 .. proc[r].item - 1 : Holds(g, b, l))
  BY DEF MetaPart
<1>3. PICK k \in 1 .. Len(Items(b)) : metas[f] = Items(b)[k] /\ f.part = metas[f].part /\ f.seq = metas[f].seq
  BY <1>2 DEF Holds
<1>4. PICK l \in 1 .. Len(Items(b)) : metas[g] = Items(b)[l] /\ g.part = metas[g].part /\ g.seq = metas[g].seq
  BY <1>2 DEF Holds
<1>5. /\ Items(b) \in Seq(ItemType) /\ Len(Items(b)) \in Nat /\ Len(b.also) \in Nat
      /\ CatalogStart(b) \in Nat
  <2>1. Items(b) \in Seq(ItemType) /\ Len(b.also) \in Nat /\ CatalogStart(b) \in Nat
    BY <1>1, ItemFacts, StartsAfter
  <2> QED  BY <2>1
<1>6. /\ k > 1 + Len(b.also) /\ f.seq = CatalogStart(b) + k - 2 - Len(b.also)
      /\ metas[f].url \notin FetchedAbs(b) \/ metas[f].url = NoUrl
  <2>1. ~ (k <= 1 + Len(b.also))
    BY <1>1, <1>3, ItemFacts, ZenonT(60)
  <2>2. k > 1 + Len(b.also)
    BY <1>5, <2>1
  <2> QED  BY <1>1, <1>3, <2>2, ItemFacts, ZenonT(60)
<1>7. ASSUME g.part = "fetched"
      PROVE  /\ g.seq < CatalogStart(b) /\ g.seq \in Nat
             /\ metas[g].ok => metas[g].url \in FetchedAbs(b) \/ metas[g].url = NoUrl
  <2>1. ~ (l > 1 + Len(b.also))
    BY <1>1, <1>4, <1>7, ItemFacts, ZenonT(60)
  <2>2. l <= 1 + Len(b.also)
    BY <1>5, <2>1
  <2>3. Items(b)[l] \in ItemType
    BY <1>4, <1>5
  <2>4. Items(b)[l].seq \in Nat
    BY <2>3 DEF ItemType
  <2> QED  BY <1>1, <1>4, <2>2, <2>4, ItemFacts, ZenonT(60)
<1>8. ASSUME g.part = "fetched"
      PROVE  g.seq < f.seq
  <2>1. \A c, x, y, z \in Nat : x > 1 + y /\ z < c => z < c + x - 2 - y  OBVIOUS
  <2>2. g.seq < CatalogStart(b) /\ g.seq \in Nat /\ k \in Nat
    BY <1>5, <1>7, <1>8
  <2> QED  BY <1>5, <1>6, <2>1, <2>2, ZenonT(60)
<1>9. g.part = "present" => g.seq # f.seq
  BY DEF MetaPart
<1>10. g.part = "fetched" /\ metas[g].ok => metas[g].url # metas[f].url \/ metas[f].url = NoUrl
  BY <1>6, <1>7
<1> QED  BY <1>8, <1>9, <1>10

LEMMA CatalogStep ==
  ASSUME TypeInv, OwnInv, CodeInv, MetaInv, NEW s \in Run, Step(s), NEW d \in DOMAIN catalogs'
  PROVE  CatalogPart(d)'
<1>1. proc \in [Run -> Process] /\ proc[s] \in Process
  BY DEF TypeInv, ProcType
<1>2. CASE d \in DOMAIN catalogs
  <2>1. CatalogPart(d)
    BY <1>2 DEF MetaInv
  <2>2. PICK r \in Run : /\ Ended(r, 0) /\ Dir(r) = d /\ proc[r].batch \in Good
                         /\ \A f \in DOMAIN catalogs[d] :
                              f.part = "present" => NotFinal(f, proc[r].batch)
    BY <2>1 DEF CatalogPart
  <2>3. proc[r].owns
    BY <2>2 DEF CodeInv, CodePart
  <2>4. r # s
    <3>1. proc[s].pc # "exited"
      BY DEF Step, Begin, Probe, Create, FetchMulti, Pick, WriteBody, BodyFails, WriteMeta, MetaFails,
             WriteRunJson, WriteCatalog, Die
    <3> QED  BY <2>2, <3>1 DEF Ended
  <2>5. proc'[r] = proc[r] /\ Dir(r)' = d /\ Untouched(d)
    BY <2>2, <2>3, <2>4, Private
  <2>6. Ended(r, 0)'
    BY <2>2, <2>5 DEF Ended
  <2>7. /\ catalogs'[d] = catalogs[d] /\ Listed(d)' = Listed(d)
        /\ \A f \in Listed(d) : metas'[f] = metas[f]
    BY <1>2, <2>5 DEF Untouched, Listed
  <2> HIDE DEF Dir, Ended
  <2>8. DOMAIN catalogs[d] \subseteq Listed(d)
    BY <2>1 DEF CatalogPart
  <2>9. \A f \in DOMAIN catalogs'[d] : f.part = "present" => NotFinal(f, proc[r].batch)'
    BY <2>2, <2>5, <2>7, <2>8 DEF NotFinal
  <2>10. \E q \in Run : /\ Ended(q, 0)' /\ Dir(q)' = d /\ proc'[q].batch \in Good
                       /\ \A f \in DOMAIN catalogs'[d] :
                            f.part = "present" => NotFinal(f, proc[q].batch)'
    BY <2>2, <2>5, <2>6, <2>9
  <2> QED  BY <2>1, <2>7, <2>10 DEF CatalogPart
<1>3. CASE d \notin DOMAIN catalogs
  <2>1. WriteCatalog(s)
    <3>1. CASE catalogs' = catalogs
      BY <1>3, <3>1
    <3>2. CASE WriteBody(s) \/ BodyFails(s) \/ CutBody(s)
      BY <1>3, <3>2, BodyStore
    <3> QED  BY <3>1, <3>2 DEF Step, Begin, Probe, Create, FetchMulti, Pick, WriteMeta, MetaFails,
                               WriteRunJson, Die, store
  <2>2. /\ proc[s].pc = "catalog" /\ Ended(s, 0)' /\ Dir(s)' = Dir(s) /\ metas' = metas
        /\ proc'[s].batch = proc[s].batch
        /\ catalogs' = Written(Dir(s), ReadMetas(Dir(s)), catalogs) \/ catalogs' = catalogs
    BY <1>1, <2>1 DEF WriteCatalog, Exit, Dir, Ended, Process
  <2> HIDE DEF Dir
  <2>3. d = Dir(s) /\ catalogs'[d] = ReadMetas(d)
    BY <1>3, <2>2 DEF Written
  <2>4. DOMAIN catalogs'[d] = Listed(d) /\ Listed(d)' = Listed(d)
    BY <2>2, <2>3 DEF ReadMetas, Restrict, Listed
  <2>5. Writing(s) /\ MetaPart(s)
    BY <2>2 DEF Writing, MetaInv
  <2>6. \A f, g \in Listed(d) :
          f.part = "present" /\ f # g =>
            /\ g.part = "fetched" => g.seq < f.seq
            /\ g.part = "present" => g.seq # f.seq
            /\ g.part = "fetched" /\ metas[g].ok => metas[g].url # metas[f].url \/ metas[f].url = NoUrl
    BY <2>3, <2>5, ListedApart
  <2>7. proc[s].batch \in Good
    BY <2>5 DEF TypeInv, Progress
  <2>8. \A f \in Listed(d) : f.part = "present" => NotFinal(f, proc[s].batch)
    BY <2>3, <2>5, ListedPresent
  <2> HIDE DEF Listed, Ended
  <2>9. \A f \in DOMAIN catalogs'[d] : f.part = "present" => NotFinal(f, proc[s].batch)'
    BY <2>2, <2>4, <2>8 DEF NotFinal
  <2>10. \E r \in Run : /\ Ended(r, 0)' /\ Dir(r)' = d /\ proc'[r].batch \in Good
                       /\ \A f \in DOMAIN catalogs'[d] :
                            f.part = "present" => NotFinal(f, proc[r].batch)'
    BY <2>2, <2>3, <2>7, <2>9
  <2> QED  BY <2>2, <2>4, <2>6, <2>10 DEF CatalogPart
<1> QED  BY <1>2, <1>3

LEMMA MetaInvariant ==
  ASSUME ~ Concurrent
  PROVE  Spec => []MetaInv
<1>1. Init => MetaInv
  BY DEF Init, MetaInv, MetaPart, Writing
<1>2. TypeInv /\ OwnInv /\ CodeInv /\ MetaInv /\ [Next]_vars => MetaInv'
  <2> SUFFICES ASSUME TypeInv, OwnInv, CodeInv, MetaInv, [Next]_vars
               PROVE  MetaInv'
    OBVIOUS
  <2>1. CASE UNCHANGED vars
    <3>1. proc' = proc /\ metas' = metas /\ catalogs' = catalogs
      BY <2>1 DEF vars, store
    <3>2. \A r \in Run : /\ Dir(r)' = Dir(r)
                         /\ Writing(r)' <=> Writing(r)
                         /\ Ended(r, 0)' <=> Ended(r, 0)
      BY <3>1 DEF Dir, Writing, Ended
    <3>3. \A d : Listed(d)' = Listed(d)
      BY <3>1 DEF Listed
    <3>4. ASSUME NEW r \in Run
          PROVE  MetaPart(r)'
      <4>1. MetaPart(r)
        BY DEF MetaInv
      <4>2. Listed(Dir(r))' = Listed(Dir(r))
        BY <3>1, <3>2 DEF Listed
      <4> HIDE DEF Dir, Listed, Writing
      <4> QED  BY <3>1, <3>2, <4>1, <4>2 DEF MetaPart, Holds
    <3>5. ASSUME NEW d \in DOMAIN catalogs'
          PROVE  CatalogPart(d)'
      <4>1. CatalogPart(d)
        BY <3>1 DEF MetaInv
      <4>2. \E r \in Run : /\ Ended(r, 0)' /\ Dir(r)' = d /\ proc'[r].batch \in Good
                          /\ \A f \in DOMAIN catalogs'[d] :
                               f.part = "present" => NotFinal(f, proc[r].batch)'
        BY <3>1, <3>2, <4>1 DEF CatalogPart, NotFinal
      <4> HIDE DEF Dir, Listed, Ended
      <4> QED  BY <3>1, <3>3, <4>1, <4>2 DEF CatalogPart
    <3> QED  BY <3>4, <3>5 DEF MetaInv
  <2>2. ASSUME NEW s \in Run, Step(s)
        PROVE  MetaInv'
    <3>1. ASSUME NEW r \in Run
          PROVE  MetaPart(r)'
      BY <2>2, MetaElsewhere, MetaStep DEF MetaInv
    <3>2. \A d \in DOMAIN catalogs' : CatalogPart(d)'
      BY <2>2, CatalogStep
    <3> QED  BY <3>1, <3>2 DEF MetaInv
  <2> QED  BY <2>1, <2>2 DEF Next, Step
<1> QED  BY <1>1, <1>2, CodeInvariant, PTL DEF Spec

\* In every catalogue the present entries are numbered on from the requests, no
\* number twice, and none of them is where a successful fetch ended.  It may be
\* where one was asked for: the comparison is with final_url.
THEOREM PresentStaysApart ==
  ASSUME ~ Concurrent
  PROVE  Spec => []PresentApart
<1>1. MetaInv => PresentApart
  BY DEF MetaInv, CatalogPart, PresentApart
<1> QED  BY <1>1, MetaInvariant, PTL

\* No fetch that succeeded was redirected: each ended where it was asked for.
Direct ==
  \A b \in Good : /\ b.primary.asked = b.primary.final
                 /\ \A k \in DOMAIN b.also : b.also[k].ok => b.also[k].asked = b.also[k].final

\* A redirect is all that can bring a URL that was asked for into the list of
\* what was not: without one, the header's sentence holds of every run.
THEOREM PresentUnasked ==
  ASSUME ~ Concurrent, Direct
  PROVE  Spec => []PresentIsLeftOver
<1>1. TypeInv /\ OwnInv /\ CodeInv /\ MetaInv => PresentIsLeftOver
  <2> SUFFICES ASSUME OwnInv, CodeInv, MetaInv, NEW r \in Run, Ended(r, 0), Dir(r) \in DOMAIN catalogs,
                      NEW f \in DOMAIN catalogs[Dir(r)], f.part = "present"
               PROVE  metas[f].url \notin AskedAbs(proc[r].batch) \/ metas[f].url = NoUrl
    BY DEF PresentIsLeftOver, Ended
  <2>1. PICK q \in Run : /\ Ended(q, 0) /\ Dir(q) = Dir(r) /\ proc[q].batch \in Good
                         /\ NotFinal(f, proc[q].batch)
    BY DEF MetaInv, CatalogPart
  <2>2. q = r
    BY <2>1 DEF CodeInv, CodePart, OwnInv, OwnRunDir
  <2>3. AskedAbs(proc[r].batch) \subseteq FetchedAbs(proc[r].batch) \cup {NoUrl}
    BY <2>1, <2>2 DEF Direct, AskedAbs, FetchedAbs
  <2> QED  BY <2>1, <2>2, <2>3 DEF NotFinal
<1> QED  BY <1>1, CodeInvariant, MetaInvariant, PTL
====
