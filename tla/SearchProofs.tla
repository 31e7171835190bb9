---------------------------- MODULE SearchProofs ----------------------------
(***************************************************************************)
(* Proof that the search of Ads is exact: whatever is created, edited and   *)
(* deleted between the pages that getSuitableAds reads, and for every size  *)
(* of a page, the pages together hold every ad that matches all the time,   *)
(* once, and no ad that never matches. On the way, what the operators on    *)
(* finite sets of ids return.                                               *)
(***************************************************************************)
EXTENDS AdsProofs, SequenceTheorems

(* The place of an id in a set of ids.                                      *)
Below(S, i) == {j \in S : j <= i}
Rank(S, i)  == Cardinality(Below(S, i))

LEMMA RankOfSubset ==
  ASSUME NEW S \in SUBSET Nat, IsFiniteSet(S), NEW i \in S
  PROVE  /\ IsFiniteSet(Below(S, i)) /\ Rank(S, i) \in Nat
         /\ Rank(S, i) \in 1..Cardinality(S)
         /\ \A j \in S : j < i => Rank(S, j) < Rank(S, i)
<1>1. /\ IsFiniteSet(Below(S, i)) /\ Rank(S, i) \in Nat /\ Cardinality(S) \in Nat
      /\ Rank(S, i) <= Cardinality(S)
  BY FS_Subset, FS_CardinalityType DEF Below, Rank
<1>2. Rank(S, i) # 0
  <2>1. i \in Below(S, i)
    BY DEF Below
  <2> QED
    BY <1>1, <2>1, FS_EmptySet DEF Rank
<1>3. ASSUME NEW j \in S, j < i PROVE Rank(S, j) < Rank(S, i)
  <2>1. Below(S, j) \in SUBSET Below(S, i) /\ i \in Below(S, i) \ Below(S, j)
    <3>1. i \in Nat /\ j \in Nat /\ \A k \in S : k \in Nat
      OBVIOUS
    <3>2. \A k \in S : k <= j => k <= i
      BY <1>3, <3>1
    <3>3. i <= i /\ ~ (i <= j)
      BY <1>3, <3>1
    <3> QED
      BY <3>2, <3>3 DEF Below
  <2>2. /\ Cardinality(Below(S, j)) <= Cardinality(Below(S, i))
        /\ Cardinality(Below(S, i)) # Cardinality(Below(S, j))
    BY <1>1, <2>1, FS_Subset
  <2>3. Rank(S, j) \in Nat
    BY <1>1, <2>1, FS_Subset, FS_CardinalityType DEF Rank
  <2> QED
    BY <1>1, <2>2, <2>3 DEF Rank
<1> QED
  BY <1>1, <1>2, <1>3

(* What ORDER BY returns: every id of the set once, from the least to the   *)
(* greatest.                                                                *)
Ascending(s) == \A j, k \in DOMAIN s : j < k => s[j] < s[k]

LEMMA IdsInOrder ==
  ASSUME NEW S \in SUBSET Nat, IsFiniteSet(S)
  PROVE  /\ ById(S) \in [1..Cardinality(S) -> S]
         /\ Ascending(ById(S))
         /\ \A i \in S : \E k \in DOMAIN ById(S) : ById(S)[k] = i
<1> DEFINE n == Cardinality(S)
           rank == [i \in S |-> Rank(S, i)]
<1>1. n \in Nat /\ IsFiniteSet(1..n) /\ Cardinality(1..n) = n
  BY FS_CardinalityType, FS_Interval
<1>2. rank \in [S -> 1..n]
  BY RankOfSubset
<1>3. \A i, j \in S : i < j => rank[i] < rank[j]
  BY RankOfSubset
<1>4. \A i, j \in S : rank[i] = rank[j] => i = j
  BY <1>2, <1>3
<1>5. rank \in Surjection(S, 1..n)
  <2>1. rank \in Injection(S, 1..n)
    BY <1>2, <1>4 DEF Injection, IsInjective
  <2> QED
    BY <1>1, <2>1, FS_Injection
<1> HIDE DEF rank, n
<1> DEFINE t == [k \in 1..n |-> CHOOSE i \in S : rank[i] = k]
<1>6. \A k \in 1..n : t[k] \in S /\ rank[t[k]] = k
  BY <1>5 DEF Surjection
<1>7. t \in [1..n -> S] /\ Ascending(t)
  <2>1. \A j, k \in 1..n : j < k => t[j] < t[k]
    <3> SUFFICES ASSUME NEW j \in 1..n, NEW k \in 1..n, j < k PROVE t[j] < t[k]
      OBVIOUS
    <3>1. rank[t[j]] = j /\ rank[t[k]] = k /\ t[j] \in S /\ t[k] \in S
      BY <1>6
    <3> HIDE DEF t
    <3>2. t[j] \in Nat /\ t[k] \in Nat /\ t[j] # t[k] /\ ~ (k < j)
      <4>1. j \in Nat /\ k \in Nat
        BY <1>1
      <4>2. t[j] \in Nat /\ t[k] \in Nat
        BY <3>1
      <4> QED
        BY <3>1, <4>1, <4>2
    <3>3. ~ (t[k] < t[j])
      BY <1>3, <3>1, <3>2
    <3> QED
      BY <3>2, <3>3
  <2> QED
    BY <1>6, <2>1 DEF Ascending
<1> DEFINE s == ById(S)
<1>8. s \in [1..n -> S] /\ Ascending(s)
  BY <1>7 DEF ById, Ascending, n
<1>9. ASSUME NEW i \in S PROVE \E k \in DOMAIN s : s[k] = i
  <2>1. s \in Injection(1..n, S)
    <3> HIDE DEF s
    <3>1. \A j \in 1..n : s[j] \in Nat
      BY <1>8
    <3>2. \A j, k \in 1..n : s[j] = s[k] => j = k
      BY <1>1, <1>8, <3>1 DEF Ascending
    <3> QED
      BY <1>8, <3>2 DEF Injection, IsInjective
  <2>2. s \in Surjection(1..n, S)
    BY <1>1, <2>1, FS_Injection DEF n
  <2> QED
    BY <2>2 DEF Surjection
<1> QED
  BY <1>8, <1>9 DEF n

(* A set of ids that is not empty has a least one, and a greatest one.      *)
LEMMA Least ==
  ASSUME NEW S \in SUBSET Nat, S # {}
  PROVE  \E i \in S : \A j \in S : i <= j
<1>1. PICK i \in S : \A j \in S : ~ (<<j, i>> \in OpToRel(<, Nat))
  BY NatLessThanWellFounded, WFMin
<1>2. \A j \in S : ~ (j < i)
  BY <1>1 DEF OpToRel
<1> QED
  BY <1>2

LEMMA Greatest ==
  ASSUME NEW S \in SUBSET Nat, S # {}, NEW n \in Nat, \A i \in S : i <= n
  PROVE  /\ Max(S) \in S
         /\ \A i \in S : i <= Max(S)
<1> DEFINE bounds == {b \in Nat : \A i \in S : i <= b}
<1>1. PICK b \in bounds : \A c \in bounds : b <= c
  <2>1. n \in bounds
    OBVIOUS
  <2> QED
    BY <2>1, Least
<1>2. b \in S
  <2> SUFFICES ASSUME b \notin S PROVE FALSE
    OBVIOUS
  <2>1. \A i \in S : i \in Nat /\ i <= b /\ i # b
    BY <1>1
  <2>2. b # 0 /\ b \in Nat
    <3>1. PICK i : i \in S
      OBVIOUS
    <3>2. b \in Nat /\ i \in Nat /\ i <= b /\ i # b
      BY <2>1, <3>1
    <3> QED
      BY <3>2
  <2>3. b - 1 \in bounds
    BY <2>1, <2>2
  <2> QED
    BY <1>1, <2>2, <2>3
<1>3. \A i \in S : i \in Nat /\ b >= i
  BY <1>1
<1>4. \E m \in S : \A i \in S : m >= i
  BY <1>2, <1>3
<1>5. Max(S) \in S /\ \A i \in S : Max(S) >= i
  BY <1>4 DEF Max
<1> QED
  BY <1>5

-----------------------------------------------------------------------------
(* A page: the first ads of the rest, as many as fit.                       *)
Page(rest) == {i \in rest : Rank(rest, i) <= PageSize}

LEMMA PageIsFirst ==
  ASSUME NEW rest \in SUBSET Nat, NEW n \in Nat, \A i \in rest : i <= n
  PROVE  /\ Page(rest) \in SUBSET Nat /\ IsFiniteSet(Page(rest))
         /\ \A i \in Page(rest), j \in rest : j <= i => j \in Page(rest)
         /\ Cardinality(Page(rest)) # PageSize => Page(rest) = rest
         /\ Cardinality(Page(rest)) = PageSize =>
              /\ Max(Page(rest)) \in Page(rest)
              /\ \A i \in Page(rest) : i <= Max(Page(rest))
<1> DEFINE page == Page(rest)
<1>1. IsFiniteSet(rest) /\ PageSize \in Nat \ {0}
  BY FS_BoundedSetOfNaturals, AdsAssumption
<1>2. page \in SUBSET rest /\ page \in SUBSET Nat /\ IsFiniteSet(page) /\ Cardinality(page) \in Nat
  BY <1>1, FS_Subset, FS_CardinalityType DEF Page
<1>3. ASSUME NEW i \in page, NEW j \in rest, j <= i PROVE j \in page
  <2>1. i \in rest /\ i \in Nat /\ j \in Nat /\ Rank(rest, i) <= PageSize
    BY <1>2 DEF Page
  <2>2. /\ Rank(rest, i) \in Nat /\ Rank(rest, j) \in Nat
        /\ j < i => Rank(rest, j) < Rank(rest, i)
    BY <1>1, <2>1, RankOfSubset
  <2>3. Rank(rest, j) <= PageSize
    <3>1. CASE j = i
      BY <2>1, <3>1
    <3>2. CASE j < i
      BY <1>1, <2>1, <2>2, <3>2
    <3> QED
      BY <1>3, <2>1, <3>1, <3>2
  <2> QED
    BY <2>3 DEF Page
<1>4. page # {} => Max(page) \in page /\ \A i \in page : i <= Max(page)
  <2>1. \A i \in page : i <= n
    BY <1>2
  <2> QED
    BY <1>2, <2>1, Greatest
<1>5. Cardinality(page) <= PageSize
  <2>1. CASE page = {}
    BY <1>1, <2>1, FS_EmptySet
  <2>2. CASE page # {}
    <3>1. Max(page) \in rest /\ Rank(rest, Max(page)) <= PageSize
      BY <1>4, <2>2 DEF Page
    <3>2. page = Below(rest, Max(page))
      BY <1>2, <1>3, <1>4, <2>2 DEF Below
    <3> QED
      BY <3>1, <3>2 DEF Rank
  <2> QED
    BY <2>1, <2>2
<1>6. ASSUME page # rest PROVE Cardinality(page) >= PageSize
  <2> DEFINE beyond == rest \ page
  <2>1. PICK i \in beyond : \A j \in beyond : i <= j
    <3>1. beyond \in SUBSET Nat /\ beyond # {}
      BY <1>2, <1>6
    <3> QED
      BY <3>1, Least
  <2>2. i \in rest /\ i \notin page /\ i \in Nat
    BY <2>1
  <2>3. Rank(rest, i) \in Nat /\ ~ (Rank(rest, i) <= PageSize)
    BY <1>1, <2>2, RankOfSubset DEF Page
  <2>4. Below(rest, i) \in SUBSET (page \union {i})
    <3> SUFFICES ASSUME NEW j \in rest, j <= i, j # i PROVE j \in page
      BY DEF Below
    <3>1. j \in Nat /\ ~ (i <= j)
      BY <2>2
    <3> QED
      BY <2>1, <3>1
  <2>5. IsFiniteSet(page \union {i}) /\ Cardinality(page \union {i}) = Cardinality(page) + 1
    BY <1>2, <2>2, FS_AddElement
  <2>6. Rank(rest, i) <= Cardinality(page) + 1
    BY <2>4, <2>5, FS_Subset DEF Rank
  <2> QED
    BY <1>1, <1>2, <2>3, <2>6
<1>7. Cardinality(page) = PageSize => page # {}
  BY <1>1, FS_EmptySet
<1> QED
  BY <1>1, <1>2, <1>3, <1>4, <1>5, <1>6, <1>7

(* A page is appended to those before it.                                   *)
Joins(all, found, kept) ==
  /\ all \in Seq(Nat) /\ Ascending(all)
  /\ \A k \in DOMAIN all : all[k] \in kept \/ \E j \in DOMAIN found : all[k] = found[j]
  /\ \A k \in DOMAIN found : \E j \in DOMAIN all : all[j] = found[k]
  /\ \A i \in kept : \E j \in DOMAIN all : all[j] = i

LEMMA Appended ==
  ASSUME NEW found \in Seq(Nat), Ascending(found), NEW last \in Nat,
         \A k \in DOMAIN found : found[k] <= last,
         NEW kept \in SUBSET Nat, IsFiniteSet(kept), \A i \in kept : i > last,
         NEW all, all = found \o ById(kept)
  PROVE  Joins(all, found, kept)
<1> DEFINE n == Len(found)
           c == Cardinality(kept)
           page == ById(kept)
<1>1. n \in Nat /\ DOMAIN found = 1..n /\ \A k \in 1..n : found[k] \in Nat
  BY LenProperties
<1>2. /\ c \in Nat /\ page \in [1..c -> kept] /\ Ascending(page)
      /\ \A i \in kept : \E k \in DOMAIN page : page[k] = i
  BY IdsInOrder, FS_CardinalityType
<1> HIDE DEF c, page
<1>3. page \in Seq(Nat) /\ Len(page) = c
  <2>1. page \in [1..c -> Nat]
    BY <1>2
  <2>2. page \in Seq(Nat)
    BY <1>2, <2>1, SeqDef
  <2>3. Len(page) \in Nat /\ 1..Len(page) = 1..c
    BY <2>1, <2>2, LenProperties
  <2> QED
    BY <1>2, <2>2, <2>3
<1>4. /\ all \in Seq(Nat) /\ Len(all) = n + c
      /\ \A k \in 1..(n + c) : all[k] = IF k <= n THEN found[k] ELSE page[k - n]
  BY <1>3, ConcatProperties DEF page
<1> HIDE DEF n
<1>5. DOMAIN all = 1..(n + c) /\ DOMAIN page = 1..c
  BY <1>2, <1>4, LenProperties
<1>6. \A k \in 1..n : k \in DOMAIN all /\ all[k] = found[k]
  BY <1>1, <1>2, <1>4, <1>5
<1>7. \A k \in 1..c : n + k \in DOMAIN all /\ all[n + k] = page[k]
  BY <1>1, <1>2, <1>4, <1>5
<1>8. ASSUME NEW k \in DOMAIN all, ~ (k <= n)
      PROVE  k - n \in 1..c /\ all[k] = page[k - n] /\ all[k] \in kept
  <2>1. k \in 1..(n + c) /\ k \in Nat
    BY <1>1, <1>2, <1>5
  <2>2. k - n \in 1..c
    BY <1>1, <1>2, <1>8, <2>1
  <2>3. all[k] = page[k - n]
    BY <1>4, <1>8, <2>1
  <2> QED
    BY <1>2, <2>2, <2>3
<1>9. Ascending(all)
  <2> SUFFICES ASSUME NEW j \in DOMAIN all, NEW k \in DOMAIN all, j < k PROVE all[j] < all[k]
    BY DEF Ascending
  <2>1. j \in Nat /\ k \in Nat
    BY <1>1, <1>2, <1>5
  <2>2. CASE k <= n
    <3>1. j \in 1..n /\ k \in 1..n
      BY <1>1, <1>2, <1>5, <2>1, <2>2
    <3> QED
      BY <1>1, <1>6, <3>1 DEF Ascending
  <2>3. CASE j <= n /\ ~ (k <= n)
    <3>1. j \in 1..n
      BY <1>1, <1>2, <1>5, <2>1, <2>3
    <3>2. all[j] <= last /\ all[j] \in Nat
      BY <1>1, <1>6, <3>1
    <3>3. all[k] > last /\ all[k] \in Nat
      BY <1>8, <2>3
    <3> QED
      BY <3>2, <3>3
  <2>4. CASE ~ (j <= n) /\ ~ (k <= n)
    <3>1. j - n \in 1..c /\ k - n \in 1..c /\ j - n < k - n
      BY <1>1, <1>8, <2>1, <2>4
    <3>2. all[j] = page[j - n] /\ all[k] = page[k - n]
      BY <1>8, <2>4
    <3> QED
      BY <1>2, <1>5, <3>1, <3>2 DEF Ascending
  <2> QED
    BY <1>1, <2>1, <2>2, <2>3, <2>4
<1>10. \A k \in DOMAIN all : all[k] \in kept \/ \E j \in DOMAIN found : all[k] = found[j]
  <2> SUFFICES ASSUME NEW k \in DOMAIN all, k <= n PROVE \E j \in DOMAIN found : all[k] = found[j]
    BY <1>8
  <2>1. k \in 1..n
    BY <1>1, <1>2, <1>5
  <2> QED
    BY <1>1, <1>6, <2>1
<1>11. \A i \in kept : \E j \in DOMAIN all : all[j] = i
  BY <1>2, <1>5, <1>7
<1> QED
  BY <1>1, <1>4, <1>6, <1>9, <1>10, <1>11 DEF Joins

-----------------------------------------------------------------------------
(* What a search has found when it has read up to some id.                  *)
Holds(found, S)       == \A i \in S : \E k \in DOMAIN found : found[k] = i
FoundOK(r, found)     == /\ found \in Seq(Nat) /\ Ascending(found)
                         /\ \A k \in DOMAIN found : found[k] \in may[r]
PagingOK(r, last, found) ==
  /\ last \in Nat /\ FoundOK(r, found)
  /\ \A k \in DOMAIN found : found[k] <= last
  /\ Holds(found, {i \in must[r] : i <= last})

SearchOK(r) == IsSearch(r) =>
  /\ Running(r) => must[r] \subseteq Matching(r) /\ Matching(r) \subseteq may[r]
  /\ pc[r] = "paging" => PagingOK(r, mem[r].last, mem[r].found)
  /\ told[r] = 200 => FoundOK(r, mem[r]) /\ Holds(mem[r], must[r])
  /\ told[r] = 404 => must[r] = {}

SInv == MInv /\ \A r \in Requests : SearchOK(r)

(* One more page.                                                           *)
LEMMA PageRead ==
  ASSUME SInv, NEW r \in Requests, IsSearch(r), ReadPage(r)
  PROVE  /\ pc[r] = "paging" /\ UNCHANGED <<ads, nextId>>
         /\ \/ AdsController(r, 500, Nothing)
            \/ \E last, found : /\ GoOn(r, "paging", [last |-> last, found |-> found])
                                /\ PagingOK(r, last, found)
            \/ \E found : /\ AdsController(r, IF found = <<>> THEN 404 ELSE Success, found)
                          /\ FoundOK(r, found) /\ Holds(found, must[r])
<1> DEFINE batch == Batch(r, mem[r].last)
           kept  == {i \in batch : matchesMutualFilters(Profile[req[r].user], ads[i].filter)}
<1>1. pc[r] = "paging" /\ UNCHANGED <<ads, nextId>>
  BY DEF ReadPage, adsVars
<1>2. /\ PagingOK(r, mem[r].last, mem[r].found)
      /\ must[r] \subseteq Matching(r) /\ Matching(r) \subseteq may[r]
  BY <1>1 DEF SInv, SearchOK, Running
<1>0. PICK last, before : last = mem[r].last /\ before = mem[r].found
  OBVIOUS
<1>3. PICK rest : rest = NextPage(r, last)
  OBVIOUS
<1>4. PICK n \in Nat : rest \in SUBSET Nat /\ \A i \in rest : i <= n
  <2>1. nextId \in Nat \ {0} /\ DOMAIN ads \subseteq 1..(nextId - 1)
    BY DEF SInv, MInv, Typed, TypeOK
  <2>2. rest \subseteq DOMAIN ads
    BY <1>3 DEF NextPage, Selected
  <2> QED
    BY <2>1, <2>2
<1>5. batch = Page(rest)
  BY <1>0, <1>3 DEF Batch, Page, Rank, Below
<1>6. /\ batch \in SUBSET Nat /\ IsFiniteSet(batch)
      /\ \A i \in batch, j \in rest : j <= i => j \in batch
      /\ Cardinality(batch) # PageSize => batch = rest
      /\ Cardinality(batch) = PageSize => Max(batch) \in batch /\ \A i \in batch : i <= Max(batch)
      /\ batch \subseteq rest
  BY <1>4, <1>5, PageIsFirst DEF Page
<1>7. CASE \E i \in batch : ads[i].filter = Nothing
  BY <1>1, <1>7 DEF ReadPage
<1>8. CASE \A i \in batch : ads[i].filter # Nothing
  <2>1. kept \in SUBSET Nat /\ IsFiniteSet(kept)
    BY <1>6, FS_Subset
  <2>2. \A i \in kept : i > last /\ i \in Matching(r)
    BY <1>3, <1>6, <1>8 DEF NextPage, Matching
  <2>3. \A i \in must[r] \intersect batch : i \in kept
    BY <1>2 DEF Matching
  <2>4. \A i \in must[r] : i \in Nat /\ (i > last => i \in rest)
    BY <1>2, <1>3 DEF Matching, NextPage, SInv, MInv, Typed, TypeOK, Selected
  <2>5. PICK S : S = kept
    OBVIOUS
  <2>6. PICK found : found = before \o ById(S)
    OBVIOUS
  <2>7. /\ before \in Seq(Nat) /\ Ascending(before) /\ last \in Nat
        /\ \A k \in DOMAIN before : before[k] <= last /\ before[k] \in may[r]
        /\ Holds(before, {i \in must[r] : i <= last})
    BY <1>0, <1>2 DEF PagingOK, FoundOK
  <2>8. Joins(found, before, S)
    <3>1. S \in SUBSET Nat /\ IsFiniteSet(S) /\ \A i \in S : i > last
      BY <2>1, <2>2, <2>5
    <3>2. \A k \in DOMAIN before : before[k] <= last
      BY <2>7
    <3> QED
      BY <2>6, <2>7, <3>1, <3>2, Appended
  <2>9. FoundOK(r, found)
    BY <1>2, <2>2, <2>5, <2>7, <2>8 DEF FoundOK, Joins
  <2>10. \A i \in must[r] : (i \in batch \/ i <= last) => \E k \in DOMAIN found : found[k] = i
    BY <2>3, <2>5, <2>7, <2>8 DEF Holds, Joins
  <2>11. CASE Cardinality(batch) = PageSize
    <3>1. GoOn(r, "paging", [last |-> Max(batch), found |-> found])
      BY <1>0, <1>8, <2>5, <2>6, <2>11 DEF ReadPage
    <3>2. PICK m : m = Max(batch)
      OBVIOUS
    <3>3. m \in Nat /\ m \in batch /\ m > last /\ \A i \in batch : i <= m
      BY <1>3, <1>6, <2>11, <3>2 DEF NextPage
    <3>4. \A k \in DOMAIN found : found[k] <= m
      <4> SUFFICES ASSUME NEW k \in DOMAIN found PROVE found[k] <= m
        OBVIOUS
      <4>1. CASE found[k] \in S
        BY <2>5, <3>3, <4>1
      <4>2. CASE \E j \in DOMAIN before : found[k] = before[j]
        <5>1. found[k] <= last /\ found[k] \in Nat
          BY <2>7, <2>8, <4>2, LenProperties DEF Joins
        <5> QED
          BY <2>7, <3>3, <5>1
      <4> QED
        BY <2>8, <4>1, <4>2 DEF Joins
    <3>5. Holds(found, {i \in must[r] : i <= m})
      <4> SUFFICES ASSUME NEW i \in must[r], i <= m, ~ (i <= last)
                   PROVE  \E k \in DOMAIN found : found[k] = i
        BY <2>10 DEF Holds
      <4>1. i \in rest
        BY <2>4, <2>7
      <4>2. i \in batch
        BY <1>6, <3>3, <4>1
      <4> QED
        BY <2>10, <4>2
    <3> QED
      BY <1>1, <2>9, <3>1, <3>2, <3>3, <3>4, <3>5 DEF PagingOK
  <2>12. CASE Cardinality(batch) # PageSize
    <3>1. AdsController(r, IF found = <<>> THEN 404 ELSE Success, found)
      BY <1>0, <1>8, <2>5, <2>6, <2>12 DEF ReadPage
    <3>2. Holds(found, must[r])
      <4> SUFFICES ASSUME NEW i \in must[r], ~ (i <= last)
                   PROVE  \E k \in DOMAIN found : found[k] = i
        BY <2>10 DEF Holds
      <4>1. i \in batch
        BY <1>6, <2>4, <2>7, <2>12
      <4> QED
        BY <2>10, <4>1
    <3> QED
      BY <1>1, <2>9, <3>1, <3>2
  <2> QED
    BY <2>11, <2>12
<1> QED
  BY <1>7, <1>8

-----------------------------------------------------------------------------
(* A handler leaves the other requests alone; a search does only what a     *)
(* search does.                                                             *)
LEMMA OthersAlone ==
  ASSUME MInv, NEW r \in Requests, AdsNext(r), NEW q \in Requests \ {r}
  PROVE  /\ req' = req
         /\ pc'[q] = pc[q] /\ mem'[q] = mem[q] /\ told'[q] = told[q]
<1>1. DOMAIN pc = Requests /\ DOMAIN mem = Requests /\ told \in [Requests -> Statuses \union {NoAnswer}]
  BY DEF MInv, Typed, TypeOK, RpcTypeOK
<1>2. ASSUME \E label, value : GoOn(r, label, value)
      PROVE  req' = req /\ pc'[q] = pc[q] /\ mem'[q] = mem[q] /\ told'[q] = told[q]
  BY <1>1, <1>2 DEF GoOn
<1>3. ASSUME \E outcome, ok, result : Finish(r, outcome, ok, result)
      PROVE  req' = req /\ pc'[q] = pc[q] /\ mem'[q] = mem[q] /\ told'[q] = told[q]
  BY <1>1, <1>3 DEF Finish, Tell
<1>4. CASE SendRequest(r) \/ authenticate(r) \/ GiveUp(r) \/ Expire(r)
  BY <1>1, <1>4 DEF SendRequest, Send, authenticate, GiveUp, Expire, Tell
<1>5. CASE RefuseEmpty(r) \/ AdsFails(r) \/ createAd(r) \/ InsertAd(r) \/ AttachMedia(r)
  BY <1>2, <1>3, <1>5 DEF RefuseEmpty, AdsFails, createAd, InsertAd, AttachMedia, AdsController
<1>6. CASE editAd(r) \/ UpdateAd(r) \/ publishAdv(r) \/ archiveAdv(r) \/ SetStatus(r)
           \/ getSuitableAds(r) \/ ReadPage(r)
  BY <1>2, <1>3, <1>6 DEF editAd, UpdateAd, publishAdv, archiveAdv, SetStatus, getSuitableAds,
     ReadPage, AdsController
<1>7. CASE DestroyMedia(r) \/ MediaNext(r)
  BY <1>2, <1>3, <1>7 DEF DestroyMedia, destroy, MediaNext, uploadMedia, s3_upload, StoreMedia, getMedia,
     CheckAccess, CheckMember, deleteMedia, s3_delete, setMediaPrivacy, SetPrivacy, editMediaAccess,
     MediaFails, MediaController, api_uploadMedia
<1> QED
  BY <1>4, <1>5, <1>6, <1>7 DEF AdsNext

LEMMA SearchMoves ==
  ASSUME MInv, NEW r \in Requests, AdsNext(r), req[r].op = "getSuitableAdvertisements"
  PROVE  \/ SendRequest(r) \/ getSuitableAds(r) \/ ReadPage(r) \/ AdsFails(r)
         \/ authenticate(r) \/ GiveUp(r) \/ Expire(r)
<1>1. StageOK(r)
  BY DEF MInv, StagesOK
<1>2. ~ (RefuseEmpty(r) \/ createAd(r) \/ InsertAd(r) \/ AttachMedia(r) \/ editAd(r) \/ UpdateAd(r)
         \/ publishAdv(r) \/ archiveAdv(r) \/ SetStatus(r))
  BY <1>1 DEF StageOK, AdsStageOK, RefuseEmpty, Empty, createAd, InsertAd, AttachMedia, editAd, UpdateAd,
     publishAdv, archiveAdv, SetStatus, Taken
<1>3. ~ (DestroyMedia(r) \/ MediaNext(r))
  BY <1>1 DEF StageOK, MediaStageOK, DestroyMedia, destroy, MediaNext, uploadMedia, s3_upload, StoreMedia,
     getMedia, CheckAccess, CheckMember, deleteMedia, s3_delete, setMediaPrivacy, SetPrivacy,
     editMediaAccess, MediaFails, MediaOps, Taken
<1> QED
  BY <1>2, <1>3 DEF AdsNext

(* What has matched is noted after every step.                              *)
LEMMA Noted ==
  ASSUME Observe, NEW q \in Requests
  PROVE  /\ Running(q)' => may'[q] = may[q] \union Matching(q)'
         /\ ~ Running(q)' => may'[q] = may[q]
         /\ (pc[q] = "new" /\ Running(q)') => must'[q] = Matching(q)'
         /\ Running(q) => must'[q] = must[q] \intersect Matching(q)'
         /\ pc[q] \in {"done", "lost"} => must'[q] = must[q]
BY DEF Observe, Running

(* A search that stands still, that begins, that ends without an answer.    *)
LEMMA SearchWaits ==
  ASSUME SInv, MInv', Observe, req' = req, NEW q \in Requests,
         pc'[q] = pc[q], mem'[q] = mem[q], told'[q] \in {told[q], 500}
  PROVE  SearchOK(q)'
<1> SUFFICES ASSUME IsSearch(q) PROVE SearchOK(q)'
  BY DEF SearchOK, IsSearch
<1>1. SearchOK(q) /\ StageOK(q) /\ StageOK(q)'
  BY DEF SInv, MInv, StagesOK
<1>2. Running(q)' <=> Running(q)
  BY DEF Running
<1>3. CASE Running(q)
  <2>1. must'[q] = must[q] \intersect Matching(q)' /\ may'[q] = may[q] \union Matching(q)'
    BY <1>2, <1>3, Noted
  <2>2. pc[q] = "paging" => PagingOK(q, mem[q].last, mem[q].found)'
    BY <1>1, <2>1 DEF SearchOK, PagingOK, FoundOK, Holds
  <2>3. told'[q] \notin {200, 404}
    BY <1>1, <1>3 DEF StageOK, Running, NoAnswer
  <2> QED
    BY <2>1, <2>2, <2>3 DEF SearchOK
<1>4. CASE ~ Running(q)
  <2>1. may'[q] = may[q]
    BY <1>2, <1>4, Noted
  <2>2. pc[q] \in {"new", "done", "lost"}
    BY <1>4 DEF Running
  <2>3. CASE pc[q] = "new"
    BY <1>1, <1>2, <1>4, <2>3 DEF SearchOK, StageOK, NoAnswer
  <2>4. CASE pc[q] \in {"done", "lost"}
    <3>1. must'[q] = must[q]
      BY <2>4, Noted
    <3> QED
      BY <1>1, <1>2, <1>4, <2>1, <2>4, <3>1 DEF SearchOK, FoundOK, Holds
  <2> QED
    BY <2>2, <2>3, <2>4
<1> QED
  BY <1>3, <1>4

LEMMA SearchBegins ==
  ASSUME SInv, MInv', Observe, req' = req, NEW q \in Requests, pc[q] = "new", pc'[q] = "queued"
  PROVE  SearchOK(q)'
<1>1. StageOK(q)' /\ Running(q)'
  BY DEF MInv, StagesOK, Running
<1>2. must'[q] = Matching(q)' /\ may'[q] = may[q] \union Matching(q)'
  BY <1>1, Noted
<1> QED
  BY <1>1, <1>2 DEF SearchOK, StageOK, NoAnswer

LEMMA SearchStops ==
  ASSUME NEW q \in Requests, pc'[q] \in {"done", "lost"}, told'[q] \notin {200, 404}
  PROVE  SearchOK(q)'
BY DEF SearchOK, Running

LEMMA FirstPage ==
  ASSUME SInv, MInv', Observe, req' = req, NEW q \in Requests, pc[q] = "queued", pc'[q] = "paging",
         mem'[q] = [last |-> 0, found |-> <<>>]
  PROVE  SearchOK(q)'
<1> SUFFICES ASSUME IsSearch(q) PROVE SearchOK(q)'
  BY DEF SearchOK, IsSearch
<1>1. Running(q) /\ Running(q)' /\ StageOK(q)'
  BY DEF Running, MInv, StagesOK
<1>2. must'[q] = must[q] \intersect Matching(q)' /\ may'[q] = may[q] \union Matching(q)'
  BY <1>1, Noted
<1>3. \A i \in must'[q] : i \in Nat /\ ~ (i <= 0)
  <2>1. nextId' \in Nat /\ DOMAIN ads' \subseteq 1..(nextId' - 1)
    BY DEF MInv, Typed, TypeOK
  <2>2. Matching(q)' \subseteq DOMAIN ads'
    BY DEF Matching, Selected
  <2> QED
    BY <1>2, <2>1, <2>2
<1>4. <<>> \in Seq(Nat) /\ DOMAIN <<>> = {}
  BY EmptySeq
<1>5. PagingOK(q, 0, <<>>)'
  BY <1>3, <1>4 DEF PagingOK, FoundOK, Holds, Ascending
<1> QED
  BY <1>1, <1>2, <1>5 DEF SearchOK, StageOK, NoAnswer

LEMMA PageStep ==
  ASSUME SInv, MInv', Observe, req' = req, NEW q \in Requests, ReadPage(q)
  PROVE  SearchOK(q)'
<1> SUFFICES ASSUME IsSearch(q) PROVE SearchOK(q)'
  BY DEF SearchOK, IsSearch
<1>1. pc[q] = "paging" /\ Running(q) /\ UNCHANGED <<ads, nextId>>
  BY PageRead DEF Running
<1>2. Matching(q)' = Matching(q)
  BY <1>1 DEF Matching, Selected, IsSearch
<1>3. must[q] \subseteq Matching(q) /\ Matching(q) \subseteq may[q]
  BY <1>1 DEF SInv, SearchOK
<1>4. must'[q] = must[q] /\ may'[q] = may[q]
  BY <1>1, <1>2, <1>3, Noted
<1>5. StageOK(q) /\ StageOK(q)' /\ told[q] \in {NoAnswer, 500}
      /\ DOMAIN pc = Requests /\ DOMAIN mem = Requests /\ told \in [Requests -> Statuses \union {NoAnswer}]
  BY <1>1 DEF SInv, MInv, StagesOK, StageOK, Typed, TypeOK, RpcTypeOK
<1>6. CASE AdsController(q, 500, Nothing)
  <2>1. pc'[q] = "done" /\ told'[q] = 500
    BY <1>5, <1>6 DEF AdsController, Finish, Tell, TekeroError, Statuses, Success
  <2> QED
    BY <2>1, SearchStops
<1>7. ASSUME NEW last, NEW found, GoOn(q, "paging", [last |-> last, found |-> found]),
             PagingOK(q, last, found)
      PROVE  SearchOK(q)'
  <2>1. pc'[q] = "paging" /\ mem'[q].last = last /\ mem'[q].found = found
    BY <1>5, <1>7 DEF GoOn
  <2>2. PagingOK(q, mem[q].last, mem[q].found)'
    BY <1>4, <1>7, <2>1 DEF PagingOK, FoundOK, Holds
  <2> QED
    BY <1>2, <1>3, <1>4, <1>5, <2>1, <2>2 DEF SearchOK, StageOK, NoAnswer
<1>8. ASSUME NEW found, AdsController(q, IF found = <<>> THEN 404 ELSE Success, found),
             FoundOK(q, found), Holds(found, must[q])
      PROVE  SearchOK(q)'
  <2>1. pc'[q] = "done" /\ mem'[q] = found /\ ~ Running(q)'
    BY <1>5, <1>8 DEF AdsController, Finish, Running
  <2>2. CASE found = <<>>
    <3>1. must'[q] = {}
      BY <1>4, <1>8, <2>2 DEF Holds
    <3>2. told'[q] \in {404, 500}
      BY <1>5, <1>8, <2>2 DEF AdsController, Finish, Tell, TekeroError, Statuses, Success, NoAnswer
    <3> QED
      BY <2>1, <3>1, <3>2 DEF SearchOK
  <2>3. CASE found # <<>>
    <3>1. FoundOK(q, mem[q])' /\ Holds(mem[q], must[q])'
      BY <1>4, <1>8, <2>1 DEF FoundOK, Holds
    <3>2. told'[q] # 404
      BY <1>1, <1>5, <1>8, <2>3 DEF AdsController, Finish, Tell, Success, NoAnswer, api_ads, StageOK, AdsStageOK
    <3> QED
      BY <2>1, <3>1, <3>2 DEF SearchOK
  <2> QED
    BY <2>2, <2>3
<1> QED
  BY <1>6, <1>7, <1>8, PageRead

LEMMA SearchKept ==
  ASSUME SInv, MInv', Observe, NEW r \in Requests, AdsNext(r), NEW q \in Requests
  PROVE  req' = req /\ SearchOK(q)'
<1>1. CASE q # r
  BY <1>1, OthersAlone, SearchWaits DEF SInv
<1>2. CASE q = r /\ req[r].op = "getSuitableAdvertisements"
  <2>1. /\ DOMAIN pc = Requests /\ DOMAIN mem = Requests /\ told \in [Requests -> Statuses \union {NoAnswer}]
        /\ StageOK(q)
    BY DEF SInv, MInv, StagesOK, Typed, TypeOK, RpcTypeOK
  <2>2. CASE SendRequest(q)
    BY <2>1, <2>2, SearchBegins DEF SendRequest, Send
  <2>3. CASE GiveUp(q)
    <3>1. req' = req /\ pc' = pc /\ mem' = mem /\ told'[q] = 500
      BY <2>1, <2>3, NothingIsNoStatus DEF GiveUp, Tell, TekeroError
    <3> QED
      BY <3>1, SearchWaits
  <2>4. CASE authenticate(q) \/ Expire(q) \/ AdsFails(q)
    <3>1. req' = req /\ pc'[q] \in {"done", "lost"}
      BY <2>1, <2>4 DEF authenticate, Expire, AdsFails, AdsController, Finish
    <3>2. told[q] \in {NoAnswer, 500} /\ told'[q] \in {NoAnswer, 401, 500}
      <4>1. CASE authenticate(q) \/ Expire(q)
        BY <2>1, <4>1 DEF authenticate, Expire, Tell, StageOK
      <4>2. CASE AdsFails(q)
        <5>1. pc[q] \notin {"done", "inserting", "editing"} /\ told[q] \in {NoAnswer, 500}
          BY <1>2, <2>1, <4>2 DEF AdsFails, Running, StageOK, AdsStageOK
        <5>2. AdsController(q, 500, Nothing)
          BY <4>2, <5>1 DEF AdsFails
        <5> QED
          BY <2>1, <5>1, <5>2 DEF AdsController, Finish, Tell, TekeroError, Statuses, Success
      <4> QED
        BY <2>4, <4>1, <4>2
    <3> QED
      BY <3>1, <3>2, SearchStops DEF NoAnswer
  <2>5. CASE getSuitableAds(q)
    <3>1. CASE req[q].user \in DOMAIN Profile
      BY <2>1, <2>5, <3>1, FirstPage DEF getSuitableAds, Taken, GoOn
    <3>2. CASE req[q].user \notin DOMAIN Profile
      BY <2>5, <3>2 DEF getSuitableAds, AdsController, Finish, SearchOK, IsSearch
    <3> QED
      BY <3>1, <3>2
  <2>6. CASE ReadPage(q)
    <3>1. req' = req
      BY <2>6 DEF ReadPage, GoOn, AdsController, Finish
    <3> QED
      BY <2>6, <3>1, PageStep
  <2> QED
    BY <1>2, <2>2, <2>3, <2>4, <2>5, <2>6, SearchMoves DEF SInv
<1>3. CASE q = r /\ req[r].op # "getSuitableAdvertisements"
  <2>1. req' = req
    BY DEF AdsNext, RefuseEmpty, SendRequest, Send, createAd, InsertAd, AttachMedia, editAd, UpdateAd,
       publishAdv, archiveAdv, SetStatus, getSuitableAds, ReadPage, AdsFails, DestroyMedia, destroy,
       MediaNext, uploadMedia, s3_upload, StoreMedia, getMedia, CheckAccess, CheckMember, deleteMedia,
       s3_delete, setMediaPrivacy, SetPrivacy, editMediaAccess, MediaFails, MediaController,
       api_uploadMedia, AdsController, GoOn, Finish, authenticate, GiveUp, Expire
  <2> QED
    BY <1>3, <2>1 DEF SearchOK, IsSearch
<1> QED
  BY <1>1, <1>2, <1>3

LEMMA CrashKept ==
  ASSUME SInv, MInv', Observe, Crash, NEW q \in Requests
  PROVE  SearchOK(q)'
<1>1. req' = req /\ mem' = mem
  BY DEF Crash
<1>2. CASE pc'[q] = pc[q]
  <2>1. told'[q] \in {told[q], 500}
    BY DEF Crash
  <2> QED
    BY <1>1, <1>2, <2>1, SearchWaits
<1>3. CASE pc'[q] # pc[q]
  <2>1. pc'[q] = "lost" /\ Running(q) /\ told'[q] \in {told[q], 500}
    BY <1>3 DEF Crash
  <2>2. told[q] \in {NoAnswer, 500}
    BY <2>1 DEF SInv, MInv, StagesOK, StageOK, Running
  <2> QED
    BY <2>1, <2>2, SearchStops DEF NoAnswer
<1> QED
  BY <1>2, <1>3

LEMMA InitSInv == Init => SInv
<1> SUFFICES ASSUME Init PROVE SInv
  OBVIOUS
<1>1. \A r \in Requests : pc[r] = "new" /\ told[r] = NoAnswer
  BY DEF Init, RpcInit
<1> QED
  BY <1>1, InitMInv DEF SInv, SearchOK, Running, NoAnswer

LEMMA NextSInv ==
  ASSUME SInv, [Next]_vars
  PROVE  SInv'
<1>1. MInv'
  BY NextMInv DEF SInv
<1>2. ASSUME NEW q \in Requests PROVE SearchOK(q)'
  <2>1. CASE Next
    BY <1>1, <2>1, SearchKept, CrashKept DEF Next
  <2>2. CASE UNCHANGED vars
    BY <2>2 DEF SInv, SearchOK, IsSearch, Running, Matching, Selected, PagingOK, FoundOK, Holds, vars,
       rpcVars, adsVars
  <2> QED
    BY <2>1, <2>2
<1> QED
  BY <1>1, <1>2 DEF SInv

LEMMA SearchInvariance == Spec => []SInv
BY InitSInv, NextSInv, PTL DEF Spec

(* Whatever happens between the pages that a search reads, and whatever the *)
(* size of a page: it returns in the order of the ids, each once, all ads   *)
(* that have matched ever since it began, and none that never has           *)
(* (getSuitableAds).                                                        *)
THEOREM SearchIsExact == Spec => []SearchExact
<1>1. ASSUME SInv PROVE SearchExact
  <2> SUFFICES ASSUME NEW r \in Requests, IsSearch(r)
               PROVE  /\ told[r] = 200 =>
                           /\ must[r] \subseteq {mem[r][k] : k \in DOMAIN mem[r]}
                           /\ \A k \in DOMAIN mem[r] : /\ mem[r][k] \in may[r]
                                                       /\ \A j \in 1..(k - 1) : mem[r][j] < mem[r][k]
                      /\ told[r] = 404 => must[r] = {}
    BY DEF SearchExact
  <2>1. SearchOK(r)
    BY <1>1 DEF SInv
  <2>2. ASSUME told[r] = 200
        PROVE  /\ must[r] \subseteq {mem[r][k] : k \in DOMAIN mem[r]}
               /\ \A k \in DOMAIN mem[r] : /\ mem[r][k] \in may[r]
                                           /\ \A j \in 1..(k - 1) : mem[r][j] < mem[r][k]
    <3>1. FoundOK(r, mem[r]) /\ Holds(mem[r], must[r])
      BY <2>1, <2>2 DEF SearchOK
    <3>2. ASSUME NEW k \in DOMAIN mem[r], NEW j \in 1..(k - 1) PROVE mem[r][j] < mem[r][k]
      <4>1. PICK found \in Seq(Nat) : found = mem[r] /\ Ascending(found)
        BY <3>1 DEF FoundOK
      <4>2. DOMAIN found = 1..Len(found) /\ Len(found) \in Nat
        BY LenProperties
      <4>3. j \in DOMAIN found /\ k \in DOMAIN found /\ j < k
        BY <4>1, <4>2
      <4> QED
        BY <4>1, <4>3 DEF Ascending
    <3> QED
      BY <3>1, <3>2 DEF FoundOK, Holds
  <2> QED
    BY <2>1, <2>2 DEF SearchOK
<1> QED
  BY SearchInvariance, <1>1, PTL
=============================================================================
