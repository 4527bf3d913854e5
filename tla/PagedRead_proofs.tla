-------------------------- MODULE PagedRead_proofs --------------------------
(***************************************************************************)
(* Whatever upstream answers and wherever it redirects, no request that    *)
(* changes data leaves the process; and a list that is returned is sound,  *)
(* whatever is inserted and removed between its pages.  The second rests   *)
(* on a budget: a read may lack as many documents as were removed while it *)
(* ran, as a removal moves one document from the page to come to the one   *)
(* before; and where a total is declared, as many as were inserted.        *)
(***************************************************************************)
EXTENDS PagedRead, SequenceTheorems, FiniteSetTheorems, TLAPS

-----------------------------------------------------------------------------
(***************************************************************************)
(* Requests                                                                *)
(***************************************************************************)

RuleType ==
    [methods : SUBSET Methods, hosts : SUBSET Hosts,
     paths : SUBSET (ModulePaths \cup RulePaths),
     class : {"allow", "build", "deny"}]

\* The parts of the table are sequences of rules.
LEMMA RulePartsTyped ==
    /\ AuthRules \in Seq(RuleType) /\ Len(AuthRules) = 3
    /\ WriteRules \in Seq(RuleType) /\ Len(WriteRules) = 6
    /\ ReadRules \in Seq(RuleType) /\ Len(ReadRules) = 12
    /\ Rest \in Seq(RuleType) /\ Len(Rest) = 1
<1>1. \A a \in SUBSET Methods, b \in SUBSET Hosts,
         c \in SUBSET (ModulePaths \cup RulePaths),
         d \in {"allow", "build", "deny"} : Rule(a, b, c, d) \in RuleType
    BY DEF Rule, RuleType
<1>2. /\ Get \subseteq Methods
      /\ {"POST"} \subseteq Methods /\ {"GET"} \subseteq Methods
      /\ {"GET", "POST", "DELETE"} \subseteq Methods
      /\ {"POST", "PUT"} \subseteq Methods
      /\ {"POST", "PUT", "PATCH", "DELETE"} \subseteq Methods
      /\ Methods \ {"HEAD"} \subseteq Methods
      /\ Get \cup {"POST"} \subseteq Methods
    BY DEF Get, Methods
<1>3. {"passport"} \subseteq Hosts /\ {"business"} \subseteq Hosts
      /\ {"business", "passport", "family"} \subseteq Hosts
    BY DEF Hosts
<1>4. ReadPaths \subseteq RulePaths /\ WritePaths \subseteq RulePaths
    BY DEF RulePaths
<1>5. AuthRules \in Seq(RuleType) /\ Len(AuthRules) = 3
    BY <1>1, <1>2, <1>3, <1>4 DEF AuthRules, ReadPaths
<1>6. WriteRules \in Seq(RuleType) /\ Len(WriteRules) = 6
    BY <1>1, <1>2, <1>3, <1>4 DEF WriteRules, WritePaths
<1>7. ReadRules \in Seq(RuleType) /\ Len(ReadRules) = 12
    BY <1>1, <1>2, <1>3, <1>4 DEF ReadRules, ReadPaths
<1>8. Rest \in Seq(RuleType) /\ Len(Rest) = 1
    BY <1>1, <1>2, <1>3 DEF Rest
<1>9. QED
    BY <1>5, <1>6, <1>7, <1>8

\* The rules that allow a request are about paths that are only read.
LEMMA RulesOnlyRead ==
    ASSUME NEW i \in DOMAIN Rules, Rules[i].class = "allow"
    PROVE  Rules[i].paths \subseteq ReadPaths
<1>1. \A k \in 1..3 : AuthRules[k].paths \subseteq ReadPaths
    BY DEF AuthRules, Rule, ReadPaths
<1>2. \A k \in 1..6 : WriteRules[k].class # "allow"
    BY DEF WriteRules, Rule
<1>3. \A k \in 1..12 : ReadRules[k].paths \subseteq ReadPaths
    BY DEF ReadRules, Rule, ReadPaths
<1>4. Rest[1].class # "allow"
    BY DEF Rest, Rule
<1> DEFINE AW == AuthRules \o WriteRules
           AWR == AW \o ReadRules
<1>5. /\ AW \in Seq(RuleType) /\ Len(AW) = 9
      /\ \A k \in 1..9 : AW[k] = IF k <= 3 THEN AuthRules[k]
                                 ELSE WriteRules[k - 3]
  <2>1. /\ AuthRules \in Seq(RuleType) /\ Len(AuthRules) = 3
        /\ WriteRules \in Seq(RuleType) /\ Len(WriteRules) = 6
      BY RulePartsTyped
  <2>3. AuthRules \o WriteRules \in Seq(RuleType)
      BY <2>1, ConcatProperties, Zenon
  <2>4. Len(AuthRules \o WriteRules) = Len(AuthRules) + Len(WriteRules)
      BY <2>1, ConcatProperties, Zenon
  <2>5. \A k \in 1..(Len(AuthRules) + Len(WriteRules)) :
            (AuthRules \o WriteRules)[k] =
                IF k <= Len(AuthRules) THEN AuthRules[k]
                ELSE WriteRules[k - Len(AuthRules)]
      BY <2>1, ConcatProperties, Zenon
  <2> HIDE DEF AW
  <2>6. AW = AuthRules \o WriteRules
      BY DEF AW
  <2>7. /\ AW \in Seq(RuleType)
        /\ Len(AW) = Len(AuthRules) + Len(WriteRules)
        /\ \A k \in 1..(Len(AuthRules) + Len(WriteRules)) :
              AW[k] = IF k <= Len(AuthRules) THEN AuthRules[k]
                      ELSE WriteRules[k - Len(AuthRules)]
      BY ONLY <2>3, <2>4, <2>5, <2>6, Zenon
  <2>8. QED
      BY ONLY <2>1, <2>7
<1>6. /\ AWR \in Seq(RuleType) /\ Len(AWR) = 21
      /\ \A k \in 1..21 : AWR[k] = IF k <= 9 THEN AW[k]
                                   ELSE ReadRules[k - 9]
  <2> HIDE DEF AW
  <2>1. /\ AW \in Seq(RuleType) /\ Len(AW) = 9
        /\ ReadRules \in Seq(RuleType) /\ Len(ReadRules) = 12
      BY RulePartsTyped, <1>5
  <2>3. AW \o ReadRules \in Seq(RuleType)
      BY <2>1, ConcatProperties, Zenon
  <2>4. Len(AW \o ReadRules) = Len(AW) + Len(ReadRules)
      BY <2>1, ConcatProperties, Zenon
  <2>5. \A k \in 1..(Len(AW) + Len(ReadRules)) :
            (AW \o ReadRules)[k] =
                IF k <= Len(AW) THEN AW[k]
                ELSE ReadRules[k - Len(AW)]
      BY <2>1, ConcatProperties, Zenon
  <2>6. AWR = AW \o ReadRules
      OBVIOUS
  <2> HIDE DEF AWR
  <2>7. /\ AWR \in Seq(RuleType)
        /\ Len(AWR) = Len(AW) + Len(ReadRules)
        /\ \A k \in 1..(Len(AW) + Len(ReadRules)) :
              AWR[k] = IF k <= Len(AW) THEN AW[k]
                       ELSE ReadRules[k - Len(AW)]
      BY ONLY <2>3, <2>4, <2>5, <2>6, Zenon
  <2>8. QED
      BY ONLY <2>1, <2>7
<1>7. /\ Len(Rules) = 22
      /\ \A k \in 1..22 : Rules[k] = IF k <= 21 THEN AWR[k]
                                     ELSE Rest[k - 21]
      /\ DOMAIN Rules = 1..22
  <2>6. Rules = AWR \o Rest
      BY DEF Rules
  <2> HIDE DEF AWR
  <2>1. /\ AWR \in Seq(RuleType) /\ Len(AWR) = 21
        /\ Rest \in Seq(RuleType) /\ Len(Rest) = 1
      BY RulePartsTyped, <1>6
  <2>3. AWR \o Rest \in Seq(RuleType)
      BY <2>1, ConcatProperties, Zenon
  <2>4. Len(AWR \o Rest) = Len(AWR) + Len(Rest)
      BY <2>1, ConcatProperties, Zenon
  <2>5. \A k \in 1..(Len(AWR) + Len(Rest)) :
            (AWR \o Rest)[k] =
                IF k <= Len(AWR) THEN AWR[k]
                ELSE Rest[k - Len(AWR)]
      BY <2>1, ConcatProperties, Zenon
  <2>7. /\ Rules \in Seq(RuleType)
        /\ Len(Rules) = Len(AWR) + Len(Rest)
        /\ \A k \in 1..(Len(AWR) + Len(Rest)) :
              Rules[k] = IF k <= Len(AWR) THEN AWR[k]
                         ELSE Rest[k - Len(AWR)]
      BY ONLY <2>3, <2>4, <2>5, <2>6, Zenon
  <2>8. QED
      BY ONLY <2>1, <2>7
<1>8. i \in 1..22
    BY ONLY <1>7, i \in DOMAIN Rules
<1> HIDE DEF AW, AWR
<1>9. CASE i <= 3
    BY <1>1, <1>5, <1>6, <1>7, <1>8, <1>9
<1>10. CASE i \in 4..9
    BY <1>2, <1>5, <1>6, <1>7, <1>10
<1>11. CASE i \in 10..21
    BY <1>3, <1>6, <1>7, <1>11
<1>12. CASE i = 22
    BY <1>4, <1>7, <1>12
<1>13. QED
    BY <1>8, <1>9, <1>10, <1>11, <1>12

\* A request the policy allows does not change data.
LEMMA AllowedIsRead ==
    ASSUME NEW r \in Request, Allowed(r)
    PROVE  ~Changes(r)
<1>1. CASE r.path \in ModulePaths
  <2>1. ModuleAllows(r)
      BY <1>1 DEF Allowed
  <2>2. CASE r.method = "GET" /\ r.path \in ModuleLists
      BY <2>2 DEF Changes, ModuleLists, WritePaths
  <2>3. CASE r.path \in ModulePagers /\ ProvenForm(r)
      BY <2>3 DEF Changes, ModulePagers, ProvenForm, WritePaths
  <2>4. QED
      BY <2>1, <2>2, <2>3 DEF ModuleAllows
<1>2. CASE r.path \notin ModulePaths
  <2>1. RuleAllows(r)
      BY <1>2 DEF Allowed
  <2>2. PICK i \in DOMAIN Rules : r.path \in Rules[i].paths
                                  /\ Rules[i].class = "allow"
      BY <2>1 DEF RuleAllows, Matching
  <2>3. r.path \in ReadPaths
      BY <2>2, RulesOnlyRead
  <2>4. QED
      BY <2>3 DEF Changes, ReadPaths, WritePaths, ModulePagers
<1>3. QED
    BY <1>1, <1>2

\* The inductive invariant: what has left was classified before.
Guarded == \A r \in wire : r \in Request /\ Allowed(r)

AskedPage == reader.page \in Nat

\* The reader's requests are requests.
LEMMA PageRequestTyped ==
    ASSUME AskedPage
    PROVE  PageRequest \in Request
<1>1. PathOf \in ModulePaths \cup RulePaths
    BY DEF PathOf, ModulePaths, ModuleLists, ModulePagers, RulePaths,
           ReadPaths
<1>2. PageRequest.form \in Form
    BY PagedAssumption DEF PageRequest, NoForm, Form, AskedPage
<1>3. QED
    BY <1>1, <1>2 DEF PageRequest, Request, Methods, Hosts, Shapes

\* Requests leave only by actions that classify them.
LEMMA GuardedStep ==
    ASSUME Guarded, AskedPage, [Next]_vars
    PROVE  Guarded'
<1>1. PageRequest \in Request
    BY PageRequestTyped
<1>2. CASE UNCHANGED wire
    BY <1>2 DEF Guarded
<1>3. CASE Send
    BY <1>1, <1>3 DEF Send, Guarded
<1>4. CASE Follow
    BY <1>1, <1>4, PagedAssumption DEF Follow, Guarded
<1>5. CASE Refuse
    BY <1>1, <1>5 DEF Refuse, Guarded
<1>6. QED
    BY <1>2, <1>3, <1>4, <1>5
    DEF Next, vars, Enlist, Delist, Modify, Begin, LoginPage, Fails, TakePage

\* Pages are asked for by number.
LEMMA AskedPageStep ==
    ASSUME AskedPage, [Next]_vars
    PROVE  AskedPage'
<1>1. CASE UNCHANGED reader
    BY <1>1 DEF AskedPage
<1>2. ASSUME NEW items PROVE QueryDone(items).page \in Nat
    BY DEF QueryDone, AskedPage
<1>3. ASSUME NEW a PROVE Counted(a).page \in Nat
    BY <1>2 DEF Counted, Incomplete, AskedPage
<1>4. ASSUME NEW a PROVE Numbered(a).page \in Nat
  <2>1. \/ Numbered(a) = Incomplete
        \/ \E items : Numbered(a) = QueryDone(items)
        \/ \E p, t, z, items :
              Numbered(a) = [reader EXCEPT !.pages = p, !.total = t,
                                           !.size = z, !.items = items,
                                           !.page = @ + 1]
      BY Zenon DEF Numbered
  <2>2. Incomplete.page \in Nat
      BY DEF Incomplete, AskedPage
  <2>3. ASSUME NEW p, NEW t, NEW z, NEW items
        PROVE [reader EXCEPT !.pages = p, !.total = t, !.size = z,
                             !.items = items, !.page = @ + 1].page \in Nat
      BY DEF AskedPage
  <2>4. CASE Numbered(a) = Incomplete
      BY <2>2, <2>4, Zenon
  <2>5. CASE \E items : Numbered(a) = QueryDone(items)
    <3>1. PICK items : Numbered(a) = QueryDone(items)
        BY <2>5
    <3>2. QED
        BY <1>2, <3>1, Zenon
  <2>6. CASE \E p, t, z, items :
                Numbered(a) = [reader EXCEPT !.pages = p, !.total = t,
                                             !.size = z, !.items = items,
                                             !.page = @ + 1]
    <3>1. PICK p, t, z, items :
                Numbered(a) = [reader EXCEPT !.pages = p, !.total = t,
                                             !.size = z, !.items = items,
                                             !.page = @ + 1]
        BY <2>6
    <3>2. QED
        BY <3>1, AskedPage
        DEF AskedPage
  <2>7. QED
      BY <2>1, <2>4, <2>5, <2>6, Zenon
<1>5. CASE TakePage
    BY <1>3, <1>4, <1>5 DEF TakePage, AskedPage
<1>6. ASSUME NEW pc, Ends(pc) PROVE AskedPage'
    BY <1>6 DEF Ends, AskedPage
<1>7. CASE Begin
    BY <1>7 DEF Begin, AskedPage
<1>8. CASE Refuse \/ LoginPage \/ Fails
    BY <1>6, <1>8 DEF Refuse, LoginPage, Fails
<1>9. QED
    BY <1>1, <1>5, <1>7, <1>8
    DEF Next, vars, Enlist, Delist, Modify, Follow

\* No request that changes data leaves the process, redirects included,
\* for every list, reader and redirect.
THEOREM ReadsOnly == Spec => []OnlyReadsLeave
<1>1. Init => Guarded /\ AskedPage
    BY DEF Init, Guarded, AskedPage
<1>2. Guarded /\ AskedPage /\ [Next]_vars => Guarded' /\ AskedPage'
    BY GuardedStep, AskedPageStep
<1>3. Guarded => OnlyReadsLeave
    BY AllowedIsRead DEF Guarded, OnlyReadsLeave
<1>4. QED
    BY <1>1, <1>2, <1>3, PTL DEF Spec

-----------------------------------------------------------------------------
(***************************************************************************)
(* Counting along a list                                                   *)
(***************************************************************************)

UpTo(K, i) == {j \in K : j <= i}

\* The ranks of the members of a set of positions number it through.
LEMMA RanksNumber ==
    ASSUME NEW n \in Nat, NEW K \in SUBSET (1..n)
    PROVE  /\ IsFiniteSet(K) /\ Cardinality(K) \in Nat
           /\ \A i \in K : Cardinality(UpTo(K, i)) \in 1..Cardinality(K)
           /\ \A i, k \in K : Cardinality(UpTo(K, i)) = Cardinality(UpTo(K, k))
                                => i = k
           /\ \A m \in 1..Cardinality(K) :
                  \E i \in K : Cardinality(UpTo(K, i)) = m
<1>1. IsFiniteSet(K) /\ Cardinality(K) \in Nat
  <2>1. 1 \in Int /\ n \in Int
    OBVIOUS
  <2>2. IsFiniteSet(1..n)
    BY ONLY <2>1, FS_Interval
  <2> QED BY <2>2, FS_Subset, FS_CardinalityType
<1>2. ASSUME NEW i \in K
      PROVE  /\ IsFiniteSet(UpTo(K, i))
             /\ Cardinality(UpTo(K, i)) \in 1..Cardinality(K)
  <2>1. UpTo(K, i) \subseteq K /\ i \in UpTo(K, i)
    BY DEF UpTo
  <2>2. /\ IsFiniteSet(UpTo(K, i))
        /\ Cardinality(UpTo(K, i)) <= Cardinality(K)
    BY <1>1, <2>1, FS_Subset
  <2>3. Cardinality(UpTo(K, i)) \in Nat /\ Cardinality(UpTo(K, i)) # 0
    BY <2>1, <2>2, FS_CardinalityType, FS_EmptySet
  <2> QED BY <1>1, <2>2, <2>3
<1>3. ASSUME NEW i \in K, NEW k \in K, i < k
      PROVE  Cardinality(UpTo(K, i)) # Cardinality(UpTo(K, k))
  <2>0. K \subseteq Nat /\ i \in Nat /\ k \in Nat
    OBVIOUS
  <2>1. UpTo(K, i) \subseteq UpTo(K, k)
    <3> SUFFICES ASSUME NEW j \in K, j <= i PROVE j <= k
      BY DEF UpTo
    <3>1. j \in Nat
      BY <2>0
    <3> QED BY <1>3, <2>0, <3>1
  <2>2. k \in UpTo(K, k) /\ k \notin UpTo(K, i)
    BY <1>3 DEF UpTo
  <2>3. Cardinality(UpTo(K, k)) = Cardinality(UpTo(K, i))
            => UpTo(K, k) = UpTo(K, i)
    BY <1>2, <2>1, FS_Subset
  <2> QED BY <2>2, <2>3
<1>4. \A i, k \in K : Cardinality(UpTo(K, i)) = Cardinality(UpTo(K, k))
                        => i = k
  <2>1. \A i, k \in K : i < k \/ k < i \/ i = k
    OBVIOUS
  <2> QED BY <1>3, <2>1
<1> DEFINE f == [i \in K |-> Cardinality(UpTo(K, i))]
           T == 1..Cardinality(K)
<1>5. f \in Injection(K, T)
  BY <1>2, <1>4 DEF Injection, IsInjective
<1>6. IsFiniteSet(T) /\ Cardinality(T) = Cardinality(K)
  BY <1>1, FS_Interval
<1>7. f \in Surjection(K, T)
  <2> HIDE DEF f, T
  <2> QED BY <1>5, <1>6, FS_Injection
<1>8. ASSUME NEW m \in 1..Cardinality(K)
      PROVE  \E i \in K : Cardinality(UpTo(K, i)) = m
  BY <1>7 DEF Surjection
<1> QED BY <1>1, <1>2, <1>4, <1>8

Kept(items, docs) == {i \in DOMAIN items : items[i].doc \in docs}

Rank(items, docs, i) == Cardinality(UpTo(Kept(items, docs), i))

\* What Select keeps, and where it puts it.
LEMMA SelectPlaces ==
    ASSUME NEW items \in Seq(Item), NEW docs
    PROVE  /\ Select(items, docs) \in Seq(Item)
           /\ IsFiniteSet(Kept(items, docs))
           /\ Len(Select(items, docs)) = Cardinality(Kept(items, docs))
           /\ \A i \in Kept(items, docs) :
                 /\ Rank(items, docs, i) \in 1..Len(Select(items, docs))
                 /\ Select(items, docs)[Rank(items, docs, i)] = items[i]
           /\ \A n \in 1..Len(Select(items, docs)) :
                 \E i \in Kept(items, docs) : Rank(items, docs, i) = n
<1> DEFINE K == Kept(items, docs)
           R(i) == Cardinality(UpTo(K, i))
<1>1. Len(items) \in Nat /\ DOMAIN items = 1..Len(items)
      /\ \A i \in DOMAIN items : items[i] \in Item
  OBVIOUS
<1>2. K \in SUBSET (1..Len(items))
  BY <1>1 DEF Kept
<1>3. /\ IsFiniteSet(K) /\ Cardinality(K) \in Nat
      /\ \A i \in K : R(i) \in 1..Cardinality(K)
      /\ \A i, k \in K : R(i) = R(k) => i = k
      /\ \A m \in 1..Cardinality(K) : \E i \in K : R(i) = m
  <2> HIDE DEF K
  <2> QED BY <1>1, <1>2, RanksNumber
<1>4. Select(items, docs) =
          [n \in 1..Cardinality(K) |-> items[CHOOSE i \in K : R(i) = n]]
  BY DEF Select, Kept, UpTo
<1> HIDE DEF K, R
<1>5. ASSUME NEW n \in 1..Cardinality(K)
      PROVE  /\ (CHOOSE i \in K : R(i) = n) \in K
             /\ items[CHOOSE i \in K : R(i) = n] \in Item
  BY <1>1, <1>2, <1>3
<1>6. /\ Select(items, docs) \in [1..Cardinality(K) -> Item]
      /\ Select(items, docs) \in Seq(Item)
      /\ Len(Select(items, docs)) = Cardinality(K)
  BY <1>3, <1>4, <1>5
<1>7. ASSUME NEW i \in K
      PROVE  Select(items, docs)[R(i)] = items[i]
  <2>1. (CHOOSE k \in K : R(k) = R(i)) = i
    BY <1>3
  <2>2. R(i) \in 1..Cardinality(K)
    BY <1>3
  <2> QED BY <1>4, <2>1, <2>2
<1> QED
  <2> USE DEF K, R
  <2> QED BY <1>3, <1>6, <1>7 DEF Rank

Distinct(items) ==
    \A i, j \in DOMAIN items : items[i].doc = items[j].doc => i = j

\* Of a list without repetitions, Select keeps the documents once.
LEMMA SelectKeeps ==
    ASSUME NEW items \in Seq(Item), NEW docs
    PROVE  /\ Select(items, docs) \in Seq(Item)
           /\ DocsOf(Select(items, docs)) = DocsOf(items) \cap docs
           /\ Range(Select(items, docs)) \subseteq Range(items)
           /\ Distinct(items) => Distinct(Select(items, docs))
<1> DEFINE s == Select(items, docs)
<1>1. /\ s \in Seq(Item)
      /\ \A i \in Kept(items, docs) :
            /\ Rank(items, docs, i) \in 1..Len(s)
            /\ s[Rank(items, docs, i)] = items[i]
      /\ \A n \in 1..Len(s) :
            \E i \in Kept(items, docs) : Rank(items, docs, i) = n
  BY SelectPlaces
<1> HIDE DEF s
<1>2. DOMAIN s = 1..Len(s)
  BY <1>1
<1>3. \A n \in DOMAIN s : \E i \in Kept(items, docs) :
          Rank(items, docs, i) = n /\ s[n] = items[i]
  BY <1>1, <1>2
<1>4. DocsOf(s) = DocsOf(items) \cap docs
  <2>1. ASSUME NEW x \in DocsOf(s) PROVE x \in DocsOf(items) \cap docs
    <3>1. PICK n \in DOMAIN s : x = s[n].doc
      BY DEF DocsOf
    <3> QED BY <1>3, <3>1 DEF Kept, DocsOf
  <2>2. ASSUME NEW x \in DocsOf(items), x \in docs PROVE x \in DocsOf(s)
    <3>1. PICK i \in DOMAIN items : x = items[i].doc
      BY DEF DocsOf
    <3>2. i \in Kept(items, docs)
      BY <2>2, <3>1 DEF Kept
    <3> QED BY <1>1, <1>2, <3>1, <3>2 DEF DocsOf
  <2> QED BY <2>1, <2>2
<1>5. Range(s) \subseteq Range(items)
  <2> SUFFICES ASSUME NEW n \in DOMAIN s PROVE s[n] \in Range(items)
    BY DEF Range
  <2> QED BY <1>3 DEF Kept, Range
<1>6. ASSUME Distinct(items) PROVE Distinct(s)
  <2> SUFFICES ASSUME NEW m \in DOMAIN s, NEW n \in DOMAIN s,
                      s[m].doc = s[n].doc
               PROVE  m = n
    BY DEF Distinct
  <2>1. PICK i \in Kept(items, docs) :
            Rank(items, docs, i) = m /\ s[m] = items[i]
    BY <1>3
  <2>2. PICK k \in Kept(items, docs) :
            Rank(items, docs, k) = n /\ s[n] = items[k]
    BY <1>3
  <2>3. i = k
    BY <1>6, <2>1, <2>2 DEF Distinct, Kept
  <2> QED BY <2>1, <2>2, <2>3
<1> QED BY <1>1, <1>4, <1>5, <1>6 DEF s

\* A list without repetitions has as many documents as rows.
LEMMA DistinctCounts ==
    ASSUME NEW items \in Seq(Item)
    PROVE  /\ IsFiniteSet(DocsOf(items)) /\ DocsOf(items) \subseteq Docs
           /\ Len(items) \in Nat /\ Cardinality(DocsOf(items)) \in Nat
           /\ Distinct(items) => Cardinality(DocsOf(items)) = Len(items)
<1> DEFINE f == [i \in 1..Len(items) |-> items[i].doc]
           S == 1..Len(items)
           D == DocsOf(items)
<1>1. DOMAIN items = S /\ Len(items) \in Nat
      /\ \A i \in S : items[i] \in Item
  OBVIOUS
<1>2. f \in Surjection(S, D)
  BY <1>1 DEF Surjection, DocsOf
<1>3. IsFiniteSet(S) /\ Cardinality(S) = Len(items)
  <2>1. 1 \in Int /\ Len(items) \in Int
    BY <1>1
  <2>2. /\ IsFiniteSet(1..Len(items))
        /\ Cardinality(1..Len(items)) =
              IF 1 > Len(items) THEN 0 ELSE Len(items) - 1 + 1
    BY ONLY <2>1, FS_Interval
  <2> QED BY <1>1, <2>2
<1>4. Distinct(items) => f \in Injection(S, D)
  BY <1>1, <1>2 DEF Injection, IsInjective, Surjection, Distinct
<1>5. D \subseteq Docs
  BY <1>1 DEF DocsOf, Item
<1> HIDE DEF f, S, D
<1>6. IsFiniteSet(D) /\ (f \in Injection(S, D) => Cardinality(D) = Len(items))
  BY <1>2, <1>3, FS_Surjection
<1>7. Cardinality(D) \in Nat
  BY <1>6, FS_CardinalityType
<1> QED BY <1>1, <1>4, <1>5, <1>6, <1>7 DEF D

\* Lists that have no document in common, one behind the other.
LEMMA JoinedLists ==
    ASSUME NEW a \in Seq(Item), NEW b \in Seq(Item)
    PROVE  /\ a \o b \in Seq(Item) /\ Len(a \o b) = Len(a) + Len(b)
           /\ DocsOf(a \o b) = DocsOf(a) \cup DocsOf(b)
           /\ Range(a \o b) = Range(a) \cup Range(b)
           /\ Distinct(a) /\ Distinct(b) /\ DocsOf(a) \cap DocsOf(b) = {}
                => Distinct(a \o b)
<1> DEFINE c == a \o b
<1>1. /\ c \in Seq(Item) /\ Len(c) = Len(a) + Len(b)
      /\ \A i \in 1..(Len(a) + Len(b)) :
            c[i] = IF i <= Len(a) THEN a[i] ELSE b[i - Len(a)]
  BY ConcatProperties, Zenon
<1> HIDE DEF c
<1>2. /\ DOMAIN a = 1..Len(a) /\ DOMAIN b = 1..Len(b)
      /\ DOMAIN c = 1..Len(c) /\ Len(a) \in Nat /\ Len(b) \in Nat
  BY <1>1
<1>3. \A i \in DOMAIN c : \/ i \in DOMAIN a /\ c[i] = a[i]
                          \/ i - Len(a) \in DOMAIN b /\ c[i] = b[i - Len(a)]
  BY <1>1, <1>2
<1>4. \A i \in DOMAIN a : i \in DOMAIN c /\ c[i] = a[i]
  BY <1>1, <1>2
<1>5. \A i \in DOMAIN b : i + Len(a) \in DOMAIN c /\ c[i + Len(a)] = b[i]
  BY <1>1, <1>2
<1>6. DocsOf(c) = DocsOf(a) \cup DocsOf(b)
  BY <1>3, <1>4, <1>5 DEF DocsOf
<1>7. Range(c) = Range(a) \cup Range(b)
  BY <1>3, <1>4, <1>5 DEF Range
<1>8. ASSUME Distinct(a), Distinct(b), DocsOf(a) \cap DocsOf(b) = {}
      PROVE  Distinct(c)
  <2> SUFFICES ASSUME NEW i \in DOMAIN c, NEW k \in DOMAIN c,
                      c[i].doc = c[k].doc
               PROVE  i = k
    BY DEF Distinct
  <2>1. \A m \in DOMAIN a, n \in DOMAIN b : a[m].doc # b[n].doc
    BY <1>8 DEF DocsOf
  <2>2. CASE i \in DOMAIN a /\ c[i] = a[i] /\ k \in DOMAIN a /\ c[k] = a[k]
    BY <1>8, <2>2 DEF Distinct
  <2>3. CASE /\ i - Len(a) \in DOMAIN b /\ c[i] = b[i - Len(a)]
             /\ k - Len(a) \in DOMAIN b /\ c[k] = b[k - Len(a)]
    <3>1. i - Len(a) = k - Len(a)
      BY <1>8, <2>3 DEF Distinct
    <3> QED BY <1>2, <3>1
  <2> QED BY <1>3, <2>1, <2>2, <2>3
<1> QED BY <1>1, <1>6, <1>7, <1>8 DEF c


-----------------------------------------------------------------------------
(***************************************************************************)
(* What upstream lists                                                     *)
(***************************************************************************)

\* Upstream's list has no document twice.
Upright ==
    /\ upstream \in Seq(Docs) /\ IsInjective(upstream)
    /\ rev \in [Docs -> Nat]

Lists(query) == Range(upstream) \cap Listed[query]

\* The documents a query lists up to this one.
Ahead(query, doc) ==
    {e \in Listed[query] : \E i, j \in DOMAIN upstream :
        i <= j /\ upstream[i] = e /\ upstream[j] = doc}

LEMMA ListsAreFinite ==
    ASSUME Upright, NEW query
    PROVE  /\ IsFiniteSet(Range(upstream)) /\ Range(upstream) \subseteq Docs
           /\ IsFiniteSet(Lists(query)) /\ Cardinality(Lists(query)) \in Nat
           /\ \A doc : /\ Ahead(query, doc) \subseteq Lists(query)
                       /\ IsFiniteSet(Ahead(query, doc))
                       /\ Cardinality(Ahead(query, doc)) \in Nat
                       /\ Cardinality(Ahead(query, doc))
                             <= Cardinality(Lists(query))
<1> DEFINE S == DOMAIN upstream
<1>1. /\ S = 1..Len(upstream) /\ Len(upstream) \in Nat
      /\ \A i \in S : upstream[i] \in Docs
  BY DEF Upright
<1>2. IsFiniteSet(S)
  <2>1. 1 \in Int /\ Len(upstream) \in Int
    BY <1>1
  <2>2. IsFiniteSet(1..Len(upstream))
    BY ONLY <2>1, FS_Interval
  <2> QED BY <1>1, <2>2
<1>3. upstream \in Surjection(S, Range(upstream))
  BY DEF Surjection, Range, Upright
<1>4. IsFiniteSet(Range(upstream))
  BY <1>2, <1>3, FS_Surjection
<1>5. IsFiniteSet(Lists(query)) /\ Cardinality(Lists(query)) \in Nat
  BY <1>4, FS_Subset, FS_CardinalityType DEF Lists
<1>6. ASSUME NEW doc
      PROVE  /\ Ahead(query, doc) \subseteq Lists(query)
             /\ IsFiniteSet(Ahead(query, doc))
             /\ Cardinality(Ahead(query, doc)) \in Nat
             /\ Cardinality(Ahead(query, doc)) <= Cardinality(Lists(query))
  <2>1. Ahead(query, doc) \subseteq Lists(query)
    BY DEF Ahead, Lists, Range
  <2> QED BY <1>5, <2>1, FS_Subset, FS_CardinalityType
<1>7. Range(upstream) \subseteq Docs
  BY <1>1 DEF Range
<1> QED BY <1>4, <1>5, <1>6, <1>7

LEMMA AllItemsTyped ==
    ASSUME Upright
    PROVE  /\ AllItems \in Seq(Item) /\ Distinct(AllItems)
           /\ DOMAIN AllItems = DOMAIN upstream
           /\ \A i \in DOMAIN upstream :
                 /\ AllItems[i].doc = upstream[i]
                 /\ AllItems[i].rev = rev[upstream[i]]
           /\ DocsOf(AllItems) = Range(upstream)
<1>1. /\ DOMAIN upstream = 1..Len(upstream) /\ Len(upstream) \in Nat
      /\ \A i \in DOMAIN upstream : upstream[i] \in Docs
  BY DEF Upright
<1>2. /\ AllItems \in [1..Len(upstream) -> Item]
      /\ \A i \in DOMAIN upstream :
            /\ AllItems[i].doc = upstream[i]
            /\ AllItems[i].rev = rev[upstream[i]]
  BY <1>1 DEF AllItems, Item, Upright
<1>3. AllItems \in Seq(Item)
  BY <1>1, <1>2
<1>4. DOMAIN AllItems = DOMAIN upstream
  BY <1>1, <1>2
<1>5. Distinct(AllItems)
  BY <1>2, <1>4 DEF Distinct, Upright, IsInjective
<1>6. DocsOf(AllItems) = Range(upstream)
  BY <1>2, <1>4 DEF DocsOf, Range
<1> QED BY <1>2, <1>3, <1>4, <1>5, <1>6

\* A document's rank among the items is the number of documents up to it.
LEMMA RankIsAhead ==
    ASSUME Upright, NEW query \in Queries,
           NEW i \in Kept(AllItems, Listed[query])
    PROVE  Rank(AllItems, Listed[query], i)
              = Cardinality(Ahead(query, upstream[i]))
<1> DEFINE K == Kept(AllItems, Listed[query])
           S == UpTo(K, i)
           T == Ahead(query, upstream[i])
           f == [j \in S |-> upstream[j]]
<1>1. /\ K = {j \in DOMAIN upstream : upstream[j] \in Listed[query]}
      /\ \A j \in K : j \in DOMAIN upstream /\ j \in Nat
  BY AllItemsTyped DEF Kept, Upright
<1>2. ASSUME NEW j \in S
      PROVE  upstream[j] \in T
  BY <1>1 DEF UpTo, Ahead
<1>3. ASSUME NEW e \in T
      PROVE  \E j \in S : upstream[j] = e
  <2>1. PICK j \in DOMAIN upstream, k \in DOMAIN upstream :
            /\ j <= k /\ upstream[j] = e /\ upstream[k] = upstream[i]
            /\ e \in Listed[query]
    BY DEF Ahead
  <2>2. k = i
    BY <1>1, <2>1 DEF Upright, IsInjective
  <2>3. j \in S
    BY <1>1, <2>1, <2>2 DEF UpTo
  <2> QED BY <2>1, <2>3
<1>4. \A j, k \in S : upstream[j] = upstream[k] => j = k
  BY <1>1 DEF UpTo, Upright, IsInjective
<1> HIDE DEF T
<1>5. f \in Surjection(S, T)
  <2>1. f \in [S -> T]
    BY <1>2
  <2>2. \A e \in T : \E j \in S : f[j] = e
    BY <1>3
  <2> QED BY <2>1, <2>2 DEF Surjection
<1>6. f \in Injection(S, T)
  <2>1. f \in [S -> T]
    BY <1>2
  <2>2. IsInjective(f)
    BY <1>4 DEF IsInjective
  <2> QED BY <2>1, <2>2 DEF Injection
<1>7. IsFiniteSet(S)
  <2>1. IsFiniteSet(K)
    BY AllItemsTyped, SelectPlaces
  <2> QED BY <2>1, FS_Subset DEF UpTo
<1> HIDE DEF S, f
<1>8. Cardinality(T) = Cardinality(S)
  BY <1>5, <1>6, <1>7, FS_Surjection
<1> QED BY <1>8 DEF Rank, S, T

\* The list of a query: its documents, each at its rank.
LEMMA ListHasRanks ==
    ASSUME Upright, NEW query \in Queries
    PROVE  /\ ListFor(query) \in Seq(Item) /\ Distinct(ListFor(query))
           /\ DocsOf(ListFor(query)) = Lists(query)
           /\ Len(ListFor(query)) = Cardinality(Lists(query))
           /\ \A n \in 1..Len(ListFor(query)) :
                 Cardinality(Ahead(query, ListFor(query)[n].doc)) = n
           /\ \A e \in Lists(query) :
                 LET n == Cardinality(Ahead(query, e)) IN
                 n \in 1..Len(ListFor(query)) /\ ListFor(query)[n].doc = e
<1> DEFINE K == Kept(AllItems, Listed[query])
           s == ListFor(query)
<1>1. /\ AllItems \in Seq(Item) /\ Distinct(AllItems)
      /\ DOMAIN AllItems = DOMAIN upstream
      /\ \A i \in DOMAIN upstream : AllItems[i].doc = upstream[i]
      /\ DocsOf(AllItems) = Range(upstream)
  BY AllItemsTyped
<1>2. /\ s \in Seq(Item) /\ Distinct(s) /\ DocsOf(s) = Lists(query)
  BY <1>1, SelectKeeps DEF ListFor, Lists
<1>3. Len(s) = Cardinality(Lists(query))
  BY <1>2, DistinctCounts
<1>4. /\ \A i \in K : /\ Rank(AllItems, Listed[query], i) \in 1..Len(s)
                      /\ s[Rank(AllItems, Listed[query], i)] = AllItems[i]
      /\ \A n \in 1..Len(s) :
            \E i \in K : Rank(AllItems, Listed[query], i) = n
  BY <1>1, SelectPlaces DEF ListFor
<1>5. \A i \in K : Rank(AllItems, Listed[query], i)
                      = Cardinality(Ahead(query, upstream[i]))
  BY RankIsAhead
<1> HIDE DEF s
<1>6. ASSUME NEW n \in 1..Len(s)
      PROVE  Cardinality(Ahead(query, s[n].doc)) = n
  <2>1. PICK i \in K : Rank(AllItems, Listed[query], i) = n
    BY <1>4
  <2>2. s[n].doc = upstream[i]
    BY <1>1, <1>4, <2>1 DEF Kept
  <2> QED BY <1>5, <2>1, <2>2
<1>7. ASSUME NEW e \in Lists(query)
      PROVE  LET n == Cardinality(Ahead(query, e)) IN
             n \in 1..Len(s) /\ s[n].doc = e
  <2>1. PICK i \in DOMAIN upstream : upstream[i] = e /\ e \in Listed[query]
    BY DEF Lists, Range
  <2>2. i \in K
    BY <1>1, <2>1 DEF Kept
  <2> QED BY <1>1, <1>4, <1>5, <2>1, <2>2
<1> QED BY <1>2, <1>3, <1>6, <1>7 DEF s


-----------------------------------------------------------------------------
(***************************************************************************)
(* Pages                                                                   *)
(***************************************************************************)

\* The documents whose place in the list is on page p.
Window(query, p) ==
    {e \in Lists(query) :
        /\ Cardinality(Ahead(query, e)) > (p - 1) * PageSize
        /\ Cardinality(Ahead(query, e)) <= p * PageSize}

LEMMA PageEnds ==
    ASSUME NEW p \in Nat \ {0}
    PROVE  /\ (p - 1) * PageSize \in Nat /\ p * PageSize \in Nat
           /\ p * PageSize = (p - 1) * PageSize + PageSize
           /\ (p + 1 - 1) * PageSize = p * PageSize
           /\ PageSize \in Nat \ {0}
           /\ p = 1 => (p - 1) * PageSize = 0
<1>1. PageSize \in Nat \ {0}
  BY PagedAssumption
<1>2. ASSUME NEW k \in Nat, NEW n \in Nat
      PROVE  k * n \in Nat /\ (k + 1) * n = k * n + n
  OBVIOUS
<1>3. p - 1 \in Nat /\ p - 1 + 1 = p
  OBVIOUS
<1>4. (p - 1) * PageSize \in Nat /\ p * PageSize \in Nat
  BY <1>1, <1>2, <1>3
<1>5. p * PageSize = (p - 1) * PageSize + PageSize
  BY <1>1, <1>2, <1>3
<1>6. (p + 1 - 1) * PageSize = p * PageSize
  BY <1>1
<1>7. p = 1 => (p - 1) * PageSize = 0
  BY <1>1
<1> QED BY <1>1, <1>4, <1>5, <1>6, <1>7

LEMMA LesserOf ==
    ASSUME NEW a \in Nat, NEW b \in Nat
    PROVE  Min({a, b}) = IF a <= b THEN a ELSE b
<1>1. CASE a <= b
  <2>1. a \in {a, b} /\ \A y \in {a, b} : a <= y
    BY <1>1
  <2>2. \A x \in {a, b} : (\A y \in {a, b} : x <= y) => x = a
    BY <1>1
  <2> QED BY <1>1, <2>1, <2>2 DEF Min
<1>2. CASE ~(a <= b)
  <2>1. b \in {a, b} /\ \A y \in {a, b} : b <= y
    BY <1>2
  <2>2. \A x \in {a, b} : (\A y \in {a, b} : x <= y) => x = b
    BY <1>2
  <2> QED BY <1>2, <2>1, <2>2 DEF Min
<1> QED BY <1>1, <1>2

\* As many pages as the rows fill, and at least one.
LEMMA PagesSuffice ==
    ASSUME NEW list, Len(list) \in Nat
    PROVE  /\ PagesOf(list) \in Nat \ {0}
           /\ Len(list) <= PagesOf(list) * PageSize
           /\ PagesOf(list) = 1 => Len(list) <= PageSize
<1> DEFINE n == (Len(list) + PageSize - 1) \div PageSize
<1>1. PageSize \in Nat \ {0}
  BY PagedAssumption
<1>2. ASSUME NEW a \in Nat, NEW s \in Nat \ {0}
      PROVE  /\ (a + s - 1) \div s \in Nat
             /\ a <= ((a + s - 1) \div s) * s
  <2>1. a + s - 1 \in Nat
    OBVIOUS
  <2>2. ASSUME NEW m \in Nat
        PROVE  /\ m \div s \in Int /\ m % s \in 0..(s - 1)
               /\ m = s * (m \div s) + (m % s)
    OBVIOUS
  <2>3. (a + s - 1) \div s \in Int
    BY <2>1, <2>2
  <2>4. ASSUME NEW q \in Int, NEW t \in 0..(s - 1), a + s - 1 = s * q + t
        PROVE  a <= q * s /\ q >= 0
    <3>1. s * q = q * s
      OBVIOUS
    <3>2. q * s >= a
      BY <2>4, <3>1
    <3>3. q < 0 => q * s <= -s
      OBVIOUS
    <3> QED BY <3>2, <3>3
  <2> QED BY <2>1, <2>2, <2>3, <2>4
<1>3. n \in Nat /\ Len(list) <= n * PageSize
  BY <1>1, <1>2
<1> HIDE DEF n
<1>4. PagesOf(list) = IF n <= 1 THEN 1 ELSE n
  <2>1. PagesOf(list) = CHOOSE x \in {1, n} : \A y \in {1, n} : x >= y
    BY DEF PagesOf, Max, n
  <2>2. CASE n <= 1
    <3>1. \A x \in {1, n} : (\A y \in {1, n} : x >= y) <=> x = 1
      BY <1>3, <2>2
    <3> QED BY <2>1, <2>2, <3>1
  <2>3. CASE ~(n <= 1)
    <3>1. \A x \in {1, n} : (\A y \in {1, n} : x >= y) <=> x = n
      BY <1>3, <2>3
    <3> QED BY <2>1, <2>3, <3>1
  <2> QED BY <2>2, <2>3
<1>5. CASE n <= 1
  <2>1. n * PageSize <= PageSize
    BY <1>1, <1>3, <1>5
  <2> QED BY <1>1, <1>3, <1>4, <1>5, <2>1
<1>6. CASE ~(n <= 1)
  BY <1>1, <1>3, <1>4, <1>6
<1> QED BY <1>5, <1>6

\* The rows of a page are the documents whose place is on it.
LEMMA RowsOfPage ==
    ASSUME Upright, NEW query \in Queries, query # "application",
           NEW p \in Nat \ {0}
    PROVE  LET rows == Page(query, p).rows
               n    == Cardinality(Lists(query)) IN
           /\ rows \in Seq(Item) /\ Distinct(rows)
           /\ DocsOf(rows) = Window(query, p)
           /\ Len(rows) < PageSize => n < p * PageSize
           /\ rows = <<>> => n <= (p - 1) * PageSize
<1> DEFINE list == ListFor(query)
           lo   == (p - 1) * PageSize
           top  == p * PageSize
           hi   == Min({top, Len(list)})
           rows == SubSeq(list, lo + 1, hi)
<1>1. /\ list \in Seq(Item) /\ Distinct(list)
      /\ DocsOf(list) = Lists(query)
      /\ Len(list) = Cardinality(Lists(query))
      /\ \A n \in 1..Len(list) : Cardinality(Ahead(query, list[n].doc)) = n
      /\ \A e \in Lists(query) :
            LET n == Cardinality(Ahead(query, e)) IN
            n \in 1..Len(list) /\ list[n].doc = e
  BY ListHasRanks
<1>2. Page(query, p).rows = rows
  BY DEF Page
<1> HIDE DEF list
<1>3. /\ lo \in Nat /\ top \in Nat
      /\ top = lo + PageSize /\ PageSize \in Nat \ {0}
  BY PageEnds
<1>4. Len(list) \in Nat /\ DOMAIN list = 1..Len(list)
      /\ \A i \in 1..Len(list) : list[i] \in Item
  BY <1>1
<1>5. /\ top <= Len(list) => hi = top
      /\ ~(top <= Len(list)) => hi = Len(list)
  BY <1>3, <1>4, LesserOf
<1> HIDE DEF hi, lo, top
<1>6. lo + 1 \in Int /\ hi \in Int /\ hi <= Len(list) /\ hi <= top
      /\ hi \in Nat
  <2> DEFINE l == Len(list)
  <2> HIDE DEF l
  <2>1. lo \in Nat /\ top \in Nat
    BY <1>3
  <2>2. l \in Nat /\ (top <= l => hi = top) /\ (~(top <= l) => hi = l)
    BY <1>4, <1>5 DEF l
  <2>3. hi \in Nat /\ hi <= l /\ hi <= top
    BY ONLY <2>1, <2>2
  <2> QED BY <2>1, <2>3 DEF l
<1>7. /\ rows \in Seq(Item)
      /\ Len(rows) = IF lo + 1 <= hi THEN hi - (lo + 1) + 1 ELSE 0
      /\ \A i \in 1..(hi - (lo + 1) + 1) : rows[i] = list[lo + 1 + i - 1]
  <2>1. \A i \in (lo + 1)..hi : list[i] \in Item
    BY <1>3, <1>4, <1>6
  <2> QED BY <1>6, <2>1, SubSeqProperties
<1> HIDE DEF rows
<1>8. /\ DOMAIN rows = 1..Len(rows) /\ Len(rows) \in Nat
      /\ \A i \in DOMAIN rows : /\ i + lo \in 1..Len(list)
                                /\ i + lo > lo /\ i + lo <= top
                                /\ rows[i] = list[i + lo]
      /\ \A n \in 1..Len(list) : n > lo /\ n <= top =>
                                    n - lo \in DOMAIN rows
                                    /\ rows[n - lo] = list[n]
  <2>1. DOMAIN rows = 1..Len(rows) /\ Len(rows) \in Nat
    BY <1>7
  <2>2. ASSUME NEW i \in DOMAIN rows
        PROVE  /\ i + lo \in 1..Len(list)
               /\ i + lo > lo /\ i + lo <= top
               /\ rows[i] = list[i + lo]
    <3>0. /\ i \in Nat /\ i >= 1 /\ i <= Len(rows) /\ Len(rows) \in Nat
          /\ lo + 1 <= hi => Len(rows) = hi - (lo + 1) + 1
          /\ ~(lo + 1 <= hi) => Len(rows) = 0
      BY <1>7, <2>1
    <3>1. i \in 1..(hi - (lo + 1) + 1) /\ lo + 1 + i - 1 = i + lo
      BY <1>3, <1>6, <3>0
    <3> QED BY <1>3, <1>4, <1>6, <1>7, <3>1
  <2>3. ASSUME NEW n \in 1..Len(list), n > lo, n <= top
        PROVE  n - lo \in DOMAIN rows /\ rows[n - lo] = list[n]
    <3>1. n <= hi
      BY <1>3, <1>4, <1>5, <2>3
    <3>2. n - lo \in 1..(hi - (lo + 1) + 1) /\ lo + 1 + (n - lo) - 1 = n
      BY <1>3, <1>4, <1>6, <2>3, <3>1
    <3> QED BY <1>3, <1>4, <1>6, <1>7, <2>1, <2>3, <3>1, <3>2
  <2> QED BY <2>1, <2>2, <2>3
<1>9. Distinct(rows)
  <2> SUFFICES ASSUME NEW i \in DOMAIN rows, NEW j \in DOMAIN rows,
                      rows[i].doc = rows[j].doc
               PROVE  i = j
    BY DEF Distinct
  <2>1. i + lo = j + lo
    BY <1>1, <1>4, <1>8 DEF Distinct
  <2> QED BY <1>3, <1>8, <2>1
<1>10. DocsOf(rows) = Window(query, p)
  <2>1. ASSUME NEW i \in DOMAIN rows PROVE rows[i].doc \in Window(query, p)
    <3>1. rows[i].doc \in Lists(query)
      BY <1>1, <1>4, <1>8 DEF DocsOf
    <3>2. Cardinality(Ahead(query, rows[i].doc)) = i + lo
      BY <1>1, <1>8
    <3> QED BY <1>8, <3>1, <3>2 DEF Window, lo, top
  <2>2. ASSUME NEW e \in Window(query, p)
        PROVE  \E i \in DOMAIN rows : rows[i].doc = e
    <3> DEFINE n == Cardinality(Ahead(query, e))
    <3>1. n \in 1..Len(list) /\ list[n].doc = e
      BY <1>1 DEF Window
    <3>2. n > lo /\ n <= top
      BY DEF Window, lo, top
    <3> HIDE DEF n
    <3> QED BY <1>8, <3>1, <3>2
  <2> QED BY <2>1, <2>2 DEF DocsOf
<1>11. Len(rows) < PageSize => Len(list) < top
  BY <1>3, <1>4, <1>5, <1>7
<1>12. rows = <<>> => Len(list) <= lo
  <2>1. rows = <<>> => Len(rows) = 0
    OBVIOUS
  <2> QED BY <1>3, <1>4, <1>5, <1>7, <2>1
<1> QED BY <1>1, <1>2, <1>7, <1>9, <1>10, <1>11, <1>12 DEF lo, top


\* The answer is a page, of a numbered list the one that was asked for; and
\* its rows are listed.
PageOfQuery(a, query, p) ==
    /\ a.rows \in Seq(Item) /\ Distinct(a.rows)
    /\ DocsOf(a.rows) \subseteq Lists(query)
    /\ a.number \in Nat /\ a.pages \in Nat
    /\ query = "application" => a.number = 1 /\ a.pages = 1
    /\ query # "application" =>
          /\ a.number = p
          /\ DocsOf(a.rows) = Window(query, p)
          /\ Len(a.rows) < PageSize =>
                Cardinality(Lists(query)) < p * PageSize
          /\ a.rows = <<>> => Cardinality(Lists(query)) <= (p - 1) * PageSize
          /\ Cardinality(Lists(query)) <= a.pages * PageSize

LEMMA PageIsListed ==
    ASSUME Upright, NEW query \in Queries, NEW p \in Nat \ {0}
    PROVE  /\ PageOfQuery(Page(query, p), query, p)
           /\ Page(query, p).total = Cardinality(Lists(query))
<1> DEFINE a == Page(query, p)
<1>1. /\ ListFor(query) \in Seq(Item) /\ Distinct(ListFor(query))
      /\ DocsOf(ListFor(query)) = Lists(query)
      /\ Len(ListFor(query)) = Cardinality(Lists(query))
      /\ Len(ListFor(query)) \in Nat
  BY ListHasRanks
<1>2. a.total = Cardinality(Lists(query))
  BY <1>1 DEF Page
<1>3. CASE query = "application"
  BY <1>1, <1>2, <1>3 DEF Page, PageOfQuery
<1>4. CASE query # "application"
  <2>1. a.number = p /\ a.pages = PagesOf(ListFor(query))
    BY <1>4 DEF Page
  <2>2. PagesOf(ListFor(query)) \in Nat
        /\ Len(ListFor(query)) <= PagesOf(ListFor(query)) * PageSize
    BY <1>1, PagesSuffice
  <2>3. /\ a.rows \in Seq(Item) /\ Distinct(a.rows)
        /\ DocsOf(a.rows) = Window(query, p)
        /\ Len(a.rows) < PageSize =>
              Cardinality(Lists(query)) < p * PageSize
        /\ a.rows = <<>> => Cardinality(Lists(query)) <= (p - 1) * PageSize
    BY <1>4, RowsOfPage
  <2> HIDE DEF a
  <2>4. Window(query, p) \subseteq Lists(query)
    BY DEF Window
  <2>5. Cardinality(Lists(query)) <= a.pages * PageSize
    BY <1>1, <2>1, <2>2
  <2> QED BY <1>2, <1>4, <2>1, <2>2, <2>3, <2>4, <2>5 DEF PageOfQuery, a
<1> QED BY <1>3, <1>4

Numbers == reader.kind \in {"purchase", "procurement"}

LEMMA AnswerIsPage ==
    ASSUME Upright, reader \in Reader, reader.page >= 1, Query \in Queries
    PROVE  \E p \in Nat \ {0} :
              /\ Answer = Page(Query, p)
              /\ stuck => p = 1
              /\ ~stuck /\ Numbers => p = reader.page
<1>1. reader.page \in Nat \ {0}
  BY DEF Reader
<1>2. CASE stuck
  BY <1>2 DEF Answer
<1>3. CASE ~stuck /\ Numbers
  BY <1>1, <1>3 DEF Answer, Numbers
<1>4. CASE ~stuck /\ ~Numbers
  <2> DEFINE n == PagesOf(ListFor(Query))
             p == Min({reader.page, n})
  <2>1. Answer = Page(Query, p)
    BY <1>4 DEF Answer, Numbers
  <2>2. Len(ListFor(Query)) \in Nat
    BY ListHasRanks
  <2>3. n \in Nat \ {0}
    BY <2>2, PagesSuffice
  <2> HIDE DEF n
  <2>4. p \in Nat \ {0}
    BY <1>1, <2>3, LesserOf
  <2> HIDE DEF p
  <2> QED BY <1>4, <2>1, <2>4
<1> QED BY <1>2, <1>3, <1>4

-----------------------------------------------------------------------------
(***************************************************************************)
(* Changes upstream                                                        *)
(***************************************************************************)

LEMMA InsertedAt ==
    ASSUME NEW s \in Seq(Docs), NEW i \in 1..(Len(s) + 1), NEW e \in Docs
    PROVE  /\ InsertAt(s, i, e) \in Seq(Docs)
           /\ Len(InsertAt(s, i, e)) = Len(s) + 1
           /\ \A j \in 1..(Len(s) + 1) :
                 /\ j < i => j \in 1..Len(s) /\ InsertAt(s, i, e)[j] = s[j]
                 /\ j = i => InsertAt(s, i, e)[j] = e
                 /\ j > i => /\ j - 1 \in 1..Len(s)
                             /\ InsertAt(s, i, e)[j] = s[j - 1]
<1> DEFINE a == SubSeq(s, 1, i - 1)
           m == <<e>>
           b == SubSeq(s, i, Len(s))
           n == Len(s)
<1>1. n \in Nat /\ i \in Nat /\ i >= 1 /\ i <= n + 1
      /\ \A j \in 1..n : s[j] \in Docs
  OBVIOUS
<1>2. /\ a \in Seq(Docs) /\ Len(a) = i - 1
      /\ \A j \in 1..(i - 1) : a[j] = s[j]
  <2>1. \A j \in 1..(i - 1) : s[j] \in Docs
    BY <1>1
  <2>2. 1 \in Int /\ i - 1 \in Int
    BY <1>1
  <2>3. /\ a \in Seq(Docs)
        /\ Len(a) = IF 1 <= i - 1 THEN i - 1 - 1 + 1 ELSE 0
        /\ \A j \in 1..(i - 1 - 1 + 1) : a[j] = s[1 + j - 1]
    BY <2>1, <2>2, SubSeqProperties
  <2>4. \A j \in 1..(i - 1) : j \in 1..(i - 1 - 1 + 1) /\ 1 + j - 1 = j
    BY <1>1
  <2> HIDE DEF a
  <2> QED BY <1>1, <2>3, <2>4
<1>3. /\ b \in Seq(Docs) /\ Len(b) = n - i + 1
      /\ \A j \in 1..(n - i + 1) : b[j] = s[i + j - 1]
  <2>1. \A j \in i..n : s[j] \in Docs
    BY <1>1
  <2>2. i \in Int /\ n \in Int
    BY <1>1
  <2>3. /\ b \in Seq(Docs)
        /\ Len(b) = IF i <= n THEN n - i + 1 ELSE 0
        /\ \A j \in 1..(n - i + 1) : b[j] = s[i + j - 1]
    BY <2>1, <2>2, SubSeqProperties
  <2> HIDE DEF b
  <2> QED BY <1>1, <2>3
<1>4. m \in Seq(Docs) /\ Len(m) = 1 /\ m[1] = e
  OBVIOUS
<1> HIDE DEF a, b, m
<1> DEFINE am == a \o m
<1>5. /\ am \in Seq(Docs) /\ Len(am) = i - 1 + 1
      /\ \A j \in 1..(i - 1 + 1) :
            am[j] = IF j <= i - 1 THEN a[j] ELSE m[j - (i - 1)]
  <2>1. /\ am \in Seq(Docs) /\ Len(am) = Len(a) + Len(m)
        /\ \A j \in 1..(Len(a) + Len(m)) :
              am[j] = IF j <= Len(a) THEN a[j] ELSE m[j - Len(a)]
    BY <1>2, <1>4, ConcatProperties, Zenon
  <2> HIDE DEF am
  <2> QED BY <1>2, <1>4, <2>1
<1> HIDE DEF am
<1> DEFINE t == am \o b
<1>6. /\ t \in Seq(Docs) /\ Len(t) = Len(am) + Len(b)
      /\ \A j \in 1..(Len(am) + Len(b)) :
            t[j] = IF j <= Len(am) THEN am[j] ELSE b[j - Len(am)]
  BY <1>3, <1>5, ConcatProperties, Zenon
<1>7. InsertAt(s, i, e) = t
  BY DEF InsertAt, t, am, a, m, b
<1> HIDE DEF t
<1>8. Len(t) = n + 1 /\ Len(am) = i
  BY <1>1, <1>3, <1>5, <1>6
<1>9. ASSUME NEW j \in 1..(n + 1)
      PROVE  /\ j < i => j \in 1..n /\ t[j] = s[j]
             /\ j = i => t[j] = e
             /\ j > i => j - 1 \in 1..n /\ t[j] = s[j - 1]
  <2>0. j \in 1..(Len(am) + Len(b))
    BY <1>1, <1>3, <1>8
  <2>1. CASE j < i
    <3>1. j <= Len(am) /\ j \in 1..(i - 1 + 1) /\ j <= i - 1
          /\ j \in 1..(i - 1)
      BY <1>1, <1>8, <2>1
    <3> QED BY <1>1, <1>2, <1>5, <1>6, <2>0, <2>1, <3>1
  <2>2. CASE j = i
    <3>1. j <= Len(am) /\ j \in 1..(i - 1 + 1) /\ ~(j <= i - 1)
          /\ j - (i - 1) = 1
      BY <1>1, <1>8, <2>2
    <3> QED BY <1>1, <1>4, <1>5, <1>6, <2>0, <2>2, <3>1
  <2>3. CASE j > i
    <3>1. ~(j <= Len(am)) /\ j - i \in 1..(n - i + 1) /\ i + (j - i) - 1 = j - 1
          /\ j - 1 \in 1..n
      BY <1>1, <1>8, <2>3
    <3> QED BY <1>1, <1>3, <1>6, <1>8, <2>0, <2>3, <3>1
  <2> QED BY <1>1, <2>1, <2>2, <2>3
<1> QED BY <1>6, <1>7, <1>8, <1>9

LEMMA RemovedAt ==
    ASSUME NEW s \in Seq(Docs), NEW i \in 1..Len(s)
    PROVE  /\ RemoveAt(s, i) \in Seq(Docs)
           /\ Len(RemoveAt(s, i)) = Len(s) - 1
           /\ \A j \in 1..(Len(s) - 1) :
                 /\ j < i => RemoveAt(s, i)[j] = s[j]
                 /\ j >= i => RemoveAt(s, i)[j] = s[j + 1]
<1> DEFINE a == SubSeq(s, 1, i - 1)
           b == SubSeq(s, i + 1, Len(s))
           n == Len(s)
<1>1. n \in Nat /\ i \in Nat /\ i >= 1 /\ i <= n
      /\ \A j \in 1..n : s[j] \in Docs
  OBVIOUS
<1>2. /\ a \in Seq(Docs) /\ Len(a) = i - 1
      /\ \A j \in 1..(i - 1) : a[j] = s[j]
  <2>1. \A j \in 1..(i - 1) : s[j] \in Docs
    BY <1>1
  <2>2. 1 \in Int /\ i - 1 \in Int
    BY <1>1
  <2>3. /\ a \in Seq(Docs)
        /\ Len(a) = IF 1 <= i - 1 THEN i - 1 - 1 + 1 ELSE 0
        /\ \A j \in 1..(i - 1 - 1 + 1) : a[j] = s[1 + j - 1]
    BY <2>1, <2>2, SubSeqProperties
  <2>4. \A j \in 1..(i - 1) : j \in 1..(i - 1 - 1 + 1) /\ 1 + j - 1 = j
    BY <1>1
  <2> HIDE DEF a
  <2> QED BY <1>1, <2>3, <2>4
<1>3. /\ b \in Seq(Docs) /\ Len(b) = n - i
      /\ \A j \in 1..(n - i) : b[j] = s[i + j]
  <2>1. \A j \in (i + 1)..n : s[j] \in Docs
    BY <1>1
  <2>2. i + 1 \in Int /\ n \in Int
    BY <1>1
  <2>3. /\ b \in Seq(Docs)
        /\ Len(b) = IF i + 1 <= n THEN n - (i + 1) + 1 ELSE 0
        /\ \A j \in 1..(n - (i + 1) + 1) : b[j] = s[i + 1 + j - 1]
    BY <2>1, <2>2, SubSeqProperties
  <2>4. \A j \in 1..(n - i) : j \in 1..(n - (i + 1) + 1)
                              /\ i + 1 + j - 1 = i + j
    BY <1>1
  <2> HIDE DEF b
  <2> QED BY <1>1, <2>3, <2>4
<1> HIDE DEF a, b
<1> DEFINE t == a \o b
<1>6. /\ t \in Seq(Docs) /\ Len(t) = Len(a) + Len(b)
      /\ \A j \in 1..(Len(a) + Len(b)) :
            t[j] = IF j <= Len(a) THEN a[j] ELSE b[j - Len(a)]
  BY <1>2, <1>3, ConcatProperties, Zenon
<1>7. RemoveAt(s, i) = t
  BY DEF RemoveAt, t, a, b
<1> HIDE DEF t
<1>8. Len(t) = n - 1
  BY <1>1, <1>2, <1>3, <1>6
<1>9. ASSUME NEW j \in 1..(n - 1)
      PROVE  /\ j < i => t[j] = s[j]
             /\ j >= i => t[j] = s[j + 1]
  <2>0. j \in 1..(Len(a) + Len(b))
    BY <1>1, <1>2, <1>3
  <2>1. CASE j < i
    <3>1. j <= Len(a) /\ j \in 1..(i - 1)
      BY <1>1, <1>2, <2>1
    <3> QED BY <1>1, <1>2, <1>6, <2>0, <2>1, <3>1
  <2>2. CASE j >= i
    <3>1. ~(j <= Len(a)) /\ j - Len(a) \in 1..(n - i)
          /\ i + (j - Len(a)) = j + 1
      BY <1>1, <1>2, <2>2
    <3>2. t[j] = b[j - Len(a)]
      BY <1>6, <2>0, <3>1
    <3>3. b[j - Len(a)] = s[i + (j - Len(a))]
      BY <1>3, <3>1
    <3>4. t[j] = s[j + 1]
      BY <3>1, <3>2, <3>3
    <3> QED BY <1>1, <2>2, <3>4
  <2>3. j \in Nat /\ (j < i \/ j >= i) /\ ~(j < i /\ j >= i)
    BY <1>1
  <2> HIDE DEF n
  <2> QED BY <2>1, <2>2, <2>3
<1> QED BY <1>6, <1>7, <1>8, <1>9


\* A document that is inserted stands before others, or behind them.
LEMMA EnlistLists ==
    ASSUME Upright, rev' = rev,
           NEW k \in 1..(Len(upstream) + 1), NEW e \in Docs \ Range(upstream),
           upstream' = InsertAt(upstream, k, e)
    PROVE  /\ Upright'
           /\ Range(upstream') = Range(upstream) \cup {e}
           /\ \A query, doc : Ahead(query, doc) \subseteq Ahead(query, doc)'
<1> DEFINE t == upstream'
           n == Len(upstream)
           to(j) == IF j < k THEN j ELSE j + 1
<1>1. /\ n \in Nat /\ DOMAIN upstream = 1..n /\ k \in Nat
      /\ k \in 1..(n + 1)
  BY DEF Upright
<1>2. /\ t \in Seq(Docs) /\ Len(t) = n + 1
      /\ \A j \in 1..(n + 1) :
            /\ j < k => j \in 1..n /\ t[j] = upstream[j]
            /\ j = k => t[j] = e
            /\ j > k => j - 1 \in 1..n /\ t[j] = upstream[j - 1]
  <2>1. upstream \in Seq(Docs) /\ e \in Docs
    BY DEF Upright
  <2>2. upstream' = InsertAt(upstream, k, e)
    OBVIOUS
  <2> HIDE DEF t
  <2>3. /\ InsertAt(upstream, k, e) \in Seq(Docs)
        /\ Len(InsertAt(upstream, k, e)) = n + 1
        /\ \A j \in 1..(n + 1) :
              /\ j < k => j \in 1..n /\ InsertAt(upstream, k, e)[j] = upstream[j]
              /\ j = k => InsertAt(upstream, k, e)[j] = e
              /\ j > k => /\ j - 1 \in 1..n
                          /\ InsertAt(upstream, k, e)[j] = upstream[j - 1]
    BY <2>1, InsertedAt
  <2> QED BY <2>2, <2>3 DEF t
<1>3. DOMAIN t = 1..(n + 1)
  BY <1>2
<1> HIDE DEF t, n
<1>4. \A j \in 1..n : to(j) \in 1..(n + 1) /\ t[to(j)] = upstream[j]
  <2> SUFFICES ASSUME NEW j \in 1..n
               PROVE  to(j) \in 1..(n + 1) /\ t[to(j)] = upstream[j]
    OBVIOUS
  <2>1. CASE j < k
    <3>1. to(j) = j /\ j \in 1..(n + 1)
      BY <1>1, <2>1
    <3> QED BY <1>2, <2>1, <3>1
  <2>2. CASE ~(j < k)
    <3>1. to(j) = j + 1 /\ j + 1 \in 1..(n + 1) /\ j + 1 > k
          /\ j + 1 - 1 = j
      BY <1>1, <2>2
    <3> QED BY <1>2, <3>1
  <2> QED BY <2>1, <2>2
<1>5. \A i, j \in 1..n : i <= j => to(i) <= to(j)
  BY <1>1
<1>6. \A j \in 1..(n + 1) : \/ j = k /\ t[j] = e
                            \/ \E i \in 1..n : j = to(i) /\ t[j] = upstream[i]
  <2> SUFFICES ASSUME NEW j \in 1..(n + 1), j # k
               PROVE  \E i \in 1..n : j = to(i) /\ t[j] = upstream[i]
    BY <1>2
  <2>1. CASE j < k
    <3>1. j \in 1..n /\ j = to(j) /\ t[j] = upstream[j]
      BY <1>2, <2>1
    <3> QED BY <3>1
  <2>2. CASE j > k
    <3>1. j - 1 \in 1..n /\ t[j] = upstream[j - 1]
      BY <1>2, <2>2
    <3>2. j = to(j - 1)
      BY <1>1, <2>2
    <3> QED BY <3>1, <3>2
  <2>3. j \in Nat /\ k \in Nat
    BY <1>1
  <2> QED BY <2>1, <2>2, <2>3
<1> HIDE DEF to
<1>7. Range(t) = Range(upstream) \cup {e}
  <2>1. k \in DOMAIN t /\ t[k] = e
    BY <1>1, <1>2, <1>3
  <2>2. \A j \in DOMAIN t : t[j] \in Range(upstream) \cup {e}
    BY <1>1, <1>3, <1>6 DEF Range
  <2>3. \A j \in DOMAIN upstream : \E i \in DOMAIN t : t[i] = upstream[j]
    BY <1>1, <1>3, <1>4
  <2> QED BY <2>1, <2>2, <2>3 DEF Range
<1>8. IsInjective(t)
  <2> SUFFICES ASSUME NEW i \in DOMAIN t, NEW j \in DOMAIN t, t[i] = t[j]
               PROVE  i = j
    BY DEF IsInjective
  <2>1. \A m \in 1..n : upstream[m] # e
    BY <1>1 DEF Range
  <2> QED BY <1>1, <1>3, <1>6, <2>1 DEF Upright, IsInjective
<1>9. ASSUME NEW query, NEW doc
      PROVE  Ahead(query, doc) \subseteq Ahead(query, doc)'
  <2>1. ASSUME NEW x \in Ahead(query, doc)
        PROVE  \E i, j \in DOMAIN t : i <= j /\ t[i] = x /\ t[j] = doc
    <3>1. PICK i \in DOMAIN upstream, j \in DOMAIN upstream :
              i <= j /\ upstream[i] = x /\ upstream[j] = doc
      BY DEF Ahead
    <3>2. to(i) \in DOMAIN t /\ to(j) \in DOMAIN t /\ to(i) <= to(j)
          /\ t[to(i)] = x /\ t[to(j)] = doc
      BY <1>1, <1>3, <1>4, <1>5, <3>1
    <3> QED BY <3>2
  <2> QED BY <2>1 DEF Ahead, t
<1> QED BY <1>2, <1>7, <1>8, <1>9 DEF Upright, t

\* A document that is removed is ahead of no other.
LEMMA DelistLists ==
    ASSUME Upright, rev' = rev, NEW k \in DOMAIN upstream,
           upstream' = RemoveAt(upstream, k)
    PROVE  /\ Upright'
           /\ Range(upstream') = Range(upstream) \ {upstream[k]}
           /\ \A query, doc : doc # upstream[k] =>
                 Ahead(query, doc)' = Ahead(query, doc) \ {upstream[k]}
<1> DEFINE t == upstream'
           n == Len(upstream)
           e == upstream[k]
           to(j) == IF j < k THEN j ELSE j + 1
<1>1. /\ n \in Nat /\ DOMAIN upstream = 1..n /\ k \in Nat /\ k \in 1..n
  BY DEF Upright
<1>2. /\ t \in Seq(Docs) /\ Len(t) = n - 1
      /\ \A j \in 1..(n - 1) : /\ j < k => t[j] = upstream[j]
                               /\ j >= k => t[j] = upstream[j + 1]
  <2>1. upstream \in Seq(Docs) /\ k \in 1..Len(upstream)
    BY <1>1 DEF Upright
  <2> QED BY <2>1, RemovedAt
<1>3. DOMAIN t = 1..(n - 1)
  BY <1>2
<1> HIDE DEF t, n, e
<1>4. \A j \in 1..(n - 1) : /\ to(j) \in 1..n /\ to(j) # k
                            /\ t[j] = upstream[to(j)]
  BY <1>1, <1>2
<1>5. \A i, j \in 1..(n - 1) : /\ i <= j <=> to(i) <= to(j)
                               /\ to(i) = to(j) => i = j
  BY <1>1
<1>6. \A j \in 1..n : j # k => \E i \in 1..(n - 1) : to(i) = j
  <2> SUFFICES ASSUME NEW j \in 1..n, j # k
               PROVE  \E i \in 1..(n - 1) : to(i) = j
    OBVIOUS
  <2>1. CASE j < k
    <3>1. j \in 1..(n - 1) /\ to(j) = j
      BY <1>1, <2>1
    <3> QED BY <3>1
  <2>2. CASE j > k
    <3>1. j - 1 \in 1..(n - 1) /\ to(j - 1) = j
      BY <1>1, <2>2
    <3> QED BY <3>1
  <2>3. j \in Nat /\ k \in Nat
    BY <1>1
  <2> QED BY <2>1, <2>2, <2>3
<1> HIDE DEF to
<1>7. \A j \in 1..n : upstream[j] = e => j = k
  BY <1>1 DEF Upright, IsInjective, e
<1>8. Range(t) = Range(upstream) \ {e}
  <2>1. ASSUME NEW j \in DOMAIN t PROVE t[j] \in Range(upstream) \ {e}
    BY <1>1, <1>3, <1>4, <1>7 DEF Range
  <2>2. ASSUME NEW j \in DOMAIN upstream, upstream[j] # e
        PROVE  \E i \in DOMAIN t : t[i] = upstream[j]
    <3>1. j # k
      BY <2>2 DEF e
    <3> QED BY <1>1, <1>3, <1>4, <1>6, <3>1
  <2> QED BY <2>1, <2>2 DEF Range
<1>9. IsInjective(t)
  BY <1>1, <1>3, <1>4, <1>5 DEF Upright, IsInjective
<1>10. ASSUME NEW query, NEW doc, doc # e
       PROVE  Ahead(query, doc)' = Ahead(query, doc) \ {e}
  <2>1. Ahead(query, doc)' =
            {x \in Listed[query] : \E i, j \in DOMAIN t :
                i <= j /\ t[i] = x /\ t[j] = doc}
    BY DEF Ahead, t
  <2>2. ASSUME NEW x, NEW i \in DOMAIN t, NEW j \in DOMAIN t,
               i <= j, t[i] = x, t[j] = doc
        PROVE  /\ x # e
               /\ \E u, v \in DOMAIN upstream :
                     u <= v /\ upstream[u] = x /\ upstream[v] = doc
    <3>1. /\ to(i) \in DOMAIN upstream /\ to(j) \in DOMAIN upstream
          /\ to(i) <= to(j) /\ to(i) # k
          /\ upstream[to(i)] = x /\ upstream[to(j)] = doc
      BY <1>1, <1>3, <1>4, <1>5, <2>2
    <3> QED BY <1>1, <1>7, <3>1
  <2>3. ASSUME NEW x, x # e, NEW u \in DOMAIN upstream,
               NEW v \in DOMAIN upstream,
               u <= v, upstream[u] = x, upstream[v] = doc
        PROVE  \E i, j \in DOMAIN t : i <= j /\ t[i] = x /\ t[j] = doc
    <3>1. u # k /\ v # k
      BY <1>10, <2>3 DEF e
    <3>2. PICK i \in DOMAIN t : to(i) = u
      BY <1>1, <1>3, <1>6, <3>1
    <3>3. PICK j \in DOMAIN t : to(j) = v
      BY <1>1, <1>3, <1>6, <3>1
    <3> QED BY <1>3, <1>4, <1>5, <2>3, <3>2, <3>3
  <2> HIDE DEF t
  <2> QED BY <2>1, <2>2, <2>3 DEF Ahead
<1> QED BY <1>2, <1>8, <1>9, <1>10 DEF Upright, t, e


-----------------------------------------------------------------------------
(***************************************************************************)
(* The inductive invariant                                                 *)
(***************************************************************************)

\* The documents that stayed listed and are not among these, up to the end
\* of page p.
Behind(docs, p) ==
    {doc \in (always \cap Listed[Query]) \ docs :
        Cardinality(Ahead(Query, doc)) <= p * PageSize}

\* The readers whose records are counted against a total.
Counts == reader.kind \in {"purchase", "procurement", "payment"}

\* What the first query of a payment list has dropped.
Lost ==
    IF reader.kind = "payment" /\ reader.query = 2
    THEN (always \cap Matched["applicant"]) \ DocsOf(reader.parts[1])
    ELSE {}

\* Of the documents removed and inserted, r and i account for this query:
\* what was read and is listed no more, how far the list is from its total,
\* and what slipped behind the pages that were read.
Budget(r, i) ==
    /\ Cardinality(Lost) + r <= edits.removed
    /\ Cardinality(Lost) + i <= edits.inserted
    /\ Cardinality(DocsOf(reader.items) \ Lists(Query)) <= r
    /\ Counts /\ reader.total # None =>
          Cardinality(Lists(Query)) + r = reader.total + i
    /\ ~stuck =>
          Cardinality(Behind(DocsOf(reader.items), reader.page - 1)) <= r

\* The result of the first query, while the second is read.
FirstPart ==
    reader.query = 2 =>
        /\ Distinct(reader.parts[1])
        /\ reader.kind = "payment" =>
              /\ DocsOf(reader.parts[1]) \subseteq Matched["applicant"]
              /\ Cardinality(DocsOf(reader.parts[1]) \ Range(upstream))
                    <= edits.removed

Idle ==
    reader.pc = "idle" =>
        /\ reader.query = 1 /\ reader.page = 1 /\ reader.total = None
        /\ reader.items = <<>> /\ reader.parts = <<>> /\ always = {}
        /\ edits = [inserted |-> 0, removed |-> 0, modified |-> 0]

Reading ==
    reader.pc = "reading" =>
        /\ reader.page >= 1
        /\ reader.query <= Len(QueriesOf(reader.kind))
        /\ Len(reader.parts) = reader.query - 1
        /\ reader.page = 1 => reader.items = <<>> /\ reader.total = None
        /\ reader.page > 1 /\ Counts /\ reader.declares =>
              reader.total # None
        /\ Distinct(reader.items)
        /\ DocsOf(reader.items) \subseteq Listed[Query]
        /\ FirstPart
        /\ \E r \in 0..edits.removed, i \in 0..edits.inserted : Budget(r, i)

Shape ==
    /\ IsInjective(upstream)
    /\ always \subseteq Range(upstream)
    /\ ~Edited /\ reader.pc # "idle" => always = Range(upstream)
    /\ ~reader.declares => reader.kind = "purchase" /\ reader.total = None

IInv == TypeOK /\ Shape /\ Idle /\ Reading /\ ListIsSound

-----------------------------------------------------------------------------
(***************************************************************************)
(* Counting sets                                                           *)
(***************************************************************************)

LEMMA FewerThan ==
    ASSUME NEW A, NEW B, IsFiniteSet(B), A \subseteq B
    PROVE  /\ IsFiniteSet(A)
           /\ Cardinality(A) \in Nat /\ Cardinality(B) \in Nat
           /\ Cardinality(A) <= Cardinality(B)
<1> QED BY FS_Subset, FS_CardinalityType

LEMMA OneMore ==
    ASSUME NEW A, NEW B, NEW e, IsFiniteSet(B), A \subseteq B \cup {e}
    PROVE  /\ IsFiniteSet(A) /\ Cardinality(A) \in Nat
           /\ Cardinality(B) \in Nat
           /\ Cardinality(A) <= Cardinality(B) + 1
<1>1. /\ IsFiniteSet(B \cup {e}) /\ Cardinality(B) \in Nat
      /\ Cardinality(B \cup {e}) =
            IF e \in B THEN Cardinality(B) ELSE Cardinality(B) + 1
  BY FS_AddElement, FS_CardinalityType
<1>2. /\ IsFiniteSet(A) /\ Cardinality(A) \in Nat
      /\ Cardinality(A) <= Cardinality(B \cup {e})
  BY <1>1, FewerThan
<1> QED BY <1>1, <1>2

LEMMA BothTogether ==
    ASSUME NEW A, NEW B, NEW C, IsFiniteSet(A), IsFiniteSet(B),
           C \subseteq A \cup B
    PROVE  /\ IsFiniteSet(C) /\ Cardinality(C) \in Nat
           /\ Cardinality(A) \in Nat /\ Cardinality(B) \in Nat
           /\ Cardinality(C) <= Cardinality(A) + Cardinality(B)
<1>1. /\ IsFiniteSet(A \cup B)
      /\ Cardinality(A \cup B) =
            Cardinality(A) + Cardinality(B) - Cardinality(A \cap B)
  BY FS_Union
<1>2. Cardinality(A \cap B) \in Nat /\ Cardinality(A) \in Nat
      /\ Cardinality(B) \in Nat
  BY FS_Intersection, FS_CardinalityType
<1>3. /\ IsFiniteSet(C) /\ Cardinality(C) \in Nat
      /\ Cardinality(C) <= Cardinality(A \cup B)
  BY <1>1, FewerThan
<1>4. Cardinality(A \cup B) <= Cardinality(A) + Cardinality(B)
  BY <1>1, <1>2
<1>5. Cardinality(A \cup B) \in Nat
  BY <1>1, FS_CardinalityType
<1> QED BY <1>2, <1>3, <1>4, <1>5

\* Of two sets of one size, each lacks as much of the other.
LEMMA SameLack ==
    ASSUME NEW A, NEW B, IsFiniteSet(A), IsFiniteSet(B),
           Cardinality(A) = Cardinality(B)
    PROVE  Cardinality(A \ B) = Cardinality(B \ A)
<1>1. Cardinality(A \ B) = Cardinality(A) - Cardinality(A \cap B)
  BY FS_Difference
<1>2. Cardinality(B \ A) = Cardinality(B) - Cardinality(B \cap A)
  BY FS_Difference
<1>3. A \cap B = B \cap A
  OBVIOUS
<1> QED BY <1>1, <1>2, <1>3

-----------------------------------------------------------------------------
(***************************************************************************)
(* The invariant is kept while upstream changes                            *)
(***************************************************************************)

LEMMA Typed ==
    ASSUME TypeOK, Shape
    PROVE  /\ Upright
           /\ edits.inserted \in Nat /\ edits.removed \in Nat
           /\ edits.modified \in Nat
           /\ reader.items \in Seq(Item)
           /\ IsFiniteSet(DocsOf(reader.items))
           /\ reader.page \in Nat /\ reader.query \in 1..2
           /\ reader.kind \in AllKinds
           /\ IsFiniteSet(always) /\ IsFiniteSet(Lost)
           /\ Cardinality(Lost) \in Nat
<1>1. Upright
  BY DEF TypeOK, Shape, Upright
<1>3. /\ edits.inserted \in Nat /\ edits.removed \in Nat
      /\ edits.modified \in Nat
  BY DEF TypeOK
<1>4. /\ reader.items \in Seq(Item) /\ reader.page \in Nat
      /\ reader.query \in 1..2 /\ reader.kind \in AllKinds
  BY DEF TypeOK, Reader
<1>5. IsFiniteSet(DocsOf(reader.items))
  BY <1>4, DistinctCounts
<1>6. IsFiniteSet(always)
  BY <1>1, ListsAreFinite, FS_Subset DEF Shape
<1>7. Lost \subseteq always
  BY DEF Lost
<1> QED BY <1>1, <1>3, <1>4, <1>5, <1>6, <1>7, FewerThan

LEMMA QueryListed ==
    ASSUME TypeOK, reader.query <= Len(QueriesOf(reader.kind))
    PROVE  /\ Query \in Queries
           /\ Listed[Query] \subseteq Docs
           /\ reader.kind \notin {"payment", "bizcase"} =>
                 reader.query = 1 /\ Query = "all"
           /\ reader.kind = "bizcase" =>
                 Query = IF reader.query = 1 THEN "application" ELSE "all"
           /\ reader.kind = "payment" =>
                 Query = IF reader.query = 1 THEN "applicant" ELSE "project"
<1>1. reader.query \in 1..2
  BY DEF TypeOK, Reader
<1>2. CASE reader.kind = "payment"
  <2>1. QueriesOf(reader.kind) = <<"applicant", "project">>
    BY <1>2 DEF QueriesOf
  <2> QED BY <1>1, <1>2, <2>1, PagedAssumption DEF Query, Queries
<1>3. CASE reader.kind = "bizcase"
  <2>1. QueriesOf(reader.kind) = <<"application", "all">>
    BY <1>3 DEF QueriesOf
  <2> QED BY <1>1, <1>3, <2>1, PagedAssumption DEF Query, Queries
<1>4. CASE reader.kind \notin {"payment", "bizcase"}
  <2>1. QueriesOf(reader.kind) = <<"all">> /\ Len(<<"all">>) = 1
        /\ <<"all">>[1] = "all"
    BY <1>4 DEF QueriesOf
  <2>2. reader.query = 1
    BY <1>1, <2>1
  <2> QED BY <1>4, <2>1, <2>2, PagedAssumption DEF Query, Queries
<1> QED BY <1>2, <1>3, <1>4

LEMMA EnlistKeeps ==
    ASSUME TypeOK, Shape, Reading, Enlist
    PROVE  Shape' /\ Reading'
<1>1. /\ reader.pc = "reading" /\ reader' = reader /\ rev' = rev
      /\ stuck' = stuck /\ always' = always
      /\ edits' = [edits EXCEPT !.inserted = @ + 1]
  BY DEF Enlist, CanEdit
<1>2. PICK e \in Docs \ Range(upstream), k \in 1..(Len(upstream) + 1) :
          upstream' = InsertAt(upstream, k, e)
  BY DEF Enlist
<1>3. /\ Upright' /\ Range(upstream') = Range(upstream) \cup {e}
      /\ \A query, doc : Ahead(query, doc) \subseteq Ahead(query, doc)'
  <2>1. Upright
    BY Typed
  <2> QED BY <1>1, <1>2, <2>1, EnlistLists
<1>4. /\ edits.inserted \in Nat /\ edits.removed \in Nat
      /\ edits.modified \in Nat
      /\ edits'.inserted = edits.inserted + 1
      /\ edits'.removed = edits.removed /\ edits'.modified = edits.modified
  BY <1>1, Typed DEF TypeOK
<1>5. Edited'
  BY <1>4 DEF Edited
<1>6. Shape'
  BY <1>1, <1>3, <1>5 DEF Shape, Upright
<1>7. PICK r \in 0..edits.removed, i \in 0..edits.inserted : Budget(r, i)
  BY <1>1 DEF Reading
<1>8. Query' = Query /\ Lost' = Lost /\ Counts' = Counts
  BY <1>1 DEF Query, Lost, Counts
<1> DEFINE L == Lists(Query)
           M == Range(upstream') \cap Listed[Query]
           I == DocsOf(reader.items)
<1>19. PICK j \in 0..(edits.inserted + 1) :
           j = IF e \in Listed[Query] THEN i + 1 ELSE i
  BY <1>4
<1>9. Lists(Query)' = M /\ DocsOf(reader.items)' = I
  BY <1>1, <1>8 DEF Lists, DocsOf
<1>10. /\ IsFiniteSet(L) /\ Cardinality(L) \in Nat
       /\ IsFiniteSet(I) /\ Cardinality(Lost) \in Nat
       /\ IsFiniteSet(always)
  <2>1. Upright
    BY Typed
  <2>2. IsFiniteSet(L) /\ Cardinality(L) \in Nat
    BY <2>1, ListsAreFinite
  <2> HIDE DEF L
  <2> QED BY <2>2, Typed
<1>11. Cardinality(M) = IF e \in Listed[Query] THEN Cardinality(L) + 1
                        ELSE Cardinality(L)
  <2>1. CASE e \in Listed[Query]
    <3>1. M = L \cup {e} /\ e \notin L
      BY <1>2, <1>3, <2>1 DEF Lists
    <3> QED BY <1>10, <2>1, <3>1, FS_AddElement
  <2>2. CASE e \notin Listed[Query]
    <3>1. M = L
      BY <1>3, <2>2 DEF Lists
    <3> QED BY <2>2, <3>1
  <2> QED BY <2>1, <2>2
<1>12. Cardinality(I \ M) <= r
  <2>1. I \ M \subseteq I \ L /\ IsFiniteSet(I \ L)
    BY <1>3, <1>10, FS_Difference DEF Lists
  <2>2. Cardinality(I \ M) <= Cardinality(I \ L)
        /\ Cardinality(I \ M) \in Nat /\ Cardinality(I \ L) \in Nat
    BY <2>1, FewerThan
  <2>3. Cardinality(I \ L) <= r
    BY <1>7 DEF Budget
  <2> QED BY <2>2, <2>3
<1>13. ASSUME ~stuck
       PROVE  Cardinality(Behind(I, reader.page - 1)') <= r
  <2> DEFINE p == reader.page - 1
             P == Behind(I, p)
             N == {doc \in (always \cap Listed[Query]) \ I :
                      Cardinality(Ahead(Query, doc)') <= p * PageSize}
  <2>1. Behind(I, p)' = N
    BY <1>1, <1>8 DEF Behind
  <2>2. N \subseteq P
    <3> SUFFICES ASSUME NEW doc \in (always \cap Listed[Query]) \ I,
                        Cardinality(Ahead(Query, doc)') <= p * PageSize
                 PROVE  Cardinality(Ahead(Query, doc)) <= p * PageSize
      BY DEF Behind
    <3>1. IsFiniteSet(Ahead(Query, doc)')
      <4>1. Ahead(Query, doc)' \subseteq Range(upstream')
        BY DEF Ahead, Range
      <4>2. IsFiniteSet(Range(upstream'))
        <5>1. Upright
          BY Typed
        <5>2. IsFiniteSet(Range(upstream))
          BY <5>1, ListsAreFinite
        <5> QED BY <1>3, <5>2, FS_AddElement
      <4> QED BY <4>1, <4>2, FS_Subset
    <3>2. /\ Cardinality(Ahead(Query, doc)) \in Nat
          /\ Cardinality(Ahead(Query, doc)') \in Nat
          /\ Cardinality(Ahead(Query, doc)) <= Cardinality(Ahead(Query, doc)')
      <4>1. Ahead(Query, doc) \subseteq Ahead(Query, doc)'
        BY <1>3, <1>8
      <4> QED BY <3>1, <4>1, FewerThan
    <3>3. p * PageSize \in Int
      <4>1. PageSize \in Nat /\ p \in Int
        BY PagedAssumption, Typed
      <4> HIDE DEF p
      <4> QED BY <4>1
    <3> QED BY <3>2, <3>3
  <2>3. IsFiniteSet(P)
    BY <1>10, FS_Subset DEF Behind
  <2>4. Cardinality(P) <= r
    BY <1>7, <1>13 DEF Budget
  <2> HIDE DEF P, N
  <2>5. /\ Cardinality(N) \in Nat /\ Cardinality(P) \in Nat
        /\ Cardinality(N) <= Cardinality(P)
    BY <2>2, <2>3, FewerThan
  <2>6. Cardinality(N) <= r
    BY <2>4, <2>5
  <2> QED BY <2>1, <2>6
<1>14. Budget(r, j)'
  <2>1. Cardinality(Lost)' + r <= edits'.removed
    BY <1>4, <1>7, <1>8 DEF Budget
  <2>2. Cardinality(Lost)' + j <= edits'.inserted
    <3>1. Cardinality(Lost) + i <= edits.inserted
      BY <1>7 DEF Budget
    <3> QED BY <1>4, <1>8, <1>10, <1>19, <3>1
  <2>3. Cardinality(DocsOf(reader.items) \ Lists(Query))' <= r
    BY <1>9, <1>12
  <2>4. Counts' /\ reader'.total # None =>
            Cardinality(Lists(Query))' + r = reader'.total + j
    <3>1. Counts /\ reader.total # None =>
              Cardinality(L) + r = reader.total + i
      BY <1>7 DEF Budget
    <3>2. reader.total # None => reader.total \in Nat
      BY DEF TypeOK, Reader
    <3> HIDE DEF L, M
    <3> QED BY <1>1, <1>8, <1>9, <1>10, <1>11, <1>19, <3>1, <3>2
  <2>5. ~stuck' =>
            Cardinality(Behind(DocsOf(reader.items), reader.page - 1))' <= r
    BY <1>1, <1>9, <1>13
  <2> QED BY <2>1, <2>2, <2>3, <2>4, <2>5 DEF Budget
<1>15. r \in 0..edits'.removed /\ j \in 0..edits'.inserted
  BY <1>4, <1>19
<1>16. FirstPart'
  <2>1. reader.query = 2 /\ reader.kind = "payment" =>
            Cardinality(DocsOf(reader.parts[1]) \ Range(upstream'))
                <= edits.removed
    <3> SUFFICES ASSUME reader.query = 2, reader.kind = "payment"
                 PROVE  Cardinality(DocsOf(reader.parts[1])
                                        \ Range(upstream')) <= edits.removed
      OBVIOUS
    <3> DEFINE F == DocsOf(reader.parts[1])
    <3>1. Cardinality(F \ Range(upstream)) <= edits.removed
      BY <1>1 DEF Reading, FirstPart
    <3>2. IsFiniteSet(F)
      <4>1. reader.parts \in Seq(Seq(Item)) /\ Len(reader.parts) = 1
        BY <1>1 DEF TypeOK, Reader, Reading
      <4>2. reader.parts[1] \in Seq(Item)
        BY <4>1
      <4> QED BY <4>2, DistinctCounts
    <3>3. IsFiniteSet(F \ Range(upstream))
      BY <3>2, FS_Difference
    <3>4. F \ Range(upstream') \subseteq F \ Range(upstream)
      BY <1>3
    <3> HIDE DEF F
    <3>5. /\ Cardinality(F \ Range(upstream')) \in Nat
          /\ Cardinality(F \ Range(upstream)) \in Nat
          /\ Cardinality(F \ Range(upstream'))
                <= Cardinality(F \ Range(upstream))
      BY <3>3, <3>4, FewerThan
    <3> QED BY <1>4, <3>1, <3>5 DEF F
  <2> QED BY <1>1, <1>4, <2>1 DEF Reading, FirstPart, DocsOf
<1>17. \E s \in 0..edits'.removed, t \in 0..edits'.inserted : Budget(s, t)'
  BY <1>14, <1>15
<1>18. DocsOf(reader.items)' \subseteq Listed[Query']
  BY <1>1, <1>8, <1>9 DEF Reading
<1> QED BY <1>1, <1>6, <1>8, <1>16, <1>17, <1>18 DEF Reading, Counts

\* The place at a page's end belongs to one document.
LEMMA OnePerRank ==
    ASSUME Upright, NEW query \in Queries,
           NEW x \in Lists(query), NEW y \in Lists(query),
           Cardinality(Ahead(query, x)) = Cardinality(Ahead(query, y))
    PROVE  x = y
BY ListHasRanks

LEMMA DelistKeeps ==
    ASSUME TypeOK, Shape, Reading, Delist
    PROVE  Shape' /\ Reading'
<1>1. /\ reader.pc = "reading" /\ reader' = reader /\ rev' = rev
      /\ stuck' = stuck
      /\ edits' = [edits EXCEPT !.removed = @ + 1]
  BY DEF Delist, CanEdit
<1>2. PICK k \in DOMAIN upstream :
          /\ upstream' = RemoveAt(upstream, k)
          /\ always' = always \ {upstream[k]}
  BY DEF Delist
<1>0. PICK e : e = upstream[k]
  OBVIOUS
<1>3. /\ Upright' /\ Range(upstream') = Range(upstream) \ {e}
      /\ \A query, doc : doc # e =>
            Ahead(query, doc)' = Ahead(query, doc) \ {e}
  <2>1. Upright
    BY Typed
  <2> QED BY <1>0, <1>1, <1>2, <2>1, DelistLists
<1>4. /\ edits.inserted \in Nat /\ edits.removed \in Nat
      /\ edits.modified \in Nat
      /\ edits'.removed = edits.removed + 1
      /\ edits'.inserted = edits.inserted /\ edits'.modified = edits.modified
  BY <1>1, Typed DEF TypeOK
<1>5. Edited'
  BY <1>4 DEF Edited
<1>6. Shape'
  BY <1>0, <1>1, <1>2, <1>3, <1>5 DEF Shape, Upright
<1>7. PICK r \in 0..edits.removed, i \in 0..edits.inserted : Budget(r, i)
  BY <1>1 DEF Reading
<1>8. Query' = Query /\ Counts' = Counts
  BY <1>1 DEF Query, Counts
<1>20. Query \in Queries
  BY <1>1, QueryListed DEF Reading
<1> DEFINE L == Lists(Query)
           M == Range(upstream') \cap Listed[Query]
           I == DocsOf(reader.items)
<1>19. PICK s \in 0..(edits.removed + 1) :
           s = IF e \in Listed[Query] THEN r + 1 ELSE r
  BY <1>4
<1>9. Lists(Query)' = M /\ DocsOf(reader.items)' = I
  BY <1>1, <1>8 DEF Lists, DocsOf
<1>10. /\ IsFiniteSet(L) /\ Cardinality(L) \in Nat
       /\ IsFiniteSet(I) /\ Cardinality(Lost) \in Nat /\ IsFiniteSet(Lost)
       /\ IsFiniteSet(always) /\ Upright
  <2>1. Upright
    BY Typed
  <2>2. IsFiniteSet(L) /\ Cardinality(L) \in Nat
    BY <2>1, ListsAreFinite
  <2> HIDE DEF L
  <2> QED BY <2>1, <2>2, Typed
<1>11. Cardinality(M) = IF e \in Listed[Query] THEN Cardinality(L) - 1
                        ELSE Cardinality(L)
  <2>1. CASE e \in Listed[Query]
    <3>1. M = L \ {e} /\ e \in L
      BY <1>0, <1>3, <2>1 DEF Lists, Range
    <3> QED BY <1>10, <2>1, <3>1, FS_RemoveElement
  <2>2. CASE e \notin Listed[Query]
    <3>1. M = L
      BY <1>3, <2>2 DEF Lists
    <3> QED BY <2>2, <3>1
  <2> QED BY <2>1, <2>2
<1>12. Cardinality(I \ M) <= s
  <2>1. IsFiniteSet(I \ L)
    BY <1>10, FS_Difference
  <2>2. Cardinality(I \ L) <= r
    BY <1>7 DEF Budget
  <2>3. CASE e \in Listed[Query]
    <3>1. I \ M \subseteq (I \ L) \cup {e}
      BY <1>3 DEF Lists
    <3> HIDE DEF I, M, L
    <3>2. /\ Cardinality(I \ M) \in Nat /\ Cardinality(I \ L) \in Nat
          /\ Cardinality(I \ M) <= Cardinality(I \ L) + 1
      BY <2>1, <3>1, OneMore
    <3> QED BY <1>19, <2>2, <2>3, <3>2
  <2>4. CASE e \notin Listed[Query]
    <3>1. I \ M = I \ L
      BY <1>3, <2>4 DEF Lists
    <3> QED BY <1>19, <2>2, <2>4, <3>1
  <2> QED BY <2>3, <2>4
<1>13. ASSUME ~stuck
       PROVE  Cardinality(Behind(I, reader.page - 1)') <= s
  <2> DEFINE p == reader.page - 1
             P == Behind(I, p)
             N == {doc \in ((always \ {e}) \cap Listed[Query]) \ I :
                      Cardinality(Ahead(Query, doc) \ {e}) <= p * PageSize}
  <2>1. Behind(I, p)' = N
    <3>1. Behind(I, p)' = {doc \in (always' \cap Listed[Query]) \ I :
                      Cardinality(Ahead(Query, doc)') <= p * PageSize}
      BY <1>1, <1>8 DEF Behind
    <3>2. \A doc \in always' : doc # e
      BY <1>0, <1>2
    <3>3. \A doc \in always' : Ahead(Query, doc)' = Ahead(Query, doc) \ {e}
      BY <1>3, <1>8, <3>2
    <3> QED BY <1>0, <1>2, <3>1, <3>3
  <2>2. ASSUME NEW doc
        PROVE  /\ Cardinality(Ahead(Query, doc)) \in Nat
               /\ Cardinality(Ahead(Query, doc) \ {e}) =
                     IF e \in Ahead(Query, doc)
                     THEN Cardinality(Ahead(Query, doc)) - 1
                     ELSE Cardinality(Ahead(Query, doc))
    <3>1. IsFiniteSet(Ahead(Query, doc))
          /\ Cardinality(Ahead(Query, doc)) \in Nat
      BY <1>10, ListsAreFinite
    <3> QED BY <3>1, FS_RemoveElement
  <2>3. p * PageSize \in Int
    <3>1. PageSize \in Nat /\ p \in Int
      BY PagedAssumption, Typed
    <3> HIDE DEF p
    <3> QED BY <3>1
  <2>4. IsFiniteSet(P)
    BY <1>10, FS_Subset DEF Behind
  <2>5. Cardinality(P) <= r
    BY <1>7, <1>13 DEF Budget
  <2>6. CASE e \notin Listed[Query]
    <3>1. \A doc : e \notin Ahead(Query, doc)
      BY <2>6 DEF Ahead
    <3>2. N \subseteq P
      BY <2>2, <3>1 DEF Behind
    <3> HIDE DEF N, P
    <3>3. Cardinality(N) <= Cardinality(P) /\ Cardinality(N) \in Nat
          /\ Cardinality(P) \in Nat
      BY <2>4, <3>2, FewerThan
    <3> QED BY <1>19, <2>1, <2>5, <2>6, <3>3
  <2>7. CASE e \in Listed[Query]
    <3>1. ASSUME NEW x \in N \ P
          PROVE  /\ x \in Lists(Query)
                 /\ Cardinality(Ahead(Query, x)) = p * PageSize + 1
      <4>1. x \in Lists(Query)
        BY DEF Lists, Shape
      <4>2. x \in (always \cap Listed[Query]) \ I
        OBVIOUS
      <4>3. /\ Cardinality(Ahead(Query, x) \ {e}) <= p * PageSize
            /\ ~(Cardinality(Ahead(Query, x)) <= p * PageSize)
        BY <4>2 DEF Behind
      <4> HIDE DEF N, P, p
      <4> QED BY <2>2, <2>3, <4>1, <4>3
    <3> HIDE DEF N, P
    <3>2. \A x, y \in N \ P : x = y
      BY <1>10, <1>20, <3>1, OnePerRank
    <3>3. PICK b : N \subseteq P \cup {b}
      BY <3>2
    <3>4. Cardinality(N) <= Cardinality(P) + 1 /\ Cardinality(N) \in Nat
          /\ Cardinality(P) \in Nat
      BY <2>4, <3>3, OneMore
    <3>5. Cardinality(N) <= s
      BY <1>19, <2>5, <2>7, <3>4
    <3> QED BY <2>1, <3>5
  <2> QED BY <2>6, <2>7
<1>21. Lost' \subseteq Lost
  BY <1>1, <1>2 DEF Lost
<1>22. /\ Cardinality(Lost') \in Nat /\ Cardinality(Lost) \in Nat
       /\ Cardinality(Lost') <= Cardinality(Lost)
  BY <1>10, <1>21, FewerThan
<1>14. Budget(s, i)'
  <2>0. /\ Cardinality(Lost) + r <= edits.removed
        /\ Cardinality(Lost) + i <= edits.inserted
    BY <1>7 DEF Budget
  <2>1. Cardinality(Lost)' + s <= edits'.removed
    BY <1>4, <1>19, <1>22, <2>0
  <2>2. Cardinality(Lost)' + i <= edits'.inserted
    BY <1>4, <1>22, <2>0
  <2>3. Cardinality(DocsOf(reader.items) \ Lists(Query))' <= s
    BY <1>9, <1>12
  <2>4. Counts' /\ reader'.total # None =>
            Cardinality(Lists(Query))' + s = reader'.total + i
    <3>1. Counts /\ reader.total # None =>
              Cardinality(L) + r = reader.total + i
      BY <1>7 DEF Budget
    <3>2. reader.total # None => reader.total \in Nat
      BY DEF TypeOK, Reader
    <3> HIDE DEF L, M
    <3> QED BY <1>1, <1>8, <1>9, <1>10, <1>11, <1>19, <3>1, <3>2
  <2>5. ~stuck' =>
            Cardinality(Behind(DocsOf(reader.items), reader.page - 1))' <= s
    BY <1>1, <1>9, <1>13
  <2> QED BY <2>1, <2>2, <2>3, <2>4, <2>5 DEF Budget
<1>15. s \in 0..edits'.removed /\ i \in 0..edits'.inserted
  BY <1>4, <1>19
<1>16. FirstPart'
  <2>1. reader.query = 2 /\ reader.kind = "payment" =>
            Cardinality(DocsOf(reader.parts[1]) \ Range(upstream'))
                <= edits.removed + 1
    <3> SUFFICES ASSUME reader.query = 2, reader.kind = "payment"
                 PROVE  Cardinality(DocsOf(reader.parts[1])
                                     \ Range(upstream')) <= edits.removed + 1
      OBVIOUS
    <3> DEFINE F == DocsOf(reader.parts[1])
    <3>1. Cardinality(F \ Range(upstream)) <= edits.removed
      BY <1>1 DEF Reading, FirstPart
    <3>2. IsFiniteSet(F)
      <4>1. reader.parts \in Seq(Seq(Item)) /\ Len(reader.parts) = 1
        BY <1>1 DEF TypeOK, Reader, Reading
      <4>2. reader.parts[1] \in Seq(Item)
        BY <4>1
      <4> QED BY <4>2, DistinctCounts
    <3>3. IsFiniteSet(F \ Range(upstream))
      BY <3>2, FS_Difference
    <3>4. F \ Range(upstream') \subseteq (F \ Range(upstream)) \cup {e}
      BY <1>3
    <3> HIDE DEF F
    <3>5. /\ Cardinality(F \ Range(upstream')) \in Nat
          /\ Cardinality(F \ Range(upstream)) \in Nat
          /\ Cardinality(F \ Range(upstream'))
                <= Cardinality(F \ Range(upstream)) + 1
      BY <3>3, <3>4, OneMore
    <3> QED BY <1>4, <3>1, <3>5 DEF F
  <2> QED BY <1>1, <1>4, <2>1 DEF Reading, FirstPart, DocsOf
<1>17. \E x \in 0..edits'.removed, y \in 0..edits'.inserted : Budget(x, y)'
  BY <1>14, <1>15
<1>18. DocsOf(reader.items)' \subseteq Listed[Query']
  BY <1>1, <1>8, <1>9 DEF Reading
<1> QED BY <1>1, <1>6, <1>8, <1>16, <1>17, <1>18 DEF Reading, Counts


LEMMA ModifyKeeps ==
    ASSUME TypeOK, Shape, Reading, Modify
    PROVE  Shape' /\ Reading'
<1>1. /\ reader.pc = "reading" /\ reader' = reader /\ upstream' = upstream
      /\ stuck' = stuck /\ always' = always
      /\ edits' = [edits EXCEPT !.modified = @ + 1]
  BY DEF Modify, CanEdit
<1>2. /\ edits.inserted \in Nat /\ edits.removed \in Nat
      /\ edits.modified \in Nat
      /\ edits'.removed = edits.removed /\ edits'.inserted = edits.inserted
      /\ edits'.modified = edits.modified + 1
  BY <1>1, Typed DEF TypeOK
<1>3. Edited'
  BY <1>2 DEF Edited
<1>4. Shape'
  BY <1>1, <1>3 DEF Shape
<1>5. PICK r \in 0..edits.removed, i \in 0..edits.inserted : Budget(r, i)
  BY <1>1 DEF Reading
<1>6. Budget(r, i)'
  BY <1>1, <1>2, <1>5
  DEF Budget, Lost, DocsOf, Lists, Query, Counts, Behind, Ahead
<1>7. FirstPart'
  BY <1>1, <1>2 DEF Reading, FirstPart, Distinct, DocsOf
<1>8. \E x \in 0..edits'.removed, y \in 0..edits'.inserted : Budget(x, y)'
  BY <1>2, <1>5, <1>6
<1> QED BY <1>1, <1>4, <1>7, <1>8
    DEF Reading, Counts, Distinct, DocsOf, Query

\* A read begins with the list of that moment.
LEMMA BeginKeeps ==
    ASSUME TypeOK, Shape, Idle, Begin
    PROVE  Shape' /\ Reading'
<1>1. /\ reader.pc = "idle" /\ reader' = [reader EXCEPT !.pc = "reading"]
      /\ always' = Range(upstream)
      /\ upstream' = upstream /\ stuck' = stuck /\ edits' = edits
  BY DEF Begin
<1>2. /\ reader.query = 1 /\ reader.page = 1 /\ reader.total = None
      /\ reader.items = <<>> /\ reader.parts = <<>>
      /\ edits.inserted = 0 /\ edits.removed = 0
  BY <1>1 DEF Idle
<1>3. /\ reader' \in Reader /\ reader'.pc = "reading"
      /\ reader'.query = 1 /\ reader'.page = 1 /\ reader'.total = None
      /\ reader'.items = <<>> /\ reader'.parts = <<>>
      /\ reader'.kind = reader.kind /\ reader'.declares = reader.declares
  BY <1>1, <1>2 DEF TypeOK, Reader
<1>4. Shape'
  BY <1>1, <1>2, <1>3 DEF Shape
<1>5. DocsOf(<<>>) = {} /\ Distinct(<<>>)
  BY DEF DocsOf, Distinct
<1>6. Lost' = {}
  BY <1>3 DEF Lost
<1>7. Upright
  BY Typed
<1>8. Cardinality(Behind(DocsOf(reader.items), reader.page - 1)') = 0
  <2>1. /\ Behind(DocsOf(reader.items), reader.page - 1)' \subseteq always'
        /\ IsFiniteSet(always')
    BY <1>1, <1>7, ListsAreFinite DEF Behind
  <2>2. ASSUME NEW doc \in Behind(DocsOf(reader.items), reader.page - 1)'
        PROVE  FALSE
    <3>1. /\ doc \in Range(upstream) /\ doc \in Listed[Query']
          /\ Cardinality(Ahead(Query, doc)') <= (1 - 1) * PageSize
      BY <1>1, <1>3 DEF Behind
    <3>2. Ahead(Query, doc)' = Ahead(Query', doc)
      BY <1>1 DEF Ahead
    <3>3. PICK j \in DOMAIN upstream : upstream[j] = doc
      BY <3>1 DEF Range
    <3>4. doc \in Ahead(Query', doc)
      BY <1>7, <3>1, <3>3 DEF Ahead, Upright
    <3>5. (1 - 1) * PageSize = 0
      BY PagedAssumption
    <3>6. /\ IsFiniteSet(Ahead(Query', doc))
          /\ Cardinality(Ahead(Query', doc)) \in Nat
      BY <1>7, ListsAreFinite
    <3> QED BY <3>1, <3>2, <3>4, <3>5, <3>6, FS_EmptySet
  <2> QED BY <2>2, FS_EmptySet
<1>9. Budget(0, 0)'
  <2>1. Cardinality(Lost)' = 0
    BY <1>6, FS_EmptySet
  <2>2. Cardinality(DocsOf(reader.items) \ Lists(Query))' = 0
    <3>1. DocsOf(reader.items)' = {}
      BY <1>3, <1>5
    <3> QED BY <3>1, FS_EmptySet
  <2> QED BY <1>1, <1>2, <1>3, <1>8, <2>1, <2>2 DEF Budget
<1>10. \E x \in 0..edits'.removed, y \in 0..edits'.inserted : Budget(x, y)'
  BY <1>1, <1>2, <1>9
<1>11. 1 <= Len(QueriesOf(reader'.kind))
  BY <1>3 DEF QueriesOf
<1>12. FirstPart'
  BY <1>3 DEF FirstPart
<1> QED BY <1>3, <1>4, <1>5, <1>10, <1>11, <1>12 DEF Reading

-----------------------------------------------------------------------------
(***************************************************************************)
(* A page is read                                                          *)
(***************************************************************************)

LEMMA SelfAhead ==
    ASSUME Upright, NEW query, NEW doc \in Lists(query)
    PROVE  /\ Cardinality(Ahead(query, doc)) \in Nat
           /\ Cardinality(Ahead(query, doc)) >= 1
           /\ Cardinality(Ahead(query, doc)) <= Cardinality(Lists(query))
<1>1. PICK j \in DOMAIN upstream : upstream[j] = doc
  BY DEF Lists, Range
<1>2. doc \in Ahead(query, doc)
  BY <1>1 DEF Ahead, Upright, Lists
<1>3. /\ IsFiniteSet(Ahead(query, doc))
      /\ Cardinality(Ahead(query, doc)) \in Nat
      /\ Cardinality(Ahead(query, doc)) <= Cardinality(Lists(query))
  BY ListsAreFinite
<1>4. Cardinality(Ahead(query, doc)) # 0
  BY <1>2, <1>3, FS_EmptySet
<1> QED BY <1>3, <1>4

\* Before its first page a query has lost nothing and counted nothing.
LEMMA FirstPageBudget ==
    ASSUME TypeOK, Shape, Reading, reader.pc = "reading"
    PROVE  \E r \in 0..edits.removed, i \in 0..edits.inserted :
              Budget(r, i) /\ (reader.page = 1 => r = 0 /\ i = 0)
<1>1. PICK r \in 0..edits.removed, i \in 0..edits.inserted : Budget(r, i)
  BY DEF Reading
<1>2. CASE reader.page # 1
  BY <1>1, <1>2
<1>3. CASE reader.page = 1
  <2>1. reader.items = <<>> /\ reader.total = None
    BY <1>3 DEF Reading
  <2>2. DocsOf(reader.items) = {}
    BY <2>1 DEF DocsOf
  <2>3. /\ Cardinality(Lost) <= edits.removed
        /\ Cardinality(Lost) <= edits.inserted
        /\ edits.removed \in Nat /\ edits.inserted \in Nat
        /\ Cardinality(Lost) \in Nat /\ Upright
    BY <1>1, Typed DEF Budget
  <2>4. Behind(DocsOf(reader.items), reader.page - 1) = {}
    <3> SUFFICES ASSUME NEW doc \in always \cap Listed[Query],
                        Cardinality(Ahead(Query, doc)) <= (1 - 1) * PageSize
                 PROVE  FALSE
      BY <1>3 DEF Behind
    <3>1. doc \in Lists(Query)
      BY DEF Lists, Shape
    <3>2. (1 - 1) * PageSize = 0
      BY PagedAssumption
    <3> QED BY <2>3, <3>1, <3>2, SelfAhead
  <2>6. DocsOf(reader.items) \ Lists(Query) = {}
    BY <2>2
  <2>7. /\ Cardinality(DocsOf(reader.items) \ Lists(Query)) = 0
        /\ Cardinality(Behind(DocsOf(reader.items), reader.page - 1)) = 0
    BY <2>4, <2>6, FS_EmptySet
  <2>5. Budget(0, 0)
    BY <2>1, <2>3, <2>7 DEF Budget
  <2> QED BY <2>3, <2>5
<1> QED BY <1>2, <1>3

\* What a page adds was listed; and of the documents whose place is on a page
\* that was read, none is missing but those that slipped behind before.
LEMMA PageAdds ==
    ASSUME TypeOK, Shape, NEW r \in Nat, NEW i \in Nat, Budget(r, i),
           reader.page >= 1, Query \in Queries,
           NEW rows \in SUBSET Lists(Query), NEW docs,
           docs = DocsOf(reader.items) \cup rows
    PROVE  /\ Cardinality(docs \ Lists(Query)) <= r
           /\ reader.items = <<>> => Cardinality(docs \ Lists(Query)) = 0
           /\ ~stuck /\ rows = Window(Query, reader.page) =>
                 Cardinality(Behind(docs, reader.page)) <= r
           /\ \A p \in {1, reader.page} :
                 /\ rows = Window(Query, p)
                 /\ p = 1 \/ ~stuck
                 /\ Cardinality(Lists(Query)) <= p * PageSize
                 => Cardinality((always \cap Listed[Query]) \ docs) <= r
<1> DEFINE L == Lists(Query)
           I == DocsOf(reader.items)
           D == (always \cap Listed[Query]) \ docs
<1>1. /\ Upright /\ IsFiniteSet(I) /\ IsFiniteSet(always)
      /\ reader.page \in Nat \ {0}
  BY Typed
<1>2. docs \ L = I \ L
  OBVIOUS
<1>3. Cardinality(docs \ L) <= r
  BY <1>2 DEF Budget
<1>4. reader.items = <<>> => Cardinality(docs \ L) = 0
  <2>1. reader.items = <<>> => I = {}
    BY DEF DocsOf
  <2> QED BY <1>2, <2>1, FS_EmptySet
<1>5. D \subseteq L
  BY DEF Lists, Shape
<1>6. ASSUME ~stuck, rows = Window(Query, reader.page)
      PROVE  Cardinality(Behind(docs, reader.page)) <= r
  <2> DEFINE P == Behind(I, reader.page - 1)
             N == Behind(docs, reader.page)
  <2>1. N \subseteq P
    <3> SUFFICES ASSUME NEW doc \in D,
                        Cardinality(Ahead(Query, doc))
                            <= reader.page * PageSize
                 PROVE  Cardinality(Ahead(Query, doc))
                            <= (reader.page - 1) * PageSize
      BY DEF Behind
    <3>1. doc \in L /\ doc \notin Window(Query, reader.page)
      BY <1>5, <1>6
    <3>2. ~(Cardinality(Ahead(Query, doc)) > (reader.page - 1) * PageSize)
      BY <3>1 DEF Window
    <3>3. Cardinality(Ahead(Query, doc)) \in Nat
      BY <1>1, <3>1, SelfAhead
    <3>4. (reader.page - 1) * PageSize \in Nat
      BY <1>1, PageEnds
    <3> QED BY <3>2, <3>3, <3>4
  <2>2. IsFiniteSet(P)
    BY <1>1, FS_Subset DEF Behind
  <2>3. Cardinality(P) <= r
    BY <1>6 DEF Budget
  <2> HIDE DEF P, N
  <2>4. /\ Cardinality(N) \in Nat /\ Cardinality(P) \in Nat
        /\ Cardinality(N) <= Cardinality(P)
    BY <2>1, <2>2, FewerThan
  <2>5. Cardinality(N) <= r
    BY <2>3, <2>4
  <2> QED BY <2>5 DEF N
<1>7. ASSUME NEW p \in {1, reader.page}, rows = Window(Query, p),
             p = 1 \/ ~stuck, Cardinality(L) <= p * PageSize
      PROVE  Cardinality(D) <= r
  <2>1. \A doc \in L : /\ Cardinality(Ahead(Query, doc)) \in Nat
                       /\ Cardinality(Ahead(Query, doc)) >= 1
                       /\ Cardinality(Ahead(Query, doc)) <= Cardinality(L)
    BY <1>1, SelfAhead
  <2>2. Cardinality(L) \in Nat
    BY <1>1, ListsAreFinite
  <2>3. p \in Nat \ {0}
    BY <1>1
  <2>4. p * PageSize \in Nat
    BY <2>3, PageEnds
  <2> HIDE DEF L
  <2>5. \A doc \in L : Cardinality(Ahead(Query, doc)) <= p * PageSize
    BY <1>7, <2>1, <2>2, <2>4
  <2>6. CASE p = 1
    <3>1. (1 - 1) * PageSize = 0
      BY PagedAssumption
    <3>2. L \subseteq rows
      <4> SUFFICES ASSUME NEW doc \in L PROVE doc \in Window(Query, 1)
        BY <1>7, <2>6
      <4>1. Cardinality(Ahead(Query, doc)) > (1 - 1) * PageSize
        BY <2>1, <3>1
      <4> QED BY <2>5, <2>6, <4>1 DEF Window, L
    <3>3. D = {}
      BY <1>5, <3>2
    <3> QED BY <3>3, FS_EmptySet
  <2>7. CASE p # 1
    <3>1. p = reader.page /\ ~stuck
      BY <1>7, <2>7
    <3>2. Behind(docs, reader.page) = D
      BY <1>5, <2>5, <3>1 DEF Behind
    <3> QED BY <1>6, <1>7, <3>1, <3>2
  <2> QED BY <2>6, <2>7
<1> QED BY <1>3, <1>4, <1>6, <1>7

\* A list that has reached its total lacks no more documents than it has of
\* those that are gone.
LEMMA TotalReached ==
    ASSUME TypeOK, Shape, NEW docs, IsFiniteSet(docs),
           Cardinality(docs) = Cardinality(Lists(Query)),
           NEW r \in Nat, Cardinality(docs \ Lists(Query)) <= r
    PROVE  Cardinality((always \cap Listed[Query]) \ docs) <= r
<1> DEFINE L == Lists(Query)
           D == (always \cap Listed[Query]) \ docs
<1>1. IsFiniteSet(L)
  <2>1. Upright
    BY Typed
  <2> QED BY <2>1, ListsAreFinite
<1>2. Cardinality(docs \ L) = Cardinality(L \ docs)
  BY <1>1, SameLack
<1>3. IsFiniteSet(L \ docs) /\ D \subseteq L \ docs
  BY <1>1, FS_Difference DEF Lists, Shape
<1> HIDE DEF L, D
<1>4. /\ Cardinality(D) <= Cardinality(L \ docs) /\ Cardinality(D) \in Nat
      /\ Cardinality(L \ docs) \in Nat
  BY <1>3, FewerThan
<1>5. Cardinality(D) <= r
  BY <1>2, <1>4 DEF L
<1> QED BY <1>5 DEF D


-----------------------------------------------------------------------------
(***************************************************************************)
(* A query is over                                                         *)
(***************************************************************************)

\* What the end of a query owes to the documents that left and came.
Complete(docs, r, i) ==
    /\ Cardinality(Lost) + r <= edits.removed
    /\ Cardinality(Lost) + i <= edits.inserted
    /\ Cardinality(docs \ Lists(Query)) <= r
    /\ Query # "application" =>
          Cardinality((always \cap Listed[Query]) \ docs) <= r
    /\ reader.kind \in {"procurement", "payment"} =>
          Cardinality((always \cap Listed[Query]) \ docs) <= i

\* The records of a query, complete and without repetitions.
Gathered(items, r, i) ==
    /\ items \in Seq(Item) /\ Distinct(items)
    /\ DocsOf(items) \subseteq Listed[Query]
    /\ Complete(DocsOf(items), r, i)

\* What the reader takes of a query's records.
Taken(items) ==
    IF reader.kind = "payment" THEN Select(items, Matched[Query]) ELSE items

LEMMA TakenTyped ==
    ASSUME TypeOK, NEW items \in Seq(Item), Distinct(items)
    PROVE  /\ Taken(items) \in Seq(Item) /\ Distinct(Taken(items))
           /\ DocsOf(Taken(items)) =
                 IF reader.kind = "payment"
                 THEN DocsOf(items) \cap Matched[Query] ELSE DocsOf(items)
BY SelectKeeps DEF Taken

Over == reader.query = Len(QueriesOf(reader.kind))

Agree(parts) ==
    /\ reader.kind = "payment" => Consistent(parts)
    /\ reader.kind = "bizcase" => Visible(parts)

Parts(items) == Append(reader.parts, Taken(items))

LEMMA PartsTyped ==
    ASSUME TypeOK, Reading, reader.pc = "reading",
           NEW items \in Seq(Item), Distinct(items)
    PROVE  /\ Parts(items) \in Seq(Seq(Item))
           /\ reader.parts \in Seq(Seq(Item))
           /\ Len(Parts(items)) = reader.query /\ reader.query \in 1..2
           /\ reader.query <= Len(QueriesOf(reader.kind))
           /\ Len(reader.parts) = reader.query - 1
           /\ Parts(items)[reader.query] = Taken(items)
           /\ reader.query = 2 => /\ Parts(items)[1] = reader.parts[1]
                                  /\ reader.parts[1] \in Seq(Item)
                                  /\ Distinct(reader.parts[1])
<1>1. /\ reader.parts \in Seq(Seq(Item)) /\ reader.query \in 1..2
      /\ Len(reader.parts) = reader.query - 1
      /\ reader.query <= Len(QueriesOf(reader.kind))
  BY DEF TypeOK, Reader, Reading
<1>2. Taken(items) \in Seq(Item)
  BY TakenTyped
<1>3. /\ Parts(items) \in Seq(Seq(Item))
      /\ Len(Parts(items)) = Len(reader.parts) + 1
      /\ \A k \in 1..Len(reader.parts) : Parts(items)[k] = reader.parts[k]
      /\ Parts(items)[Len(reader.parts) + 1] = Taken(items)
  BY <1>1, <1>2, AppendProperties DEF Parts
<1>4. reader.query = 2 => reader.parts[1] \in Seq(Item)
                          /\ Distinct(reader.parts[1])
  BY <1>1 DEF Reading, FirstPart
<1>5. Len(Parts(items)) = reader.query /\ Len(reader.parts) + 1 = reader.query
  BY <1>1, <1>3
<1>6. reader.query = 2 => Parts(items)[1] = reader.parts[1]
  BY <1>1, <1>3
<1> QED BY <1>1, <1>3, <1>4, <1>5, <1>6

\* The three ends of a query.
LEMMA QueryDoneIs ==
    ASSUME TypeOK, Reading, reader.pc = "reading",
           NEW items \in Seq(Item), Distinct(items)
    PROVE  /\ ~Over =>
                 QueryDone(items) =
                    [reader EXCEPT !.query = @ + 1, !.page = 1, !.total = None,
                                   !.pages = 0, !.size = 0, !.items = <<>>,
                                   !.parts = Parts(items)]
           /\ Over /\ ~Agree(Parts(items)) =>
                 QueryDone(items) = [reader EXCEPT !.pc = "incomplete"]
           /\ Over /\ Agree(Parts(items)) =>
                 QueryDone(items) =
                    [reader EXCEPT !.pc = "returned", !.parts = Parts(items),
                        !.items = IF reader.kind = "payment"
                                  THEN Union(Parts(items))
                                  ELSE Taken(items)]
<1>1. /\ Len(Parts(items)) = reader.query
      /\ Parts(items)[reader.query] = Taken(items)
  BY PartsTyped
<1>2. Last(Parts(items)) = Taken(items)
  BY <1>1 DEF Last
<1> DEFINE taken == IF reader.kind = "payment"
                    THEN Select(items, Matched[Query]) ELSE items
           parts == Append(reader.parts, taken)
<1>3. parts = Parts(items)
  BY DEF Parts, Taken
<1>4. Len(parts) = Len(QueriesOf(reader.kind)) <=> Over
  BY <1>1, <1>3 DEF Over
<1> QED BY <1>1, <1>2, <1>3, <1>4 DEF QueryDone, Agree, Parts, Taken


LEMMA NothingBehind ==
    ASSUME Upright, always \subseteq Range(upstream), NEW query
    PROVE  {doc \in always \cap Listed[query] :
               Cardinality(Ahead(query, doc)) <= (1 - 1) * PageSize} = {}
<1> SUFFICES ASSUME NEW doc \in always \cap Listed[query],
                    Cardinality(Ahead(query, doc)) <= (1 - 1) * PageSize
             PROVE  FALSE
  OBVIOUS
<1>1. doc \in Lists(query)
  BY DEF Lists
<1>2. (1 - 1) * PageSize = 0
  BY PagedAssumption
<1> QED BY <1>1, <1>2, SelfAhead

\* The reader with other values in its fields.
LEMMA ReaderEdited ==
    ASSUME NEW x \in Reader, NEW q \in 1..2, NEW p \in Nat,
           NEW t \in Nat \cup {None}, NEW n \in Nat, NEW z \in Nat,
           NEW items \in Seq(Item), NEW parts \in Seq(Seq(Item))
    PROVE  [x EXCEPT !.query = q, !.page = p, !.total = t, !.pages = n,
                     !.size = z, !.items = items, !.parts = parts] \in Reader
<1>1. ASSUME NEW P, NEW K, NEW T, NEW A, NEW B,
             NEW y \in [pc : P, kind : K, declares : BOOLEAN, query : 1..2,
                        page : Nat, total : T, pages : Nat, size : Nat,
                        items : A, parts : B],
             NEW u \in T, NEW v \in A, NEW w \in B
      PROVE  [y EXCEPT !.query = q, !.page = p, !.total = u, !.pages = n,
                       !.size = z, !.items = v, !.parts = w]
                \in [pc : P, kind : K, declares : BOOLEAN, query : 1..2,
                     page : Nat, total : T, pages : Nat, size : Nat,
                     items : A, parts : B]
  OBVIOUS
<1> QED BY <1>1, Zenon DEF Reader

Still == UNCHANGED <<upstream, rev, stuck, edits, always>>

\* The second query begins, and keeps what the first one owes.
LEMMA NextQuery ==
    ASSUME TypeOK, Shape, Reading, reader.pc = "reading", Still, NEW items,
           NEW r \in 0..edits.removed, NEW i \in 0..edits.inserted,
           Gathered(items, r, i), ~Over, reader' = QueryDone(items)
    PROVE  reader' \in Reader /\ Shape' /\ Reading' /\ ListIsSound'
<1>1. /\ items \in Seq(Item) /\ Distinct(items)
      /\ DocsOf(items) \subseteq Listed[Query]
      /\ Complete(DocsOf(items), r, i)
  BY DEF Gathered
<1>2. /\ reader \in Reader /\ Upright
      /\ edits.removed \in Nat /\ edits.inserted \in Nat
      /\ Cardinality(Lost) \in Nat /\ IsFiniteSet(always)
  BY Typed DEF TypeOK
<1>3. /\ Parts(items) \in Seq(Seq(Item)) /\ reader.query \in 1..2
      /\ Len(Parts(items)) = reader.query
      /\ Parts(items)[reader.query] = Taken(items)
      /\ reader.query <= Len(QueriesOf(reader.kind))
  BY <1>1, PartsTyped
<1>4. /\ Taken(items) \in Seq(Item) /\ Distinct(Taken(items))
      /\ DocsOf(Taken(items)) = IF reader.kind = "payment"
                                THEN DocsOf(items) \cap Matched[Query]
                                ELSE DocsOf(items)
  BY <1>1, TakenTyped
<1>5. /\ reader.kind \in {"payment", "bizcase"} /\ reader.query = 1
      /\ Len(QueriesOf(reader.kind)) = 2
      /\ reader.kind = "payment" => Query = "applicant"
  <2>1. reader.kind \notin {"payment", "bizcase"} =>
            QueriesOf(reader.kind) = <<"all">>
    BY DEF QueriesOf
  <2>2. /\ reader.kind = "payment" =>
              QueriesOf(reader.kind) = <<"applicant", "project">>
        /\ reader.kind = "bizcase" =>
              QueriesOf(reader.kind) = <<"application", "all">>
    BY DEF QueriesOf
  <2>3. /\ Len(<<"all">>) = 1 /\ Len(<<"applicant", "project">>) = 2
        /\ Len(<<"application", "all">>) = 2
    OBVIOUS
  <2> DEFINE n == Len(QueriesOf(reader.kind))
  <2>4. /\ reader.kind \notin {"payment", "bizcase"} => n = 1
        /\ reader.kind \in {"payment", "bizcase"} => n = 2
    BY <2>1, <2>2, <2>3
  <2>5. reader.query <= n /\ reader.query # n
    BY <1>3 DEF Over
  <2> HIDE DEF n
  <2>6. reader.query = 1 /\ n = 2
    BY <1>3, <2>4, <2>5
  <2>7. reader.kind \in {"payment", "bizcase"}
    BY <2>4, <2>6
  <2>8. reader.kind = "payment" => Query = "applicant"
    BY <2>2, <2>6 DEF Query
  <2> QED BY <2>6, <2>7, <2>8 DEF n
<1>6. reader' = [reader EXCEPT !.query = @ + 1, !.page = 1, !.total = None,
                               !.pages = 0, !.size = 0, !.items = <<>>,
                               !.parts = Parts(items)]
  BY <1>1, QueryDoneIs
<1>7. /\ reader' \in Reader /\ reader'.pc = "reading"
      /\ reader'.kind = reader.kind /\ reader'.declares = reader.declares
      /\ reader'.query = 2 /\ reader'.page = 1 /\ reader'.total = None
      /\ reader'.items = <<>> /\ reader'.parts = Parts(items)
  <2>1. <<>> \in Seq(Item) /\ reader.query + 1 = 2 /\ 1 \in Nat /\ 0 \in Nat
    BY <1>5
  <2>2. reader' = [reader EXCEPT !.query = 2, !.page = 1, !.total = None,
                                 !.pages = 0, !.size = 0, !.items = <<>>,
                                 !.parts = Parts(items)]
    BY <1>6, <2>1
  <2>3. reader' \in Reader
    <3>1. 2 \in 1..2 /\ None \in Nat \cup {None}
      OBVIOUS
    <3>2. reader \in Reader /\ Parts(items) \in Seq(Seq(Item))
      BY <1>2, <1>3
    <3> DEFINE w == Parts(items)
    <3> HIDE DEF w
    <3>3. w \in Seq(Seq(Item))
      BY <3>2 DEF w
    <3>4. [reader EXCEPT !.query = 2, !.page = 1, !.total = None,
                         !.pages = 0, !.size = 0, !.items = <<>>,
                         !.parts = w] \in Reader
      BY ONLY <2>1, <3>1, <3>2, <3>3, ReaderEdited
    <3> QED BY <2>2, <3>4 DEF w
  <2> QED BY <1>2, <2>2, <2>3 DEF Reader
<1>8. Shape'
  BY <1>7 DEF Shape, Still, Edited
<1>9. ListIsSound'
  BY <1>7 DEF ListIsSound
<1>10. DocsOf(<<>>) = {} /\ Distinct(<<>>)
  BY DEF DocsOf, Distinct
<1>11. reader'.parts[1] = Taken(items)
  BY <1>3, <1>5, <1>7
<1>12. ASSUME reader.kind = "payment"
       PROVE  /\ Cardinality(Lost') <= r /\ Cardinality(Lost') <= i
              /\ Cardinality(Lost') \in Nat
  <2> DEFINE D == (always \cap Listed["applicant"]) \ DocsOf(items)
  <2>1. Lost' = (always \cap Matched["applicant"])
                    \ (DocsOf(items) \cap Matched["applicant"])
    BY <1>4, <1>5, <1>7, <1>11, <1>12 DEF Lost, Still
  <2>2. Matched["applicant"] \subseteq Listed["applicant"]
    BY PagedAssumption DEF Queries
  <2>3. Lost' \subseteq D
    BY <2>1, <2>2
  <2>4. IsFiniteSet(D)
    BY <1>2, FS_Subset
  <2>5. Cardinality(D) <= r /\ Cardinality(D) <= i
    BY <1>1, <1>5, <1>12 DEF Complete
  <2> HIDE DEF D
  <2>6. /\ Cardinality(Lost') \in Nat /\ Cardinality(D) \in Nat
        /\ Cardinality(Lost') <= Cardinality(D)
    BY <2>3, <2>4, FewerThan
  <2> QED BY <2>5, <2>6
<1>13. ASSUME reader.kind # "payment"
       PROVE  Cardinality(Lost') = 0
  BY <1>7, <1>13, FS_EmptySet DEF Lost
<1>14. Behind(DocsOf(reader.items), reader.page - 1)' = {}
  <2>1. \A doc : Ahead(Query, doc)' = Ahead(Query', doc)
    BY DEF Ahead, Still
  <2>2. Behind(DocsOf(reader.items), reader.page - 1)' =
            {doc \in always \cap Listed[Query'] :
                Cardinality(Ahead(Query', doc)) <= (1 - 1) * PageSize}
    BY <1>7, <1>10, <2>1 DEF Behind, Still
  <2> QED BY <1>2, <2>2, NothingBehind DEF Shape
<1>15. Budget(0, 0)'
  <2>1. DocsOf(reader.items)' \ Lists(Query)' = {}
    BY <1>7, <1>10
  <2>2. Cardinality(DocsOf(reader.items) \ Lists(Query))' = 0
    BY <2>1, FS_EmptySet
  <2>3. Cardinality(Behind(DocsOf(reader.items), reader.page - 1))' = 0
    BY <1>14, FS_EmptySet
  <2>4. /\ Cardinality(Lost)' + 0 <= edits'.removed
        /\ Cardinality(Lost)' + 0 <= edits'.inserted
    BY <1>2, <1>12, <1>13 DEF Still
  <2> QED BY <1>7, <2>2, <2>3, <2>4 DEF Budget
<1>16. \E x \in 0..edits'.removed, y \in 0..edits'.inserted : Budget(x, y)'
  BY <1>2, <1>15 DEF Still
<1>17. FirstPart'
  <2>1. ASSUME reader.kind = "payment"
        PROVE  /\ DocsOf(Taken(items)) \subseteq Matched["applicant"]
               /\ Cardinality(DocsOf(Taken(items)) \ Range(upstream))
                     <= edits.removed
    <3> DEFINE A == DocsOf(Taken(items)) \ Range(upstream)
               B == DocsOf(items) \ Lists(Query)
    <3>1. A \subseteq B
      BY <1>4, <2>1 DEF Lists
    <3>2. IsFiniteSet(B)
      BY <1>1, DistinctCounts, FS_Difference
    <3>3. Cardinality(B) <= r
      BY <1>1 DEF Complete
    <3>4. DocsOf(Taken(items)) \subseteq Matched["applicant"]
      BY <1>4, <1>5, <2>1
    <3> HIDE DEF A, B
    <3>5. /\ Cardinality(A) \in Nat /\ Cardinality(B) \in Nat
          /\ Cardinality(A) <= Cardinality(B)
      BY <3>1, <3>2, FewerThan
    <3>6. Cardinality(A) <= edits.removed
      BY <1>2, <3>3, <3>5
    <3> QED BY <3>4, <3>6 DEF A
  <2>2. DocsOf(reader.parts[1])' = DocsOf(Taken(items))
    BY <1>11 DEF DocsOf
  <2>3. Distinct(reader.parts[1])'
    BY <1>4, <1>11 DEF Distinct
  <2> QED BY <1>7, <2>1, <2>2, <2>3 DEF FirstPart, Still
<1>18. Len(reader'.parts) = reader'.query - 1
       /\ reader'.query <= Len(QueriesOf(reader'.kind))
  <2>1. Len(reader'.parts) = 1
    BY <1>3, <1>5, <1>7
  <2>2. Len(QueriesOf(reader'.kind)) = 2
    BY <1>5, <1>7
  <2> QED BY <1>7, <2>1, <2>2
<1>19. Distinct(reader.items)' /\ DocsOf(reader.items)' = {}
  BY <1>7, <1>10
<1> QED BY <1>7, <1>8, <1>9, <1>16, <1>17, <1>18, <1>19 DEF Reading

\* What makes a list that is returned sound.
LEMMA SoundReturn ==
    ASSUME TypeOK, Shape, reader.pc = "reading", Still,
           NEW docs, NEW wanted,
           reader'.items \in Seq(Item), Distinct(reader'.items),
           docs = DocsOf(reader'.items), reader'.kind = reader.kind,
           wanted = Wanted', docs \subseteq wanted,
           edits.removed = 0 => docs \subseteq Range(upstream),
           Cardinality((always \cap wanted) \ docs) <= edits.removed,
           reader.kind \in {"procurement", "payment"} =>
              Cardinality((always \cap wanted) \ docs) <= edits.inserted,
           \A x, y \in UNION {Range(part) : part \in Range(reader'.parts)} :
              x.doc = y.doc => x = y
    PROVE  ListIsSound'
<1>1. /\ upstream' = upstream /\ edits' = edits /\ always' = always
  BY DEF Still
<1>2. Returned' = docs
  BY DEF Returned, DocsOf
<1>3. Dropped' = (always \cap wanted) \ docs
  BY <1>1, <1>2 DEF Dropped
<1>4. Cardinality(Returned') = Len(reader'.items)
  BY <1>2, DistinctCounts
<1>5. ASSUME ~Edited' PROVE Returned' = Range(upstream') \cap wanted
  <2>1. /\ edits.inserted \in Nat /\ edits.removed \in Nat
        /\ edits.modified \in Nat /\ IsFiniteSet(always)
    BY Typed
  <2>2. edits.removed = 0 /\ ~Edited
    BY <1>1, <1>5, <2>1 DEF Edited
  <2>3. always = Range(upstream)
    BY <2>2 DEF Shape
  <2>4. IsFiniteSet((always \cap wanted) \ docs)
    BY <2>1, FS_Subset
  <2>5. Cardinality((always \cap wanted) \ docs) \in Nat
    BY <2>4, FS_CardinalityType
  <2>6. Cardinality((always \cap wanted) \ docs) = 0
    BY <2>2, <2>5
  <2>7. (always \cap wanted) \ docs = {}
    BY <2>4, <2>6, FS_EmptySet
  <2> QED BY <1>1, <1>2, <2>2, <2>3, <2>7
<1> QED BY <1>1, <1>3, <1>4, <1>5 DEF ListIsSound


LEMMA ReturnTyped ==
    ASSUME reader \in Reader, NEW items \in Seq(Item),
           NEW parts \in Seq(Seq(Item)),
           reader' = [reader EXCEPT !.pc = "returned", !.parts = parts,
                                    !.items = items]
    PROVE  /\ reader' \in Reader /\ reader'.pc = "returned"
           /\ reader'.items = items /\ reader'.parts = parts
           /\ reader'.kind = reader.kind
           /\ reader'.declares = reader.declares
           /\ reader'.total = reader.total
<1>1. ASSUME NEW P, "returned" \in P, NEW K, NEW T, NEW A, NEW B, NEW v \in A,
             NEW w \in B,
             NEW z \in [pc : P, kind : K, declares : BOOLEAN, query : 1..2,
                        page : Nat, total : T, pages : Nat, size : Nat,
                        items : A, parts : B]
      PROVE  [z EXCEPT !.pc = "returned", !.parts = w, !.items = v]
                \in [pc : P, kind : K, declares : BOOLEAN, query : 1..2,
                     page : Nat, total : T, pages : Nat, size : Nat,
                     items : A, parts : B]
  BY <1>1
<1>2. "returned" \in {"idle", "reading", "returned", "incomplete", "failed",
                      "lost", "refused"}
  OBVIOUS
<1>3. [reader EXCEPT !.pc = "returned", !.parts = parts, !.items = items]
          \in Reader
  BY <1>1, <1>2, Zenon DEF Reader
<1> QED BY <1>3 DEF Reader

\* A list read by one query, or by the second of two, is returned.
LEMMA ReturnOne ==
    ASSUME TypeOK, Shape, Reading, reader.pc = "reading", Still, NEW items,
           NEW r \in 0..edits.removed, NEW i \in 0..edits.inserted,
           Gathered(items, r, i), Over, Agree(Parts(items)),
           reader.kind # "payment", reader' = QueryDone(items)
    PROVE  reader' \in Reader /\ Shape' /\ Reading' /\ ListIsSound'
<1>1. /\ items \in Seq(Item) /\ Distinct(items)
      /\ DocsOf(items) \subseteq Listed[Query]
      /\ Complete(DocsOf(items), r, i)
  BY DEF Gathered
<1>2. /\ reader \in Reader /\ Upright
      /\ edits.removed \in Nat /\ edits.inserted \in Nat
      /\ Cardinality(Lost) \in Nat
  BY Typed DEF TypeOK
<1>3. /\ Parts(items) \in Seq(Seq(Item)) /\ reader.query \in 1..2
      /\ Len(Parts(items)) = reader.query
      /\ Parts(items)[reader.query] = items
      /\ reader.query = 2 => Parts(items)[1] = reader.parts[1]
      /\ reader.query <= Len(QueriesOf(reader.kind))
  BY <1>1, PartsTyped DEF Taken
<1>4. /\ Query = "all"
      /\ reader.query = 2 => reader.kind = "bizcase"
  <2>1. CASE reader.kind = "bizcase"
    <3>1. QueriesOf(reader.kind) = <<"application", "all">>
      BY <2>1 DEF QueriesOf
    <3>2. reader.query = 2
      BY <3>1 DEF Over
    <3> QED BY <2>1, <3>1, <3>2 DEF Query
  <2>2. CASE reader.kind # "bizcase"
    <3>1. reader.query = 1 /\ Query = "all"
      BY <1>3, <2>2, QueryListed
    <3> QED BY <3>1
  <2> QED BY <2>1, <2>2
<1>5. reader' = [reader EXCEPT !.pc = "returned", !.parts = Parts(items),
                               !.items = items]
  BY <1>1, QueryDoneIs DEF Taken
<1>6. /\ reader' \in Reader /\ reader'.pc = "returned"
      /\ reader'.items = items /\ reader'.parts = Parts(items)
      /\ reader'.kind = reader.kind /\ reader'.declares = reader.declares
      /\ reader'.total = reader.total
  <2> DEFINE w == Parts(items)
  <2> HIDE DEF w
  <2>1. w \in Seq(Seq(Item)) /\ items \in Seq(Item) /\ reader \in Reader
    BY <1>1, <1>2, <1>3 DEF w
  <2>2. reader' = [reader EXCEPT !.pc = "returned", !.parts = w,
                                 !.items = items]
    BY <1>5 DEF w
  <2>3. /\ reader' \in Reader /\ reader'.pc = "returned"
        /\ reader'.items = items /\ reader'.parts = w
        /\ reader'.kind = reader.kind /\ reader'.declares = reader.declares
        /\ reader'.total = reader.total
    BY ONLY <2>1, <2>2, ReturnTyped
  <2> QED BY <2>3 DEF w
<1>7. Shape'
  BY <1>6 DEF Shape, Still, Edited
<1>8. Reading'
  BY <1>6 DEF Reading
<1> DEFINE docs == DocsOf(items)
           D == (always \cap Listed["all"]) \ docs
<1>9. Listed["all"] = Wanted'
  BY <1>6 DEF Wanted
<1>10. /\ Cardinality(docs \ Lists(Query)) <= r /\ Cardinality(D) <= r
       /\ reader.kind \in {"procurement", "payment"} => Cardinality(D) <= i
       /\ r <= edits.removed /\ i <= edits.inserted
       /\ r \in Nat /\ i \in Nat
  BY <1>1, <1>2, <1>4 DEF Complete
<1>11. IsFiniteSet(docs) /\ IsFiniteSet(D)
       /\ Cardinality(docs \ Lists(Query)) \in Nat /\ Cardinality(D) \in Nat
  <2>1. IsFiniteSet(docs)
    BY <1>1, DistinctCounts
  <2>2. IsFiniteSet(docs \ Lists(Query))
    BY <2>1, FS_Difference
  <2>3. IsFiniteSet(always)
    BY Typed
  <2>4. IsFiniteSet(D)
    BY <2>3, FS_Subset
  <2> QED BY <2>1, <2>2, <2>4, FS_CardinalityType
<1>12. ASSUME edits.removed = 0
       PROVE  docs \subseteq Range(upstream)
  <2>1. Cardinality(docs \ Lists(Query)) = 0
    BY <1>10, <1>11, <1>12
  <2>2. docs \ Lists(Query) = {}
    <3>1. IsFiniteSet(docs \ Lists(Query))
      BY <1>11, FS_Difference
    <3> QED BY <2>1, <3>1, FS_EmptySet
  <2> QED BY <2>2 DEF Lists
<1>13. /\ Cardinality(D) <= edits.removed
       /\ reader.kind \in {"procurement", "payment"} =>
             Cardinality(D) <= edits.inserted
  BY <1>2, <1>10, <1>11
<1>14. \A x, y \in UNION {Range(part) : part \in Range(reader'.parts)} :
           x.doc = y.doc => x = y
  <2>1. \A part \in Range(Parts(items)) : Range(part) \subseteq Range(items)
    <3> DEFINE w == Parts(items)
    <3>3. w \in Seq(Seq(Item)) /\ Len(w) = reader.query
      BY <1>3
    <3> HIDE DEF w
    <3>4. DOMAIN w = 1..reader.query
      BY <3>3
    <3>5. Range(w) = {w[k] : k \in 1..reader.query}
      BY <3>4 DEF Range
    <3> SUFFICES ASSUME NEW k \in 1..reader.query
                 PROVE  Range(Parts(items)[k]) \subseteq Range(items)
      BY <3>5 DEF w
    <3>1. CASE k = reader.query
      BY <1>3, <3>1
    <3>2. CASE k # reader.query
      <4>1. reader.query = 2 /\ k = 1
        BY <1>3, <3>2
      <4>2. Visible(Parts(items))
        BY <1>4, <4>1 DEF Agree
      <4> QED BY <1>3, <4>1, <4>2 DEF Visible
    <3> QED BY <3>1, <3>2
  <2>2. \A x, y \in Range(items) : x.doc = y.doc => x = y
    BY <1>1 DEF Distinct, Range
  <2> QED BY <1>6, <2>1, <2>2
<1>15. docs = DocsOf(reader'.items) /\ docs \subseteq Listed["all"]
  BY <1>1, <1>4, <1>6
<1>16. reader'.items \in Seq(Item) /\ Distinct(reader'.items)
  BY <1>1, <1>6
<1> HIDE DEF docs
<1>17. ListIsSound'
  BY <1>6, <1>9, <1>12, <1>13, <1>14, <1>15, <1>16, SoundReturn
<1> QED BY <1>6, <1>7, <1>8, <1>17

\* A payment list is returned: the records of both queries, each once.
LEMMA ReturnBoth ==
    ASSUME TypeOK, Shape, Reading, reader.pc = "reading", Still, NEW items,
           NEW r \in 0..edits.removed, NEW i \in 0..edits.inserted,
           Gathered(items, r, i), Over, Agree(Parts(items)),
           reader.kind = "payment", reader' = QueryDone(items)
    PROVE  reader' \in Reader /\ Shape' /\ Reading' /\ ListIsSound'
<1>1. /\ items \in Seq(Item) /\ Distinct(items)
      /\ DocsOf(items) \subseteq Listed[Query]
      /\ Complete(DocsOf(items), r, i)
  BY DEF Gathered
<1>2. /\ reader \in Reader /\ Upright
      /\ edits.removed \in Nat /\ edits.inserted \in Nat
      /\ Cardinality(Lost) \in Nat /\ IsFiniteSet(Lost)
      /\ IsFiniteSet(always)
  BY Typed DEF TypeOK
<1>3. reader.query = 2 /\ Query = "project"
  <2>1. QueriesOf(reader.kind) = <<"applicant", "project">>
    BY DEF QueriesOf
  <2>2. reader.query = 2
    BY <2>1 DEF Over
  <2> QED BY <2>1, <2>2 DEF Query
<1> DEFINE A == reader.parts[1]
           T == Taken(items)
           B == Select(T, Docs \ DocsOf(A))
           U == A \o B
<1>4. /\ Parts(items) \in Seq(Seq(Item)) /\ Len(Parts(items)) = 2
      /\ Parts(items)[1] = A /\ Parts(items)[2] = T
      /\ A \in Seq(Item) /\ Distinct(A)
  BY <1>1, <1>3, PartsTyped
<1>5. /\ T \in Seq(Item) /\ Distinct(T)
      /\ DocsOf(T) = DocsOf(items) \cap Matched["project"]
  BY <1>1, <1>3, TakenTyped
<1>6. /\ DocsOf(A) \subseteq Matched["applicant"]
      /\ Cardinality(DocsOf(A) \ Range(upstream)) <= edits.removed
  BY <1>3 DEF Reading, FirstPart
<1>7. Union(Parts(items)) = U
  BY <1>4 DEF Union
<1>8. Lost = (always \cap Matched["applicant"]) \ DocsOf(A)
  BY <1>3 DEF Lost
<1>9. Consistent(Parts(items))
  BY DEF Agree
<1> HIDE DEF A, T
<1>10. /\ B \in Seq(Item) /\ Distinct(B)
       /\ DocsOf(B) = DocsOf(T) \cap (Docs \ DocsOf(A))
  BY <1>5, SelectKeeps
<1>11. DocsOf(T) \subseteq Docs
  BY <1>5, DistinctCounts
<1> HIDE DEF B
<1>12. /\ U \in Seq(Item) /\ Distinct(U)
       /\ DocsOf(U) = DocsOf(A) \cup DocsOf(T)
  <2>1. DocsOf(A) \cap DocsOf(B) = {}
    BY <1>10
  <2>2. U \in Seq(Item) /\ DocsOf(U) = DocsOf(A) \cup DocsOf(B)
        /\ Distinct(U)
    BY <1>4, <1>10, <2>1, JoinedLists
  <2>3. DocsOf(A) \cup DocsOf(B) = DocsOf(A) \cup DocsOf(T)
    BY <1>10, <1>11
  <2> QED BY <2>2, <2>3
<1> HIDE DEF U
<1>13. reader' = [reader EXCEPT !.pc = "returned", !.parts = Parts(items),
                                !.items = U]
  BY <1>1, <1>7, QueryDoneIs
<1>14. /\ reader' \in Reader /\ reader'.pc = "returned"
       /\ reader'.items = U /\ reader'.parts = Parts(items)
       /\ reader'.kind = reader.kind /\ reader'.declares = reader.declares
       /\ reader'.total = reader.total
  <2> DEFINE w == Parts(items)
  <2> HIDE DEF w
  <2>1. w \in Seq(Seq(Item)) /\ U \in Seq(Item) /\ reader \in Reader
    BY <1>2, <1>4, <1>12 DEF w
  <2>2. reader' = [reader EXCEPT !.pc = "returned", !.parts = w, !.items = U]
    BY <1>13 DEF w
  <2>3. /\ reader' \in Reader /\ reader'.pc = "returned"
        /\ reader'.items = U /\ reader'.parts = w
        /\ reader'.kind = reader.kind /\ reader'.declares = reader.declares
        /\ reader'.total = reader.total
    BY ONLY <2>1, <2>2, ReturnTyped
  <2> QED BY <2>3 DEF w
<1>15. Shape'
  BY <1>14 DEF Shape, Still, Edited
<1>16. Reading'
  BY <1>14 DEF Reading
<1> DEFINE wanted == Matched["applicant"] \cup Matched["project"]
           D == (always \cap Listed["project"]) \ DocsOf(items)
           N == (always \cap wanted) \ DocsOf(U)
<1>17. wanted = Wanted'
  BY <1>14 DEF Wanted
<1>18. N \subseteq Lost \cup D
  <2>1. Matched["project"] \subseteq Listed["project"]
    BY PagedAssumption DEF Queries
  <2> QED BY <1>5, <1>8, <1>12, <2>1
<1>19. IsFiniteSet(D)
  BY <1>2, FS_Subset
<1>20. /\ Cardinality(Lost) + r <= edits.removed
       /\ Cardinality(Lost) + i <= edits.inserted
       /\ Cardinality(D) <= r /\ Cardinality(D) <= i
       /\ r \in Nat /\ i \in Nat
  BY <1>1, <1>2, <1>3 DEF Complete
<1> HIDE DEF D, N
<1>21. /\ Cardinality(N) \in Nat /\ Cardinality(D) \in Nat
       /\ Cardinality(N) <= Cardinality(Lost) + Cardinality(D)
  BY <1>2, <1>18, <1>19, BothTogether
<1>22. /\ Cardinality(N) <= edits.removed
       /\ Cardinality(N) <= edits.inserted
  BY <1>2, <1>20, <1>21
<1>23. ASSUME edits.removed = 0
       PROVE  DocsOf(U) \subseteq Range(upstream)
  <2>1. IsFiniteSet(DocsOf(A)) /\ IsFiniteSet(DocsOf(items))
    BY <1>1, <1>4, DistinctCounts
  <2>2. DocsOf(A) \ Range(upstream) = {}
    <3>1. /\ IsFiniteSet(DocsOf(A) \ Range(upstream))
          /\ Cardinality(DocsOf(A) \ Range(upstream)) \in Nat
      BY <2>1, FS_Difference, FS_CardinalityType
    <3>2. Cardinality(DocsOf(A) \ Range(upstream)) = 0
      BY <1>6, <1>23, <3>1
    <3> QED BY <3>1, <3>2, FS_EmptySet
  <2>3. DocsOf(items) \ Lists(Query) = {}
    <3>1. /\ IsFiniteSet(DocsOf(items) \ Lists(Query))
          /\ Cardinality(DocsOf(items) \ Lists(Query)) \in Nat
      BY <2>1, FS_Difference, FS_CardinalityType
    <3>2. Cardinality(DocsOf(items) \ Lists(Query)) <= r
      BY <1>1 DEF Complete
    <3>3. Cardinality(DocsOf(items) \ Lists(Query)) = 0
      BY <1>2, <1>20, <1>23, <3>1, <3>2
    <3> QED BY <3>1, <3>3, FS_EmptySet
  <2> QED BY <1>5, <1>12, <2>2, <2>3 DEF Lists
<1>24. \A x, y \in UNION {Range(part) : part \in Range(reader'.parts)} :
           x.doc = y.doc => x = y
  <2>1. Range(Parts(items)) = {A, T}
    <3>1. DOMAIN Parts(items) = {1, 2}
      BY <1>4
    <3> QED BY <1>4, <3>1 DEF Range
  <2>2. UNION {Range(part) : part \in Range(reader'.parts)}
            = Range(A) \cup Range(T)
    BY <1>14, <2>1
  <2>3. /\ \A x, y \in Range(A) : x.doc = y.doc => x = y
        /\ \A x, y \in Range(T) : x.doc = y.doc => x = y
    BY <1>4, <1>5 DEF Distinct, Range
  <2>4. \A x \in Range(A), y \in Range(T) : x.doc = y.doc => x = y
    BY <1>4, <1>9 DEF Consistent
  <2> QED BY <2>2, <2>3, <2>4
<1>25. DocsOf(U) \subseteq wanted
  BY <1>5, <1>6, <1>12
<1>26. /\ reader'.items \in Seq(Item) /\ Distinct(reader'.items)
       /\ DocsOf(U) = DocsOf(reader'.items)
  BY <1>12, <1>14
<1> HIDE DEF wanted
<1>27. ListIsSound'
  BY <1>14, <1>17, <1>22, <1>23, <1>24, <1>25, <1>26, SoundReturn DEF N
<1> QED BY <1>14, <1>15, <1>16, <1>27

\* A read that ends in another way owes nothing.
LEMMA EndTyped ==
    ASSUME reader \in Reader, NEW pc \in {"incomplete", "failed", "lost",
                                          "refused"},
           reader' = [reader EXCEPT !.pc = pc]
    PROVE  /\ reader' \in Reader /\ reader'.pc = pc
           /\ reader'.kind = reader.kind
           /\ reader'.declares = reader.declares
           /\ reader'.total = reader.total
<1>1. ASSUME NEW P, NEW u \in P, NEW K, NEW T, NEW A, NEW B,
             NEW z \in [pc : P, kind : K, declares : BOOLEAN, query : 1..2,
                        page : Nat, total : T, pages : Nat, size : Nat,
                        items : A, parts : B]
      PROVE  [z EXCEPT !.pc = u]
                \in [pc : P, kind : K, declares : BOOLEAN, query : 1..2,
                     page : Nat, total : T, pages : Nat, size : Nat,
                     items : A, parts : B]
  BY <1>1
<1>2. pc \in {"idle", "reading", "returned", "incomplete", "failed", "lost",
              "refused"}
  OBVIOUS
<1>3. [reader EXCEPT !.pc = pc] \in Reader
  BY <1>1, <1>2, Zenon DEF Reader
<1> QED BY <1>3 DEF Reader

LEMMA EndKeeps ==
    ASSUME TypeOK, Shape, reader.pc = "reading", Still,
           NEW pc \in {"incomplete", "failed", "lost", "refused"},
           reader' = [reader EXCEPT !.pc = pc]
    PROVE  reader' \in Reader /\ Shape' /\ Reading' /\ ListIsSound'
<1>1. /\ reader' \in Reader /\ reader'.pc = pc
      /\ reader'.kind = reader.kind /\ reader'.declares = reader.declares
      /\ reader'.total = reader.total
  BY EndTyped DEF TypeOK
<1>2. Shape'
  BY <1>1 DEF Shape, Still, Edited
<1>3. Reading' /\ ListIsSound'
  BY <1>1 DEF Reading, ListIsSound
<1> QED BY <1>1, <1>2, <1>3


\* A query is over: the next one begins, the list is returned, or the queries
\* disagree.
LEMMA QueryEnds ==
    ASSUME TypeOK, Shape, Reading, reader.pc = "reading", Still, NEW items,
           NEW r \in 0..edits.removed, NEW i \in 0..edits.inserted,
           Gathered(items, r, i), reader' = QueryDone(items)
    PROVE  reader' \in Reader /\ Shape' /\ Reading' /\ ListIsSound'
<1>1. CASE ~Over
  BY <1>1, NextQuery
<1>2. CASE Over /\ Agree(Parts(items)) /\ reader.kind # "payment"
  BY <1>2, ReturnOne
<1>3. CASE Over /\ Agree(Parts(items)) /\ reader.kind = "payment"
  BY <1>3, ReturnBoth
<1>4. CASE Over /\ ~Agree(Parts(items))
  <2>1. items \in Seq(Item) /\ Distinct(items)
    BY DEF Gathered
  <2>2. reader' = [reader EXCEPT !.pc = "incomplete"]
    BY <1>4, <2>1, QueryDoneIs
  <2>3. "incomplete" \in {"incomplete", "failed", "lost", "refused"}
    OBVIOUS
  <2> QED BY <2>2, <2>3, EndKeeps
<1> QED BY <1>1, <1>2, <1>3, <1>4

\* The reader goes on to the next page.
LEMMA NextPage ==
    ASSUME TypeOK, Shape, Reading, reader.pc = "reading", Still,
           NEW items \in Seq(Item), Distinct(items),
           DocsOf(items) \subseteq Listed[Query],
           NEW total \in Nat \cup {None}, NEW pages \in Nat, NEW size \in Nat,
           reader' = [reader EXCEPT !.page = reader.page + 1, !.total = total,
                                    !.pages = pages, !.size = size,
                                    !.items = items],
           Counts /\ reader.declares => total # None,
           ~reader.declares => total = None,
           NEW r \in 0..edits.removed, NEW i \in 0..edits.inserted,
           Cardinality(Lost) + r <= edits.removed,
           Cardinality(Lost) + i <= edits.inserted,
           Cardinality(DocsOf(items) \ Lists(Query)) <= r,
           Counts /\ total # None =>
              Cardinality(Lists(Query)) + r = total + i,
           ~stuck => Cardinality(Behind(DocsOf(items), reader.page)) <= r
    PROVE  reader' \in Reader /\ Shape' /\ Reading' /\ ListIsSound'
<1>1. /\ reader \in Reader /\ reader.page \in Nat /\ reader.page >= 1
      /\ reader.parts \in Seq(Seq(Item)) /\ reader.query \in 1..2
  BY DEF TypeOK, Reader, Reading
<1>2. /\ reader' \in Reader /\ reader'.pc = "reading"
      /\ reader'.kind = reader.kind /\ reader'.declares = reader.declares
      /\ reader'.query = reader.query /\ reader'.parts = reader.parts
      /\ reader'.page = reader.page + 1 /\ reader'.total = total
      /\ reader'.items = items
  <2>1. reader' = [reader EXCEPT !.query = reader.query,
                                 !.page = reader.page + 1, !.total = total,
                                 !.pages = pages, !.size = size,
                                 !.items = items, !.parts = reader.parts]
    BY <1>1 DEF Reader
  <2> DEFINE p == reader.page + 1
             w == reader.parts
             q == reader.query
  <2>2. p \in Nat /\ w \in Seq(Seq(Item)) /\ q \in 1..2
    BY <1>1
  <2> HIDE DEF p, w, q
  <2>3. [reader EXCEPT !.query = q, !.page = p, !.total = total,
                       !.pages = pages, !.size = size, !.items = items,
                       !.parts = w] \in Reader
    BY ONLY <1>1, <2>2, total \in Nat \cup {None}, pages \in Nat, size \in Nat,
            items \in Seq(Item), ReaderEdited
  <2>4. reader' \in Reader
    BY <2>1, <2>3 DEF p, w, q
  <2> QED BY <1>1, <2>4 DEF Reader
<1>3. Query' = Query
  BY <1>2 DEF Query
<1>4. Shape'
  BY <1>2 DEF Shape, Still, Edited
<1>5. ListIsSound'
  BY <1>2 DEF ListIsSound
<1>6. Lost' = Lost
  BY <1>2 DEF Lost, Still, DocsOf
<1>7. DocsOf(reader.items)' = DocsOf(items) /\ Lists(Query)' = Lists(Query)
  BY <1>2, <1>3 DEF DocsOf, Lists, Still
<1>8. Behind(DocsOf(reader.items), reader.page - 1)'
          = Behind(DocsOf(items), reader.page)
  <2>1. \A doc : Ahead(Query, doc)' = Ahead(Query, doc)
    BY <1>3 DEF Ahead, Still
  <2>2. reader'.page - 1 = reader.page
    BY <1>1, <1>2
  <2> QED BY <1>3, <1>7, <2>1, <2>2 DEF Behind, Still
<1>9. Counts' = Counts
  BY <1>2 DEF Counts
<1>10. Budget(r, i)'
  BY <1>2, <1>6, <1>7, <1>8, <1>9 DEF Budget, Still
<1>11. \E x \in 0..edits'.removed, y \in 0..edits'.inserted : Budget(x, y)'
  BY <1>10 DEF Still
<1>12. FirstPart'
  BY <1>2 DEF FirstPart, Reading, Still, DocsOf, Distinct
<1>13. Distinct(reader.items)'
  BY <1>2 DEF Distinct
<1>14. Reading'
  BY <1>1, <1>2, <1>3, <1>7, <1>9, <1>11, <1>12, <1>13 DEF Reading
<1> QED BY <1>2, <1>4, <1>5, <1>14


(***************************************************************************)
(* Lists whose records are counted                                         *)
(***************************************************************************)

\* The page as a reader that counts sees it, with a total or without.
Seen == IF reader.declares THEN Answer ELSE [Answer EXCEPT !.total = None]

LEMMA SeenIsPage ==
    ASSUME TypeOK, Shape, Reading, reader.pc = "reading", Numbers
    PROVE  /\ Query = "all" /\ Query \in Queries
           /\ Seen.total = IF reader.declares THEN Cardinality(Lists(Query))
                           ELSE None
           /\ \E p \in Nat \ {0} :
                 /\ stuck => p = 1
                 /\ ~stuck => p = reader.page
                 /\ PageOfQuery(Seen, Query, p)
<1>1. /\ reader \in Reader /\ reader.page >= 1 /\ Upright
      /\ reader.query <= Len(QueriesOf(reader.kind))
  BY Typed DEF TypeOK, Reading
<1>2. Query = "all" /\ Query \in Queries
  BY <1>1, QueryListed DEF Numbers
<1>3. PICK p \in Nat \ {0} :
         /\ Answer = Page(Query, p)
         /\ stuck => p = 1
         /\ ~stuck /\ Numbers => p = reader.page
  BY <1>1, <1>2, AnswerIsPage
<1>4. /\ PageOfQuery(Page(Query, p), Query, p)
      /\ Page(Query, p).total = Cardinality(Lists(Query))
  BY <1>1, <1>2, PageIsListed
<1>5. /\ Seen.number = Answer.number /\ Seen.pages = Answer.pages
      /\ Seen.rows = Answer.rows
      /\ Seen.total = IF reader.declares THEN Answer.total ELSE None
  <2>1. ASSUME NEW n, NEW m, NEW t, NEW w, NEW x,
               x = [number |-> n, pages |-> m, total |-> t, rows |-> w]
        PROVE  LET y == [x EXCEPT !.total = None] IN
               /\ y.number = x.number /\ y.pages = x.pages
               /\ y.rows = x.rows /\ y.total = None
    BY <2>1
  <2>2. \E n, m, t, w :
           Answer = [number |-> n, pages |-> m, total |-> t, rows |-> w]
    BY <1>2, <1>3 DEF Page
  <2>3. PICK n, m, t, w :
           Answer = [number |-> n, pages |-> m, total |-> t, rows |-> w]
    BY <2>2
  <2>4. LET y == [Answer EXCEPT !.total = None] IN
        /\ y.number = Answer.number /\ y.pages = Answer.pages
        /\ y.rows = Answer.rows /\ y.total = None
    BY <2>1, <2>3
  <2> QED BY <2>4 DEF Seen
<1>6. PageOfQuery(Seen, Query, p)
  BY <1>3, <1>4, <1>5 DEF PageOfQuery
<1> QED BY <1>2, <1>3, <1>4, <1>5, <1>6

\* What is gathered with the records of a page that were not seen before.
LEMMA FreshAdds ==
    ASSUME reader.items \in Seq(Item), Distinct(reader.items), NEW a,
           a.rows \in Seq(Item), Distinct(a.rows)
    PROVE  LET items == reader.items \o Fresh(a) IN
           /\ items \in Seq(Item) /\ Distinct(items)
           /\ DocsOf(items) = DocsOf(reader.items) \cup DocsOf(a.rows)
           /\ Len(items) = Cardinality(DocsOf(items))
           /\ IsFiniteSet(DocsOf(items))
<1> DEFINE F == Fresh(a)
           I == reader.items
           items == I \o F
<1>1. /\ F \in Seq(Item) /\ Distinct(F)
      /\ DocsOf(F) = DocsOf(a.rows) \cap (Docs \ DocsOf(I))
  BY SelectKeeps DEF Fresh
<1>2. I \in Seq(Item) /\ Distinct(I) /\ DocsOf(a.rows) \subseteq Docs
  BY DistinctCounts
<1> HIDE DEF F, I
<1>3. DocsOf(I) \cap DocsOf(F) = {}
  BY <1>1
<1>4. /\ items \in Seq(Item) /\ Distinct(items)
      /\ DocsOf(items) = DocsOf(I) \cup DocsOf(F)
  BY <1>1, <1>2, <1>3, JoinedLists
<1>5. DocsOf(items) = DocsOf(I) \cup DocsOf(a.rows)
  BY <1>1, <1>2, <1>4
<1> HIDE DEF items
<1>6. Len(items) = Cardinality(DocsOf(items)) /\ IsFiniteSet(DocsOf(items))
  BY <1>4, DistinctCounts
<1> QED BY <1>4, <1>5, <1>6 DEF items, I, F

LEMMA CountedKeeps ==
    ASSUME TypeOK, Shape, Reading, reader.pc = "reading", Still, Numbers,
           reader' = Counted(Seen)
    PROVE  reader' \in Reader /\ Shape' /\ Reading' /\ ListIsSound'
<1> DEFINE n     == Cardinality(Lists(Query))
           rows  == Seen.rows
           items == reader.items \o Fresh(Seen)
           docs  == DocsOf(items)
           total == IF Seen.total # None THEN Seen.total ELSE reader.total
<1>1. /\ reader \in Reader /\ reader.page \in Nat /\ reader.page >= 1
      /\ Upright /\ n \in Nat /\ IsFiniteSet(Lists(Query))
      /\ reader.items \in Seq(Item) /\ Distinct(reader.items)
      /\ DocsOf(reader.items) \subseteq Listed[Query]
      /\ reader.page > 1 /\ reader.declares => reader.total # None
      /\ edits.removed \in Nat /\ edits.inserted \in Nat
      /\ Cardinality(Lost) \in Nat
  <2>1. Upright
    BY Typed
  <2>2. n \in Nat /\ IsFiniteSet(Lists(Query))
    BY <2>1, ListsAreFinite
  <2>3. Counts
    BY DEF Numbers, Counts
  <2> QED BY <2>1, <2>2, <2>3, Typed DEF TypeOK, Reading, Reader
<1>2. /\ Query = "all" /\ Query \in Queries
      /\ Seen.total = IF reader.declares THEN n ELSE None
  BY SeenIsPage
<1>3. PICK p \in Nat \ {0} :
         /\ stuck => p = 1
         /\ ~stuck => p = reader.page
         /\ PageOfQuery(Seen, Query, p)
  BY SeenIsPage
<1> DEFINE last == p * PageSize
<1>4. /\ rows \in Seq(Item) /\ Distinct(rows)
      /\ DocsOf(rows) \subseteq Lists(Query)
      /\ DocsOf(rows) = Window(Query, p)
      /\ Len(rows) < PageSize => n < last
  BY <1>2, <1>3 DEF PageOfQuery
<1>5. PICK r \in 0..edits.removed, i \in 0..edits.inserted :
         Budget(r, i) /\ (reader.page = 1 => r = 0 /\ i = 0)
  BY FirstPageBudget
<1>6. /\ items \in Seq(Item) /\ Distinct(items)
      /\ docs = DocsOf(reader.items) \cup DocsOf(rows)
      /\ Len(items) = Cardinality(docs) /\ IsFiniteSet(docs)
  BY <1>1, <1>4, FreshAdds
<1>7. docs \subseteq Listed[Query]
  BY <1>1, <1>4, <1>6 DEF Lists
<1>8. last \in Nat /\ r \in Nat /\ i \in Nat /\ PageSize \in Nat \ {0}
  BY <1>1, <1>3, PageEnds
<1>9. /\ Cardinality(docs \ Lists(Query)) <= r
      /\ ~stuck => Cardinality(Behind(docs, reader.page)) <= r
      /\ n <= last => Cardinality((always \cap Listed[Query]) \ docs) <= r
  <2> DEFINE R == DocsOf(rows)
             d == docs
  <2>1. R \in SUBSET Lists(Query) /\ d = DocsOf(reader.items) \cup R
    BY <1>4, <1>6
  <2> HIDE DEF R, d
  <2>2. /\ Cardinality(d \ Lists(Query)) <= r
        /\ ~stuck /\ R = Window(Query, reader.page) =>
              Cardinality(Behind(d, reader.page)) <= r
        /\ \A q \in {1, reader.page} :
              /\ R = Window(Query, q)
              /\ q = 1 \/ ~stuck
              /\ Cardinality(Lists(Query)) <= q * PageSize
              => Cardinality((always \cap Listed[Query]) \ d) <= r
    BY <1>1, <1>2, <1>5, <1>8, <2>1, PageAdds
  <2>3. R = Window(Query, p)
    BY <1>4 DEF R
  <2>4. p \in {1, reader.page} /\ (p = 1 \/ ~stuck)
    BY <1>1, <1>3 DEF TypeOK
  <2>5. n <= last => Cardinality((always \cap Listed[Query]) \ d) <= r
    BY <2>2, <2>3, <2>4
  <2>6. ~stuck => Cardinality(Behind(d, reader.page)) <= r
    BY <1>3, <2>2, <2>3
  <2> QED BY <2>2, <2>5, <2>6 DEF d
<1>10. total = IF reader.declares THEN n ELSE None
  BY <1>1, <1>2, PagedAssumption DEF Shape
<1>11. ASSUME reader.declares, SameTotal(Seen)
       PROVE  r = i
  <2>1. reader.total \in {None, n}
    BY <1>1, <1>2, <1>11, PagedAssumption DEF SameTotal
  <2>2. CASE reader.total = None
    BY <1>1, <1>5, <1>11, <2>2
  <2>3. CASE reader.total # None
    <3>1. Counts
      BY DEF Numbers, Counts
    <3>2. n + r = n + i
      BY <1>5, <2>1, <2>3, <3>1 DEF Budget
    <3> QED BY <1>1, <1>8, <3>2
  <2> QED BY <2>2, <2>3
<1>12. /\ Cardinality(Lost) + r <= edits.removed
       /\ Cardinality(Lost) + i <= edits.inserted
  BY <1>5 DEF Budget
<1>13. ~reader.declares => reader.kind \notin {"procurement", "payment"}
  BY DEF Shape
<1> HIDE DEF n, rows, items, docs, last
<1>14. ASSUME SameTotal(Seen), total # None, Len(items) = total,
              reader' = QueryDone(items)
       PROVE  reader' \in Reader /\ Shape' /\ Reading' /\ ListIsSound'
  <2>1. reader.declares /\ Cardinality(docs) = n
    BY <1>6, <1>10, <1>14
  <2>2. Cardinality((always \cap Listed[Query]) \ docs) <= r
    BY <1>6, <1>8, <1>9, <2>1, TotalReached DEF n
  <2>3. r = i
    BY <1>11, <1>14, <2>1
  <2>4. Gathered(items, r, i)
    BY <1>6, <1>7, <1>9, <1>12, <2>2, <2>3 DEF Gathered, Complete, docs
  <2> QED BY <1>14, <2>4, QueryEnds
<1>15. ASSUME total = None, Len(rows) < PageSize, reader' = QueryDone(items)
       PROVE  reader' \in Reader /\ Shape' /\ Reading' /\ ListIsSound'
  <2>1. ~reader.declares
    BY <1>1, <1>10, <1>15, PagedAssumption
  <2>2. Cardinality((always \cap Listed[Query]) \ docs) <= r
    BY <1>1, <1>4, <1>8, <1>9, <1>15
  <2>3. Gathered(items, r, i)
    BY <1>6, <1>7, <1>9, <1>12, <1>13, <2>1, <2>2 DEF Gathered, Complete, docs
  <2> QED BY <1>15, <2>3, QueryEnds
<1>16. ASSUME SameTotal(Seen),
              reader' = [reader EXCEPT !.total = total, !.items = items,
                                       !.page = @ + 1]
       PROVE  reader' \in Reader /\ Shape' /\ Reading' /\ ListIsSound'
  <2> DEFINE t == total
             g == reader.pages
             s == reader.size
  <2>1. /\ t \in Nat \cup {None} /\ g \in Nat /\ s \in Nat
        /\ reader.declares => t # None /\ t = n
        /\ ~reader.declares => t = None
    BY <1>1, <1>10, PagedAssumption DEF Reader
  <2>2. reader' = [reader EXCEPT !.page = reader.page + 1, !.total = t,
                                 !.pages = g, !.size = s, !.items = items]
    BY <1>1, <1>16 DEF Reader
  <2> HIDE DEF t, g, s
  <2>3. Counts /\ t # None => Cardinality(Lists(Query)) + r = t + i
    BY <1>11, <1>16, <2>1 DEF n
  <2>4. /\ DocsOf(items) \subseteq Listed[Query]
        /\ Cardinality(DocsOf(items) \ Lists(Query)) <= r
        /\ ~stuck => Cardinality(Behind(DocsOf(items), reader.page)) <= r
    BY <1>7, <1>9 DEF docs
  <2> QED BY <1>6, <1>12, <2>1, <2>2, <2>3, <2>4, NextPage
<1>17. ASSUME reader' = Incomplete
       PROVE  reader' \in Reader /\ Shape' /\ Reading' /\ ListIsSound'
  <2>1. "incomplete" \in {"incomplete", "failed", "lost", "refused"}
    OBVIOUS
  <2> QED BY <1>17, <2>1, EndKeeps DEF Incomplete
<1>18. rows = <<>> => Len(rows) < PageSize
  BY <1>8
<1>19. \/ reader' = Incomplete
       \/ /\ SameTotal(Seen) /\ total # None /\ Len(items) = total
          /\ reader' = QueryDone(items)
       \/ /\ total = None /\ Len(rows) < PageSize
          /\ reader' = QueryDone(items)
       \/ /\ SameTotal(Seen)
          /\ reader' = [reader EXCEPT !.total = total, !.items = items,
                                      !.page = @ + 1]
  BY <1>18, Zenon DEF Counted, items, rows
<1> QED BY <1>14, <1>15, <1>16, <1>17, <1>19


(***************************************************************************)
(* Lists whose pages are numbered                                          *)
(***************************************************************************)

LEMMA FewerPages ==
    ASSUME NEW p \in Nat, NEW q \in Nat, q <= p
    PROVE  q * PageSize <= p * PageSize
<1>1. PageSize \in Nat
  BY PagedAssumption
<1>2. ASSUME NEW k \in Nat, NEW d \in Nat
      PROVE  q * k <= (q + d) * k
  <2>1. d * k \in Nat /\ q * k \in Nat
    BY <1>2
  <2>2. (q + d) * k = q * k + d * k
    BY <1>2
  <2> QED BY <2>1, <2>2
<1>3. p - q \in Nat /\ q + (p - q) = p
  OBVIOUS
<1> QED BY <1>1, <1>2, <1>3

\* The values a reader goes by on this page.
First     == reader.page = 1
PagesNow  == IF First THEN Answer.pages ELSE reader.pages
TotalNow  == IF First THEN Answer.total ELSE reader.total
SizeNow   == IF First THEN Len(Answer.rows) ELSE reader.size
ItemsNow  == reader.items \o Answer.rows

\* What Numbered makes of a page.
LEMMA NumberedIs ==
    ASSUME reader' = Numbered(Answer)
    PROVE  \/ reader' = Incomplete
           \/ /\ SameList(Answer, PagesNow, TotalNow) /\ NoRepeat(Answer)
              /\ \/ /\ reader.page < PagesNow
                    /\ reader' = [reader EXCEPT !.pages = PagesNow,
                                     !.total = TotalNow, !.size = SizeNow,
                                     !.items = ItemsNow, !.page = @ + 1]
                 \/ /\ ~(reader.page < PagesNow)
                    /\ reader.kind = "payment" => Len(ItemsNow) = TotalNow
                    /\ reader' = QueryDone(ItemsNow)
BY Zenon DEF Numbered, First, PagesNow, TotalNow, SizeNow, ItemsNow

LEMMA NumberedKeeps ==
    ASSUME TypeOK, Shape, Reading, reader.pc = "reading", Still, ~Numbers,
           reader' = Numbered(Answer)
    PROVE  reader' \in Reader /\ Shape' /\ Reading' /\ ListIsSound'
<1> DEFINE n     == Cardinality(Lists(Query))
           rows  == Answer.rows
           items == ItemsNow
           docs  == DocsOf(items)
<1>1. /\ reader \in Reader /\ reader.page \in Nat /\ reader.page >= 1
      /\ Upright /\ n \in Nat /\ IsFiniteSet(Lists(Query))
      /\ reader.items \in Seq(Item) /\ Distinct(reader.items)
      /\ DocsOf(reader.items) \subseteq Listed[Query]
      /\ reader.kind = "payment" /\ reader.page > 1 => reader.total # None
      /\ edits.removed \in Nat /\ edits.inserted \in Nat
      /\ Cardinality(Lost) \in Nat /\ Query \in Queries
      /\ reader.total \in Nat \cup {None}
      /\ reader.pages \in Nat /\ reader.size \in Nat
      /\ reader.declares
  <2>1. Upright
    BY Typed
  <2>2. n \in Nat /\ IsFiniteSet(Lists(Query))
    BY <2>1, ListsAreFinite
  <2>3. reader.kind = "payment" => Counts
    BY DEF Counts
  <2>4. reader.query <= Len(QueriesOf(reader.kind))
    BY DEF Reading
  <2>5. Query \in Queries
    BY <2>4, QueryListed
  <2>6. reader.declares
    BY DEF Shape, Numbers
  <2> QED BY <2>1, <2>2, <2>3, <2>5, <2>6, Typed DEF TypeOK, Reading, Reader
<1>2. PICK p \in Nat \ {0} :
         Answer = Page(Query, p) /\ (stuck => p = 1)
  BY <1>1, AnswerIsPage
<1>3. PageOfQuery(Answer, Query, p) /\ Answer.total = n
  BY <1>1, <1>2, PageIsListed
<1>4. /\ rows \in Seq(Item) /\ Distinct(rows)
      /\ DocsOf(rows) \subseteq Lists(Query)
      /\ Answer.number \in Nat /\ Answer.pages \in Nat /\ Len(rows) \in Nat
  BY <1>3 DEF PageOfQuery
<1>5. PICK r \in 0..edits.removed, i \in 0..edits.inserted :
         Budget(r, i) /\ (reader.page = 1 => r = 0 /\ i = 0)
  BY FirstPageBudget
<1>6. r \in Nat /\ i \in Nat
  BY <1>1
<1>7. /\ Cardinality(Lost) + r <= edits.removed
      /\ Cardinality(Lost) + i <= edits.inserted
  BY <1>5 DEF Budget
<1>8. CASE reader' = Incomplete
  <2>1. "incomplete" \in {"incomplete", "failed", "lost", "refused"}
    OBVIOUS
  <2> QED BY <1>8, <2>1, EndKeeps DEF Incomplete
<1>9. ASSUME SameList(Answer, PagesNow, TotalNow), NoRepeat(Answer),
             \/ /\ reader.page < PagesNow
                /\ reader' = [reader EXCEPT !.pages = PagesNow,
                                 !.total = TotalNow, !.size = SizeNow,
                                 !.items = ItemsNow, !.page = @ + 1]
             \/ /\ ~(reader.page < PagesNow)
                /\ reader.kind = "payment" => Len(ItemsNow) = TotalNow
                /\ reader' = QueryDone(ItemsNow)
      PROVE  reader' \in Reader /\ Shape' /\ Reading' /\ ListIsSound'
  <2>1. /\ Answer.number = reader.page /\ Answer.pages = PagesNow
        /\ reader.kind = "payment" => TotalNow = n
        /\ DocsOf(rows) \cap DocsOf(reader.items) = {}
    BY <1>3, <1>9 DEF SameList, NoRepeat
  <2>2. /\ items \in Seq(Item) /\ Distinct(items)
        /\ docs = DocsOf(reader.items) \cup DocsOf(rows)
    BY <1>1, <1>4, <2>1, JoinedLists DEF ItemsNow
  <2>3. docs \subseteq Listed[Query]
    BY <1>1, <1>4, <2>2 DEF Lists
  <2>4. Len(items) = Cardinality(docs) /\ IsFiniteSet(docs)
    BY <2>2, DistinctCounts
  <2>5. Query # "application" => p = reader.page
    BY <1>3, <2>1 DEF PageOfQuery
  <2>6. /\ Cardinality(docs \ Lists(Query)) <= r
        /\ Query # "application" /\ ~stuck =>
              Cardinality(Behind(docs, reader.page)) <= r
        /\ Query # "application" /\ n <= p * PageSize =>
              Cardinality((always \cap Listed[Query]) \ docs) <= r
    <3> DEFINE R == DocsOf(rows)
               d == docs
    <3>1. R \in SUBSET Lists(Query) /\ d = DocsOf(reader.items) \cup R
      BY <1>4, <2>2
    <3>2. Query # "application" => R = Window(Query, p)
      BY <1>3 DEF PageOfQuery
    <3> HIDE DEF R, d
    <3>3. /\ Cardinality(d \ Lists(Query)) <= r
          /\ ~stuck /\ R = Window(Query, reader.page) =>
                Cardinality(Behind(d, reader.page)) <= r
          /\ \A q \in {1, reader.page} :
                /\ R = Window(Query, q)
                /\ q = 1 \/ ~stuck
                /\ Cardinality(Lists(Query)) <= q * PageSize
                => Cardinality((always \cap Listed[Query]) \ d) <= r
      BY <1>1, <1>5, <1>6, <3>1, PageAdds
    <3>4. Query # "application" =>
             p \in {1, reader.page} /\ (p = 1 \/ ~stuck)
      BY <1>2, <2>5
    <3>5. Query # "application" /\ ~stuck =>
              Cardinality(Behind(d, reader.page)) <= r
      BY <2>5, <3>2, <3>3
    <3>6. Query # "application" /\ n <= p * PageSize =>
              Cardinality((always \cap Listed[Query]) \ d) <= r
      BY <3>2, <3>3, <3>4
    <3> QED BY <3>3, <3>5, <3>6 DEF d
  <2>7. reader.kind = "payment" => r = i
    <3> SUFFICES ASSUME reader.kind = "payment" PROVE r = i
      OBVIOUS
    <3>1. CASE reader.page = 1
      BY <1>5, <3>1
    <3>2. CASE reader.page # 1
      <4>1. reader.total = n /\ reader.total # None
        BY <1>1, <2>1, <3>2 DEF TotalNow, First
      <4>2. n + r = n + i
        BY <1>5, <4>1 DEF Budget, Counts
      <4> QED BY <1>1, <1>6, <4>2
    <3> QED BY <3>1, <3>2
  <2>8. /\ TotalNow \in Nat \cup {None} /\ PagesNow \in Nat
        /\ SizeNow \in Nat
        /\ reader.kind = "payment" => TotalNow # None
    BY <1>1, <1>3, <1>4, <2>1, PagedAssumption DEF TotalNow, PagesNow, SizeNow
  <2>9. Query = "application" => ~(reader.page < PagesNow)
    BY <1>3, <2>1 DEF PageOfQuery
  <2> HIDE DEF n, rows, items, docs
  <2>10. CASE reader.page < PagesNow
    <3> DEFINE t == TotalNow
               g == PagesNow
               s == SizeNow
    <3>1. reader' = [reader EXCEPT !.pages = g, !.total = t, !.size = s,
                                   !.items = items, !.page = @ + 1]
      BY <1>9, <2>10 DEF items
    <3>2. /\ t \in Nat \cup {None} /\ g \in Nat /\ s \in Nat
          /\ reader.kind = "payment" => t # None /\ t = n
      BY <2>1, <2>8
    <3> HIDE DEF t, g, s
    <3>3. reader' = [reader EXCEPT !.page = reader.page + 1, !.total = t,
                                   !.pages = g, !.size = s, !.items = items]
      BY <1>1, <3>1 DEF Reader
    <3>4. /\ Counts => reader.kind = "payment"
          /\ Query # "application"
      BY <2>9, <2>10 DEF Counts, Numbers
    <3>5. Counts /\ t # None => Cardinality(Lists(Query)) + r = t + i
      BY <2>7, <3>2, <3>4 DEF n
    <3>6. /\ DocsOf(items) \subseteq Listed[Query]
          /\ Cardinality(DocsOf(items) \ Lists(Query)) <= r
          /\ ~stuck => Cardinality(Behind(DocsOf(items), reader.page)) <= r
      BY <2>3, <2>6, <3>4 DEF docs
    <3>7. /\ Counts /\ reader.declares => t # None
          /\ ~reader.declares => t = None
      BY <1>1, <3>2, <3>4
    <3> QED BY <1>7, <2>2, <3>2, <3>3, <3>5, <3>6, <3>7, NextPage
  <2>11. CASE ~(reader.page < PagesNow)
    <3>1. /\ reader.kind = "payment" => Len(items) = TotalNow
          /\ reader' = QueryDone(items)
      BY <1>9, <2>11 DEF items
    <3>2. Query # "application" =>
             Cardinality((always \cap Listed[Query]) \ docs) <= r
      <4> SUFFICES ASSUME Query # "application"
                   PROVE  Cardinality((always \cap Listed[Query]) \ docs) <= r
        OBVIOUS
      <4> DEFINE m == Answer.pages * PageSize
                 l == p * PageSize
      <4>1. n <= m
        BY <1>3 DEF PageOfQuery, n
      <4>2. m <= l
        <5>1. Answer.pages <= p
          BY <1>1, <1>4, <2>1, <2>5, <2>8, <2>11
        <5> QED BY <1>4, <5>1, FewerPages
      <4>3. m \in Nat /\ l \in Nat
        BY <1>4, PagedAssumption
      <4> HIDE DEF m, l
      <4>4. n <= l
        BY <1>1, <4>1, <4>2, <4>3 DEF n
      <4> QED BY <2>6, <4>4 DEF l
    <3>3. reader.kind = "payment" =>
             Cardinality((always \cap Listed[Query]) \ docs) <= i
      <4> SUFFICES ASSUME reader.kind = "payment"
                   PROVE  Cardinality((always \cap Listed[Query]) \ docs) <= i
        OBVIOUS
      <4>1. Cardinality(docs) = Cardinality(Lists(Query))
        BY <2>1, <2>4, <3>1 DEF n
      <4>2. Cardinality(docs \ Lists(Query)) <= i
        BY <2>6, <2>7
      <4> QED BY <1>6, <2>4, <4>1, <4>2, TotalReached
    <3>4. reader.kind \in {"procurement", "payment"} => reader.kind = "payment"
      BY DEF Numbers
    <3>5. Gathered(items, r, i)
      BY <1>7, <2>2, <2>3, <2>6, <3>2, <3>3, <3>4
         DEF Gathered, Complete, docs
    <3> QED BY <3>1, <3>5, QueryEnds
  <2> QED BY <2>10, <2>11
<1> QED BY <1>8, <1>9, NumberedIs


(***************************************************************************)
(* The invariant is kept by every step                                     *)
(***************************************************************************)

LEMMA TakePageKeeps ==
    ASSUME TypeOK, Shape, Reading, TakePage
    PROVE  reader' \in Reader /\ Shape' /\ Reading' /\ ListIsSound'
<1>1. reader.pc = "reading" /\ Still
  BY DEF TakePage, Send, Still
<1>2. CASE Numbers
  <2>1. reader' = Counted(Seen)
    BY <1>2, Zenon DEF TakePage, Numbers, Seen
  <2> QED BY <1>1, <1>2, <2>1, CountedKeeps
<1>3. CASE ~Numbers
  <2>1. reader' = Numbered(Answer)
    BY <1>3, Zenon DEF TakePage, Numbers
  <2> QED BY <1>1, <1>3, <2>1, NumberedKeeps
<1> QED BY <1>2, <1>3

\* A read that has begun does not become idle.
LEMMA TakePageGoesOn ==
    ASSUME reader.pc = "reading", TakePage
    PROVE  reader'.pc # "idle"
<1> DEFINE Busy(x) == x.pc # "idle"
<1>1. Busy(Incomplete)
  BY DEF Incomplete
<1>2. ASSUME NEW items PROVE Busy(QueryDone(items))
  BY DEF QueryDone
<1>3. ASSUME NEW a PROVE Busy(Counted(a))
  BY <1>1, <1>2 DEF Counted
<1>4. ASSUME NEW a PROVE Busy(Numbered(a))
  <2>1. \/ Numbered(a) = Incomplete
        \/ \E items : Numbered(a) = QueryDone(items)
        \/ \E p, t, z, items :
              Numbered(a) = [reader EXCEPT !.pages = p, !.total = t,
                                           !.size = z, !.items = items,
                                           !.page = @ + 1]
    BY Zenon DEF Numbered
  <2> HIDE DEF Busy
  <2>3. CASE \E items : Numbered(a) = QueryDone(items)
    <3>1. PICK items : Numbered(a) = QueryDone(items)
      BY <2>3
    <3> QED BY <1>2, <3>1, Zenon
  <2>4. CASE \E p, t, z, items :
                Numbered(a) = [reader EXCEPT !.pages = p, !.total = t,
                                             !.size = z, !.items = items,
                                             !.page = @ + 1]
    <3>1. PICK p, t, z, items :
                Numbered(a) = [reader EXCEPT !.pages = p, !.total = t,
                                             !.size = z, !.items = items,
                                             !.page = @ + 1]
      BY <2>4
    <3>2. [reader EXCEPT !.pages = p, !.total = t, !.size = z,
                         !.items = items, !.page = @ + 1].pc # "idle"
      OBVIOUS
    <3> QED BY <3>1, <3>2 DEF Busy
  <2> QED BY <1>1, <2>1, <2>3, <2>4, Zenon
<1> QED BY <1>3, <1>4 DEF TakePage

\* Requests that leave are requests.
LEMMA WireTyped ==
    ASSUME TypeOK, [Next]_vars
    PROVE  wire' \subseteq Request
<1>1. PageRequest \in Request
  BY PageRequestTyped DEF TypeOK, Reader, AskedPage
<1>2. CASE UNCHANGED wire
  BY <1>2 DEF TypeOK
<1>3. CASE Send
  BY <1>1, <1>3 DEF Send, TypeOK
<1>4. CASE Follow
  BY <1>1, <1>4, PagedAssumption DEF Follow, TypeOK
<1>5. CASE Refuse
  BY <1>1, <1>5 DEF Refuse, TypeOK
<1> QED BY <1>2, <1>3, <1>4, <1>5
    DEF Next, vars, Enlist, Delist, Modify, Begin, LoginPage, Fails, TakePage

LEMMA SameState ==
    ASSUME Shape, Idle, Reading, ListIsSound,
           UNCHANGED <<upstream, rev, stuck, edits, always, reader>>
    PROVE  Shape' /\ Idle' /\ Reading' /\ ListIsSound'
<1>1. Shape' /\ Idle'
  BY DEF Shape, Idle, Edited
<1>2. ListIsSound'
  BY DEF ListIsSound, Returned, Dropped, Wanted, Edited, DocsOf
<1>3. Query' = Query /\ Counts' = Counts /\ Lost' = Lost
  BY DEF Query, Counts, Lost, DocsOf
<1>4. /\ DocsOf(reader.items)' = DocsOf(reader.items)
      /\ Lists(Query)' = Lists(Query)
      /\ Distinct(reader.items)' = Distinct(reader.items)
  BY <1>3 DEF DocsOf, Lists, Distinct
<1>5. \A doc : Ahead(Query, doc)' = Ahead(Query, doc)
  BY <1>3 DEF Ahead
<1>6. Behind(DocsOf(reader.items), reader.page - 1)'
          = Behind(DocsOf(reader.items), reader.page - 1)
  BY <1>3, <1>4, <1>5 DEF Behind
<1>7. \A r, i : Budget(r, i) => Budget(r, i)'
  BY <1>3, <1>4, <1>6 DEF Budget
<1>8. FirstPart => FirstPart'
  BY DEF FirstPart, Distinct, DocsOf
<1>9. Reading'
  BY <1>3, <1>4, <1>7, <1>8 DEF Reading
<1> QED BY <1>1, <1>2, <1>9

\* Upstream's list, the marks of its changes and what stayed in it have their
\* types.
LEMMA UpstreamTyped ==
    ASSUME TypeOK, Shape, [Next]_vars
    PROVE  /\ upstream' \in Seq(Docs) /\ rev' \in [Docs -> Nat]
           /\ stuck' \in BOOLEAN /\ always' \subseteq Docs
           /\ edits' \in [inserted : Nat, removed : Nat, modified : Nat]
<1>1. Upright
  BY Typed
<1>2. Range(upstream) \subseteq Docs
  BY <1>1, ListsAreFinite
<1>0. ASSUME NEW e \in [inserted : Nat, removed : Nat, modified : Nat]
      PROVE  /\ [e EXCEPT !.inserted = @ + 1]
                    \in [inserted : Nat, removed : Nat, modified : Nat]
             /\ [e EXCEPT !.removed = @ + 1]
                    \in [inserted : Nat, removed : Nat, modified : Nat]
  OBVIOUS
<1>3. CASE Enlist
  <2>1. PICK d \in Docs \ Range(upstream), i \in 1..(Len(upstream) + 1) :
           upstream' = InsertAt(upstream, i, d)
    BY <1>3 DEF Enlist
  <2>2. upstream' \in Seq(Docs)
    BY <2>1, InsertedAt DEF TypeOK
  <2>3. edits' \in [inserted : Nat, removed : Nat, modified : Nat]
    BY <1>0, <1>3 DEF Enlist, TypeOK
  <2> QED BY <1>3, <2>2, <2>3 DEF Enlist, TypeOK
<1>4. CASE Delist
  <2>1. PICK i \in DOMAIN upstream : upstream' = RemoveAt(upstream, i)
    BY <1>4 DEF Delist
  <2>2. upstream' \in Seq(Docs)
    BY <2>1, RemovedAt DEF TypeOK
  <2>3. edits' \in [inserted : Nat, removed : Nat, modified : Nat]
    BY <1>0, <1>4 DEF Delist, TypeOK
  <2> QED BY <1>4, <2>2, <2>3 DEF Delist, TypeOK
<1>5. CASE Modify
  <2>1. PICK d \in Range(upstream) : rev' = [rev EXCEPT ![d] = @ + 1]
    BY <1>5 DEF Modify
  <2>2. rev' \in [Docs -> Nat]
    BY <1>2, <2>1 DEF TypeOK
  <2> QED BY <1>5, <2>2 DEF Modify, TypeOK
<1>6. CASE Begin
  BY <1>2, <1>6 DEF Begin, TypeOK
<1>7. CASE UNCHANGED <<upstream, rev, stuck, edits, always>>
  BY <1>7 DEF TypeOK
<1> QED BY <1>3, <1>4, <1>5, <1>6, <1>7
    DEF Next, vars, Refuse, Follow, LoginPage, Fails, TakePage, Ends

LEMMA Initially == Init => IInv
<1> SUFFICES ASSUME Init PROVE IInv
  OBVIOUS
<1>1. PICK kind \in Kinds, declares \in BOOLEAN :
         /\ kind # "purchase" => declares
         /\ reader = [pc |-> "idle", kind |-> kind, declares |-> declares,
                      query |-> 1, page |-> 1, total |-> None, pages |-> 0,
                      size |-> 0, items |-> <<>>, parts |-> <<>>]
  BY DEF Init
<1>2. kind \in AllKinds /\ <<>> \in Seq(Item) /\ <<>> \in Seq(Seq(Item))
  BY PagedAssumption
<1>3. reader \in Reader
  BY <1>1, <1>2 DEF Reader
<1>4. upstream \in Seq(Docs) /\ IsInjective(upstream)
  BY PagedAssumption DEF Init
<1>5. TypeOK
  BY <1>3, <1>4 DEF Init, TypeOK
<1>6. Shape
  BY <1>1, <1>4 DEF Init, Shape
<1>7. Idle
  BY <1>1 DEF Init, Idle
<1>8. Reading /\ ListIsSound
  BY <1>1 DEF Reading, ListIsSound
<1> QED BY <1>5, <1>6, <1>7, <1>8 DEF IInv

LEMMA EveryStepKeeps ==
    ASSUME IInv, [Next]_vars
    PROVE  IInv'
<1> USE DEF IInv
<1>1. wire' \subseteq Request
  BY WireTyped
<1>2. /\ upstream' \in Seq(Docs) /\ rev' \in [Docs -> Nat]
      /\ stuck' \in BOOLEAN /\ always' \subseteq Docs
      /\ edits' \in [inserted : Nat, removed : Nat, modified : Nat]
  BY UpstreamTyped
<1>3. reader' \in Reader => TypeOK'
  BY <1>1, <1>2 DEF TypeOK
<1>4. CASE Enlist \/ Delist \/ Modify
  <2>1. reader.pc = "reading" /\ reader' = reader
    BY <1>4 DEF Enlist, Delist, Modify, CanEdit
  <2>2. Shape' /\ Reading'
    BY <1>4, EnlistKeeps, DelistKeeps, ModifyKeeps
  <2>3. TypeOK'
    BY <1>3, <2>1 DEF TypeOK
  <2> QED BY <2>1, <2>2, <2>3 DEF Idle, ListIsSound
<1>5. CASE Begin
  <2>1. reader' \in Reader /\ reader'.pc = "reading"
    BY <1>5 DEF Begin, TypeOK, Reader
  <2>2. Shape' /\ Reading'
    BY <1>5, BeginKeeps
  <2> QED BY <1>3, <2>1, <2>2 DEF Idle, ListIsSound
<1>6. CASE Refuse \/ LoginPage \/ Fails
  <2>1. /\ reader.pc = "reading" /\ Still
        /\ \E pc \in {"incomplete", "failed", "lost", "refused"} :
              reader' = [reader EXCEPT !.pc = pc]
    BY <1>6 DEF Refuse, LoginPage, Fails, Ends, Send, Still
  <2>2. PICK pc \in {"incomplete", "failed", "lost", "refused"} :
           reader' = [reader EXCEPT !.pc = pc]
    BY <2>1
  <2>3. reader' \in Reader /\ Shape' /\ Reading' /\ ListIsSound'
    BY <2>1, <2>2, EndKeeps
  <2>4. reader'.pc = pc
    BY <2>2, EndTyped DEF TypeOK
  <2> QED BY <1>3, <2>3, <2>4 DEF Idle
<1>7. CASE TakePage
  <2>1. reader' \in Reader /\ Shape' /\ Reading' /\ ListIsSound'
    BY <1>7, TakePageKeeps
  <2>2. reader'.pc # "idle"
    BY <1>7, TakePageGoesOn DEF TakePage, Send
  <2> QED BY <1>3, <2>1, <2>2 DEF Idle
<1>8. CASE UNCHANGED <<upstream, rev, stuck, edits, always, reader>>
  <2>1. Shape' /\ Idle' /\ Reading' /\ ListIsSound'
    BY <1>8, SameState
  <2>2. TypeOK'
    BY <1>3, <1>8 DEF TypeOK
  <2> QED BY <2>1, <2>2
<1> QED BY <1>4, <1>5, <1>6, <1>7, <1>8 DEF Next, vars, Follow

\* The variables of a read keep their types.
THEOREM TypesHold == Spec => []TypeOK
<1>1. IInv => TypeOK
  BY DEF IInv
<1> QED BY <1>1, Initially, EveryStepKeeps, PTL DEF Spec

\* Every list that is returned has no document twice, is upstream's list when
\* nothing changed, and otherwise drops no more documents that stayed listed
\* than were removed, or, of a list with a total, inserted: of any documents,
\* page size and number of changes, for every reader.
THEOREM ReturnedListsAreSound == Spec => []ListIsSound
<1>1. IInv => ListIsSound
  BY DEF IInv
<1> QED BY <1>1, Initially, EveryStepKeeps, PTL DEF Spec


\* A list drops a document that stayed listed only if another was removed
\* while it was read, and a procurement or payment list only if another was
\* inserted as well.
THEOREM DropNeedsChurn ==
    Spec => [](\/ edits.removed = 0
               \/ /\ reader.kind \in {"procurement", "payment"}
                  /\ edits.inserted = 0
               => NothingDropped)
<1> DEFINE NoChurn == \/ edits.removed = 0
                      \/ /\ reader.kind \in {"procurement", "payment"}
                         /\ edits.inserted = 0
<1>1. ASSUME IInv, NoChurn
      PROVE  NothingDropped
  <2> SUFFICES ASSUME reader.pc = "returned" PROVE Dropped = {}
    BY DEF NothingDropped
  <2>1. IsFiniteSet(always)
    BY <1>1, Typed DEF IInv
  <2>2. IsFiniteSet(Dropped) /\ Cardinality(Dropped) \in Nat
    <3>1. Dropped \subseteq always
      BY DEF Dropped
    <3> QED BY <2>1, <3>1, FS_Subset, FS_CardinalityType
  <2>3. Cardinality(Dropped) <= 0
    BY <1>1 DEF IInv, ListIsSound
  <2>4. Cardinality(Dropped) = 0
    BY <2>2, <2>3
  <2> QED BY <2>2, <2>4, FS_EmptySet
<1>2. IInv => (NoChurn => NothingDropped)
  BY <1>1
<1> QED BY <1>2, Initially, EveryStepKeeps, PTL DEF Spec
=============================================================================
