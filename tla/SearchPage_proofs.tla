------------------------- MODULE SearchPage_proofs -------------------------
(***************************************************************************)
(* What holds of SearchPage and of the module below it, PageRetrieval, for *)
(* any number of pages, texts, index runs and queries.  Three things       *)
(* remember what may be over: a run of the index script, which reads the   *)
(* pages and stores their vectors later, a hybrid search, whose words,     *)
(* vectors and texts are read one after the other, and the session, whose  *)
(* results were found with a state it no longer has to hold.  The          *)
(* inductive invariants have a part for each.                              *)
(***************************************************************************)
EXTENDS SearchPage, FiniteSetTheorems, SequenceTheorems, WellFoundedInduction, TLAPS

-----------------------------------------------------------------------------
(* Orders, ranks and reciprocal rank fusion.                                *)

(***************************************************************************)
(* An order of a set of pages is a sequence of all of them, each once.     *)
(***************************************************************************)
LEMMA OrderListsSet ==
    ASSUME NEW set \in SUBSET Pages, NEW s \in Orders(set)
    PROVE  /\ s \in Seq(set) /\ Len(s) = Cardinality(set) /\ ToSet(s) = set
           /\ \A i, j \in 1 .. Len(s) : s[i] = s[j] => i = j
<1> DEFINE n == Cardinality(set)
<1>1. IsFiniteSet(set) /\ n \in Nat
  BY PageAssumption, FS_Subset, FS_CardinalityType
<1> HIDE DEF n
<1>2. s \in [1 .. n -> set] /\ ToSet(s) = set
  BY DEF Orders, n
<1>3. s \in Seq(set) /\ Len(s) = n
  BY <1>1, <1>2
<1>4. s \in Surjection(1 .. n, set)
  <2>1. DOMAIN s = 1 .. n
    BY <1>2
  <2>2. \A t \in set : \E i \in 1 .. n : s[i] = t
    BY <1>2, <2>1 DEF ToSet
  <2> QED
    BY <1>2, <2>2 DEF Surjection
<1>5. IsFiniteSet(1 .. n) /\ Cardinality(1 .. n) = n
  BY <1>1, FS_Interval
<1>6. s \in Injection(1 .. n, set)
  BY <1>1, <1>4, <1>5, FS_SurjSameCardinalityImpliesInj DEF n
<1>7. \A i, j \in 1 .. n : s[i] = s[j] => i = j
  BY <1>6 DEF Injection, IsInjective
<1> QED
  BY <1>2, <1>3, <1>7 DEF n

(***************************************************************************)
(* The first so many of a sequence are its beginning.                      *)
(***************************************************************************)
LEMMA FirstIsPrefix ==
    ASSUME NEW S, NEW s \in Seq(S), NEW n \in Nat
    PROVE  /\ First(s, n) \in Seq(S) /\ Len(First(s, n)) <= Len(s)
           /\ \A i \in 1 .. Len(First(s, n)) : First(s, n)[i] = s[i]
<1> DEFINE m == Min({n, Len(s)})
<1>1. m \in Nat /\ m <= Len(s)
  BY DEF Min
<1> HIDE DEF m
<1>2. \A i \in 1 .. m : s[i] \in S
  BY <1>1
<1>3. /\ SubSeq(s, 1, m) \in Seq(S)
      /\ Len(SubSeq(s, 1, m)) = IF 1 <= m THEN m - 1 + 1 ELSE 0
      /\ \A i \in 1 .. m - 1 + 1 : SubSeq(s, 1, m)[i] = s[1 + i - 1]
  BY <1>1, <1>2, SubSeqProperties
<1>4. First(s, n) = SubSeq(s, 1, m)
  BY DEF First, m
<1> QED
  BY <1>1, <1>3, <1>4

(***************************************************************************)
(* What is in a list has a rank in it.                                     *)
(***************************************************************************)
LEMMA RankFinds ==
    ASSUME NEW S, NEW list \in Seq(S), NEW p \in ToSet(list)
    PROVE  Rank(list, p) \in 1 .. Len(list) /\ list[Rank(list, p)] = p
<1>1. \E i \in DOMAIN list : list[i] = p
  BY DEF ToSet
<1> QED
  BY <1>1 DEF Rank

(***************************************************************************)
(* Sums of two reciprocals, compared by their fractions: with the smaller  *)
(* numbers below, the larger sum; and one reciprocal more makes a sum      *)
(* larger.                                                                 *)
(***************************************************************************)
LEMMA Fractions ==
    ASSUME NEW a \in Nat \ {0}, NEW b \in Nat \ {0}, NEW c \in Nat \ {0},
           NEW d \in Nat \ {0}, a < c
    PROVE  /\ (a + b) * c - 1 * (a * b) > 0
           /\ b < d => (a + b) * (c * d) - (c + d) * (a * b) > 0
           /\ (b + a) * c - 1 * (b * a) > 0
<1>1. (a + b) * c = a * c + b * c /\ a * c > 0 /\ b * c > b * a /\ a * b = b * a
  OBVIOUS
<1>2. ASSUME b < d PROVE (a + b) * (c * d) - (c + d) * (a * b) > 0
  <2>1. (a + b) * (c * d) - (c + d) * (a * b) = (a * c) * (d - b) + (b * d) * (c - a)
    OBVIOUS
  <2>2. (a * c) * (d - b) > 0 /\ (b * d) * (c - a) > 0
    BY <1>2
  <2> QED
    BY <2>1, <2>2
<1> QED
  BY <1>1, <1>2

(***************************************************************************)
(* A page that no path found lower than another is not ranked behind it    *)
(* (rrf_fuse).                                                             *)
(***************************************************************************)
LEMMA AboveIsNotBelow ==
    ASSUME NEW l \in Seq(Pages), NEW v \in Seq(Pages), NEW p \in Pages,
           NEW q \in ToSet(l) \cup ToSet(v), NotBelow(l, p, q), NotBelow(v, p, q)
    PROVE  ~ RanksBefore(l, v, q, p)
<1> DEFINE a == RrfK + Rank(l, p)
           b == RrfK + Rank(v, p)
           c == RrfK + Rank(l, q)
           d == RrfK + Rank(v, q)
           s == Score(l, v, q)
           t == Score(l, v, p)
<1>1. RrfK \in Nat \ {0}
  BY NumberAssumption
<1>2. /\ p \in ToSet(l) => a \in Nat \ {0}
      /\ q \in ToSet(l) => c \in Nat \ {0} /\ p \in ToSet(l) /\ a < c
  BY <1>1, RankFinds DEF NotBelow
<1>3. /\ p \in ToSet(v) => b \in Nat \ {0}
      /\ q \in ToSet(v) => d \in Nat \ {0} /\ p \in ToSet(v) /\ b < d
  BY <1>1, RankFinds DEF NotBelow
<1>4. /\ s = IF q \in ToSet(l) /\ q \in ToSet(v) THEN <<c + d, c * d>>
             ELSE IF q \in ToSet(l) THEN <<1, c>> ELSE <<1, d>>
      /\ t = IF p \in ToSet(l) /\ p \in ToSet(v) THEN <<a + b, a * b>>
             ELSE IF p \in ToSet(l) THEN <<1, a>> ELSE <<1, b>>
  BY DEF Score
<1> HIDE DEF a, b, c, d, s, t
<1>5. s[1] * t[2] - t[1] * s[2] \in Int /\ s[1] * t[2] - t[1] * s[2] < 0
  <2>1. CASE q \in ToSet(l) /\ q \in ToSet(v)
    <3>1. s[1] = c + d /\ s[2] = c * d /\ t[1] = a + b /\ t[2] = a * b
      BY <1>2, <1>3, <1>4, <2>1
    <3>2. (a + b) * (c * d) - (c + d) * (a * b) > 0
      BY <1>2, <1>3, <2>1, Fractions
    <3>3. (a + b) * (c * d) \in Int /\ (c + d) * (a * b) \in Int
      BY <1>2, <1>3, <2>1
    <3> QED
      BY <3>1, <3>2, <3>3
  <2>2. CASE q \in ToSet(l) /\ q \notin ToSet(v)
    <3>1. s[1] = 1 /\ s[2] = c
      BY <1>4, <2>2
    <3>2. CASE p \in ToSet(v)
      <4>1. t[1] = a + b /\ t[2] = a * b
        BY <1>2, <1>4, <2>2, <3>2
      <4>2. (a + b) * c - 1 * (a * b) > 0
        BY <1>2, <1>3, <2>2, <3>2, Fractions
      <4>3. (a + b) * c \in Int /\ 1 * (a * b) \in Int
        BY <1>2, <1>3, <2>2, <3>2
      <4> QED
        BY <3>1, <4>1, <4>2, <4>3
    <3>3. CASE p \notin ToSet(v)
      BY <1>2, <1>4, <2>2, <3>1, <3>3
    <3> QED
      BY <3>2, <3>3
  <2>3. CASE q \notin ToSet(l)
    <3>1. s[1] = 1 /\ s[2] = d /\ q \in ToSet(v)
      BY <1>4, <2>3
    <3>2. CASE p \in ToSet(l)
      <4>1. t[1] = a + b /\ t[2] = a * b
        BY <1>3, <1>4, <3>1, <3>2
      <4>2. (a + b) * d - 1 * (a * b) > 0
        BY <1>2, <1>3, <3>1, <3>2, Fractions
      <4>3. (a + b) * d \in Int /\ 1 * (a * b) \in Int
        BY <1>2, <1>3, <3>1, <3>2
      <4> QED
        BY <3>1, <4>1, <4>2, <4>3
    <3>3. CASE p \notin ToSet(l)
      BY <1>3, <1>4, <3>1, <3>3
    <3> QED
      BY <3>2, <3>3
  <2> QED
    BY <2>1, <2>2, <2>3
<1> QED
  BY <1>5 DEF RanksBefore, s, t

(***************************************************************************)
(* The fusion of one list with nothing is that list: reciprocals of ranks  *)
(* are in the order of the ranks, so the first place where the two differ  *)
(* would have a page from further down before a page that is nearer        *)
(* (rrf_fuse).                                                             *)
(***************************************************************************)
LEMMA AloneInOrder ==
    ASSUME NEW l \in Seq(Pages), \A i, j \in 1 .. Len(l) : l[i] = l[j] => i = j,
           NEW order \in Fused(l, <<>>)
    PROVE  order = l
<1>1. order \in Orders(ToSet(l))
  <2>1. ToSet(l) \cup ToSet(<<>>) = ToSet(l)
    BY DEF ToSet
  <2> QED
    BY <2>1 DEF Fused, Sorted
<1>2. ToSet(l) \in SUBSET Pages
  BY DEF ToSet
<1>3. /\ order \in Seq(ToSet(l)) /\ ToSet(order) = ToSet(l)
      /\ Len(order) = Cardinality(ToSet(l))
      /\ \A i, j \in 1 .. Len(order) : order[i] = order[j] => i = j
  BY <1>1, <1>2, OrderListsSet
<1>4. Len(l) = Cardinality(ToSet(l))
  <2>1. l \in Surjection(1 .. Len(l), ToSet(l))
    <3>1. DOMAIN l = 1 .. Len(l) /\ l \in [1 .. Len(l) -> ToSet(l)]
      BY DEF ToSet
    <3>2. \A t \in ToSet(l) : \E i \in 1 .. Len(l) : l[i] = t
      BY <3>1 DEF ToSet
    <3> QED
      BY <3>1, <3>2 DEF Surjection
  <2>2. l \in Injection(1 .. Len(l), ToSet(l))
    BY <2>1 DEF Surjection, Injection, IsInjective
  <2>3. IsFiniteSet(1 .. Len(l)) /\ Cardinality(1 .. Len(l)) = Len(l)
    <3>1. \A n \in Nat : IsFiniteSet(1 .. n) /\ Cardinality(1 .. n) = n
      BY FS_Interval
    <3>2. Len(l) \in Nat
      OBVIOUS
    <3> QED
      BY <3>1, <3>2
  <2> QED
    BY <2>1, <2>2, <2>3, FS_Surjection
<1>5. ASSUME NEW i \in 1 .. Len(order), NEW j \in 1 .. Len(order), i < j
      PROVE  Rank(l, order[i]) < Rank(l, order[j])
  <2>1. order[i] \in ToSet(l) /\ order[j] \in ToSet(l) /\ order[i] # order[j]
    BY <1>3, <1>5
  <2>2. /\ Rank(l, order[i]) \in 1 .. Len(l) /\ Rank(l, order[j]) \in 1 .. Len(l)
        /\ Rank(l, order[i]) # Rank(l, order[j])
    BY <2>1, RankFinds
  <2>3. RanksBefore(l, <<>>, order[i], order[j])
    BY <1>3, <1>5 DEF Fused, Sorted
  <2>4. /\ Score(l, <<>>, order[i]) = <<1, RrfK + Rank(l, order[i])>>
        /\ Score(l, <<>>, order[j]) = <<1, RrfK + Rank(l, order[j])>>
    BY <2>1 DEF Score, ToSet
  <2> QED
    BY <2>2, <2>3, <2>4, NumberAssumption DEF RanksBefore
<1> DEFINE Off == {i \in 1 .. Len(l) : order[i] # l[i]}
<1>6. ASSUME Off # {} PROVE FALSE
  <2> DEFINE Below == OpToRel(<, Nat)
  <2>1. Off \subseteq Nat
    OBVIOUS
  <2>2. IsWellFoundedOn(Below, Nat)
    BY NatLessThanWellFounded
  <2> HIDE DEF Below, Off
  <2>3. PICK i \in Off : \A m \in Off : ~ (<<m, i>> \in Below)
    BY <1>6, <2>1, <2>2, WFMin
  <2>4. i \in 1 .. Len(l) /\ order[i] # l[i] /\ \A m \in 1 .. i - 1 : order[m] = l[m]
    <3>1. i \in 1 .. Len(l) /\ order[i] # l[i] /\ Len(l) \in Nat
      BY DEF Off
    <3>2. ASSUME NEW m \in 1 .. i - 1, order[m] # l[m] PROVE FALSE
      <4>1. m \in Off
        BY <3>1, <3>2 DEF Off
      <4>2. <<m, i>> \in Below
        BY <3>1 DEF Below, OpToRel
      <4> QED
        BY <2>3, <4>1, <4>2
    <3> QED
      BY <3>1, <3>2
  <2>5. \A m \in 1 .. Len(l) : Rank(l, l[m]) = m
    BY RankFinds DEF ToSet
  <2>6. PICK m \in 1 .. Len(order) : order[m] = l[i]
    <3>1. l[i] \in ToSet(l)
      BY <2>4 DEF ToSet
    <3>2. l[i] \in ToSet(order) /\ order \in Seq(ToSet(l))
      BY <1>3, <3>1
    <3> QED
      BY <3>2 DEF ToSet
  <2>7. m > i
    BY <1>3, <1>4, <2>4, <2>6
  <2>8. Rank(l, order[i]) < i
    BY <1>4, <1>5, <2>4, <2>5, <2>6, <2>7
  <2>9. PICK k \in 1 .. Len(l) : l[k] = order[i]
    <3>1. order[i] \in ToSet(l)
      BY <1>3, <1>4, <2>4
    <3> QED
      BY <3>1 DEF ToSet
  <2>10. k < i /\ order[k] = l[k]
    BY <2>4, <2>5, <2>8, <2>9
  <2> QED
    BY <1>3, <1>4, <2>4, <2>9, <2>10
<1>7. \A i \in 1 .. Len(l) : order[i] = l[i]
  BY <1>6
<1> QED
  BY <1>2, <1>3, <1>4, <1>7, SeqEqual, SeqMonotonic

-----------------------------------------------------------------------------
(* The inductive invariant of the hybrid search.                           *)

\* What a search found literally, and what it shows.
ResultRows == [page: Pages, text: Texts]

SearchFields ==
    {"at", "query", "lexical", "rows", "left", "hits", "vector",
     "status", "order", "results", "moved"}

\* The rows that are stored, and those that were listed, are of one text each.
OfOneText(rows) == \A p \in Pages : rows[p] # None => rows[p].sha = rows[p].vector

\* Two pages that were found literally are different.
LexicalOK ==
    /\ search.lexical \in Seq(ResultRows)
    /\ \A i, j \in DOMAIN search.lexical :
           search.lexical[i].page = search.lexical[j].page => i = j

ListedOK ==
    search.at = "check" =>
        /\ search.rows \in [Pages -> Rows \cup {None}] /\ OfOneText(search.rows)
        /\ search.left \in Seq({p \in Pages : search.rows[p] # None})

\* Unless it was changed since, a page found by its vector has its text.
HitsOK ==
    /\ search.hits \subseteq Pages
    /\ search.at = "query" => search.hits = {}
    /\ \A p \in search.hits \ search.moved :
           Beginning(p) # None /\ Beginning(p) = search.rows[p].vector

VectorOK == search.vector \in Seq(search.hits)

\* Before the vector path has run, and when it has not, nothing comes from it.
StatusOK == search.at \in {"query", "check"} \/ ~VectorsRan => search.vector = <<>>

FoundPages == ToSet(LexicalOrder) \cup ToSet(search.vector)

Above(p, q) == RanksBefore(LexicalOrder, search.vector, p, q)

\* What is shown and what is still to be shown are in order, both together.
InOrder ==
    /\ \A i, j \in DOMAIN search.order :
           i < j => Above(search.order[i], search.order[j])
    /\ \A i \in DOMAIN search.results, j \in DOMAIN search.order :
           Above(search.results[i].page, search.order[j])
    /\ \A i, j \in DOMAIN search.results :
           i < j => Above(search.results[i].page, search.results[j].page)

\* No page that was found literally is forgotten.
Covered ==
    \A i \in DOMAIN search.lexical :
        \/ search.lexical[i] \in ToSet(search.results)
        \/ search.lexical[i].page \in ToSet(search.order)

\* With nothing from the vectors, the rest of the list is still to be shown.
AsLiterally ==
    search.vector = <<>> =>
        /\ Len(search.results) + Len(search.order) = Len(search.lexical)
        /\ \A i \in DOMAIN search.results : search.results[i] = search.lexical[i]
        /\ \A j \in DOMAIN search.order :
               search.order[j] = search.lexical[Len(search.results) + j].page

OutcomeOK ==
    IF search.at = "hydrate"
    THEN /\ search.order \in Seq(FoundPages)
         /\ search.results \in Seq(ResultRows)
         /\ \A i \in DOMAIN search.results : search.results[i].page \in FoundPages
         /\ InOrder /\ Covered /\ AsLiterally
         /\ MeaningIsOfTheText(search.results)
    ELSE search.results = <<>>

SearchOK ==
    search # None =>
        /\ DOMAIN search = SearchFields
        /\ LexicalOK /\ ListedOK /\ HitsOK /\ VectorOK /\ StatusOK /\ OutcomeOK

(***************************************************************************)
(* The pages found literally are a sequence of different pages.            *)
(***************************************************************************)
LEMMA LiteralOrder ==
    ASSUME LexicalOK
    PROVE  /\ LexicalOrder \in Seq(Pages) /\ Len(LexicalOrder) = Len(search.lexical)
           /\ DOMAIN search.lexical = 1 .. Len(search.lexical)
           /\ \A i \in 1 .. Len(search.lexical) : LexicalOrder[i] = search.lexical[i].page
           /\ \A i, j \in 1 .. Len(LexicalOrder) : LexicalOrder[i] = LexicalOrder[j] => i = j
<1>1. DOMAIN search.lexical = 1 .. Len(search.lexical) /\ Len(search.lexical) \in Nat
  BY LenProperties DEF LexicalOK
<1>2. \A i \in DOMAIN search.lexical : search.lexical[i].page \in Pages
  <2>1. \A row \in ResultRows : row.page \in Pages
    BY DEF ResultRows
  <2>2. \A i \in 1 .. Len(search.lexical) : search.lexical[i] \in ResultRows
    BY ElementOfSeq DEF LexicalOK
  <2> QED
    BY <1>1, <2>1, <2>2
<1>3. LexicalOrder \in Seq(Pages) /\ Len(LexicalOrder) = Len(search.lexical)
  BY <1>1, <1>2 DEF LexicalOrder
<1> QED
  BY <1>1, <1>3 DEF LexicalOrder, LexicalOK

(***************************************************************************)
(* A search begins with what the words found, and nothing else.            *)
(***************************************************************************)
LEMMA BeginFinds ==
    ASSUME RetrievalTypeOK, NEW q, BeginSearch(q)
    PROVE  SearchOK'
<1> DEFINE found == {p \in Found(q) : There(p)}
<1>1. PICK order \in Lexical(q, Found(q)) :
          search' = [at |-> "query", query |-> q,
                     lexical |-> Results(order), rows |-> <<>>, left |-> <<>>,
                     hits |-> {}, vector |-> <<>>, status |-> "ok",
                     order |-> <<>>, results |-> <<>>, moved |-> {}]
  BY DEF BeginSearch
<1>2. PICK whole \in Orders(found) : order = First(whole, Limit)
  BY <1>1 DEF Lexical
<1>3. found \in SUBSET Pages
  BY DEF Found
<1>4. whole \in Seq(found) /\ \A i, j \in 1 .. Len(whole) : whole[i] = whole[j] => i = j
  BY <1>3, OrderListsSet
<1>5. /\ order \in Seq(found) /\ Len(order) <= Len(whole)
      /\ \A i \in 1 .. Len(order) : order[i] = whole[i]
  BY <1>2, <1>4, FirstIsPrefix, NumberAssumption
<1>6. \A p \in found : p \in Pages /\ pages[p] \in Texts
  BY <1>3 DEF RetrievalTypeOK, There
<1> HIDE DEF found
<1>7. DOMAIN order = 1 .. Len(order) /\ Len(order) \in Nat /\ Len(whole) \in Nat
  BY <1>4, <1>5
<1>8. Results(order) \in Seq(ResultRows) /\ DOMAIN Results(order) = 1 .. Len(order)
  <2>1. \A i \in 1 .. Len(order) : [page |-> order[i], text |-> pages[order[i]]] \in ResultRows
    BY <1>5, <1>6, <1>7 DEF ResultRows
  <2> QED
    BY <1>7, <2>1 DEF Results
<1>9. \A i, j \in 1 .. Len(order) : Results(order)[i].page = Results(order)[j].page => i = j
  BY <1>4, <1>5, <1>7 DEF Results
<1>10. LexicalOK'
  BY <1>1, <1>8, <1>9 DEF LexicalOK
<1>11. DOMAIN search' = SearchFields
  BY <1>1 DEF SearchFields
<1>12. /\ search'.at = "query" /\ search'.hits = {} /\ search'.vector = <<>>
       /\ search'.results = <<>>
  BY <1>1
<1>13. VectorOK' /\ StatusOK'
  BY <1>12 DEF VectorOK, StatusOK
<1> QED
  BY <1>10, <1>11, <1>12, <1>13 DEF SearchOK, ListedOK, HitsOK, OutcomeOK

(***************************************************************************)
(* Going on without the vector path changes nothing that was found.        *)
(***************************************************************************)
LEMMA WithoutVectorsFinds ==
    ASSUME SearchOK, NEW status, WithoutVectors(status)
    PROVE  SearchOK'
<1>1. search # None /\ search.at = "query" /\ DOMAIN search = SearchFields
  BY DEF WithoutVectors, Searching, SearchOK
<1>2. /\ DOMAIN search' = SearchFields /\ search'.at = "fuse"
      /\ search'.lexical = search.lexical /\ search'.rows = search.rows
      /\ search'.hits = search.hits /\ search'.vector = search.vector
      /\ search'.results = search.results /\ search'.moved = search.moved
      /\ UNCHANGED library
  BY <1>1 DEF WithoutVectors, SearchFields
<1>3. StatusOK'
  BY <1>1, <1>2 DEF SearchOK, StatusOK
<1> QED
  BY <1>1, <1>2, <1>3 DEF SearchOK, LexicalOK, ListedOK, HitsOK, VectorOK, OutcomeOK, Beginning,
                          There, library

(***************************************************************************)
(* The rows that are listed are of one text each, as those that are        *)
(* stored.                                                                 *)
(***************************************************************************)
LEMMA ListFinds ==
    ASSUME RetrievalTypeOK, OfOneText(stored), SearchOK, List
    PROVE  SearchOK'
<1>1. search # None /\ search.at = "query" /\ DOMAIN search = SearchFields
  BY DEF List, Searching, SearchOK
<1>2. PICK order \in Sorted({p \in Pages : stored[p] # None}, <) :
          search' = [search EXCEPT !.at = "check", !.rows = stored, !.left = order]
  BY DEF List
<1>3. order \in Seq({p \in Pages : stored[p] # None})
  <2>1. order \in Orders({p \in Pages : stored[p] # None})
    BY DEF Sorted
  <2>2. {p \in Pages : stored[p] # None} \in SUBSET Pages
    OBVIOUS
  <2> QED
    BY <2>1, <2>2, OrderListsSet
<1>4. /\ DOMAIN search' = SearchFields /\ search'.at = "check"
      /\ search'.lexical = search.lexical /\ search'.rows = stored
      /\ search'.left = order
      /\ search'.hits = search.hits /\ search'.vector = search.vector
      /\ search'.results = search.results /\ search'.moved = search.moved
      /\ UNCHANGED library
  BY <1>1, <1>2 DEF List, SearchFields
<1>5. LexicalOK /\ HitsOK /\ VectorOK /\ StatusOK /\ OutcomeOK
  BY <1>1 DEF SearchOK
<1>6. ListedOK'
  BY <1>3, <1>4 DEF ListedOK, OfOneText, RetrievalTypeOK
<1>7. HitsOK'
  <2>1. search.hits = {}
    BY <1>1, <1>5 DEF HitsOK
  <2> QED
    BY <1>4, <2>1 DEF HitsOK
<1>8. LexicalOK' /\ VectorOK' /\ StatusOK' /\ OutcomeOK'
  BY <1>1, <1>4, <1>5 DEF LexicalOK, VectorOK, StatusOK, OutcomeOK
<1> QED
  BY <1>4, <1>6, <1>7, <1>8 DEF SearchOK

(***************************************************************************)
(* A page becomes a hit only with the text its vector is of.               *)
(***************************************************************************)
LEMMA CheckFinds ==
    ASSUME SearchOK, Check
    PROVE  SearchOK'
<1> DEFINE p == Head(search.left)
           current == search.rows[p].sha = Beginning(p)
           listed == {q \in Pages : search.rows[q] # None}
<1>1. /\ search # None /\ search.at = "check" /\ DOMAIN search = SearchFields
      /\ search.left # <<>>
      /\ LexicalOK /\ ListedOK /\ HitsOK /\ VectorOK /\ StatusOK /\ OutcomeOK
  BY DEF Check, Searching, SearchOK
<1>2. /\ search.rows \in [Pages -> Rows \cup {None}] /\ OfOneText(search.rows)
      /\ search.left \in Seq(listed)
  BY <1>1 DEF ListedOK
<1>3. p \in listed /\ Tail(search.left) \in Seq(listed)
  BY <1>1, <1>2, HeadTailProperties
<1>4. /\ DOMAIN search' = SearchFields /\ search'.at = "check"
      /\ search'.lexical = search.lexical /\ search'.rows = search.rows
      /\ search'.left = Tail(search.left)
      /\ search'.hits = IF current THEN search.hits \cup {p} ELSE search.hits
      /\ search'.vector = search.vector
      /\ search'.results = search.results /\ search'.moved = search.moved
      /\ UNCHANGED library
  BY <1>1 DEF Check, SearchFields
<1> HIDE DEF p, current
<1>5. p \in Pages /\ search.rows[p] \in Rows /\ search.rows[p].sha = search.rows[p].vector
  BY <1>2, <1>3 DEF OfOneText
<1>6. search.rows[p].sha # None
  BY <1>5 DEF Rows, Beginnings
<1>7. current => Beginning(p) # None /\ Beginning(p) = search.rows[p].vector
  BY <1>5, <1>6 DEF current
<1>8. HitsOK'
  BY <1>1, <1>4, <1>5, <1>7 DEF HitsOK, Beginning, There, library
<1>9. VectorOK'
  BY <1>1, <1>4, SeqMonotonic DEF VectorOK
<1>10. StatusOK'
  BY <1>1, <1>4 DEF SearchOK, StatusOK
<1> QED
  BY <1>1, <1>2, <1>3, <1>4, <1>8, <1>9, <1>10 DEF SearchOK, LexicalOK, ListedOK, OutcomeOK

(***************************************************************************)
(* What the vector path returns are hits.                                  *)
(***************************************************************************)
LEMMA RecalledFinds ==
    ASSUME SearchOK, Recalled
    PROVE  SearchOK'
<1>1. /\ search # None /\ search.at = "check" /\ DOMAIN search = SearchFields
      /\ LexicalOK /\ HitsOK /\ OutcomeOK
  BY DEF Recalled, Searching, SearchOK
<1>2. PICK order \in Sorted(search.hits, Nearer) :
          search' = [search EXCEPT !.at = "fuse", !.vector = First(order, Limit),
                                   !.status = IF order = <<>> THEN "empty" ELSE "ok"]
  BY DEF Recalled
<1>3. order \in Orders(search.hits) /\ search.hits \in SUBSET Pages
  BY <1>1 DEF Sorted, HitsOK
<1>4. First(order, Limit) \in Seq(search.hits)
  BY <1>3, OrderListsSet, FirstIsPrefix, NumberAssumption
<1>5. /\ DOMAIN search' = SearchFields /\ search'.at = "fuse"
      /\ search'.lexical = search.lexical /\ search'.rows = search.rows
      /\ search'.hits = search.hits /\ search'.vector = First(order, Limit)
      /\ search'.results = search.results /\ search'.moved = search.moved
      /\ UNCHANGED library
  BY <1>1, <1>2 DEF Recalled, SearchFields
<1>6. StatusOK'
  BY <1>1, <1>2, <1>5 DEF SearchFields, StatusOK, VectorsRan
<1> QED
  BY <1>1, <1>4, <1>5, <1>6 DEF SearchOK, LexicalOK, ListedOK, HitsOK, VectorOK, OutcomeOK,
                                Beginning, There, library

(***************************************************************************)
(* What came from the vectors are pages and hits.                          *)
(***************************************************************************)
LEMMA VectorTyped ==
    ASSUME HitsOK, VectorOK
    PROVE  search.vector \in Seq(Pages) /\ ToSet(search.vector) \subseteq search.hits
<1>1. search.vector \in Seq(search.hits) /\ search.hits \subseteq Pages
  BY DEF HitsOK, VectorOK
<1>2. search.vector \in Seq(Pages)
  BY <1>1, SeqMonotonic
<1>3. \A i \in 1 .. Len(search.vector) : search.vector[i] \in search.hits
  BY <1>1, ElementOfSeq
<1>4. DOMAIN search.vector = 1 .. Len(search.vector)
  BY <1>1, LenProperties
<1> QED
  BY <1>2, <1>3, <1>4 DEF ToSet

(***************************************************************************)
(* The fusion forgets no page found literally and is in the order of the   *)
(* ranks; with nothing from the vectors it is the literal list.            *)
(***************************************************************************)
LEMMA FuseFinds ==
    ASSUME SearchOK, Fuse
    PROVE  SearchOK'
<1> DEFINE l == LexicalOrder
           v == search.vector
<1>1. /\ search # None /\ search.at = "fuse" /\ DOMAIN search = SearchFields
      /\ LexicalOK /\ HitsOK /\ VectorOK /\ OutcomeOK
  BY DEF Fuse, Searching, SearchOK
<1>2. PICK order \in Fused(l, v) : search' = [search EXCEPT !.at = "hydrate", !.order = order]
  BY DEF Fuse
<1>3. /\ DOMAIN search' = SearchFields /\ search'.at = "hydrate"
      /\ search'.lexical = search.lexical /\ search'.rows = search.rows
      /\ search'.hits = search.hits /\ search'.vector = search.vector
      /\ search'.order = order /\ search'.results = <<>>
      /\ search'.moved = search.moved
      /\ UNCHANGED library
  BY <1>1, <1>2 DEF Fuse, SearchFields, OutcomeOK
<1>4. /\ l \in Seq(Pages) /\ Len(l) = Len(search.lexical)
      /\ DOMAIN search.lexical = 1 .. Len(search.lexical)
      /\ \A i \in 1 .. Len(search.lexical) : l[i] = search.lexical[i].page
      /\ \A i, j \in 1 .. Len(l) : l[i] = l[j] => i = j
  BY <1>1, LiteralOrder
<1>5. l' = l /\ v' = v /\ FoundPages' = FoundPages
  BY <1>3 DEF LexicalOrder, FoundPages
<1>6. FoundPages \in SUBSET Pages
  <2>1. ToSet(l) \subseteq Pages
    BY <1>4 DEF ToSet
  <2>2. ToSet(v) \subseteq Pages
    BY <1>1, VectorTyped DEF HitsOK
  <2> QED
    BY <2>1, <2>2 DEF FoundPages
<1>7. /\ order \in Orders(FoundPages)
      /\ \A i, j \in DOMAIN order : i < j => RanksBefore(l, v, order[i], order[j])
  BY <1>2 DEF Fused, Sorted, FoundPages
<1>8. order \in Seq(FoundPages) /\ ToSet(order) = FoundPages
  BY <1>6, <1>7, OrderListsSet
<1> HIDE DEF l, v
<1>9. InOrder'
  BY <1>3, <1>5, <1>7 DEF InOrder, Above, l, v
<1>10. Covered'
  <2>1. \A i \in 1 .. Len(search.lexical) : search.lexical[i].page \in ToSet(l)
    BY <1>4 DEF ToSet
  <2>2. ToSet(l) \subseteq ToSet(order)
    BY <1>8 DEF FoundPages, l
  <2> QED
    BY <1>3, <1>4, <2>1, <2>2 DEF Covered
<1>11. AsLiterally'
  <2> SUFFICES ASSUME v = <<>> PROVE AsLiterally'
    BY <1>3 DEF AsLiterally, v
  <2>1. order = l
    BY <1>2, <1>4, AloneInOrder
  <2>2. Len(<<>>) = 0 /\ DOMAIN <<>> = {} /\ DOMAIN order = 1 .. Len(order)
        /\ Len(order) \in Nat
    BY <1>8, <2>1, LenProperties
  <2> QED
    BY <1>3, <1>4, <2>1, <2>2 DEF AsLiterally
<1>12. OutcomeOK'
  BY <1>3, <1>5, <1>8, <1>9, <1>10, <1>11 DEF OutcomeOK, MeaningIsOfTheText
<1>13. HitsOK' /\ VectorOK' /\ LexicalOK' /\ StatusOK'
  <2>1. search'.status = search.status
    BY <1>1, <1>2 DEF SearchFields
  <2>2. StatusOK'
    BY <1>1, <1>3, <2>1 DEF SearchOK, StatusOK, VectorsRan
  <2> QED
    BY <1>1, <1>3, <2>2 DEF HitsOK, VectorOK, LexicalOK, Beginning, There, library
<1> QED
  BY <1>3, <1>12, <1>13 DEF SearchOK, ListedOK

(***************************************************************************)
(* What was found are pages.                                               *)
(***************************************************************************)
LEMMA FoundTyped ==
    ASSUME LexicalOK, HitsOK, VectorOK
    PROVE  FoundPages \in SUBSET Pages
<1>1. ToSet(LexicalOrder) \subseteq Pages
  BY LiteralOrder DEF ToSet
<1>2. ToSet(search.vector) \subseteq Pages
  BY VectorTyped DEF HitsOK
<1> QED
  BY <1>1, <1>2 DEF FoundPages

(***************************************************************************)
(* A page that was found literally is shown as it was found; another one   *)
(* with its present text, or not at all.                                   *)
(***************************************************************************)
LEMMA HydratedShows ==
    ASSUME LexicalOK, NEW p
    PROVE  \/ \E k \in 1 .. Len(search.lexical) :
                  Hydrated(p) = <<search.lexical[k]>> /\ search.lexical[k].page = p
           \/ /\ p \notin ToSet(LexicalOrder) /\ There(p)
              /\ Hydrated(p) = <<[page |-> p, text |-> pages[p]]>>
           \/ p \notin ToSet(LexicalOrder) /\ Hydrated(p) = <<>>
<1>1. CASE p \in ToSet(LexicalOrder)
  <2>1. Rank(LexicalOrder, p) \in 1 .. Len(search.lexical)
        /\ LexicalOrder[Rank(LexicalOrder, p)] = p
    BY <1>1, LiteralOrder, RankFinds
  <2> QED
    BY <1>1, <2>1, LiteralOrder DEF Hydrated
<1>2. CASE p \notin ToSet(LexicalOrder) /\ There(p)
  <2>1. Results(<<p>>) = <<[page |-> p, text |-> pages[p]]>>
    BY DEF Results
  <2> QED
    BY <1>2, <2>1 DEF Hydrated
<1>3. CASE p \notin ToSet(LexicalOrder) /\ ~There(p)
  BY <1>3 DEF Hydrated
<1> QED
  BY <1>1, <1>2, <1>3

(***************************************************************************)
(* A sequence with one element more.                                       *)
(***************************************************************************)
LEMMA OneMore ==
    ASSUME NEW S, NEW s \in Seq(S), NEW e \in S
    PROVE  /\ s \o <<e>> \in Seq(S) /\ Len(s \o <<e>>) = Len(s) + 1 /\ Len(s) \in Nat
           /\ DOMAIN (s \o <<e>>) = 1 .. Len(s) + 1 /\ DOMAIN s = 1 .. Len(s)
           /\ \A i \in 1 .. Len(s) : (s \o <<e>>)[i] = s[i]
           /\ (s \o <<e>>)[Len(s) + 1] = e
  OBVIOUS

(***************************************************************************)
(* Showing the next page, or leaving it out because it is gone, loses      *)
(* nothing: only pages found by their vectors are left out.                *)
(***************************************************************************)
LEMMA HydrateFinds ==
    ASSUME RetrievalTypeOK, SearchOK, Hydrate
    PROVE  SearchOK'
<1> DEFINE p == Head(search.order)
           rest == Tail(search.order)
           n == Len(search.results)
<1>1. /\ search # None /\ search.at = "hydrate" /\ DOMAIN search = SearchFields
      /\ search.order # <<>>
      /\ LexicalOK /\ HitsOK /\ VectorOK /\ OutcomeOK
  BY DEF Hydrate, Searching, SearchOK
<1>2. /\ search.order \in Seq(FoundPages) /\ search.results \in Seq(ResultRows)
      /\ \A i \in DOMAIN search.results : search.results[i].page \in FoundPages
      /\ InOrder /\ Covered /\ AsLiterally /\ MeaningIsOfTheText(search.results)
  BY <1>1 DEF OutcomeOK
<1>3. /\ p \in FoundPages /\ p = search.order[1]
      /\ rest \in Seq(FoundPages) /\ Len(search.order) \in Nat \ {0}
      /\ Len(rest) = Len(search.order) - 1
      /\ DOMAIN search.order = 1 .. Len(search.order) /\ DOMAIN rest = 1 .. Len(search.order) - 1
      /\ \A i \in 1 .. Len(search.order) - 1 : rest[i] = search.order[i + 1]
  BY <1>1, <1>2, HeadTailProperties, LenProperties, EmptySeq
<1>4. /\ DOMAIN search' = SearchFields /\ search'.at = "hydrate"
      /\ search'.lexical = search.lexical /\ search'.rows = search.rows
      /\ search'.hits = search.hits /\ search'.vector = search.vector
      /\ search'.order = rest /\ search'.results = search.results \o Hydrated(p)
      /\ search'.moved = search.moved
      /\ UNCHANGED library
  BY <1>1 DEF Hydrate, SearchFields
<1>5. /\ UNCHANGED <<LexicalOrder, FoundPages>> /\ \A x, y : Above(x, y)' = Above(x, y)
      /\ FoundPages \in SUBSET Pages
  BY <1>1, <1>4, FoundTyped DEF LexicalOrder, FoundPages, Above
<1>6. HitsOK' /\ VectorOK' /\ LexicalOK'
  BY <1>1, <1>4 DEF HitsOK, VectorOK, LexicalOK, Beginning, There, library
<1>7. /\ Len(LexicalOrder) = Len(search.lexical)
      /\ DOMAIN search.lexical = 1 .. Len(search.lexical)
      /\ DOMAIN LexicalOrder = 1 .. Len(search.lexical)
      /\ Len(search.lexical) \in Nat
      /\ \A i \in 1 .. Len(search.lexical) : LexicalOrder[i] = search.lexical[i].page
      /\ \A i, j \in 1 .. Len(search.lexical) :
             search.lexical[i].page = search.lexical[j].page => i = j
      /\ \A i \in 1 .. Len(search.lexical) : search.lexical[i] \in ResultRows
      /\ \A i \in 1 .. Len(search.lexical) : search.lexical[i].page \in ToSet(LexicalOrder)
  <2>1. DOMAIN LexicalOrder = 1 .. Len(LexicalOrder) /\ Len(search.lexical) \in Nat
    BY <1>1, LiteralOrder, LenProperties DEF LexicalOK
  <2>2. \A i \in 1 .. Len(search.lexical) : search.lexical[i] \in ResultRows
    BY <1>1, ElementOfSeq DEF LexicalOK
  <2> QED
    BY <1>1, <2>1, <2>2, LiteralOrder DEF LexicalOK, ToSet
<1>8. n \in Nat /\ DOMAIN search.results = 1 .. n
  BY <1>2, LenProperties
<1> HIDE DEF p, rest, n
<1>12. \A j \in DOMAIN rest : /\ rest[j] = search.order[j + 1] /\ j + 1 \in DOMAIN search.order
                             /\ 1 \in DOMAIN search.order /\ 1 < j + 1 /\ j \in Nat
  BY <1>3
<1>13. \A i, j \in DOMAIN rest : i < j => Above(rest[i], rest[j])
  <2>1. ASSUME NEW i \in DOMAIN rest, NEW j \in DOMAIN rest, i < j
        PROVE  Above(rest[i], rest[j])
    <3>1. /\ i + 1 \in DOMAIN search.order /\ j + 1 \in DOMAIN search.order /\ i + 1 < j + 1
          /\ rest[i] = search.order[i + 1] /\ rest[j] = search.order[j + 1]
      BY <1>12, <2>1
    <3> QED
      BY <1>2, <3>1 DEF InOrder
  <2> QED
    BY <2>1
<1>9. ASSUME NEW row \in ResultRows, row.page = p, Hydrated(p) = <<row>>,
             \A i \in DOMAIN search.lexical : search.lexical[i].page = p => search.lexical[i] = row,
             p \notin ToSet(LexicalOrder) => There(p) /\ row.text = pages[p]
      PROVE  OutcomeOK'
  <2> DEFINE more == search.results \o <<row>>
  <2>1. /\ more \in Seq(ResultRows) /\ Len(more) = n + 1 /\ DOMAIN more = 1 .. n + 1
        /\ \A i \in 1 .. n : more[i] = search.results[i]
        /\ more[n + 1] = row
    BY <1>2, OneMore DEF n
  <2> HIDE DEF more
  <2>2. search'.results = more
    BY <1>4, <1>9 DEF more
  <2>3. \A i \in 1 .. n + 1 : more[i].page \in FoundPages
    <3>1. \A i \in 1 .. n : more[i].page \in FoundPages
      BY <1>2, <1>8, <2>1
    <3>2. \A i \in 1 .. n + 1 : i \in 1 .. n \/ i = n + 1
      BY <1>8
    <3> QED
      BY <1>3, <1>9, <2>1, <3>1, <3>2
  <2>4. InOrder'
    <3>1. \A i, j \in DOMAIN rest : i < j => Above(rest[i], rest[j])
      BY <1>13
    <3>2. ASSUME NEW i \in DOMAIN more, NEW j \in DOMAIN rest PROVE Above(more[i].page, rest[j])
      <4>1. rest[j] = search.order[j + 1] /\ j + 1 \in DOMAIN search.order /\ 1 \in DOMAIN search.order
            /\ 1 < j + 1
        BY <1>3
      <4>2. CASE i = n + 1
        BY <1>2, <1>3, <1>9, <2>1, <4>1, <4>2 DEF InOrder
      <4>3. CASE i \in 1 .. n
        BY <1>2, <1>8, <2>1, <4>1, <4>3 DEF InOrder
      <4> QED
        BY <1>8, <2>1, <4>2, <4>3
    <3>3. ASSUME NEW i \in DOMAIN more, NEW j \in DOMAIN more, i < j
          PROVE  Above(more[i].page, more[j].page)
      <4>1. i \in 1 .. n /\ more[i] = search.results[i]
        BY <1>8, <2>1, <3>3
      <4>2. CASE j = n + 1
        <5>1. Above(search.results[i].page, search.order[1])
          BY <1>2, <1>3, <1>8, <4>1 DEF InOrder
        <5> QED
          BY <1>3, <1>9, <2>1, <4>1, <4>2, <5>1
      <4>3. CASE j \in 1 .. n
        BY <1>2, <1>8, <2>1, <3>3, <4>1, <4>3 DEF InOrder
      <4> QED
        BY <1>8, <2>1, <4>2, <4>3
    <3> QED
      BY <1>4, <1>5, <2>2, <3>1, <3>2, <3>3 DEF InOrder
  <2>5. Covered'
    <3> SUFFICES ASSUME NEW i \in DOMAIN search.lexical
                 PROVE  \/ search.lexical[i] \in ToSet(more)
                        \/ search.lexical[i].page \in ToSet(rest)
      BY <1>4, <2>2 DEF Covered
    <3>1. CASE search.lexical[i] \in ToSet(search.results)
      BY <1>8, <2>1, <3>1 DEF ToSet
    <3>2. CASE search.lexical[i].page \in ToSet(search.order)
      <4>1. PICK j \in 1 .. Len(search.order) : search.lexical[i].page = search.order[j]
        BY <1>3, <3>2 DEF ToSet
      <4>2. CASE j = 1
        <5>1. search.lexical[i] = row
          BY <1>3, <1>9, <4>1, <4>2
        <5> QED
          BY <1>8, <2>1, <5>1 DEF ToSet
      <4>3. CASE j # 1
        <5>1. j - 1 \in DOMAIN rest /\ rest[j - 1] = search.order[j]
          BY <1>3, <4>1, <4>3
        <5> QED
          BY <4>1, <5>1 DEF ToSet
      <4> QED
        BY <4>2, <4>3
    <3> QED
      BY <1>2, <3>1, <3>2 DEF Covered
  <2>6. AsLiterally'
    <3> SUFFICES ASSUME search.vector = <<>>
                 PROVE  /\ Len(more) + Len(rest) = Len(search.lexical)
                        /\ \A i \in DOMAIN more : more[i] = search.lexical[i]
                        /\ \A j \in DOMAIN rest :
                               rest[j] = search.lexical[Len(more) + j].page
      BY <1>4, <2>2 DEF AsLiterally
    <3>1. /\ n + Len(search.order) = Len(search.lexical)
          /\ \A i \in 1 .. n : search.results[i] = search.lexical[i]
          /\ \A j \in 1 .. Len(search.order) : search.order[j] = search.lexical[n + j].page
      BY <1>2, <1>3, <1>8 DEF AsLiterally, n
    <3>2. search.lexical[n + 1].page = p /\ n + 1 \in DOMAIN search.lexical
      BY <1>3, <1>7, <1>8, <3>1
    <3>3. row = search.lexical[n + 1]
      BY <1>9, <3>2
    <3>4. Len(more) + Len(rest) = Len(search.lexical)
      <4>1. Len(more) = n + 1
        BY <2>1
      <4>2. Len(rest) = Len(search.order) - 1 /\ Len(search.order) \in Nat
        BY <1>3
      <4>3. n + Len(search.order) = Len(search.lexical)
        BY <3>1
      <4>4. \A a, b \in Nat : (a + 1) + (b - 1) = a + b
        OBVIOUS
      <4> QED
        BY <1>8, <4>1, <4>2, <4>3, <4>4
    <3>5. \A i \in DOMAIN more : more[i] = search.lexical[i]
      BY <1>8, <2>1, <3>1, <3>3
    <3>6. ASSUME NEW j \in DOMAIN rest PROVE rest[j] = search.lexical[Len(more) + j].page
      <4>1. j \in Nat /\ j + 1 \in 1 .. Len(search.order) /\ rest[j] = search.order[j + 1]
        BY <1>3
      <4>2. n + (j + 1) = Len(more) + j
        BY <1>8, <2>1, <4>1
      <4> QED
        BY <3>1, <4>1, <4>2
    <3> QED
      BY <3>4, <3>5, <3>6
  <2>7. MeaningIsOfTheText(search.results)'
    <3> SUFFICES ASSUME NEW i \in DOMAIN more,
                        more[i].page \in ToSet(search.vector) \ (ToSet(LexicalOrder) \cup search.moved)
                 PROVE  Prepared[more[i].text] = search.rows[more[i].page].vector
      BY <1>4, <1>5, <2>2 DEF MeaningIsOfTheText
    <3>1. CASE i = n + 1
      <4>1. p \in search.hits \ search.moved /\ There(p) /\ row.text = pages[p]
        BY <1>1, <1>9, <2>1, <3>1, VectorTyped
      <4>2. Beginning(p) = search.rows[p].vector /\ Beginning(p) = Prepared[pages[p]]
        BY <1>1, <4>1 DEF HitsOK, Beginning
      <4> QED
        BY <1>9, <2>1, <3>1, <4>1, <4>2
    <3>2. CASE i \in 1 .. n
      BY <1>2, <1>8, <2>1, <3>2 DEF MeaningIsOfTheText
    <3> QED
      BY <1>8, <2>1, <3>1, <3>2
  <2> QED
    BY <1>3, <1>4, <1>5, <2>1, <2>2, <2>3, <2>4, <2>5, <2>6, <2>7 DEF OutcomeOK
<1>10. ASSUME p \notin ToSet(LexicalOrder), Hydrated(p) = <<>>
       PROVE  OutcomeOK'
  <2>1. search'.results = search.results
    BY <1>2, <1>4, <1>10, ConcatEmptySeq
  <2>2. InOrder'
    <3>1. \A i, j \in DOMAIN rest : i < j => Above(rest[i], rest[j])
      BY <1>13
    <3>2. \A i \in DOMAIN search.results, j \in DOMAIN rest : Above(search.results[i].page, rest[j])
      BY <1>2, <1>12 DEF InOrder
    <3> QED
      BY <1>2, <1>4, <1>5, <2>1, <3>1, <3>2 DEF InOrder
  <2>3. Covered'
    <3> SUFFICES ASSUME NEW i \in DOMAIN search.lexical,
                        search.lexical[i].page \in ToSet(search.order)
                 PROVE  search.lexical[i].page \in ToSet(rest)
      BY <1>2, <1>4, <2>1 DEF Covered
    <3>1. PICK j \in 1 .. Len(search.order) : search.lexical[i].page = search.order[j]
      BY <1>3 DEF ToSet
    <3>2. j # 1
      BY <1>3, <1>7, <1>10, <3>1
    <3>3. j - 1 \in DOMAIN rest /\ rest[j - 1] = search.order[j]
      BY <1>3, <3>1, <3>2
    <3> QED
      BY <3>1, <3>3 DEF ToSet
  <2>4. AsLiterally'
    <3> SUFFICES ASSUME search.vector = <<>> PROVE FALSE
      BY <1>4 DEF AsLiterally
    <3>1. search.order[1] = search.lexical[n + 1].page /\ n + Len(search.order) = Len(search.lexical)
      <4>1. 1 \in DOMAIN search.order
        BY <1>3
      <4> QED
        BY <1>2, <4>1 DEF AsLiterally, n
    <3>2. n + 1 \in 1 .. Len(search.lexical)
      BY <1>3, <1>8, <3>1
    <3> QED
      BY <1>3, <1>7, <1>10, <3>1, <3>2
  <2>5. MeaningIsOfTheText(search.results)'
    BY <1>2, <1>4, <1>5, <2>1 DEF MeaningIsOfTheText
  <2> QED
    <3>1. search'.at = "hydrate" /\ search'.order \in Seq(FoundPages')
      BY <1>3, <1>4, <1>5
    <3>2. search'.results \in Seq(ResultRows)
      BY <1>2, <2>1
    <3>3. \A i \in DOMAIN search'.results : search'.results[i].page \in FoundPages'
      BY <1>2, <1>5, <2>1
    <3> QED
      BY <2>2, <2>3, <2>4, <2>5, <3>1, <3>2, <3>3 DEF OutcomeOK
<1>11. OutcomeOK'
  <2>1. ASSUME NEW k \in 1 .. Len(search.lexical), Hydrated(p) = <<search.lexical[k]>>,
               search.lexical[k].page = p
        PROVE  OutcomeOK'
    <3>1. \A i \in DOMAIN search.lexical :
              search.lexical[i].page = p => search.lexical[i] = search.lexical[k]
      BY <1>7, <2>1
    <3>2. search.lexical[k] \in ResultRows /\ p \in ToSet(LexicalOrder)
      BY <1>7, <2>1
    <3> QED
      BY <1>9, <2>1, <3>1, <3>2
  <2>2. CASE /\ p \notin ToSet(LexicalOrder) /\ There(p)
             /\ Hydrated(p) = <<[page |-> p, text |-> pages[p]]>>
    <3>1. [page |-> p, text |-> pages[p]] \in ResultRows
      BY <1>3, <1>5, <2>2 DEF ResultRows, There, RetrievalTypeOK
    <3>2. \A i \in DOMAIN search.lexical : search.lexical[i].page # p
      BY <1>7, <2>2
    <3> QED
      BY <1>9, <2>2, <3>1, <3>2
  <2>3. \/ \E k \in 1 .. Len(search.lexical) :
               Hydrated(p) = <<search.lexical[k]>> /\ search.lexical[k].page = p
        \/ /\ p \notin ToSet(LexicalOrder) /\ There(p)
           /\ Hydrated(p) = <<[page |-> p, text |-> pages[p]]>>
        \/ p \notin ToSet(LexicalOrder) /\ Hydrated(p) = <<>>
    <3>1. \A x : \/ \E k \in 1 .. Len(search.lexical) :
                        Hydrated(x) = <<search.lexical[k]>> /\ search.lexical[k].page = x
                 \/ /\ x \notin ToSet(LexicalOrder) /\ There(x)
                    /\ Hydrated(x) = <<[page |-> x, text |-> pages[x]]>>
                 \/ x \notin ToSet(LexicalOrder) /\ Hydrated(x) = <<>>
      BY <1>1, HydratedShows
    <3> QED
      BY <3>1
  <2> QED
    BY <1>10, <2>1, <2>2, <2>3
<1>14. StatusOK'
  <2>1. search'.status = search.status
    BY <1>1 DEF Hydrate, SearchFields
  <2> QED
    BY <1>1, <1>4, <2>1 DEF SearchOK, StatusOK, VectorsRan
<1> QED
  BY <1>4, <1>6, <1>11, <1>14 DEF SearchOK, ListedOK

-----------------------------------------------------------------------------
(* The inductive invariant of the index runs.                              *)

USE NoneAssumption, RowAssumption, NumberAssumption

Works == {<<>>} \cup UNION {[chosen -> Beginnings \cup {None}] : chosen \in SUBSET Pages}

Runs ==
    [at: {"selected", "read", "embed", "persist"}, chosen: SUBSET Pages,
     size: BatchSizes, work: Works, pending: SUBSET Pages, answered: SUBSET Pages,
     done: SUBSET Pages, failed: SUBSET Pages, skipped: SUBSET Pages,
     moved: SUBSET Pages, overwritten: SUBSET Pages]

\* What a run has read, it read of the pages it chose, and what it will send
\* and has done is of them.
ShapeOK(run) ==
    /\ run.at # "selected" => run.work \in [run.chosen -> Beginnings \cup {None}]
    /\ run.at \in {"selected", "read"} => run.done = {} /\ run.pending = {}
    /\ run.at # "persist" => run.answered = {}
    /\ run.pending \cup run.answered \cup run.done \subseteq run.chosen
    /\ \A p \in run.pending \cup run.answered : run.work[p] # None

\* What nobody changed since the run chose it has the text the run read, and
\* nothing in it is marked.
AsChosen(run) ==
    \A p \in run.chosen \ run.moved :
        /\ Beginning(p) # None /\ Beginning(p) \notin Marked
        /\ run.at # "selected" => run.work[p] = Beginning(p)

\* No page is forgotten.
Accounted(run) ==
    run.at \in {"embed", "persist"} =>
        run.chosen \subseteq
            run.done \cup run.failed \cup run.skipped \cup run.pending \cup run.answered

\* What is done has the vector of what was read, unless somebody changed the
\* page or stored another one.
DoneIsFresh(run) ==
    \A p \in run.done \ (run.moved \cup run.overwritten) : FreshFor(p, run.work[p])

RunOK(run) ==
    /\ run \in Runs
    /\ ShapeOK(run) /\ AsChosen(run) /\ Accounted(run) /\ DoneIsFresh(run)

RunsOK ==
    /\ script = [r \in Scripts |-> script[r]]
    /\ \A r \in Scripts : script[r] # None => RunOK(script[r])

-----------------------------------------------------------------------------
(* The inductive invariant of the session.                                 *)

\* The URL of the session is the one it wrote, and a search that is paid for
\* is one of pages.
StateOK ==
    /\ active = signature
    /\ phase = "idle" => active # None
    /\ phase = "search" => active # None /\ active.scope = "page" /\ active.mode = "hybrid"
    /\ active = None => executed = None

ResultsOK ==
    /\ DOMAIN shown = {"page", "knowledge"}
    /\ executed = None /\ strayed = "" => shown = NothingShown

\* Unless something came between, the results are those of the projection that
\* was executed, which is that of the state.
ShownOK ==
    strayed = "" /\ phase # "search" =>
        /\ executed # None =>
              /\ shown[executed.scope].of = executed
              /\ active # None => Projection(active) = executed
        /\ executed = None /\ active # None => Projection(active) = Projection(Default)

SessionOK ==
    /\ SessionTypeOK /\ StateOK
    /\ ResultsOK /\ ShownOK

IndInv == RetrievalTypeOK /\ RunsOK /\ SessionOK

-----------------------------------------------------------------------------
(* The runs of the index script.                                           *)

(***************************************************************************)
(* A step of one run that leaves pages and vectors alone keeps the other   *)
(* runs.                                                                   *)
(***************************************************************************)
LEMMA StepKeeps ==
    ASSUME RunsOK, NEW r \in Scripts, NEW run, Step(r, run),
           UNCHANGED <<pages, stored>>, run # None => RunOK(run)
    PROVE  RunsOK'
<1>1. \A x : RunOK(x) => RunOK(x)'
  BY DEF RunOK, AsChosen, DoneIsFresh, Beginning, There, FreshFor, ShapeOK, Accounted
<1>2. script' = [q \in Scripts |-> IF q = r THEN run ELSE script[q]]
  BY DEF Step, RunsOK
<1> QED
  BY <1>1, <1>2 DEF RunsOK

(***************************************************************************)
(* The beginning of a text is one of the beginnings, or there is none.     *)
(***************************************************************************)
LEMMA BeginningTyped ==
    ASSUME RetrievalTypeOK, NEW p \in Pages
    PROVE  Beginning(p) \in Beginnings \cup {None}
  BY DEF RetrievalTypeOK, Beginning, There, Beginnings

(***************************************************************************)
(* A selection: every page of it has a text to be sent, without a mark.    *)
(***************************************************************************)
LEMMA SelectKeeps ==
    ASSUME RunsOK, NEW r \in Scripts, NEW chosen \in SUBSET Pages,
           NEW size \in BatchSizes, Select(r, chosen, size)
    PROVE  RunsOK'
<1> DEFINE run == [at |-> "selected", chosen |-> chosen, size |-> size,
                   work |-> <<>>, pending |-> {}, answered |-> {},
                   done |-> {}, failed |-> {}, skipped |-> {}, moved |-> {},
                   overwritten |-> {}]
<1>1. \A p \in chosen : Beginning(p) # None /\ Beginning(p) \notin Marked
  BY DEF Select, Candidates, Coverage
<1>2. RunOK(run)
  BY <1>1 DEF RunOK, Runs, Works, ShapeOK, AsChosen, Accounted, DoneIsFresh
<1> HIDE DEF run
<1>3. Step(r, run) /\ UNCHANGED <<pages, stored>>
  BY DEF Select, run
<1> QED
  BY <1>2, <1>3, StepKeeps

(***************************************************************************)
(* The pages are read again.                                               *)
(***************************************************************************)
LEMMA ReadKeeps ==
    ASSUME RetrievalTypeOK, RunsOK, NEW r \in Scripts, Read(r)
    PROVE  RunsOK'
<1> DEFINE work == [p \in script[r].chosen |-> Beginning(p)]
           run == [script[r] EXCEPT !.at = "read", !.work = work]
<1>1. script[r] # None /\ script[r].at = "selected" /\ RunOK(script[r])
  BY DEF Read, Stage, RunsOK
<1>2. /\ script[r].chosen \in SUBSET Pages
      /\ work \in [script[r].chosen -> Beginnings \cup {None}]
  BY <1>1, BeginningTyped DEF RunOK, Runs
<1>3. work \in Works
  BY <1>2 DEF Works
<1>4. RunOK(run)
  <2>1. run \in Runs
    BY <1>1, <1>3 DEF RunOK, Runs
  <2>2. ShapeOK(run)
    <3>1. /\ run.at = "read" /\ run.work = work /\ run.chosen = script[r].chosen
          /\ run.done = {} /\ run.pending = {} /\ run.answered = {}
      BY <1>1 DEF RunOK, Runs, ShapeOK
    <3> QED
      BY <1>2, <3>1 DEF ShapeOK
  <2>3. AsChosen(run)
    BY <1>1 DEF RunOK, Runs, AsChosen
  <2>4. Accounted(run) /\ DoneIsFresh(run)
    BY <1>1 DEF RunOK, Runs, ShapeOK, Accounted, DoneIsFresh
  <2> QED
    BY <2>1, <2>2, <2>3, <2>4 DEF RunOK
<1> HIDE DEF run, work
<1>5. Step(r, run) \/ Step(r, None)
  BY DEF Read, run, work
<1> QED
  BY <1>4, <1>5, StepKeeps DEF Read

(***************************************************************************)
(* What is empty is skipped, what is fresh is reused, the rest is to do.   *)
(***************************************************************************)
LEMMA ClassifyKeeps ==
    ASSUME RunsOK, NEW r \in Scripts, Classify(r)
    PROVE  RunsOK'
<1> DEFINE w == script[r].work
           empty == {p \in DOMAIN w : w[p] = None}
           reused == {p \in DOMAIN w \ empty : FreshFor(p, w[p])}
           run == [script[r] EXCEPT !.at = "embed", !.skipped = empty, !.done = reused,
                                    !.pending = DOMAIN w \ (empty \cup reused)]
<1>1. script[r] # None /\ script[r].at = "read" /\ RunOK(script[r])
  BY DEF Classify, Stage, RunsOK
<1>2. DOMAIN w = script[r].chosen /\ script[r].chosen \subseteq Pages
  BY <1>1 DEF RunOK, Runs, ShapeOK
<1>3. run \in Runs
  BY <1>1, <1>2 DEF RunOK, Runs
<1>4. ShapeOK(run) /\ AsChosen(run) /\ Accounted(run) /\ DoneIsFresh(run)
  BY <1>1, <1>2 DEF RunOK, Runs, ShapeOK, AsChosen, Accounted, DoneIsFresh
<1>5. RunOK(run)
  BY <1>3, <1>4 DEF RunOK
<1>6. Step(r, run) /\ UNCHANGED <<pages, stored>>
  BY DEF Classify
<1> QED
  BY <1>5, <1>6, StepKeeps

(***************************************************************************)
(* A batch is answered or fails, or the provider is gone.                  *)
(***************************************************************************)
LEMMA EmbedKeeps ==
    ASSUME RunsOK, NEW r \in Scripts, Answered(r) \/ BatchFails(r) \/ Unavailable(r)
    PROVE  RunsOK'
<1>1. script[r] # None /\ script[r].at = "embed" /\ RunOK(script[r])
  BY DEF Answered, BatchFails, Unavailable, Stage, RunsOK
<1>2. Batch(r) \subseteq script[r].pending /\ AfterBatch(r) = script[r].pending \ Batch(r)
  BY DEF Batch, AfterBatch
<1>3. CASE Answered(r)
  <2> DEFINE run == [script[r] EXCEPT !.at = "persist", !.answered = Batch(r),
                                      !.pending = AfterBatch(r)]
  <2>1. RunOK(run)
    BY <1>1, <1>2 DEF RunOK, Runs, ShapeOK, AsChosen, Accounted, DoneIsFresh
  <2>2. Step(r, run) /\ UNCHANGED <<pages, stored>>
    BY <1>3 DEF Answered
  <2> QED
    BY <2>1, <2>2, StepKeeps
<1>4. CASE BatchFails(r)
  <2> DEFINE run == [script[r] EXCEPT !.failed = @ \cup Batch(r), !.pending = AfterBatch(r)]
  <2>1. RunOK(run)
    <3>1. /\ run \in Runs /\ run.at = "embed" /\ run.chosen = script[r].chosen
          /\ run.work = script[r].work /\ run.pending = AfterBatch(r)
          /\ run.answered = script[r].answered /\ run.done = script[r].done
          /\ run.failed = script[r].failed \cup Batch(r)
          /\ run.skipped = script[r].skipped /\ run.moved = script[r].moved
          /\ run.overwritten = script[r].overwritten
      BY <1>1, <1>2 DEF RunOK, Runs
    <3> HIDE DEF run
    <3> QED
      BY <1>1, <1>2, <3>1 DEF RunOK, ShapeOK, AsChosen, Accounted, DoneIsFresh
  <2>2. Step(r, run) /\ UNCHANGED <<pages, stored>>
    BY <1>4 DEF BatchFails
  <2> QED
    BY <2>1, <2>2, StepKeeps
<1>5. CASE Unavailable(r)
  <2> DEFINE run == [script[r] EXCEPT !.failed = @ \cup script[r].pending, !.pending = {}]
  <2>1. RunOK(run)
    BY <1>1 DEF RunOK, Runs, ShapeOK, AsChosen, Accounted, DoneIsFresh
  <2>2. Step(r, run) /\ UNCHANGED <<pages, stored>>
    BY <1>5 DEF Unavailable
  <2> QED
    BY <2>1, <2>2, StepKeeps
<1> QED
  BY <1>3, <1>4, <1>5

(***************************************************************************)
(* What is left of the answer once page p is done with.                    *)
(***************************************************************************)
LEMMA PersistedTyped ==
    ASSUME RunsOK, NEW r \in Scripts, NEW p \in Pages, Persisting(r, p)
    PROVE  /\ script[r] # None /\ RunOK(script[r]) /\ script[r].at = "persist"
           /\ p \in script[r].answered /\ p \in script[r].chosen
           /\ script[r].work[p] \in Beginnings
           /\ Persisted(r, p) \in Runs /\ ShapeOK(Persisted(r, p))
           /\ AsChosen(Persisted(r, p)) /\ DoneIsFresh(Persisted(r, p))
<1>1. /\ script[r] # None /\ RunOK(script[r]) /\ script[r].at = "persist"
      /\ p \in script[r].answered
  BY DEF Persisting, Stage, RunsOK
<1>2. p \in script[r].chosen /\ script[r].work[p] \in Beginnings
  BY <1>1 DEF RunOK, ShapeOK
<1>3. Persisted(r, p) \in Runs /\ ShapeOK(Persisted(r, p))
  BY <1>1 DEF RunOK, Runs, ShapeOK, Persisted
<1>4. AsChosen(Persisted(r, p)) /\ DoneIsFresh(Persisted(r, p))
  BY <1>1 DEF RunOK, Runs, AsChosen, DoneIsFresh, Persisted
<1> QED
  BY <1>1, <1>2, <1>3, <1>4

(***************************************************************************)
(* A vector that is no use.                                                *)
(***************************************************************************)
LEMMA RefuseKeeps ==
    ASSUME RunsOK, NEW r \in Scripts, NEW p \in Pages, Refuse(r, p)
    PROVE  RunsOK'
<1> DEFINE run == [Persisted(r, p) EXCEPT !.failed = @ \cup {p}]
<1>1. Persisting(r, p) /\ Step(r, run) /\ UNCHANGED <<pages, stored>>
  BY DEF Refuse
<1>2. run \in Runs /\ ShapeOK(run) /\ AsChosen(run) /\ DoneIsFresh(run)
  BY <1>1, PersistedTyped DEF Runs, ShapeOK, AsChosen, DoneIsFresh
<1>3. Accounted(run)
  <2>1. /\ RunOK(script[r]) /\ script[r].at = "persist" /\ Persisted(r, p) \in Runs
    BY <1>1, PersistedTyped
  <2>2. /\ run.at \in {"embed", "persist"} /\ run.chosen = script[r].chosen
        /\ run.done = script[r].done /\ run.failed = script[r].failed \cup {p}
        /\ run.skipped = script[r].skipped /\ run.pending = script[r].pending
        /\ run.answered = script[r].answered \ {p}
    BY <2>1 DEF RunOK, Runs, Persisted
  <2> HIDE DEF run
  <2> QED
    BY <2>1, <2>2 DEF RunOK, Accounted
<1> QED
  BY <1>1, <1>2, <1>3, StepKeeps DEF RunOK

(***************************************************************************)
(* A run that ends, or breaks off.                                         *)
(***************************************************************************)
LEMMA EndKeeps ==
    ASSUME RunsOK, NEW r \in Scripts, End(r) \/ \E p \in Pages : StoreFails(r, p)
    PROVE  RunsOK'
<1>1. Step(r, None) /\ UNCHANGED <<pages, stored>>
  BY DEF End, StoreFails
<1> QED
  BY <1>1, StepKeeps

(***************************************************************************)
(* A vector is stored: fresh if nobody changed the page since it was       *)
(* chosen, and noted by every other run that chose the page.               *)
(***************************************************************************)
LEMMA StoreKeeps ==
    ASSUME RetrievalTypeOK, RunsOK, NEW r \in Scripts, NEW p \in Pages, Store(r, p)
    PROVE  RunsOK' /\ stored' \in [Pages -> Rows \cup {None}]
<1>0. PICK mine : mine = [Persisted(r, p) EXCEPT !.done = @ \cup {p}]
  OBVIOUS
<1>1. Persisting(r, p) /\ UNCHANGED pages /\ stored' = [stored EXCEPT ![p] = Row(r, p)]
  BY DEF Store
<1>2. /\ script[r] # None /\ RunOK(script[r]) /\ script[r].at = "persist"
      /\ p \in script[r].answered /\ p \in script[r].chosen
      /\ script[r].work[p] \in Beginnings
      /\ Persisted(r, p) \in Runs /\ ShapeOK(Persisted(r, p))
      /\ AsChosen(Persisted(r, p)) /\ DoneIsFresh(Persisted(r, p))
  BY <1>1, PersistedTyped
<1>3. Row(r, p) \in Rows /\ Row(r, p).sha = script[r].work[p]
  BY <1>2 DEF Row, VectorOf, Rows
<1>4. /\ \A q \in Pages : q # p => stored'[q] = stored[q]
      /\ stored'[p] # None /\ stored'[p].sha = script[r].work[p]
      /\ stored' \in [Pages -> Rows \cup {None}]
  BY <1>1, <1>3 DEF RetrievalTypeOK
<1>5. \A x : AsChosen(x) => AsChosen(x)'
  BY <1>1 DEF AsChosen, Beginning, There
<1>6. RunOK(mine)'
  <2>1. /\ mine \in Runs /\ mine.at = Persisted(r, p).at
        /\ mine.at \in {"embed", "persist"}
        /\ mine.chosen = script[r].chosen /\ mine.work = script[r].work
        /\ mine.pending = script[r].pending
        /\ mine.answered = script[r].answered \ {p}
        /\ mine.done = script[r].done \cup {p} /\ mine.failed = script[r].failed
        /\ mine.skipped = script[r].skipped /\ mine.moved = script[r].moved
        /\ mine.overwritten = script[r].overwritten
        /\ mine.at = "embed" => mine.answered = {}
    BY <1>0, <1>2 DEF RunOK, Runs, Persisted
  <2>2. ShapeOK(mine) /\ AsChosen(mine) /\ Accounted(mine)
    BY <1>2, <2>1 DEF RunOK, ShapeOK, AsChosen, Accounted
  <2>3. DoneIsFresh(mine)'
    BY <1>2, <1>4, <2>1 DEF RunOK, Runs, DoneIsFresh, FreshFor
  <2> QED
    BY <1>5, <2>1, <2>2, <2>3 DEF RunOK, ShapeOK, Accounted
<1>7. ASSUME NEW x, RunOK(x), p \notin x.chosen
      PROVE  RunOK(x)'
  <2>1. DoneIsFresh(x)'
    BY <1>4, <1>7 DEF RunOK, Runs, ShapeOK, DoneIsFresh, FreshFor
  <2> QED
    BY <1>5, <1>7, <2>1 DEF RunOK, ShapeOK, Accounted
<1>8. ASSUME NEW x, RunOK(x), p \in x.chosen
      PROVE  RunOK([x EXCEPT !.overwritten = @ \cup {p}])'
  <2> DEFINE y == [x EXCEPT !.overwritten = @ \cup {p}]
  <2>1. /\ y \in Runs /\ y.at = x.at /\ y.chosen = x.chosen /\ y.work = x.work
        /\ y.pending = x.pending /\ y.answered = x.answered /\ y.done = x.done
        /\ y.failed = x.failed /\ y.skipped = x.skipped /\ y.moved = x.moved
        /\ y.overwritten = x.overwritten \cup {p}
    BY <1>8 DEF RunOK, Runs
  <2> HIDE DEF y
  <2>2. ShapeOK(y) /\ AsChosen(y) /\ Accounted(y)
    BY <1>8, <2>1 DEF RunOK, ShapeOK, AsChosen, Accounted
  <2>3. DoneIsFresh(y)'
    BY <1>4, <1>8, <2>1 DEF RunOK, Runs, DoneIsFresh, FreshFor
  <2>4. RunOK(y)'
    BY <1>5, <2>1, <2>2, <2>3 DEF RunOK, ShapeOK, Accounted
  <2> QED
    BY <2>4 DEF y
<1>9. script' = [q \in Scripts |->
          IF q = r THEN mine
          ELSE IF q \in ChosenBy(p) THEN [script[q] EXCEPT !.overwritten = @ \cup {p}]
          ELSE script[q]]
  BY <1>0 DEF Store
<1>10. ASSUME NEW q \in Scripts, script'[q] # None PROVE RunOK(script[q])'
  <2>1. CASE q = r
    BY <1>6, <1>9, <2>1
  <2>2. CASE q # r /\ q \in ChosenBy(p)
    BY <1>8, <1>9, <2>2 DEF ChosenBy, RunsOK
  <2>3. CASE q # r /\ q \notin ChosenBy(p)
    BY <1>7, <1>9, <1>10, <2>3 DEF ChosenBy, RunsOK
  <2> QED
    BY <2>1, <2>2, <2>3
<1> QED
  BY <1>4, <1>9, <1>10 DEF RunsOK

(***************************************************************************)
(* A change of a page by others: every run that chose it has it in moved.  *)
(***************************************************************************)
LEMMA SeenKeeps ==
    ASSUME RunsOK, NEW p \in Pages, Seen(p),
           \A q \in Pages \ {p} : pages'[q] = pages[q] /\ stored'[q] = stored[q]
    PROVE  RunsOK'
<1>1. script' = [r \in Scripts |-> IF r \in ChosenBy(p)
                                   THEN [script[r] EXCEPT !.moved = @ \cup {p}]
                                   ELSE script[r]]
  BY DEF Seen
<1>2. ASSUME NEW x, RunOK(x), p \notin x.chosen
      PROVE  RunOK(x)'
  <2>1. AsChosen(x)' /\ DoneIsFresh(x)'
    BY <1>2 DEF RunOK, Runs, ShapeOK, AsChosen, DoneIsFresh, FreshFor, Beginning, There
  <2> QED
    BY <1>2, <2>1 DEF RunOK, ShapeOK, Accounted
<1>3. ASSUME NEW x, RunOK(x), p \in x.chosen
      PROVE  RunOK([x EXCEPT !.moved = @ \cup {p}])'
  <2> DEFINE y == [x EXCEPT !.moved = @ \cup {p}]
  <2>1. /\ y \in Runs /\ y.at = x.at /\ y.chosen = x.chosen /\ y.work = x.work
        /\ y.pending = x.pending /\ y.answered = x.answered /\ y.done = x.done
        /\ y.failed = x.failed /\ y.skipped = x.skipped
        /\ y.moved = x.moved \cup {p} /\ y.overwritten = x.overwritten
        /\ y.chosen \subseteq Pages /\ y.done \subseteq Pages
    BY <1>3 DEF RunOK, Runs
  <2> HIDE DEF y
  <2>2. ShapeOK(y) /\ Accounted(y)
    BY <1>3, <2>1 DEF RunOK, ShapeOK, Accounted
  <2>3. AsChosen(y)'
    BY <1>3, <2>1 DEF RunOK, AsChosen, Beginning, There
  <2>4. DoneIsFresh(y)'
    BY <1>3, <2>1 DEF RunOK, DoneIsFresh, FreshFor
  <2>5. RunOK(y)'
    BY <2>1, <2>2, <2>3, <2>4 DEF RunOK, ShapeOK, Accounted
  <2> QED
    BY <2>5 DEF y
<1>4. ASSUME NEW r \in Scripts, script'[r] # None PROVE RunOK(script[r])'
  <2>1. CASE r \in ChosenBy(p)
    BY <1>1, <1>3, <2>1 DEF ChosenBy, RunsOK
  <2>2. CASE r \notin ChosenBy(p)
    BY <1>1, <1>2, <1>4, <2>2 DEF ChosenBy, RunsOK
  <2> QED
    BY <2>1, <2>2
<1> QED
  BY <1>1, <1>4 DEF RunsOK

(***************************************************************************)
(* Every step of the library keeps its part of the invariant, whatever the *)
(* session does.                                                           *)
(***************************************************************************)
LEMMA LibraryKeeps ==
    ASSUME RetrievalTypeOK, RunsOK, Library
    PROVE  RetrievalTypeOK' /\ RunsOK'
<1>1. ASSUME NEW r \in Scripts, NEW p \in Pages, Store(r, p)
      PROVE  RetrievalTypeOK' /\ RunsOK'
  BY <1>1, StoreKeeps DEF RetrievalTypeOK, Store
<1>2. ASSUME NEW r \in Scripts, Index(r), ~ \E p \in Pages : Store(r, p)
      PROVE  RetrievalTypeOK' /\ RunsOK'
  <2>1. UNCHANGED <<pages, stored, changes>> /\ (UNCHANGED runs \/ (runs < MaxRuns /\ runs' = runs + 1))
    BY <1>2 DEF Index, Select, Read, Classify, Answered, BatchFails, Unavailable, Refuse,
                StoreFails, End
  <2>3. RetrievalTypeOK'
    BY <2>1 DEF RetrievalTypeOK
  <2>2. RunsOK'
    BY <1>2, SelectKeeps, ReadKeeps, ClassifyKeeps, EmbedKeeps, RefuseKeeps, EndKeeps
    DEF Index
  <2> QED
    BY <2>2, <2>3
<1>3. ASSUME NEW p \in Pages, NEW t \in Texts, ChangePage(p, t)
      PROVE  RetrievalTypeOK' /\ RunsOK'
  <2>1. /\ Seen(p) /\ changes < MaxChanges /\ changes' = changes + 1
        /\ pages' = [pages EXCEPT ![p] = t] /\ UNCHANGED <<stored, runs>>
    BY <1>3 DEF ChangePage, Seen
  <2>2. RetrievalTypeOK'
    BY <2>1 DEF RetrievalTypeOK
  <2>3. \A q \in Pages \ {p} : pages'[q] = pages[q] /\ stored'[q] = stored[q]
    BY <2>1 DEF RetrievalTypeOK
  <2> QED
    BY <2>1, <2>2, <2>3, SeenKeeps
<1>4. ASSUME NEW p \in Pages, DeleteDocument(p)
      PROVE  RetrievalTypeOK' /\ RunsOK'
  <2>1. /\ Seen(p) /\ changes < MaxChanges /\ changes' = changes + 1
        /\ pages' = [pages EXCEPT ![p] = None] /\ stored' = [stored EXCEPT ![p] = None]
        /\ UNCHANGED runs
    BY <1>4 DEF DeleteDocument, Seen
  <2>2. RetrievalTypeOK'
    BY <2>1 DEF RetrievalTypeOK
  <2>3. \A q \in Pages \ {p} : pages'[q] = pages[q] /\ stored'[q] = stored[q]
    BY <2>1 DEF RetrievalTypeOK
  <2> QED
    BY <2>1, <2>2, <2>3, SeenKeeps
<1> QED
  BY <1>1, <1>2, <1>3, <1>4 DEF Library, Index

(***************************************************************************)
(* What does not touch the library keeps its part.                         *)
(***************************************************************************)
LEMMA LibraryStays ==
    ASSUME RetrievalTypeOK, RunsOK, UNCHANGED library
    PROVE  RetrievalTypeOK' /\ RunsOK'
<1>1. \A x : RunOK(x) => RunOK(x)'
  BY DEF RunOK, AsChosen, DoneIsFresh, Beginning, There, FreshFor, ShapeOK, Accounted,
         library
<1> QED
  BY <1>1 DEF RetrievalTypeOK, RunsOK, library

-----------------------------------------------------------------------------
(* The session.                                                            *)

(***************************************************************************)
(* A step that leaves the session alone.                                   *)
(***************************************************************************)
LEMMA SessionStays ==
    ASSUME SessionOK, UNCHANGED session
    PROVE  SessionOK'
  BY DEF SessionOK, SessionTypeOK, StateOK, ResultsOK, ShownOK, session, Projection

(***************************************************************************)
(* What a search depends on.                                               *)
(***************************************************************************)
LEMMA ProjectionTyped ==
    ASSUME NEW s \in States
    PROVE  Projection(s) \in Projections /\ Projection(s).scope = s.scope
           /\ Projection(s) # None /\ s # None /\ s.scope \in {"page", "knowledge"}
  BY DEF Projection, Projections, States

(***************************************************************************)
(* A search for state s, which becomes the state of the session: its       *)
(* results are those of s, or the session knows why not.                   *)
(***************************************************************************)
LEMMA SearchKeeps ==
    ASSUME SessionOK, NEW s \in States, NEW next \in {"idle", "load"},
           SearchWith(s, next),
           active' = s, signature' = s, url' = s, previous' \in States \cup {None},
           actions' \in 0 .. MaxActions
    PROVE  SessionOK' /\ UNCHANGED library
<1> DEFINE of == Projection(s)
<1>1. /\ of \in Projections /\ of.scope = s.scope /\ of # None /\ s # None
      /\ s.scope \in {"page", "knowledge"}
  BY ProjectionTyped
<1> HIDE DEF of
<1>2. CASE ~IsPaid(s) /\ SearchFree(s) /\ phase' = next /\ UNCHANGED library
  <2>1. executed' = of /\ strayed' = "" /\ UNCHANGED search
    BY <1>2 DEF SearchFree, of
  <2>2. /\ note' \in {"", "gate", "degraded", "restored"}
        /\ \E found, meant : shown' = [shown EXCEPT
              ![s.scope] = [of |-> of, found |-> found, meant |-> meant]]
        /\ weak' \in BOOLEAN
    BY <1>2 DEF SearchFree, ShowsKeywordResults, Shows, GateNote, of, SessionOK, SessionTypeOK
  <2>3. DOMAIN shown' = {"page", "knowledge"} /\ shown'[s.scope].of = of
    <3>1. PICK found, meant : shown' = [shown EXCEPT
              ![s.scope] = [of |-> of, found |-> found, meant |-> meant]]
      BY <2>2
    <3>2. DOMAIN shown = {"page", "knowledge"} /\ s.scope \in DOMAIN shown
      BY <1>1 DEF SessionOK, ResultsOK
    <3> QED
      BY <3>1, <3>2
  <2>4. Projection(active)' = of
    BY DEF of, Projection
  <2> QED
    BY <1>1, <1>2, <2>1, <2>2, <2>3, <2>4
    DEF SessionOK, SessionTypeOK, StateOK, ResultsOK, ShownOK
<1>3. CASE IsPaid(s) /\ BeginSearch(s.query) /\ phase' = "search"
           /\ UNCHANGED <<executed, shown, note, weak, strayed>>
  <2>1. UNCHANGED library
    BY <1>3 DEF BeginSearch
  <2>2. s.scope = "page" /\ s.mode = "hybrid"
    BY <1>3 DEF IsPaid, HybridIsAllowed
  <2> QED
    BY <1>1, <1>3, <2>1, <2>2 DEF SessionOK, SessionTypeOK, StateOK, ResultsOK, ShownOK
<1>4. CASE SearchRaises(s) /\ phase' = next /\ UNCHANGED library
  <2>1. DOMAIN shown' = {"page", "knowledge"}
    BY <1>4 DEF SearchRaises, Shows, SessionOK, ResultsOK
  <2> QED
    BY <1>1, <1>4, <2>1
    DEF SearchRaises, SessionOK, SessionTypeOK, StateOK, ResultsOK, ShownOK
<1> QED
  BY <1>2, <1>3, <1>4 DEF SearchWith

(***************************************************************************)
(* What is read from the URL is a state.                                   *)
(***************************************************************************)
LEMMA ParsedTyped ==
    ASSUME NEW u \in States
    PROVE  Parsed(u) \in States /\ Sanitized(u) \in States
<1>1. Reads[u.query] \in Queries
  BY QueryAssumption DEF States
<1> QED
  BY <1>1 DEF Parsed, Sanitized, States, There

(***************************************************************************)
(* The script from its beginning: a state from the URL has either been     *)
(* executed, is searched for free, or waits for a click.                   *)
(***************************************************************************)
LEMMA LoadKeeps ==
    ASSUME SessionOK, Load
    PROVE  SessionOK' /\ UNCHANGED library
<1>1. CASE Restore
  <2> DEFINE s == Sanitized(Parsed(url))
  <2>1. url \in States /\ url # None
    BY <1>1 DEF Restore, SessionOK, SessionTypeOK
  <2>2. s \in States
    BY <2>1, ParsedTyped
  <2>3. /\ active' = s /\ signature' = s /\ url' = s
        /\ UNCHANGED <<previous, actions>> /\ phase = "load"
    BY <1>1 DEF Restore
  <2>4. previous' \in States \cup {None} /\ actions' \in 0 .. MaxActions
    BY <2>3 DEF SessionOK, SessionTypeOK
  <2>5. \/ /\ Executed(s) /\ phase' = "idle"
           /\ UNCHANGED <<library, search, executed, shown, note, weak, strayed>>
        \/ AutoExecuteAllowed(s) /\ SearchWith(s, "idle")
        \/ /\ note' = "restored" /\ strayed' = "restored" /\ phase' = "idle"
           /\ UNCHANGED <<library, search, executed, shown, weak>>
    BY <1>1 DEF Restore
  <2>6. /\ Projection(s) \in Projections /\ Projection(s).scope = s.scope
        /\ Projection(s) # None /\ s # None
    BY <2>2, ProjectionTyped
  <2> HIDE DEF s
  <2>7. CASE Executed(s) /\ phase' = "idle"
             /\ UNCHANGED <<library, search, executed, shown, note, weak, strayed>>
    <3>1. executed # None /\ Projection(active)' = executed
      BY <2>3, <2>6, <2>7 DEF Executed, Projection
    <3> QED
      BY <2>2, <2>3, <2>4, <2>6, <2>7, <3>1
      DEF SessionOK, SessionTypeOK, StateOK, ResultsOK, ShownOK
  <2>8. CASE SearchWith(s, "idle")
    BY <2>2, <2>3, <2>4, <2>8, SearchKeeps
  <2>9. CASE note' = "restored" /\ strayed' = "restored" /\ phase' = "idle"
             /\ UNCHANGED <<library, search, executed, shown, weak>>
    BY <2>2, <2>3, <2>4, <2>6, <2>9
    DEF SessionOK, SessionTypeOK, StateOK, ResultsOK, ShownOK
  <2> QED
    BY <2>5, <2>7, <2>8, <2>9
<1>2. CASE Start
  <2>1. Default \in States /\ Default # None
    <3>1. Default \in States
      BY QueryAssumption DEF Default, States
    <3> QED
      BY <3>1
  <2>2. Projection(active)' = Projection(Default)
    BY <1>2 DEF Start, Projection
  <2> QED
    BY <1>2, <2>1, <2>2
    DEF Start, SessionOK, SessionTypeOK, StateOK, ResultsOK, ShownOK
<1>3. CASE GoOn
  <2>1. active # None
    <3>1. CASE url = None
      BY <1>3, <3>1 DEF GoOn
    <3>2. CASE url # None
      <4>1. url \in States
        BY <3>2 DEF SessionOK, SessionTypeOK
      <4>2. Sanitized(Parsed(url)) \in States
        BY <4>1, ParsedTyped
      <4> QED
        BY <1>3, <3>2, <4>2 DEF GoOn, SessionOK, StateOK
    <3> QED
      BY <3>1, <3>2
  <2>2. UNCHANGED <<library, search, place, executed, shown, note, weak, strayed, actions>>
        /\ phase = "load" /\ phase' = "idle"
    BY <1>3 DEF GoOn
  <2> QED
    BY <2>1, <2>2 DEF place, SessionOK, SessionTypeOK, StateOK, ResultsOK, ShownOK,
                      Projection
<1> QED
  BY <1>1, <1>2, <1>3 DEF Load

(***************************************************************************)
(* What the user does is counted.                                          *)
(***************************************************************************)
LEMMA ActsCounted ==
    ASSUME SessionOK, Acts
    PROVE  actions' \in 0 .. MaxActions
<1>1. actions \in 0 .. MaxActions
  BY DEF SessionOK, SessionTypeOK
<1> QED
  BY <1>1, ActionAssumption DEF Acts

(***************************************************************************)
(* A click that searches.                                                  *)
(***************************************************************************)
LEMMA AskKeeps ==
    ASSUME SessionOK, NEW s \in States, NEW remember, Ask(s, remember)
    PROVE  SessionOK' /\ UNCHANGED library
<1>1. /\ active' = s /\ signature' = s /\ url' = s
      /\ previous' \in {active, previous}
      /\ SearchWith(s, "load")
  BY DEF Ask, Activate
<1>2. previous' \in States \cup {None}
  BY <1>1 DEF SessionOK, SessionTypeOK
<1>3. actions' \in 0 .. MaxActions
  BY ActsCounted DEF Ask
<1> QED
  BY <1>1, <1>2, <1>3, SearchKeeps

(***************************************************************************)
(* A page that is idle has a state.                                        *)
(***************************************************************************)
LEMMA IdleState ==
    ASSUME SessionOK, phase = "idle"
    PROVE  active \in States /\ active # None
  BY DEF SessionOK, StateOK, SessionTypeOK

(***************************************************************************)
(* What the user does: most of it searches, the rest keeps the results or  *)
(* drops them, or notes that they are others.                              *)
(***************************************************************************)
LEMMA AskingKeeps ==
    ASSUME SessionOK,
           \/ \E q \in Queries, mode \in {"keyword", "hybrid"}, filtered \in BOOLEAN,
                 sort \in {"relevance", "other"} : Apply(q, mode, filtered, sort)
           \/ \E q \in Queries : ClearFilters(q) \/ SearchKnowledge(q)
           \/ \E filtered \in BOOLEAN, sort \in {"relevance", "other"} :
                 Shortcut(filtered, sort)
           \/ Undo \/ TogglePanel
    PROVE  SessionOK' /\ UNCHANGED library
<1>1. phase = "idle"
  BY DEF Apply, ClearFilters, SearchKnowledge, Shortcut, Undo, TogglePanel, On
<1>2. active \in States
  BY <1>1, IdleState
<1>3. ASSUME NEW q \in Queries, NEW mode \in {"keyword", "hybrid"}, NEW filtered \in BOOLEAN,
             NEW sort \in {"relevance", "other"}, Apply(q, mode, filtered, sort)
      PROVE  SessionOK' /\ UNCHANGED library
  <2>1. PICK view \in {1, 2} :
            Ask([active EXCEPT !.query = q, !.mode = mode, !.filtered = filtered,
                               !.sort = sort, !.view = view], TRUE)
    BY <1>2, <1>3 DEF Apply, States
  <2>2. [active EXCEPT !.query = q, !.mode = mode, !.filtered = filtered,
                       !.sort = sort, !.view = view] \in States
    BY <1>2 DEF States
  <2> QED
    BY <2>1, <2>2, AskKeeps
<1>4. ASSUME NEW q \in Queries, ClearFilters(q)
      PROVE  SessionOK' /\ UNCHANGED library
  <2>1. [active EXCEPT !.query = q, !.filtered = FALSE, !.view = 1] \in States
    BY <1>2 DEF States
  <2> QED
    BY <1>4, <2>1, AskKeeps DEF ClearFilters
<1>5. ASSUME NEW q \in Queries, SearchKnowledge(q)
      PROVE  SessionOK' /\ UNCHANGED library
  <2>1. [Default EXCEPT !.query = q, !.scope = "knowledge"] \in States
    BY QueryAssumption DEF States, Default
  <2> QED
    BY <1>5, <2>1, AskKeeps DEF SearchKnowledge
<1>6. ASSUME NEW filtered \in BOOLEAN, NEW sort \in {"relevance", "other"},
             Shortcut(filtered, sort)
      PROVE  SessionOK' /\ UNCHANGED library
  <2>1. PICK s \in States : Ask(s, TRUE)
    <3>1. [active EXCEPT !.filtered = (@ \/ filtered), !.view = 1,
                         !.sort = IF sort = "other" THEN sort ELSE @] \in States
      BY <1>2 DEF States
    <3> QED
      BY <1>6, <3>1 DEF Shortcut
  <2> QED
    BY <2>1, AskKeeps
<1>7. CASE Undo
  <2>1. previous \in States
    BY <1>7 DEF Undo, SessionOK, SessionTypeOK
  <2> QED
    BY <1>7, <2>1, AskKeeps DEF Undo
<1>8. CASE TogglePanel
  <2>1. [active EXCEPT !.open = ~@] \in States
    BY <1>2 DEF States
  <2> QED
    BY <1>8, <2>1, AskKeeps DEF TogglePanel
<1> QED
  BY <1>3, <1>4, <1>5, <1>6, <1>7, <1>8

(***************************************************************************)
(* A click that does not search, a link, or the way back.                  *)
(***************************************************************************)
LEMMA ShowingKeeps ==
    ASSUME SessionOK,
           \/ Refresh \/ ComeBack
           \/ \E view \in {1, 2} : Turn(view)
           \/ \E scope \in {"page", "knowledge"} : SwitchScope(scope)
           \/ \E link \in Links : Open(link) \/ Return(link)
    PROVE  SessionOK' /\ UNCHANGED library
<1>0. Acts
  BY DEF Refresh, ComeBack, Turn, SwitchScope, Open, Return
<1>1. /\ phase = "idle" /\ actions' \in 0 .. MaxActions
      /\ UNCHANGED library /\ UNCHANGED search /\ phase' = "load"
  BY <1>0, ActsCounted DEF Refresh, ComeBack, Turn, SwitchScope, Open, Return, Acts
<1>2. active \in States /\ active # None
  BY <1>1, IdleState
<1>3. CASE Refresh
  <2>1. executed # None \/ strayed # ""
    <3>1. NothingShown.page.found = {}
      BY DEF NothingShown, Nothing
    <3> QED
      BY <1>3, <3>1 DEF Refresh, SessionOK, ResultsOK
  <2>2. UNCHANGED <<place, executed, strayed>> /\ active.scope = "page"
    BY <1>3 DEF Refresh, On
  <2>3. \/ UNCHANGED <<shown, note, weak>>
        \/ \E found, meant :
              /\ Shows("page", Projection(active), found, meant)
              /\ note' = GateNote(active) /\ weak' = FALSE
    BY <1>3 DEF Refresh, ShowsKeywordResults
  <2>4. note' \in {"", "gate", "degraded", "restored"} /\ weak' \in BOOLEAN
    BY <2>3 DEF GateNote, SessionOK, SessionTypeOK
  <2>5. DOMAIN shown = {"page", "knowledge"}
    BY DEF SessionOK, ResultsOK
  <2>6. DOMAIN shown' = {"page", "knowledge"}
    BY <2>3, <2>5 DEF Shows
  <2>7. executed # None /\ strayed = "" => shown'[executed.scope].of = executed
    <3> SUFFICES ASSUME executed # None, strayed = "" PROVE shown'[executed.scope].of = executed
      OBVIOUS
    <3>1. shown[executed.scope].of = executed /\ Projection(active) = executed
      BY <1>1, <1>2 DEF SessionOK, ShownOK
    <3>2. executed.scope = "page"
      BY <1>2, <2>2, <3>1, ProjectionTyped
    <3>3. CASE UNCHANGED shown
      BY <3>1, <3>3
    <3>4. CASE \E found, meant : Shows("page", Projection(active), found, meant)
      <4>1. PICK found, meant :
                shown' = [shown EXCEPT
                    !["page"] = [of |-> executed, found |-> found, meant |-> meant]]
        BY <3>1, <3>4 DEF Shows
      <4> QED
        BY <2>5, <3>2, <4>1
    <3> QED
      BY <2>3, <3>3, <3>4
  <2> QED
    BY <1>1, <1>2, <2>1, <2>2, <2>4, <2>6, <2>7
    DEF place, SessionOK, SessionTypeOK, StateOK, ResultsOK, ShownOK, Projection
<1>4. CASE ComeBack \/ \E link \in Links : Return(link)
  <2>1. \A link \in Links : Parsed(link) \in States
    BY ParsedTyped DEF Links
  <2>2. /\ url' \in States \cup {None}
        /\ UNCHANGED <<search, active, signature, previous, executed, shown, note, weak, strayed>>
    BY <1>4, <2>1 DEF ComeBack, Return
  <2> QED
    BY <1>1, <1>2, <2>2
    DEF SessionOK, SessionTypeOK, StateOK, ResultsOK, ShownOK, Projection
<1>5. ASSUME NEW view \in {1, 2}, Turn(view)
      PROVE  SessionOK'
  <2> DEFINE s == [active EXCEPT !.view = view]
  <2>1. s \in States /\ s # None /\ Projection(s) = Projection(active) /\ s.scope = active.scope
    <3>1. s \in States
      BY <1>2 DEF States
    <3> QED
      BY <1>2, <3>1 DEF States, Projection
  <2>2. /\ active' = s /\ signature' = s /\ url' = s /\ previous' = previous
        /\ UNCHANGED <<executed, shown, note, weak, strayed>>
    BY <1>5 DEF Turn, Activate
  <2>3. Projection(active)' = Projection(active)
    BY <2>1, <2>2 DEF Projection
  <2> QED
    BY <1>1, <1>2, <2>1, <2>2, <2>3
    DEF SessionOK, SessionTypeOK, StateOK, ResultsOK, ShownOK
<1>6. ASSUME NEW scope \in {"page", "knowledge"}, SwitchScope(scope)
      PROVE  SessionOK'
  <2> DEFINE s == [active EXCEPT !.scope = scope, !.view = 1]
  <2>1. s \in States
    BY <1>2 DEF States
  <2>2. /\ active' = s /\ signature' = s /\ url' = s /\ previous' = previous
        /\ strayed' = "switched" /\ UNCHANGED <<executed, shown, note, weak>>
    BY <1>6 DEF SwitchScope, Activate
  <2> HIDE DEF s
  <2>3. s # None
    BY <2>1
  <2> QED
    BY <1>1, <2>1, <2>2, <2>3
    DEF SessionOK, SessionTypeOK, StateOK, ResultsOK, ShownOK
<1>7. ASSUME NEW link \in Links, Open(link)
      PROVE  SessionOK'
  <2>1. link \in States
    BY DEF Links
  <2>2. DOMAIN NothingShown = {"page", "knowledge"}
    BY DEF NothingShown
  <2> QED
    BY <1>1, <1>7, <2>1, <2>2
    DEF Open, SessionOK, SessionTypeOK, StateOK, ResultsOK, ShownOK
<1> QED
  BY <1>1, <1>3, <1>4, <1>5, <1>6, <1>7

(***************************************************************************)
(* The results of a hybrid search are taken over, or it is interrupted.    *)
(***************************************************************************)
LEMMA SearchEnds ==
    ASSUME SessionOK, ShowOutcome \/ Interrupt
    PROVE  SessionOK' /\ UNCHANGED library
<1>1. /\ active \in States /\ active # None /\ active.scope = "page"
      /\ DOMAIN shown = {"page", "knowledge"}
  BY DEF ShowOutcome, Interrupt, SessionOK, SessionTypeOK, StateOK, ResultsOK
<1>2. CASE Interrupt
  BY <1>1, <1>2 DEF Interrupt, place, SessionOK, SessionTypeOK, StateOK, ResultsOK,
                    ShownOK
<1>3. CASE ShowOutcome
  <2>1. PICK found, meant :
            shown' = [shown EXCEPT
                !["page"] = [of |-> Projection(active), found |-> found, meant |-> meant]]
    BY <1>3 DEF ShowOutcome, Shows
  <2>2. DOMAIN shown' = {"page", "knowledge"} /\ shown'["page"].of = Projection(active)
    BY <1>1, <2>1
  <2>3. Projection(active)' = Projection(active)
    BY <1>3 DEF ShowOutcome, place, Projection
  <2>4. /\ executed' = Projection(active) /\ strayed' = "" /\ phase' = "load" /\ search' = None
        /\ UNCHANGED <<library, url, active, signature, previous, actions>>
        /\ note' \in {"", "gate", "degraded", "restored"} /\ weak' \in BOOLEAN
    BY <1>3 DEF ShowOutcome, WeakEvidence, place
  <2>5. /\ Projection(active) \in Projections /\ Projection(active).scope = "page"
        /\ Projection(active) # None
    BY <1>1, ProjectionTyped
  <2> QED
    BY <1>1, <2>2, <2>3, <2>4, <2>5
    DEF SessionOK, SessionTypeOK, StateOK, ResultsOK, ShownOK
<1> QED
  BY <1>2, <1>3

-----------------------------------------------------------------------------
(* The whole.                                                              *)

(***************************************************************************)
(* The beginning: nothing runs, and the page has not been loaded yet.      *)
(***************************************************************************)
LEMMA Starts == Init => IndInv
<1> SUFFICES ASSUME Init PROVE IndInv
  OBVIOUS
<1>1. RetrievalTypeOK
  <2>1. {VectorOf(f) : f \in Beginnings} \subseteq Rows
    BY DEF VectorOf, Rows
  <2>2. stored \in [Pages -> Rows \cup {None}]
    BY <2>1 DEF Init, RetrievalInit
  <2> QED
    BY <2>2 DEF Init, RetrievalInit, RetrievalTypeOK
<1>2. RunsOK
  BY DEF Init, RetrievalInit, RunsOK
<1>3. DOMAIN NothingShown = {"page", "knowledge"}
  BY DEF NothingShown
<1>4. SessionOK
  BY <1>3 DEF Init, RetrievalInit, SessionOK, SessionTypeOK, StateOK, ResultsOK,
              ShownOK
<1> QED
  BY <1>1, <1>2, <1>4 DEF IndInv

(***************************************************************************)
(* Every step keeps the invariant.                                         *)
(***************************************************************************)
LEMMA StepsKeep == IndInv /\ [Next]_vars => IndInv'
<1> SUFFICES ASSUME IndInv, [Next]_vars PROVE IndInv'
  OBVIOUS
<1> USE DEF IndInv
<1>1. CASE User
  BY <1>1, AskingKeeps, ShowingKeeps, LibraryStays DEF User
<1>2. CASE Load
  BY <1>2, LoadKeeps, LibraryStays
<1>3. CASE Recall /\ UNCHANGED session
  <2>1. UNCHANGED library
    BY <1>3 DEF Recall, WithoutVectors, List, Check, Recalled, Fuse, Hydrate
  <2> QED
    BY <1>3, <2>1, LibraryStays, SessionStays
<1>4. CASE ShowOutcome \/ Interrupt
  BY <1>4, SearchEnds, LibraryStays
<1>5. CASE Library /\ UNCHANGED session
  BY <1>5, LibraryKeeps, SessionStays
<1>6. CASE UNCHANGED vars
  <2>1. UNCHANGED library /\ UNCHANGED session /\ UNCHANGED search
    BY <1>6 DEF vars
  <2> QED
    BY <2>1, LibraryStays, SessionStays
<1> QED
  BY <1>1, <1>2, <1>3, <1>4, <1>5, <1>6 DEF Next

(***************************************************************************)
(* The inductive invariant of the index runs and of the session, however   *)
(* they, the searches and the changes of others overlap.                   *)
(***************************************************************************)
THEOREM Invariance == Spec => []IndInv
  BY Starts, StepsKeep, PTL DEF Spec

(***************************************************************************)
(* Rows, states, results and counters have their types.                    *)
(***************************************************************************)
THEOREM Typing == Spec => [](RetrievalTypeOK /\ SessionTypeOK)
<1>1. IndInv => RetrievalTypeOK /\ SessionTypeOK
  BY DEF IndInv, SessionOK
<1> QED
  BY <1>1, Invariance, PTL

(***************************************************************************)
(* The report of a paid run forgets no page that stayed as it was chosen,  *)
(* and what it says is indexed has the fresh vector (page_indexer.py,      *)
(* PageIndexReport).                                                       *)
(***************************************************************************)
THEOREM ReportsAreTrue == Spec => []ReportIsTrue
<1>1. ASSUME IndInv, NEW r \in Scripts, Reported(r),
             NEW p \in script[r].chosen \ script[r].moved
      PROVE  /\ p \in script[r].done \cup script[r].failed \cup script[r].skipped
             /\ p \in script[r].done \ script[r].overwritten => Fresh(p)
  <2>1. RunOK(script[r]) /\ script[r].at = "embed" /\ script[r].pending = {}
    BY <1>1 DEF IndInv, RunsOK, Reported, Stage
  <2>2. p \in script[r].done \cup script[r].failed \cup script[r].skipped
    BY <1>1, <2>1 DEF RunOK, ShapeOK, Accounted
  <2>3. Beginning(p) # None /\ script[r].work[p] = Beginning(p)
    BY <1>1, <2>1 DEF RunOK, AsChosen
  <2>4. p \in script[r].done \ script[r].overwritten => FreshFor(p, script[r].work[p])
    BY <1>1, <2>1 DEF RunOK, DoneIsFresh
  <2> QED
    BY <2>2, <2>3, <2>4 DEF Fresh
<1>2. IndInv => ReportIsTrue
  BY <1>1 DEF ReportIsTrue
<1> QED
  BY <1>2, Invariance, PTL

(***************************************************************************)
(* A marked text is sent only of a page that got it after the script       *)
(* looked for such words (ai_real_page_index.py, select_candidates).       *)
(***************************************************************************)
THEOREM MarkedStays == Spec => []MarkedIsNotSent
<1>1. IndInv => MarkedIsNotSent
  BY DEF IndInv, RunsOK, RunOK, ShapeOK, AsChosen, MarkedIsNotSent
<1> QED
  BY <1>1, Invariance, PTL

(***************************************************************************)
(* A page loses its fresh vector only by its own change, or to a run that  *)
(* chose it before it was changed (upsert_page_embedding).                 *)
(***************************************************************************)
THEOREM FreshStays == Spec => FreshnessIsKept
<1> DEFINE Excused(p) == \/ pages'[p] # pages[p]
                         \/ \E r \in Scripts : script[r] # None /\ p \in script[r].moved
           Kept == \A p \in Pages : Fresh(p) /\ ~Fresh(p)' => Excused(p)
<1>1. ASSUME IndInv, [Next]_vars PROVE Kept
  <2>1. CASE UNCHANGED <<pages, stored>>
    BY <2>1 DEF Fresh, FreshFor, Beginning, There
  <2>2. ASSUME NEW q \in Pages, ChangePage(q, pages'[q]) \/ DeleteDocument(q)
        PROVE  Kept
    <3>1. \A p \in Pages \ {q} : pages'[p] = pages[p] /\ stored'[p] = stored[p]
      BY <1>1, <2>2 DEF ChangePage, DeleteDocument, IndInv, RetrievalTypeOK
    <3>2. pages'[q] # pages[q]
      BY <1>1, <2>2 DEF ChangePage, DeleteDocument, IndInv, RetrievalTypeOK, There
    <3> QED
      BY <3>1, <3>2 DEF Fresh, FreshFor, Beginning, There
  <2>3. ASSUME NEW r \in Scripts, NEW q \in Pages, Store(r, q)
        PROVE  Kept
    <3>1. Persisting(r, q) /\ UNCHANGED pages /\ stored' = [stored EXCEPT ![q] = Row(r, q)]
      BY <2>3 DEF Store
    <3>2. /\ script[r] # None /\ RunOK(script[r]) /\ script[r].at = "persist"
          /\ q \in script[r].chosen /\ script[r].work[q] \in Beginnings
      BY <1>1, <3>1, PersistedTyped DEF IndInv
    <3>3. \A p \in Pages \ {q} : stored'[p] = stored[p]
      BY <1>1, <3>1 DEF IndInv, RetrievalTypeOK
    <3>4. stored'[q] = Row(r, q) /\ Row(r, q) # None /\ Row(r, q).sha = script[r].work[q]
      BY <1>1, <3>1, <3>2 DEF IndInv, RetrievalTypeOK, Row, VectorOf, Rows
    <3>5. q \in script[r].moved \/ script[r].work[q] = Beginning(q)
      BY <3>2 DEF RunOK, AsChosen
    <3> QED
      BY <3>1, <3>2, <3>3, <3>4, <3>5 DEF Fresh, FreshFor, Beginning, There
  <2>4. CASE User \/ Load \/ ShowOutcome \/ Interrupt
    <3>1. UNCHANGED library
      BY <1>1, <2>4, AskingKeeps, ShowingKeeps, LoadKeeps, SearchEnds DEF User, IndInv
    <3> QED
      BY <2>1, <3>1 DEF library
  <2>5. CASE Recall
    <3>1. UNCHANGED library
      BY <2>5 DEF Recall, WithoutVectors, List, Check, Recalled, Fuse, Hydrate
    <3> QED
      BY <2>1, <3>1 DEF library
  <2>6. CASE Library
    <3>1. ASSUME NEW r \in Scripts, Index(r), ~ \E p \in Pages : Store(r, p)
          PROVE  UNCHANGED <<pages, stored>>
      BY <3>1 DEF Index, Select, Read, Classify, Answered, BatchFails, Unavailable, Refuse,
                  StoreFails, End
    <3>2. ASSUME NEW q \in Pages, NEW t \in Texts, ChangePage(q, t)
          PROVE  ChangePage(q, pages'[q])
      <4>1. pages'[q] = t
        BY <1>1, <3>2 DEF ChangePage, IndInv, RetrievalTypeOK
      <4> QED
        BY <3>2, <4>1
    <3> QED
      BY <2>1, <2>2, <2>3, <2>6, <3>1, <3>2 DEF Library
  <2>7. CASE UNCHANGED vars
    BY <2>1, <2>7 DEF vars, library
  <2> QED
    BY <1>1, <2>4, <2>5, <2>6, <2>7 DEF Next
<1>2. IndInv /\ [Next]_vars => [Kept]_<<library, search>>
  BY <1>1
<1> QED
  BY <1>2, Invariance, PTL DEF Spec, FreshnessIsKept

(***************************************************************************)
(* A page shows the results of its own query, filters and order, unless    *)
(* the session knows what came between (search_executed_projection).       *)
(***************************************************************************)
THEOREM ShowsWhatIsAsked == Spec => []ShownIsAsked
<1>1. ASSUME IndInv, phase = "idle", strayed = ""
      PROVE  \/ shown[active.scope].of = Projection(active)
             \/ /\ shown[active.scope].of = None
                /\ Projection(active) = Projection(Default)
  <2>1. active \in States /\ active # None
    BY <1>1, IdleState DEF IndInv
  <2>2. CASE executed # None
    BY <1>1, <2>1, <2>2, ProjectionTyped DEF IndInv, SessionOK, ShownOK
  <2>3. CASE executed = None
    <3>1. shown = NothingShown /\ Projection(active) = Projection(Default)
      BY <1>1, <2>1, <2>3 DEF IndInv, SessionOK, ResultsOK, ShownOK
    <3>2. active.scope \in {"page", "knowledge"}
      BY <2>1, ProjectionTyped
    <3> QED
      BY <3>1, <3>2 DEF NothingShown, Nothing
  <2> QED
    BY <2>2, <2>3
<1>2. IndInv => ShownIsAsked
  BY <1>1 DEF ShownIsAsked
<1> QED
  BY <1>2, Invariance, PTL

-----------------------------------------------------------------------------
(* The hybrid search among the steps of all others.                        *)

SearchInv == IndInv /\ OfOneText(stored) /\ SearchOK

(***************************************************************************)
(* A step that touches neither the pages nor the search keeps what holds   *)
(* of it.                                                                  *)
(***************************************************************************)
LEMMA SearchStays ==
    ASSUME SearchOK, UNCHANGED <<pages, search>>
    PROVE  SearchOK'
<1>1. UNCHANGED <<LexicalOrder, FoundPages>>
  BY DEF LexicalOrder, FoundPages
<1>2. LexicalOK => LexicalOK'
  BY DEF LexicalOK
<1>3. ListedOK => ListedOK'
  BY DEF ListedOK
<1>4. HitsOK => HitsOK'
  BY DEF HitsOK, Beginning, There
<1>5. /\ VectorOK => VectorOK'
      /\ StatusOK => StatusOK'
  BY DEF VectorOK, StatusOK, VectorsRan
<1>6. InOrder => InOrder'
  BY <1>1 DEF InOrder, Above
<1>7. Covered => Covered'
  BY DEF Covered
<1>8. AsLiterally => AsLiterally'
  BY DEF AsLiterally
<1>9. MeaningIsOfTheText(search.results) => MeaningIsOfTheText(search.results)'
  BY <1>1 DEF MeaningIsOfTheText
<1>10. OutcomeOK => OutcomeOK'
  BY <1>1, <1>6, <1>7, <1>8, <1>9 DEF OutcomeOK
<1> QED
  BY <1>2, <1>3, <1>4, <1>5, <1>10 DEF SearchOK

(***************************************************************************)
(* When others change a page or delete its document, the search can no     *)
(* longer vouch for the text of this page, and for nothing else less than  *)
(* before.                                                                 *)
(***************************************************************************)
LEMMA ChangeStays ==
    ASSUME SearchOK, NEW p \in Pages, Seen(p), \A q \in Pages \ {p} : pages'[q] = pages[q]
    PROVE  SearchOK'
<1> SUFFICES ASSUME search # None PROVE SearchOK'
  BY DEF SearchOK, Seen
<1>1. DOMAIN search = SearchFields /\ LexicalOK /\ ListedOK /\ HitsOK /\ VectorOK /\ StatusOK /\ OutcomeOK
  BY DEF SearchOK
<1>2. search' = [search EXCEPT !.moved = @ \cup {p}]
  BY DEF Seen
<1>3. /\ DOMAIN search' = SearchFields /\ search'.at = search.at
      /\ search'.lexical = search.lexical /\ search'.rows = search.rows
      /\ search'.left = search.left /\ search'.hits = search.hits
      /\ search'.vector = search.vector /\ search'.order = search.order
      /\ search'.results = search.results /\ search'.moved = search.moved \cup {p}
  BY <1>1, <1>2 DEF SearchFields
<1>4. UNCHANGED <<LexicalOrder, FoundPages>>
  BY <1>3 DEF LexicalOrder, FoundPages
<1>5. LexicalOK' /\ ListedOK' /\ VectorOK' /\ StatusOK'
  <2>1. search'.status = search.status
    BY <1>1, <1>2 DEF SearchFields
  <2> QED
    BY <1>1, <1>3, <2>1 DEF LexicalOK, ListedOK, VectorOK, StatusOK, VectorsRan
<1>6. HitsOK'
  <2>1. \A q \in Pages \ {p} : Beginning(q)' = Beginning(q)
    BY DEF Beginning, There
  <2> QED
    BY <1>1, <1>3, <2>1 DEF HitsOK
<1>7. InOrder => InOrder'
  BY <1>3, <1>4 DEF InOrder, Above
<1>8. Covered => Covered'
  BY <1>3 DEF Covered
<1>9. AsLiterally => AsLiterally'
  BY <1>3 DEF AsLiterally
<1>10. MeaningIsOfTheText(search.results) => MeaningIsOfTheText(search.results)'
  BY <1>3, <1>4 DEF MeaningIsOfTheText
<1>11. OutcomeOK'
  BY <1>1, <1>3, <1>4, <1>7, <1>8, <1>9, <1>10 DEF OutcomeOK
<1> QED
  BY <1>3, <1>5, <1>6, <1>11 DEF SearchOK

\* What the session does with the search.
Turned ==
    \/ UNCHANGED search
    \/ search' = None
    \/ \E q : BeginSearch(q)

(***************************************************************************)
(* The session begins a search, ends one, or leaves it alone, and never    *)
(* touches the library.                                                    *)
(***************************************************************************)
LEMMA SessionSearches ==
    ASSUME User \/ Load \/ ShowOutcome \/ Interrupt
    PROVE  UNCHANGED library /\ Turned
<1>1. ASSUME NEW s, NEW next, SearchWith(s, next)
      PROVE  UNCHANGED library /\ Turned
  BY <1>1 DEF SearchWith, SearchFree, SearchRaises, BeginSearch, Turned
<1>2. ASSUME NEW s, NEW remember, Ask(s, remember)
      PROVE  UNCHANGED library /\ Turned
  BY <1>1, <1>2 DEF Ask
<1>3. CASE User
  <2>1. ASSUME NEW q \in Queries, NEW mode \in {"keyword", "hybrid"}, NEW filtered \in BOOLEAN,
               NEW sort \in {"relevance", "other"}, Apply(q, mode, filtered, sort)
        PROVE  UNCHANGED library /\ Turned
    BY <1>2, <2>1 DEF Apply
  <2>2. ASSUME NEW q \in Queries, ClearFilters(q) \/ SearchKnowledge(q)
        PROVE  UNCHANGED library /\ Turned
    BY <1>2, <2>2 DEF ClearFilters, SearchKnowledge
  <2>3. ASSUME NEW filtered \in BOOLEAN, NEW sort \in {"relevance", "other"},
               Shortcut(filtered, sort)
        PROVE  UNCHANGED library /\ Turned
    BY <1>2, <2>3 DEF Shortcut
  <2>4. CASE Undo \/ TogglePanel
    BY <1>2, <2>4 DEF Undo, TogglePanel
  <2>5. CASE Refresh \/ ComeBack
    BY <2>5 DEF Refresh, ComeBack, Turned
  <2>6. CASE \/ \E view \in {1, 2} : Turn(view)
             \/ \E scope \in {"page", "knowledge"} : SwitchScope(scope)
             \/ \E link \in Links : Open(link) \/ Return(link)
    BY <2>6 DEF Turn, SwitchScope, Open, Return, Turned
  <2> QED
    BY <1>3, <2>1, <2>2, <2>3, <2>4, <2>5, <2>6 DEF User
<1>4. CASE Load
  BY <1>1, <1>4 DEF Load, Restore, Start, GoOn, Turned
<1>5. CASE ShowOutcome \/ Interrupt
  BY <1>5 DEF ShowOutcome, Interrupt, Turned
<1> QED
  BY <1>3, <1>4, <1>5

(***************************************************************************)
(* A row of page_embeddings has the fingerprint of the text its vector is  *)
(* of, whatever is stored, replaced or deleted (_persist).                 *)
(***************************************************************************)
LEMMA RowsStayOfOneText ==
    ASSUME RetrievalTypeOK, RunsOK, OfOneText(stored), Library
    PROVE  OfOneText(stored)'
<1>1. ASSUME UNCHANGED stored PROVE OfOneText(stored)'
  BY <1>1 DEF OfOneText
<1>2. ASSUME NEW r \in Scripts, NEW p \in Pages, Store(r, p)
      PROVE  OfOneText(stored)'
  <2>1. stored' = [stored EXCEPT ![p] = Row(r, p)] /\ Row(r, p).sha = Row(r, p).vector
    BY <1>2 DEF Store, Row, VectorOf
  <2> QED
    BY <2>1 DEF OfOneText, RetrievalTypeOK
<1>3. ASSUME NEW p \in Pages, DeleteDocument(p)
      PROVE  OfOneText(stored)'
  BY <1>3 DEF DeleteDocument, OfOneText, RetrievalTypeOK
<1>4. ASSUME NEW r \in Scripts, Index(r), ~ \E p \in Pages : Store(r, p)
      PROVE  UNCHANGED stored
  BY <1>4 DEF Index, Select, Read, Classify, Answered, BatchFails, Unavailable, Refuse,
              StoreFails, End
<1>5. ASSUME NEW p \in Pages, NEW t \in Texts, ChangePage(p, t)
      PROVE  UNCHANGED stored
  BY <1>5 DEF ChangePage
<1> QED
  BY <1>1, <1>2, <1>3, <1>4, <1>5 DEF Library

(***************************************************************************)
(* Runs of the index script and changes of pages keep what holds of the    *)
(* search.                                                                 *)
(***************************************************************************)
LEMMA LibraryFinds ==
    ASSUME RetrievalTypeOK, SearchOK, Library
    PROVE  SearchOK'
<1>1. ASSUME NEW r \in Scripts, Index(r)
      PROVE  SearchOK'
  <2>1. UNCHANGED <<pages, search>>
    BY <1>1 DEF Index, Select, Read, Classify, Answered, BatchFails, Unavailable, Refuse,
                Store, StoreFails, End
  <2> QED
    BY <2>1, SearchStays
<1>2. ASSUME NEW p \in Pages, DeleteDocument(p)
      PROVE  SearchOK'
  <2>1. Seen(p) /\ \A q \in Pages \ {p} : pages'[q] = pages[q]
    BY <1>2 DEF DeleteDocument, RetrievalTypeOK
  <2> QED
    BY <2>1, ChangeStays
<1>3. ASSUME NEW p \in Pages, NEW t \in Texts, ChangePage(p, t)
      PROVE  SearchOK'
  <2>1. Seen(p) /\ \A q \in Pages \ {p} : pages'[q] = pages[q]
    BY <1>3 DEF ChangePage, RetrievalTypeOK
  <2> QED
    BY <2>1, ChangeStays
<1> QED
  BY <1>1, <1>2, <1>3 DEF Library

(***************************************************************************)
(* No search is under way at the beginning, and every row is of one text.  *)
(***************************************************************************)
LEMMA SearchStarts == Init => SearchInv
<1> SUFFICES ASSUME Init PROVE SearchInv
  OBVIOUS
<1>1. OfOneText(stored)
  <2>1. ASSUME NEW p \in Pages, stored[p] # None PROVE stored[p].sha = stored[p].vector
    <3>1. stored[p] \in {None} \cup {VectorOf(f) : f \in Beginnings}
      BY DEF Init, RetrievalInit
    <3>2. PICK f \in Beginnings : stored[p] = VectorOf(f)
      BY <2>1, <3>1
    <3> QED
      BY <3>2 DEF VectorOf
  <2> QED
    BY <2>1 DEF OfOneText
<1>2. search = None
  BY DEF Init, RetrievalInit
<1> QED
  BY <1>1, <1>2, Starts DEF SearchInv, SearchOK

(***************************************************************************)
(* Every step keeps the invariant of the search.                           *)
(***************************************************************************)
LEMMA SearchStepsKeep == SearchInv /\ [Next]_vars => SearchInv'
<1> SUFFICES ASSUME SearchInv, [Next]_vars PROVE SearchInv'
  OBVIOUS
<1>1. IndInv /\ OfOneText(stored) /\ SearchOK /\ RetrievalTypeOK /\ RunsOK
  BY DEF SearchInv, IndInv
<1>2. IndInv'
  BY <1>1, StepsKeep
<1>3. CASE User \/ Load \/ ShowOutcome \/ Interrupt
  <2>1. UNCHANGED library /\ Turned
    BY <1>3, SessionSearches
  <2>2. OfOneText(stored)'
    BY <1>1, <2>1 DEF library, OfOneText
  <2>3. CASE UNCHANGED search
    BY <1>1, <1>2, <2>1, <2>2, <2>3, SearchStays DEF SearchInv, library
  <2>4. CASE search' = None
    BY <1>2, <2>2, <2>4 DEF SearchInv, SearchOK
  <2>5. ASSUME NEW q, BeginSearch(q)
        PROVE  SearchInv'
    BY <1>1, <1>2, <2>2, <2>5, BeginFinds DEF SearchInv
  <2> QED
    BY <2>1, <2>3, <2>4, <2>5 DEF Turned
<1>4. CASE Recall
  <2>1. UNCHANGED stored
    BY <1>4 DEF Recall, WithoutVectors, List, Check, Recalled, Fuse, Hydrate, library
  <2>2. SearchOK'
    BY <1>1, <1>4, WithoutVectorsFinds, ListFinds, CheckFinds, RecalledFinds, FuseFinds,
       HydrateFinds DEF Recall
  <2> QED
    BY <1>1, <1>2, <2>1, <2>2 DEF SearchInv, OfOneText
<1>5. CASE Library
  BY <1>1, <1>2, <1>5, RowsStayOfOneText, LibraryFinds DEF SearchInv
<1>6. CASE UNCHANGED vars
  BY <1>1, <1>2, <1>6, SearchStays DEF SearchInv, OfOneText, vars, library
<1> QED
  BY <1>3, <1>4, <1>5, <1>6 DEF Next

(***************************************************************************)
(* The inductive invariant of the hybrid search, together with that of the *)
(* index runs and the session.                                             *)
(***************************************************************************)
THEOREM SearchInvariance == Spec => []SearchInv
  BY SearchStarts, SearchStepsKeep, PTL DEF Spec

(***************************************************************************)
(* The results of a hybrid search have everything the words found,         *)
(* unaltered, and are the literal results when the vectors add nothing; a  *)
(* page found by its meaning shows a text of that meaning unless it was    *)
(* changed meanwhile; no page comes before one that both paths put above   *)
(* it (HybridSearchService.search).                                        *)
(***************************************************************************)
THEOREM FindsWhatIsThere == Spec => []ResultsAreFound
<1>1. ASSUME SearchInv, Outcome PROVE ResultsAreFound
  <2>1. /\ LexicalOK /\ HitsOK /\ VectorOK /\ search.order = <<>>
        /\ search.results \in Seq(ResultRows)
        /\ \A i \in DOMAIN search.results : search.results[i].page \in FoundPages
        /\ InOrder /\ Covered /\ AsLiterally /\ MeaningIsOfTheText(search.results)
    BY <1>1 DEF SearchInv, SearchOK, OutcomeOK, Outcome, Searching
  <2>2. /\ DOMAIN search.lexical = 1 .. Len(search.lexical)
        /\ DOMAIN search.results = 1 .. Len(search.results)
        /\ Len(search.lexical) \in Nat /\ Len(search.results) \in Nat
    BY <2>1, LenProperties DEF LexicalOK
  <2>3. ToSet(search.lexical) \subseteq ToSet(search.results)
    <3>1. ToSet(search.order) = {}
      BY <2>1 DEF ToSet
    <3> QED
      BY <2>1, <3>1 DEF Covered, ToSet
  <2>4. ASSUME search.vector = <<>> PROVE search.results = search.lexical
    <3>1. /\ Len(search.results) + Len(search.order) = Len(search.lexical)
          /\ \A i \in DOMAIN search.results : search.results[i] = search.lexical[i]
      BY <2>1, <2>4 DEF AsLiterally
    <3>2. Len(search.order) = 0
      BY <2>1
    <3>3. Len(search.results) = Len(search.lexical)
      BY <2>2, <3>1, <3>2
    <3> QED
      BY <2>1, <2>2, <3>1, <3>3, SeqEqual DEF LexicalOK
  <2>5. KeepsOrder(search.results)
    <3> DEFINE page(i) == search.results[i].page
    <3>1. ASSUME NEW i \in DOMAIN search.results, NEW j \in DOMAIN search.results,
                 page(i) # page(j), NotBelow(LexicalOrder, page(i), page(j)),
                 NotBelow(search.vector, page(i), page(j))
          PROVE  i < j
      <4>1. /\ LexicalOrder \in Seq(Pages) /\ search.vector \in Seq(Pages)
            /\ page(i) \in Pages /\ page(j) \in ToSet(LexicalOrder) \cup ToSet(search.vector)
        BY <2>1, LiteralOrder, VectorTyped, FoundTyped DEF FoundPages
      <4>2. ~ Above(page(j), page(i))
        BY <3>1, <4>1, AboveIsNotBelow DEF Above
      <4>3. ~ j < i
        BY <2>1, <4>2 DEF InOrder
      <4> QED
        BY <2>2, <3>1, <4>3
    <3> QED
      BY <3>1 DEF KeepsOrder
  <2> QED
    BY <2>1, <2>3, <2>4, <2>5 DEF ResultsAreFound
<1>2. SearchInv => ResultsAreFound
  BY <1>1 DEF ResultsAreFound
<1> QED
  BY <1>2, SearchInvariance, PTL

-----------------------------------------------------------------------------
(* What the page says of its results.                                      *)

\* The notes n and w of the results in row, which were asked for in a mode.
Tells(mode, row, n, w) ==
    row.found # {} => (mode = "hybrid" /\ row.meant = {} <=> n # "" \/ w)

TellsOK ==
    strayed = "" /\ phase # "search" /\ active # None /\ active.scope = "page" =>
        Tells(active.mode, shown["page"], note, weak)

(***************************************************************************)
(* A search by keywords says so when the hybrid search was asked for.      *)
(***************************************************************************)
LEMMA KeywordsTell ==
    ASSUME "page" \in DOMAIN shown, NEW s \in States, ~ HybridIsAllowed(s),
           ShowsKeywordResults(s)
    PROVE  Tells(s.mode, shown'["page"], note', weak')
<1>1. PICK found : shown' = [shown EXCEPT !["page"] = [of |-> Projection(s), found |-> found,
                                                       meant |-> {}]]
  BY DEF ShowsKeywordResults, Shows
<1>2. shown'["page"].meant = {}
  BY <1>1
<1>3. note' = GateNote(s) /\ weak' = FALSE
  BY DEF ShowsKeywordResults
<1>4. s.mode = "hybrid" <=> GateNote(s) # ""
  BY DEF GateNote
<1> QED
  BY <1>2, <1>3, <1>4 DEF Tells

(***************************************************************************)
(* So does a search for a state that becomes that of the session.          *)
(***************************************************************************)
LEMMA SearchTells ==
    ASSUME SessionOK, NEW s \in States, NEW next, SearchWith(s, next), active' = s
    PROVE  TellsOK'
<1>1. "page" \in DOMAIN shown
  BY DEF SessionOK, ResultsOK
<1>2. CASE ~IsPaid(s) /\ SearchFree(s)
  <2>1. CASE s.scope = "page" /\ ShowsKeywordResults(s)
    BY <1>1, <1>2, <2>1, KeywordsTell DEF IsPaid, TellsOK
  <2>2. CASE s.scope = "knowledge"
    BY <2>2 DEF TellsOK
  <2> QED
    BY <1>2, <2>1, <2>2 DEF SearchFree
<1>3. CASE phase' = "search" \/ strayed' = "failed"
  BY <1>3 DEF TellsOK
<1> QED
  BY <1>2, <1>3 DEF SearchWith, SearchRaises

(***************************************************************************)
(* While the same results are shown with the same notes, the page says the *)
(* same.                                                                   *)
(***************************************************************************)
LEMMA NothingNewToTell ==
    ASSUME TellsOK, phase # "search", UNCHANGED <<shown, note, weak, strayed>>,
           active # None, active'.mode = active.mode, active'.scope = active.scope
    PROVE  TellsOK'
  BY DEF TellsOK

(***************************************************************************)
(* The results of a hybrid search: the notes tell apart those of words     *)
(* only, since what is shown was found one way or the other, and without   *)
(* the vector path by its words.                                           *)
(***************************************************************************)
LEMMA OutcomeTells ==
    ASSUME SessionOK, SearchOK, ShowOutcome
    PROVE  TellsOK'
<1>1. /\ phase = "search" /\ active \in States /\ active.mode = "hybrid"
      /\ "page" \in DOMAIN shown /\ active' = active
      /\ search # None /\ search.at = "hydrate"
  BY DEF ShowOutcome, Outcome, Searching, place, SessionOK, SessionTypeOK, StateOK, ResultsOK
<1> DEFINE meant == ResultPages \cap ToSet(search.vector)
<1>2. /\ shown' = [shown EXCEPT !["page"] = [of |-> Projection(active), found |-> ResultPages,
                                             meant |-> meant]]
      /\ note' = IF VectorsRan THEN "" ELSE "degraded"
      /\ weak' = WeakEvidence
  BY DEF ShowOutcome, Shows
<1>3. shown'["page"].found = ResultPages /\ shown'["page"].meant = meant
  BY <1>1, <1>2
<1>4. ResultPages \subseteq ToSet(LexicalOrder) \cup ToSet(search.vector)
  BY <1>1 DEF SearchOK, OutcomeOK, FoundPages, ResultPages
<1>5. CASE ~VectorsRan
  <2>1. search.vector = <<>>
    BY <1>1, <1>5 DEF SearchOK, StatusOK
  <2>2. meant = {}
    BY <2>1 DEF ToSet
  <2> QED
    BY <1>1, <1>2, <1>3, <1>5, <2>2 DEF TellsOK, Tells
<1>6. CASE VectorsRan
  <2>1. ResultPages # {} => (meant = {} <=> WeakEvidence)
    BY <1>4, <1>6 DEF WeakEvidence
  <2> QED
    BY <1>1, <1>2, <1>3, <1>6, <2>1 DEF TellsOK, Tells
<1> QED
  BY <1>5, <1>6

(***************************************************************************)
(* What the user does: the results of a search tell what they are, those   *)
(* that are kept were told, and after a link nothing is shown.             *)
(***************************************************************************)
LEMMA UserTells ==
    ASSUME SessionOK, TellsOK, User
    PROVE  TellsOK'
<1>1. phase = "idle" /\ active \in States /\ active # None /\ "page" \in DOMAIN shown
  <2>1. phase = "idle"
    BY DEF User, Apply, ClearFilters, SearchKnowledge, Shortcut, Undo, TogglePanel, Turn,
           SwitchScope, Refresh, Open, Return, ComeBack, Acts, On
  <2> QED
    BY <2>1, IdleState DEF SessionOK, ResultsOK
<1>2. ASSUME NEW s \in States, NEW remember, Ask(s, remember) PROVE TellsOK'
  BY <1>2, SearchTells DEF Ask, Activate
<1>3. ASSUME NEW q \in Queries, NEW mode \in {"keyword", "hybrid"}, NEW filtered \in BOOLEAN,
             NEW sort \in {"relevance", "other"}, Apply(q, mode, filtered, sort)
      PROVE  TellsOK'
  <2>1. PICK view \in {1, 2} :
            Ask([active EXCEPT !.query = q, !.mode = mode, !.filtered = filtered,
                               !.sort = sort, !.view = view], TRUE)
    BY <1>1, <1>3 DEF Apply, States
  <2>2. [active EXCEPT !.query = q, !.mode = mode, !.filtered = filtered,
                       !.sort = sort, !.view = view] \in States
    BY <1>1 DEF States
  <2> QED
    BY <1>2, <2>1, <2>2
<1>4. ASSUME NEW q \in Queries, ClearFilters(q) \/ SearchKnowledge(q)
      PROVE  TellsOK'
  <2>1. /\ [active EXCEPT !.query = q, !.filtered = FALSE, !.view = 1] \in States
        /\ [Default EXCEPT !.query = q, !.scope = "knowledge"] \in States
    BY <1>1, QueryAssumption DEF States, Default
  <2> QED
    BY <1>2, <1>4, <2>1 DEF ClearFilters, SearchKnowledge
<1>5. ASSUME NEW filtered \in BOOLEAN, NEW sort \in {"relevance", "other"},
             Shortcut(filtered, sort)
      PROVE  TellsOK'
  <2>1. [active EXCEPT !.filtered = (@ \/ filtered), !.view = 1,
                       !.sort = IF sort = "other" THEN sort ELSE @] \in States
    BY <1>1 DEF States
  <2> QED
    BY <1>2, <1>5, <2>1 DEF Shortcut
<1>6. CASE Undo
  <2>1. previous \in States
    BY <1>6 DEF Undo, SessionOK, SessionTypeOK
  <2> QED
    BY <1>2, <1>6, <2>1 DEF Undo
<1>7. CASE TogglePanel
  <2>1. [active EXCEPT !.open = ~@] \in States
    BY <1>1 DEF States
  <2> QED
    BY <1>2, <1>7, <2>1 DEF TogglePanel
<1>8. CASE Refresh
  <2>1. UNCHANGED <<active, strayed>>
    BY <1>8 DEF Refresh, place
  <2>2. CASE UNCHANGED <<shown, note, weak>>
    BY <1>1, <2>1, <2>2, NothingNewToTell
  <2>3. CASE ~HybridIsAllowed(active) /\ ShowsKeywordResults(active)
    <3>1. Tells(active.mode, shown'["page"], note', weak')
      BY <1>1, <2>3, KeywordsTell
    <3> QED
      BY <2>1, <3>1 DEF TellsOK
  <2> QED
    BY <1>8, <2>2, <2>3 DEF Refresh
<1>9. ASSUME NEW view \in {1, 2}, Turn(view) PROVE TellsOK'
  <2>1. active'.mode = active.mode /\ active'.scope = active.scope
    BY <1>1, <1>9 DEF Turn, Activate, States
  <2> QED
    BY <1>1, <1>9, <2>1, NothingNewToTell DEF Turn
<1>10. CASE ComeBack \/ \E link \in Links : Return(link)
  BY <1>1, <1>10, NothingNewToTell DEF ComeBack, Return
<1>11. CASE \/ \E scope \in {"page", "knowledge"} : SwitchScope(scope)
            \/ \E link \in Links : Open(link)
  BY <1>11 DEF SwitchScope, Open, TellsOK
<1> QED
  BY <1>3, <1>4, <1>5, <1>6, <1>7, <1>8, <1>9, <1>10, <1>11 DEF User

(***************************************************************************)
(* The script from its beginning: what was executed was told, and what was *)
(* not is noted as such.                                                   *)
(***************************************************************************)
LEMMA LoadTells ==
    ASSUME SessionOK, TellsOK, Load
    PROVE  TellsOK'
<1>1. phase = "load"
  BY DEF Load, Restore, Start, GoOn
<1>2. CASE Restore
  <2> DEFINE s == Sanitized(Parsed(url))
  <2>1. s \in States
    BY <1>2, ParsedTyped DEF Restore, SessionOK, SessionTypeOK
  <2>2. active' = s
    BY <1>2 DEF Restore
  <2>3. \/ Executed(s) /\ UNCHANGED <<shown, note, weak, strayed>>
        \/ SearchWith(s, "idle")
        \/ strayed' = "restored"
    BY <1>2 DEF Restore
  <2> HIDE DEF s
  <2>4. CASE Executed(s) /\ UNCHANGED <<shown, note, weak, strayed>> /\ strayed = ""
    <3>1. executed = Projection(s) /\ executed # None
      BY <2>1, <2>4, ProjectionTyped DEF Executed
    <3>2. active # None /\ active \in States /\ Projection(active) = Projection(s)
      BY <1>1, <2>4, <3>1 DEF SessionOK, SessionTypeOK, StateOK, ShownOK
    <3>3. s.mode = active.mode /\ s.scope = active.scope
      BY <3>2 DEF Projection
    <3> QED
      BY <1>1, <2>2, <2>4, <3>2, <3>3, NothingNewToTell
  <2>5. CASE SearchWith(s, "idle")
    BY <2>1, <2>2, <2>5, SearchTells
  <2>6. CASE strayed' # ""
    BY <2>6 DEF TellsOK
  <2> QED
    BY <2>3, <2>4, <2>5, <2>6
<1>3. CASE Start
  <2>1. CASE strayed = ""
    <3>1. executed = None /\ shown = NothingShown /\ UNCHANGED shown
      BY <1>3, <2>1 DEF Start, SessionOK, StateOK, ResultsOK
    <3>2. shown'["page"].found = {}
      BY <3>1 DEF NothingShown, Nothing
    <3> QED
      BY <3>2 DEF TellsOK, Tells
  <2>2. CASE strayed # ""
    BY <1>3, <2>2 DEF Start, TellsOK
  <2> QED
    BY <2>1, <2>2
<1>4. CASE GoOn
  BY <1>1, <1>4 DEF GoOn, place, TellsOK
<1> QED
  BY <1>2, <1>3, <1>4 DEF Load

(***************************************************************************)
(* Every step keeps the notes true.                                        *)
(***************************************************************************)
LEMMA TellingKept == SearchInv /\ TellsOK /\ [Next]_vars => TellsOK'
<1> SUFFICES ASSUME SearchInv, TellsOK, [Next]_vars PROVE TellsOK'
  OBVIOUS
<1>1. SessionOK /\ SearchOK
  BY DEF SearchInv, IndInv
<1>2. CASE UNCHANGED session
  BY <1>2 DEF session, TellsOK
<1>3. CASE Interrupt
  BY <1>3 DEF Interrupt, TellsOK
<1> QED
  BY <1>1, <1>2, <1>3, UserTells, LoadTells, OutcomeTells DEF Next, vars

(***************************************************************************)
(* The page says that its results are those of the words alone exactly     *)
(* when the hybrid search was asked for and no result is one that its      *)
(* vector found (pages/4_检索资料.py, hybrid_gate_fallback_note,           *)
(* hybrid_status_note and weak_evidence_note).                             *)
(***************************************************************************)
THEOREM FallbacksAreTold == Spec => []FallbackIsTold
<1>1. Init => TellsOK
  BY DEF Init, TellsOK
<1>2. SearchInv /\ TellsOK => FallbackIsTold
  <2> SUFFICES ASSUME SearchInv, TellsOK PROVE FallbackIsTold
    OBVIOUS
  <2>1. phase = "idle" => active # None
    BY IdleState DEF SearchInv, IndInv
  <2> QED
    BY <2>1 DEF TellsOK, Tells, FallbackIsTold
<1> QED
  BY <1>1, <1>2, TellingKept, SearchInvariance, PTL DEF Spec
=============================================================================
