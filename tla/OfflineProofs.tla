--------------------------- MODULE OfflineProofs ---------------------------
(***************************************************************************)
(* Proofs about what works beside the planning service (Offline): the      *)
(* harness, the two evaluations, the grounded answers with the search they *)
(* rest on, and the chunking.  Each component has an inductive invariant   *)
(* over its own variables; OfflineInv holds the one of the component that  *)
(* is followed.  Lists made by recursion or by an order are described by   *)
(* what they hold, with a least counterexample where the code loops.       *)
(***************************************************************************)
EXTENDS Offline, FiniteSetTheorems, WellFoundedInduction, TLAPS

LEMMA Least ==
    ASSUME NEW S \in SUBSET Nat, S # {}
    PROVE  \E x \in S : \A y \in S : x <= y
<1> DEFINE Less == {ss \in Nat \X Nat : ss[1] < ss[2]}
<1>1. IsWellFoundedOn(Less, Nat)
    BY NatLessThanWellFounded, Zenon DEF OpToRel
<1>2. PICK x \in S : \A y \in S : ~(<<y, x>> \in Less)
    <2> HIDE DEF Less
    <2> QED BY <1>1, WFMin
<1>3. ASSUME NEW y \in S PROVE ~(y < x) BY <1>2
<1> QED BY <1>3

-----------------------------------------------------------------------------
\* Positions of a text

\* The recursion is well defined.
LEMMA TakenDef ==
    ASSUME NEW t, NEW first \in Nat \ {0}, NEW last \in Nat, last >= first - 1, NEW kinds
    PROVE  LET f == C!Taken(t, first, last, kinds)
           IN  /\ f[0] = <<>>
               /\ \A n \in 1..(last - first + 1) :
                    f[n] = IF t[first + n - 1] \in kinds THEN Append(f[n - 1], first + n - 1)
                                                         ELSE f[n - 1]
<1> DEFINE l == last - first + 1
           One(s, n) == IF t[first + n - 1] \in kinds THEN Append(s, first + n - 1) ELSE s
           Rounds(g, m) == [n \in 0..m |-> IF n = 0 THEN <<>> ELSE One(g[n - 1], n)]
           Exists(m) == \E g : g = Rounds(g, m)
           bad == {m \in 0..l : ~Exists(m)}
           f == C!Taken(t, first, last, kinds)
<1>0. f = CHOOSE g : g = Rounds(g, l)
    BY DEF C!Taken
<1>l. l \in Nat OBVIOUS
<1> HIDE DEF One, l, f
<1>1. ASSUME bad # {} PROVE FALSE
    <2>1. bad \in SUBSET Nat BY <1>l
    <2>2. PICK m \in bad : \A k \in bad : m <= k
        <3> HIDE DEF bad
        <3> QED BY <1>1, <2>1, Least
    <2>3. m \in 0..l /\ ~Exists(m) OBVIOUS
    <2>4. m # 0
        <3>1. [n \in 0..0 |-> <<>>] = Rounds([n \in 0..0 |-> <<>>], 0) OBVIOUS
        <3> QED BY <2>3, <3>1
    <2>5. m - 1 \in 0..l /\ m - 1 \notin bad /\ m \in Nat
        <3>1. m \in Nat /\ m - 1 \in 0..l /\ ~(m <= m - 1) BY <1>l, <2>3, <2>4
        <3> HIDE DEF bad
        <3> QED BY <2>2, <3>1
    <2>6. PICK g : g = Rounds(g, m - 1) BY <2>5
    <2> DEFINE h == [n \in 0..m |-> IF n = m THEN One(g[m - 1], m) ELSE g[n]]
    <2>7. \A n \in 0..m - 1 : g[n] = IF n = 0 THEN <<>> ELSE One(g[n - 1], n)
        BY <2>6
    <2>8. ASSUME NEW n \in 0..m PROVE h[n] = IF n = 0 THEN <<>> ELSE One(h[n - 1], n)
        <3>1. CASE n = m BY <2>4, <2>5, <3>1
        <3>2. CASE n # m BY <2>5, <2>7, <3>2
        <3> QED BY <3>1, <3>2
    <2>9. h = Rounds(h, m)
        <3>1. h = [n \in 0..m |-> h[n]] OBVIOUS
        <3> HIDE DEF h
        <3> QED BY <2>8, <3>1
    <2> QED BY <2>3, <2>9
<1>2. l \notin bad BY <1>1
<1>3. PICK g : g = Rounds(g, l) BY <1>2, <1>l
<1>4. f = Rounds(f, l) BY <1>0, <1>3
<1>5. \A n \in 0..l : f[n] = IF n = 0 THEN <<>> ELSE One(f[n - 1], n) BY <1>4
<1>6. f[0] = <<>> BY <1>5, <1>l
<1>7. ASSUME NEW n \in 1..l PROVE f[n] = One(f[n - 1], n)
    <2>1. n \in 0..l /\ n # 0 BY <1>l
    <2> QED BY <1>5, <2>1
<1> QED BY <1>6, <1>7 DEF One, l, f

\* An increasing list of exactly the wanted positions in a stretch of the text.
Lists(s, t, first, last, kinds) ==
    /\ s \in Seq(Nat)
    /\ \A k \in 1..Len(s) : s[k] \in first..last /\ t[s[k]] \in kinds
    /\ \A j, k \in 1..Len(s) : j < k => s[j] < s[k]
    /\ \A i \in first..last : t[i] \in kinds => \E k \in 1..Len(s) : s[k] = i

LEMMA ListsOneMore ==
    ASSUME NEW t, NEW first \in Nat \ {0}, NEW last \in Nat, last >= first, NEW kinds,
           NEW s, Lists(s, t, first, last - 1, kinds), NEW r,
           r = IF t[last] \in kinds THEN Append(s, last) ELSE s
    PROVE  Lists(r, t, first, last, kinds)
<1>1. s \in Seq(Nat) /\ Len(s) \in Nat BY DEF Lists
<1>2. CASE t[last] \notin kinds
    <2>1. \A i \in first..last : t[i] \in kinds => i \in first..(last - 1) BY <1>2
    <2>2. \A k \in 1..Len(s) : s[k] \in first..last BY DEF Lists
    <2> QED BY <1>1, <1>2, <2>1, <2>2 DEF Lists
<1>3. CASE t[last] \in kinds
    <2>1. /\ r \in Seq(Nat) /\ Len(r) = Len(s) + 1
          /\ \A k \in 1..Len(r) : r[k] = IF k = Len(r) THEN last ELSE s[k]
        BY <1>1, <1>3
    <2>2. \A k \in 1..Len(r) : k = Len(r) \/ k \in 1..Len(s) BY <1>1, <2>1
    <2>3. \A k \in 1..Len(s) : s[k] \in first..(last - 1) /\ t[s[k]] \in kinds BY DEF Lists
    <2>4. \A k \in 1..Len(r) : r[k] \in first..last /\ t[r[k]] \in kinds BY <1>1, <1>3, <2>1, <2>2, <2>3
    <2>5. ASSUME NEW j \in 1..Len(r), NEW k \in 1..Len(r), j < k PROVE r[j] < r[k]
        <3>1. j \in 1..Len(s) /\ r[j] = s[j] BY <1>1, <2>1, <2>5
        <3>2. CASE k = Len(r) BY <2>1, <2>3, <3>1, <3>2
        <3>3. CASE k # Len(r)
            <4>1. k \in 1..Len(s) /\ r[k] = s[k] BY <2>1, <2>2, <3>3
            <4> QED BY <2>5, <3>1, <4>1 DEF Lists
        <3> QED BY <3>2, <3>3
    <2>6. ASSUME NEW i \in first..last, t[i] \in kinds PROVE \E k \in 1..Len(r) : r[k] = i
        <3>1. CASE i = last BY <1>1, <2>1, <3>1
        <3>2. CASE i # last
            <4>1. i \in first..(last - 1) BY <3>2
            <4>2. PICK k \in 1..Len(s) : s[k] = i BY <2>6, <4>1 DEF Lists
            <4>3. k \in 1..Len(r) /\ k # Len(r) BY <1>1, <2>1
            <4> QED BY <2>1, <4>2, <4>3
        <3> QED BY <3>1, <3>2
    <2> QED BY <2>1, <2>4, <2>5, <2>6 DEF Lists
<1> QED BY <1>2, <1>3

\* Positions lists the positions.
LEMMA PositionsList ==
    ASSUME NEW t, NEW first \in Nat \ {0}, NEW last \in Nat, last >= first - 1, NEW kinds
    PROVE  Lists(C!Positions(t, first, last, kinds), t, first, last, kinds)
<1> DEFINE l == last - first + 1
           f == C!Taken(t, first, last, kinds)
           bad == {n \in 0..l : ~Lists(f[n], t, first, first + n - 1, kinds)}
<1>1. l \in Nat OBVIOUS
<1>2. f[0] = <<>> /\ \A n \in 1..l : f[n] = IF t[first + n - 1] \in kinds THEN Append(f[n - 1], first + n - 1)
                                                                         ELSE f[n - 1]
    BY TakenDef
<1>3. l = last - first + 1 /\ C!Positions(t, first, last, kinds) = f[l] BY DEF C!Positions
<1> HIDE DEF l, f
<1>4. ASSUME bad # {} PROVE FALSE
    <2>1. bad \in SUBSET Nat BY <1>1
    <2>2. PICK n \in bad : \A k \in bad : n <= k
        <3> HIDE DEF bad
        <3> QED BY <1>4, <2>1, Least
    <2>3. n \in 0..l /\ ~Lists(f[n], t, first, first + n - 1, kinds) OBVIOUS
    <2>4. n # 0
        <3>1. Lists(<<>>, t, first, first - 1, kinds)
            <4>1. <<>> \in Seq(Nat) /\ Len(<<>>) = 0 OBVIOUS
            <4>2. \A i \in first..(first - 1) : FALSE OBVIOUS
            <4>3. \A k \in 1..0 : FALSE OBVIOUS
            <4> QED BY <4>1, <4>2, <4>3 DEF Lists
        <3>2. first + 0 - 1 = first - 1 OBVIOUS
        <3> QED BY <1>2, <2>3, <3>1, <3>2
    <2>5. n \in 1..l /\ n - 1 \in 0..l /\ n - 1 \notin bad
        <3> HIDE DEF bad
        <3> QED BY <1>1, <2>2, <2>3, <2>4
    <2>6. PICK m \in Nat : m = first + n - 1 BY <2>5
    <2>7. first + (n - 1) - 1 = m - 1 /\ m >= first BY <2>5, <2>6
    <2>8. Lists(f[n - 1], t, first, m - 1, kinds) BY <2>5, <2>7
    <2>9. PICK s, r : s = f[n - 1] /\ r = f[n] OBVIOUS
    <2>10. r = IF t[m] \in kinds THEN Append(s, m) ELSE s BY <1>2, <2>5, <2>6, <2>9
    <2>11. Lists(r, t, first, m, kinds) BY <2>6, <2>7, <2>8, <2>9, <2>10, ListsOneMore
    <2> QED BY <2>3, <2>6, <2>9, <2>11
<1>5. Lists(f[l], t, first, first + l - 1, kinds) BY <1>1, <1>4
<1>6. first + l - 1 = last BY <1>1, <1>3
<1> QED BY <1>3, <1>5, <1>6

\* The number of wanted positions up to one is the place of the last of them.
LEMMA ListsCount ==
    ASSUME NEW t, NEW last \in Nat, NEW kinds, NEW s, Lists(s, t, 1, last, kinds),
           NEW n \in 0..Len(s), NEW i \in 0..last,
           n > 0 => s[n] <= i, n < Len(s) => i < s[n + 1]
    PROVE  Cardinality({j \in 1..i : t[j] \in kinds}) = n
<1> DEFINE here == {j \in 1..i : t[j] \in kinds}
           f == [k \in 1..n |-> s[k]]
<1>1. s \in Seq(Nat) /\ Len(s) \in Nat /\ n \in Nat BY DEF Lists
<1>2. \A k \in 1..Len(s) : s[k] \in 1..last /\ t[s[k]] \in kinds BY DEF Lists
<1>3. \A j, k \in 1..Len(s) : j < k => s[j] < s[k] BY DEF Lists
<1>4. ASSUME NEW k \in 1..n PROVE s[k] \in here
    <2>1. k \in 1..Len(s) /\ n \in 1..Len(s) BY <1>1
    <2>2. s[k] <= s[n] BY <1>2, <1>3, <2>1
    <2>3. s[k] \in 1..i BY <1>2, <2>1, <2>2
    <2> QED BY <1>2, <2>1, <2>3
<1>5. ASSUME NEW j \in here PROVE \E k \in 1..n : s[k] = j
    <2>1. j \in 1..last /\ j <= i OBVIOUS
    <2>2. PICK k \in 1..Len(s) : s[k] = j BY <2>1 DEF Lists
    <2>3. ASSUME k > n PROVE FALSE
        <3>1. n < Len(s) /\ n + 1 \in 1..Len(s) BY <1>1, <2>3
        <3>2. s[n + 1] <= s[k] BY <1>2, <1>3, <2>3, <3>1
        <3> QED BY <1>2, <2>1, <2>2, <3>1, <3>2
    <2> QED BY <1>1, <2>2, <2>3
<1> HIDE DEF here
<1>6. f \in [1..n -> here] BY <1>4
<1>7. \A j, k \in 1..n : f[j] = f[k] => j = k
    <2> SUFFICES ASSUME NEW j \in 1..n, NEW k \in 1..n, s[j] = s[k] PROVE j = k OBVIOUS
    <2>1. j \in 1..Len(s) /\ k \in 1..Len(s) BY <1>1
    <2> QED BY <1>2, <1>3, <2>1
<1>8. f \in Surjection(1..n, here) BY <1>5, <1>6 DEF Surjection
<1>9. f \in Injection(1..n, here) BY <1>6, <1>7 DEF Injection, IsInjective
<1>10. IsFiniteSet(1..n) /\ Cardinality(1..n) = n BY <1>1, FS_Interval
<1>11. IsFiniteSet(here) /\ Cardinality(here) = n BY <1>8, <1>9, <1>10, FS_Surjection
<1> QED BY <1>11 DEF here

-----------------------------------------------------------------------------
\* Sections of a text

IsText(t) == Len(t) \in Nat /\ DOMAIN t = 1..Len(t)

\* How many headings there are up to a position, and the section it is in.
Heads(t, i) == Cardinality({j \in 1..i : t[j] = "heading"})
SectionOf(t, i) == IF Heads(t, i) = 0 THEN 1 ELSE Heads(t, i)
UnderHeading(t, i) == Heads(t, i) > 0 \/ Heads(t, Len(t)) = 0

IsSection(t, s) ==
    /\ s.first \in Nat \ {0} /\ s.last \in Nat /\ s.last >= s.first - 1 /\ s.last <= Len(t)
    /\ \A i \in s.first..s.last : t[i] # "heading"

LEMMA HeadsCount ==
    ASSUME NEW t, IsText(t), NEW n \in 0..Len(C!HeadingsOf(t)), NEW i \in 0..Len(t),
           n > 0 => C!HeadingsOf(t)[n] <= i,
           n < Len(C!HeadingsOf(t)) => i < C!HeadingsOf(t)[n + 1]
    PROVE  Heads(t, i) = n
<1>1. Lists(C!HeadingsOf(t), t, 1, Len(t), {"heading"}) BY PositionsList DEF IsText, C!HeadingsOf
<1>2. Cardinality({j \in 1..i : t[j] \in {"heading"}}) = n BY <1>1, ListsCount DEF IsText
<1>3. {j \in 1..i : t[j] \in {"heading"}} = {j \in 1..i : t[j] = "heading"} OBVIOUS
<1> QED BY <1>2, <1>3 DEF Heads

LEMMA SectionsFacts ==
    ASSUME NEW t, IsText(t)
    PROVE  LET S == C!SplitIntoSections(t)
           IN  /\ Len(S) \in Nat
               /\ \A n \in 1..Len(S) : IsSection(t, S[n])
               /\ \A i \in 1..Len(t) :
                    t[i] # "heading" /\ UnderHeading(t, i) =>
                      SectionOf(t, i) \in 1..Len(S) /\ i \in S[SectionOf(t, i)].first..S[SectionOf(t, i)].last
<1> DEFINE S == C!SplitIntoSections(t)
           heads == C!HeadingsOf(t)
           End(i) == IF i = Len(heads) THEN Len(t) ELSE heads[i + 1] - 1
<1>1. Lists(heads, t, 1, Len(t), {"heading"}) BY PositionsList DEF IsText, C!HeadingsOf
<1>2. /\ heads \in Seq(Nat) /\ Len(heads) \in Nat /\ DOMAIN heads = 1..Len(heads) /\ Len(t) \in Nat
      /\ \A k \in 1..Len(heads) : heads[k] \in 1..Len(t) /\ t[heads[k]] = "heading"
      /\ \A j, k \in 1..Len(heads) : j < k => heads[j] < heads[k]
      /\ \A i \in 1..Len(t) : t[i] = "heading" => \E k \in 1..Len(heads) : heads[k] = i
    BY <1>1 DEF Lists, IsText
<1>3. S = IF heads = <<>> THEN << [first |-> 1, last |-> Len(t)] >>
          ELSE [i \in DOMAIN heads |-> [first |-> heads[i] + 1, last |-> End(i)]]
    BY DEF C!SplitIntoSections
<1> HIDE DEF heads, S
<1>4. CASE heads = <<>>
    <2>1. Len(heads) = 0 BY <1>4
    <2>2. PICK s : s = [first |-> 1, last |-> Len(t)] OBVIOUS
    <2>3. S = <<s>> /\ Len(S) = 1 /\ S[1] = s BY <1>3, <1>4, <2>2
    <2>4. s.first = 1 /\ s.last = Len(t) BY <2>2
    <2>5. \A i \in 1..Len(t) : t[i] # "heading" BY <1>2, <2>1
    <2>6. IsSection(t, s) BY <1>2, <2>4, <2>5 DEF IsSection
    <2>7. ASSUME NEW i \in 1..Len(t) PROVE SectionOf(t, i) = 1
        <3>1. Heads(t, i) = 0
            <4>1. i \in 0..Len(t) /\ 0 \in 0..Len(C!HeadingsOf(t)) BY <1>2, <2>1 DEF heads
            <4>2. ~(0 < Len(C!HeadingsOf(t))) BY <2>1 DEF heads
            <4> QED BY <4>1, <4>2, HeadsCount
        <3> QED BY <3>1 DEF SectionOf
    <2>8. \A n \in 1..Len(S) : n = 1 BY <2>3
    <2>9. \A i \in 1..Len(t) : SectionOf(t, i) \in 1..Len(S) /\ i \in S[SectionOf(t, i)].first..S[SectionOf(t, i)].last
        BY <2>3, <2>4, <2>7
    <2> QED BY <2>3, <2>6, <2>8, <2>9 DEF S
<1>5. CASE heads # <<>>
    <2> DEFINE h == heads
               l == Len(heads)
               e == Len(t)
    <2>1. l \in Nat \ {0} /\ e \in Nat BY <1>2, <1>5
    <2>2. S = [i \in 1..l |-> [first |-> h[i] + 1, last |-> End(i)]] BY <1>2, <1>3, <1>5
    <2>3. Len(S) = l
        <3> HIDE DEF l
        <3>1. PICK T : T = {S[i] : i \in 1..l} OBVIOUS
        <3>2. S = [i \in 1..l |-> S[i]] BY <2>2
        <3>3. \A i \in 1..l : S[i] \in T BY <3>1
        <3>4. S \in [1..l -> T] BY <3>2, <3>3
        <3> QED BY <2>1, <2>2, <3>4
    <2>4. \A n \in 1..l : S[n].first = h[n] + 1 /\ S[n].last = End(n) BY <2>2
    <2>5. \A k \in 1..l : h[k] \in 1..e /\ t[h[k]] = "heading" BY <1>2
    <2>6. \A j, k \in 1..l : j < k => h[j] < h[k] BY <1>2
    <2>7. \A i \in 1..e : t[i] = "heading" => \E k \in 1..l : h[k] = i BY <1>2
    <2>8. \A n \in 1..l : End(n) = IF n = l THEN e ELSE h[n + 1] - 1 OBVIOUS
    <2>9. C!HeadingsOf(t) = h /\ Len(C!HeadingsOf(t)) = l BY DEF heads
    <2> HIDE DEF h, l, e, End
    <2>10. ASSUME NEW n \in 1..l
           PROVE  h[n] \in 1..e /\ (n # l => n + 1 \in 1..l /\ h[n + 1] \in 1..e /\ h[n] < h[n + 1])
        <3>1. n # l => n + 1 \in 1..l /\ n < n + 1 BY <2>1
        <3> QED BY <2>5, <2>6, <3>1
    <2>11. ASSUME NEW n \in 1..l, NEW i \in 1..e, h[n] < i, n # l => i < h[n + 1] PROVE t[i] # "heading"
        <3> SUFFICES ASSUME t[i] = "heading" PROVE FALSE OBVIOUS
        <3>1. PICK k \in 1..l : h[k] = i BY <2>7
        <3>2. n \in Nat /\ k \in Nat /\ h[k] \in Nat /\ h[n] \in Nat BY <2>1, <2>5
        <3>3. CASE k <= n
            <4>1. k = n \/ h[k] < h[n] BY <2>6, <3>2, <3>3
            <4> QED BY <2>11, <3>1, <3>2, <4>1
        <3>4. CASE k > n
            <4>1. n # l /\ n + 1 \in 1..l /\ h[n + 1] \in Nat BY <2>1, <2>5, <2>10, <3>2, <3>4
            <4>2. k = n + 1 \/ n + 1 < k BY <3>2, <3>4
            <4>3. k = n + 1 \/ h[n + 1] < h[k] BY <2>6, <4>1, <4>2
            <4> QED BY <2>11, <3>1, <3>2, <4>1, <4>3
        <3> QED BY <3>2, <3>3, <3>4
    <2>12. ASSUME NEW n \in 1..l PROVE IsSection(t, S[n])
        <3>1. S[n].first = h[n] + 1 /\ S[n].last = IF n = l THEN e ELSE h[n + 1] - 1 BY <2>4, <2>8
        <3>2. S[n].first \in Nat \ {0} /\ S[n].last \in Nat /\ S[n].last >= S[n].first - 1 /\ S[n].last <= e
            BY <2>1, <2>10, <3>1
        <3>3. ASSUME NEW i \in S[n].first..S[n].last PROVE t[i] # "heading"
            <4>1. i \in 1..e /\ h[n] < i /\ (n # l => i < h[n + 1])
                BY <2>1, <2>10, <3>1, <3>2
            <4> QED BY <2>11, <4>1
        <3> QED BY <3>2, <3>3 DEF IsSection, e
    <2>13. ASSUME NEW i \in 1..e, t[i] # "heading", UnderHeading(t, i)
          PROVE  SectionOf(t, i) \in 1..l /\ i \in S[SectionOf(t, i)].first..S[SectionOf(t, i)].last
        <3> DEFINE before == {k \in 1..l : h[k] <= i}
        <3>1. Heads(t, e) = l
            <4>1. h[l] <= e /\ l \in 0..l /\ e \in 0..e /\ ~(l < l) BY <2>1, <2>5
            <4> QED BY <2>9, <4>1, HeadsCount DEF e
        <3>2. before # {}
            <4> SUFFICES ASSUME before = {} PROVE FALSE OBVIOUS
            <4>1. 1 \in 1..l /\ 0 + 1 = 1 BY <2>1
            <4>2. ~(h[1] <= i) BY <4>1
            <4>3. i < h[0 + 1] /\ 0 \in 0..l /\ i \in 0..e /\ ~(0 > 0) BY <2>1, <2>5, <4>1, <4>2
            <4>4. Heads(t, i) = 0 BY <2>9, <4>3, HeadsCount DEF e
            <4> QED BY <2>1, <2>13, <3>1, <4>4 DEF UnderHeading, e
        <3>3. PICK n \in before : \A k \in before : k <= n
            <4> DEFINE rest == {l - k : k \in before}
            <4>1. rest \in SUBSET Nat /\ rest # {} BY <2>1, <3>2
            <4>2. PICK m \in rest : \A r \in rest : m <= r
                <5> HIDE DEF rest
                <5> QED BY <4>1, Least
            <4>3. PICK n \in before : m = l - n OBVIOUS
            <4>4. ASSUME NEW k \in before PROVE k <= n
                <5>1. l - k \in rest OBVIOUS
                <5>2. l - n <= l - k BY <4>2, <4>3, <5>1
                <5> QED BY <2>1, <5>2
            <4> QED BY <4>4
        <3>4. n \in 1..l /\ h[n] <= i /\ h[n] \in 1..e BY <2>5
        <3>5. h[n] # i BY <2>5, <2>13, <3>4
        <3>6. n # l => i < h[n + 1] /\ n + 1 \in 1..l
            <4> SUFFICES ASSUME n # l, ~(i < h[n + 1]) PROVE FALSE BY <2>10, <3>4
            <4>1. n + 1 \in 1..l /\ h[n + 1] \in 1..e BY <2>10, <3>4
            <4>2. n + 1 \in before BY <4>1
            <4>3. ~(n + 1 <= n) BY <3>4
            <4> QED BY <3>3, <4>2, <4>3
        <3>7. Heads(t, i) = n
            <4>1. n \in 0..l /\ i \in 0..e /\ (n < l => n # l) BY <2>1, <3>4
            <4> QED BY <2>9, <3>4, <3>6, <4>1, HeadsCount DEF e
        <3>8. SectionOf(t, i) = n /\ n \in 1..l BY <3>4, <3>7 DEF SectionOf
        <3>9. S[n].first = h[n] + 1 /\ S[n].last = IF n = l THEN e ELSE h[n + 1] - 1 BY <2>4, <2>8, <3>8
        <3>10. i \in (h[n] + 1)..(IF n = l THEN e ELSE h[n + 1] - 1)
            <4>1. CASE n = l BY <2>1, <3>4, <3>5, <4>1
            <4>2. CASE n # l BY <2>5, <3>4, <3>5, <3>6, <4>2
            <4> QED BY <4>1, <4>2
        <3> QED BY <3>8, <3>9, <3>10
    <2> QED BY <2>1, <2>3, <2>12, <2>13 DEF S, e
<1> QED BY <1>4, <1>5

-----------------------------------------------------------------------------
\* Chunking

IsSize(sz) == sz[1] \in Nat \ {0} /\ sz[2] \in Nat

LEMMA ChunkParameters == \A sz \in Sizes : IsSize(sz)
BY ChunksOK DEF IsSize

TokensIn(t, n) == C!TokensOf(t, C!SplitIntoSections(t)[n])
SectionsIn(t) == Len(C!SplitIntoSections(t))

\* The tokens of a section are listed.
LEMMA TokensAreListed ==
    ASSUME NEW t, IsText(t), NEW n \in 1..SectionsIn(t)
    PROVE  LET s == C!SplitIntoSections(t)[n]
           IN  /\ Lists(TokensIn(t, n), t, s.first, s.last, {"word", "blank"})
               /\ IsSection(t, s) /\ Len(TokensIn(t, n)) \in Nat
<1> DEFINE s == C!SplitIntoSections(t)[n]
<1>1. IsSection(t, s) BY SectionsFacts DEF SectionsIn
<1>2. Lists(TokensIn(t, n), t, s.first, s.last, {"word", "blank"})
    BY <1>1, PositionsList DEF IsSection, TokensIn, C!TokensOf
<1>3. Len(TokensIn(t, n)) \in Nat BY <1>2 DEF Lists
<1> QED BY <1>1, <1>2, <1>3

LEMMA TokenFacts ==
    ASSUME NEW t, IsText(t), NEW n \in 1..SectionsIn(t), NEW T, T = TokensIn(t, n)
    PROVE  /\ Len(T) \in Nat
           /\ \A k \in 1..Len(T) : T[k] \in 1..Len(t) /\ t[T[k]] \in {"word", "blank"}
           /\ \A j, k \in 1..Len(T) : j < k => T[j] < T[k]
           /\ \A j, k \in 1..Len(T) : \A i \in T[j]..T[k] : t[i] # "heading"
           /\ \A i \in 1..Len(t) : t[i] = "word" /\ UnderHeading(t, i) /\ SectionOf(t, i) = n
                                     => \E k \in 1..Len(T) : T[k] = i
<1> DEFINE s == C!SplitIntoSections(t)[n]
<1>1. PICK a, b : a = s.first /\ b = s.last OBVIOUS
<1>2. Lists(T, t, a, b, {"word", "blank"}) BY <1>1, TokensAreListed
<1>3. a \in Nat \ {0} /\ b \in Nat /\ b <= Len(t) /\ Len(t) \in Nat
    BY <1>1, TokensAreListed DEF IsSection, IsText
<1>4. \A i \in a..b : t[i] # "heading" BY <1>1, TokensAreListed DEF IsSection
<1>5. Len(T) \in Nat BY <1>2 DEF Lists
<1>6. \A k \in 1..Len(T) : T[k] \in a..b /\ t[T[k]] \in {"word", "blank"} BY <1>2 DEF Lists
<1>7. \A j, k \in 1..Len(T) : j < k => T[j] < T[k] BY <1>2 DEF Lists
<1>8. ASSUME NEW j \in 1..Len(T), NEW k \in 1..Len(T), NEW i \in T[j]..T[k] PROVE t[i] # "heading"
    <2>1. T[j] \in a..b /\ T[k] \in a..b BY <1>6
    <2>2. i \in a..b BY <1>3, <2>1
    <2> QED BY <1>4, <2>2
<1>9. ASSUME NEW i \in 1..Len(t), t[i] = "word", UnderHeading(t, i), SectionOf(t, i) = n
      PROVE  \E k \in 1..Len(T) : T[k] = i
    <2>1. "word" # "heading" OBVIOUS
    <2>2. i \in a..b BY <1>1, <1>9, <2>1, SectionsFacts
    <2> QED BY <1>2, <1>9, <2>2 DEF Lists
<1>10. \A k \in 1..Len(T) : T[k] \in 1..Len(t) BY <1>3, <1>6
<1> QED BY <1>5, <1>6, <1>7, <1>8, <1>9, <1>10

ChunkRows == [section : Nat, index : Nat, tokens : Nat, from : Nat, first : Nat, last : Nat]

\* A chunk is a window of the tokens of one section.
IsChunk(t, w, c) ==
    /\ c.section \in 1..SectionsIn(t) /\ c.tokens \in 1..w
    /\ c.from \in 1..Len(TokensIn(t, c.section))
    /\ c.from + c.tokens - 1 \in 1..Len(TokensIn(t, c.section))
    /\ c.first = TokensIn(t, c.section)[c.from]
    /\ c.last = TokensIn(t, c.section)[c.from + c.tokens - 1]

\* A window starts one step behind a chunk's, or behind blank ones that do.
Continues(t, w, o, c, from) ==
    /\ c.tokens = w /\ c.from < from
    /\ from = c.from + (w - o) \/ t[TokensIn(t, c.section)[c.from + (w - o)]] = "blank"

Covered(t, cs, i) ==
    \E c \in 1..Len(cs) : i \in cs[c].first..cs[c].last /\ cs[c].section = SectionOf(t, i)

\* The words behind which the window at token st of section n starts.
Passed(t, n, st, i) ==
    \/ SectionOf(t, i) < n
    \/ SectionOf(t, i) = n /\ \E k \in 1..(st - 1) : TokensIn(t, n)[k] = i

\* What the chunks cs hold when that window is next.
ChunksInOrder(t, w, o, cs) ==
    \A c \in 1..Len(cs) :
       /\ IsChunk(t, w, cs[c]) /\ cs[c].index = c - 1
       /\ c > 1 => \/ cs[c-1].section < cs[c].section
                   \/ cs[c-1].section = cs[c].section /\ Continues(t, w, o, cs[c-1], cs[c].from)

Behind(t, w, o, n, st, cs) ==
    /\ \A c \in 1..Len(cs) : cs[c].section <= n
    /\ Len(cs) > 0 /\ cs[Len(cs)].section = n => Continues(t, w, o, cs[Len(cs)], st)

WordsKept(t, n, st, cs) ==
    \A i \in 1..Len(t) :
       t[i] = "word" /\ UnderHeading(t, i) /\ Passed(t, n, st, i) => Covered(t, cs, i)

InText(t, n, st) ==
    /\ n \in Nat \ {0} /\ st \in Nat \ {0}
    /\ n <= SectionsIn(t) => st <= Len(TokensIn(t, n)) + 1

Chunked(t, w, o, n, st, cs) ==
    /\ InText(t, n, st) /\ cs \in Seq(ChunkRows)
    /\ ChunksInOrder(t, w, o, cs) /\ Behind(t, w, o, n, st, cs) /\ WordsKept(t, n, st, cs)

ChunkInv ==
    /\ IsText(text) /\ size \in Sizes /\ (outcome # "rejected" => size[2] < size[1])
    /\ Chunked(text, size[1], size[2], section, start, chunks)
    /\ outcome = "done" => section > SectionsIn(text)

LEMMA ChunkInit == C!Init => ChunkInv
<1> SUFFICES ASSUME C!Init PROVE ChunkInv OBVIOUS
<1>1. PICK n \in 0..MaxLength : text \in [1..n -> C!Pieces] BY DEF C!Init
<1>2. n \in Nat BY ChunksOK
<1>3. Len(text) = n /\ DOMAIN text = 1..n BY <1>1
<1>4. IsText(text) BY <1>3 DEF IsText
<1>5. size \in Sizes /\ section = 1 /\ start = 1 /\ chunks = <<>> /\ outcome # "done"
    BY DEF C!Init
<1>6. outcome # "rejected" => size[2] < size[1]
    BY <1>5, ChunkParameters DEF C!Init, IsSize
<1>7. chunks \in Seq(ChunkRows) /\ Len(chunks) = 0 BY <1>5
<1>8. InText(text, 1, 1)
    <2> SUFFICES ASSUME 1 <= SectionsIn(text) PROVE 1 <= Len(TokensIn(text, 1)) + 1 BY DEF InText
    <2>1. 1 \in 1..SectionsIn(text) BY <1>4, SectionsFacts DEF SectionsIn
    <2>2. Len(TokensIn(text, 1)) \in Nat BY <1>4, <2>1, TokensAreListed
    <2> QED BY <2>2
<1>9. ASSUME NEW i \in 1..Len(text), text[i] = "word", UnderHeading(text, i), Passed(text, 1, 1, i) PROVE FALSE
    <2>1. text[i] # "heading" BY <1>9
    <2>2. SectionOf(text, i) \in 1..SectionsIn(text) BY <1>4, <1>9, <2>1, SectionsFacts DEF SectionsIn
    <2>3. SectionsIn(text) \in Nat BY <1>4, SectionsFacts DEF SectionsIn
    <2>4. ~(SectionOf(text, i) < 1) BY <2>2, <2>3
    <2>5. ~ \E k \in 1..(1 - 1) : TRUE OBVIOUS
    <2> QED BY <1>9, <2>4, <2>5 DEF Passed
<1>10. WordsKept(text, 1, 1, chunks) BY <1>9 DEF WordsKept
<1>11. ChunksInOrder(text, size[1], size[2], chunks) /\ Behind(text, size[1], size[2], 1, 1, chunks)
    BY <1>7 DEF ChunksInOrder, Behind
<1>12. Chunked(text, size[1], size[2], section, start, chunks) BY <1>5, <1>7, <1>8, <1>10, <1>11 DEF Chunked
<1> QED BY <1>4, <1>5, <1>6, <1>12 DEF ChunkInv

\* The chunk of the window from token st to token e of section n.
RowOf(t, n, st, e, cs) ==
    [section |-> n, index |-> Len(cs), tokens |-> e - st + 1, from |-> st,
     first |-> TokensIn(t, n)[st], last |-> TokensIn(t, n)[e]]

\* The step of that window: what it makes of the chunks, and where the next starts.
IsWindow(t, w, o, n, st, cs, T, l, e, ds, m, nx) ==
    /\ T = TokensIn(t, n) /\ l = Len(T) /\ st <= l
    /\ e = IF st + w - 1 < l THEN st + w - 1 ELSE l
    /\ ds = IF C!IsBlank(t, T[st], T[e]) THEN cs ELSE Append(cs, RowOf(t, n, st, e, cs))
    /\ m = IF e = l THEN n + 1 ELSE n
    /\ nx = IF e = l THEN 1 ELSE st + (w - o)

LEMMA WindowKeeps ==
    ASSUME NEW t, IsText(t), NEW w \in Nat \ {0}, NEW o \in Nat, o < w,
           NEW n \in Nat \ {0}, NEW st \in Nat \ {0}, NEW cs, Chunked(t, w, o, n, st, cs),
           n <= SectionsIn(t), NEW T, NEW l \in Nat, NEW e, NEW ds, NEW m, NEW nx,
           IsWindow(t, w, o, n, st, cs, T, l, e, ds, m, nx)
    PROVE  Chunked(t, w, o, m, nx, ds)
<1>0. /\ T = TokensIn(t, n) /\ l = Len(T) /\ st <= l
      /\ e = IF st + w - 1 < l THEN st + w - 1 ELSE l
      /\ ds = IF C!IsBlank(t, T[st], T[e]) THEN cs ELSE Append(cs, RowOf(t, n, st, e, cs))
      /\ m = IF e = l THEN n + 1 ELSE n
      /\ nx = IF e = l THEN 1 ELSE st + (w - o)
    BY DEF IsWindow
<1>T. T = TokensIn(t, n) /\ l = Len(T) /\ st <= l BY <1>0
<1>1. n \in 1..SectionsIn(t) /\ SectionsIn(t) \in Nat
    BY SectionsFacts DEF SectionsIn
<1>4. e \in st..l /\ (e # l => e = st + w - 1) /\ e - st + 1 \in 1..w
    <2>1. CASE st + w - 1 < l BY <1>0, <2>1
    <2>2. CASE ~(st + w - 1 < l) BY <1>0, <2>2
    <2> QED BY <2>1, <2>2
<1>5. st \in 1..l /\ e \in 1..l BY <1>T, <1>4
<1>6. /\ \A k \in 1..l : T[k] \in 1..Len(t) /\ t[T[k]] \in {"word", "blank"}
      /\ \A j, k \in 1..l : j < k => T[j] < T[k]
      /\ \A i \in 1..Len(t) : t[i] = "word" /\ UnderHeading(t, i) /\ SectionOf(t, i) = n
                                => \E k \in 1..l : T[k] = i
    <2>1. PICK z \in 1..SectionsIn(t) : z = n BY <1>1
    <2>2. T = TokensIn(t, z) BY <1>T, <2>1
    <2>3. \A k \in 1..Len(T) : T[k] \in 1..Len(t) /\ t[T[k]] \in {"word", "blank"}
        BY <2>2, TokenFacts
    <2>4. \A j, k \in 1..Len(T) : j < k => T[j] < T[k] BY <2>2, TokenFacts
    <2>5. \A i \in 1..Len(t) : t[i] = "word" /\ UnderHeading(t, i) /\ SectionOf(t, i) = z
                                  => \E k \in 1..Len(T) : T[k] = i
        BY <2>2, TokenFacts
    <2> QED BY <1>T, <2>1, <2>3, <2>4, <2>5
<1>7. Len(t) \in Nat BY DEF IsText
<1>8. cs \in Seq(ChunkRows) /\ Len(cs) \in Nat BY DEF Chunked
<1>9. PICK q : q = Len(cs) OBVIOUS
<1>10. q \in Nat BY <1>8, <1>9
<1>11. PICK row : row = RowOf(t, n, st, e, cs) OBVIOUS
<1>12. /\ row.section = n /\ row.index = q /\ row.tokens = e - st + 1 /\ row.from = st
       /\ row.first = T[st] /\ row.last = T[e]
    BY <1>T, <1>9, <1>11 DEF RowOf
<1>13. row \in ChunkRows
    <2>1. T[st] \in Nat /\ T[e] \in Nat BY <1>5, <1>6, <1>7
    <2>2. e - st + 1 \in Nat BY <1>1, <1>4
    <2> QED BY <1>T, <1>1, <1>9, <1>10, <1>11, <2>1, <2>2 DEF RowOf, ChunkRows
<1>14. PICK blank \in BOOLEAN : blank <=> C!IsBlank(t, T[st], T[e]) OBVIOUS
<1>15. ds = IF blank THEN cs ELSE Append(cs, row) BY <1>0, <1>11, <1>14
<1>16. /\ ds \in Seq(ChunkRows) /\ Len(ds) = IF blank THEN q ELSE q + 1
       /\ \A c \in 1..q : ds[c] = cs[c]
       /\ ~blank => ds[q + 1] = row
    BY <1>8, <1>9, <1>13, <1>15
<1>17. blank => t[T[st]] = "blank"
    <2>1. T[st] \in T[st]..T[e]
        <3>1. st = e \/ T[st] < T[e] BY <1>4, <1>5, <1>6
        <3>2. T[st] \in Nat /\ T[e] \in Nat BY <1>5, <1>6, <1>7
        <3> QED BY <3>1, <3>2
    <2> QED BY <1>5, <1>6, <1>14, <2>1 DEF C!IsBlank
<1>18. /\ m = IF e = l THEN n + 1 ELSE n
       /\ nx = IF e = l THEN 1 ELSE st + (w - o)
    BY <1>0
<1>19. m \in Nat \ {0} /\ nx \in Nat \ {0} /\ n <= m BY <1>1, <1>18
<1>20. InText(t, m, nx)
    <2> SUFFICES ASSUME m <= SectionsIn(t) PROVE nx <= Len(TokensIn(t, m)) + 1 BY <1>19 DEF InText
    <2>1. CASE e = l
        <3>1. m \in 1..SectionsIn(t) BY <1>1, <1>19
        <3>2. Len(TokensIn(t, m)) \in Nat BY <3>1, TokensAreListed
        <3> QED BY <1>18, <2>1, <3>2
    <2>2. CASE e # l
        <3>1. Len(TokensIn(t, m)) = l BY <1>T, <1>18, <2>2
        <3>2. nx <= l + 1 BY <1>1, <1>4, <1>18, <2>2
        <3> QED BY <3>1, <3>2
    <2> QED BY <2>1, <2>2
<1>21. /\ \A c \in 1..q : IsChunk(t, w, cs[c]) /\ cs[c].index = c - 1 /\ cs[c].section <= n
       /\ \A c \in 1..q : c > 1 => \/ cs[c-1].section < cs[c].section
                                   \/ cs[c-1].section = cs[c].section /\ Continues(t, w, o, cs[c-1], cs[c].from)
       /\ q > 0 /\ cs[q].section = n => Continues(t, w, o, cs[q], st)
    BY <1>9 DEF Chunked, ChunksInOrder, Behind
<1>22. ASSUME NEW c \in 1..q PROVE cs[c].section \in Nat /\ cs[c].from \in Nat
    <2>1. cs[c] \in ChunkRows BY <1>8, <1>9
    <2> QED BY <2>1 DEF ChunkRows
<1>23. IsChunk(t, w, row)
    <2>1. e - st + 1 \in 1..w /\ st + (e - st + 1) - 1 = e BY <1>1, <1>4
    <2>2. st \in 1..Len(TokensIn(t, n)) /\ e \in 1..Len(TokensIn(t, n)) BY <1>T, <1>5
    <2> QED BY <1>T, <1>1, <1>12, <2>1, <2>2 DEF IsChunk
<1>24. ChunksInOrder(t, w, o, ds)
    <2> SUFFICES ASSUME NEW c \in 1..Len(ds)
                 PROVE  /\ IsChunk(t, w, ds[c]) /\ ds[c].index = c - 1
                        /\ c > 1 => \/ ds[c-1].section < ds[c].section
                                    \/ ds[c-1].section = ds[c].section /\ Continues(t, w, o, ds[c-1], ds[c].from)
        BY DEF ChunksInOrder
    <2>1. CASE c \in 1..q
        <3>1. ds[c] = cs[c] /\ (c > 1 => ds[c - 1] = cs[c - 1]) BY <1>10, <1>16, <2>1
        <3> QED BY <1>21, <2>1, <3>1
    <2>2. CASE c \notin 1..q
        <3>1. c = q + 1 /\ c - 1 = q /\ ds[c] = row BY <1>10, <1>16, <2>2
        <3>2. c > 1 => ds[c - 1] = cs[q] /\ q \in 1..q /\ q > 0 BY <1>10, <1>16, <3>1
        <3>3. c > 1 => cs[q].section < n \/ cs[q].section = n BY <1>1, <1>21, <1>22, <3>2
        <3>4. c > 1 /\ cs[q].section = n => Continues(t, w, o, cs[q], row.from) BY <1>12, <1>21, <3>2
        <3> QED BY <1>12, <1>23, <3>1, <3>2, <3>3, <3>4
    <2> QED BY <2>1, <2>2
<1>25. Behind(t, w, o, m, nx, ds)
    <2>1. ASSUME NEW c \in 1..Len(ds) PROVE ds[c].section \in Nat /\ ds[c].section <= n
        <3>1. CASE c \in 1..q BY <1>16, <1>21, <1>22, <3>1
        <3>2. CASE c \notin 1..q
            <4>1. ds[c] = row BY <1>10, <1>16, <3>2
            <4> QED BY <1>1, <1>12, <4>1
        <3> QED BY <3>1, <3>2
    <2>2. ASSUME NEW c \in 1..Len(ds) PROVE ds[c].section <= m
        <3>1. PICK x \in Nat : x = ds[c].section /\ x <= n BY <2>1
        <3> QED BY <1>19, <3>1
    <2>3. ASSUME Len(ds) > 0, ds[Len(ds)].section = m PROVE Continues(t, w, o, ds[Len(ds)], nx)
        <3>1. PICK d : d = Len(ds) OBVIOUS
        <3>2. d \in Nat /\ d \in 1..d BY <1>10, <1>16, <2>3, <3>1
        <3>3. m <= n BY <2>1, <2>3, <3>1, <3>2
        <3>4. e # l /\ m = n /\ nx = st + (w - o) /\ e - st + 1 = w BY <1>1, <1>4, <1>18, <3>3
        <3>5. CASE ~blank
            <4>1. ds[d] = row BY <1>16, <3>1, <3>5
            <4>2. row.tokens = w /\ row.from < nx /\ nx = row.from + (w - o)
                BY <1>1, <1>12, <3>4
            <4> QED BY <3>1, <4>1, <4>2 DEF Continues
        <3>6. CASE blank
            <4>0. d = q BY <1>16, <3>1, <3>6
            <4>1. d = q /\ ds[d] = cs[q] /\ q > 0 /\ q \in 1..q BY <1>10, <1>16, <2>3, <3>1, <4>0
            <4>2. cs[q].section = n BY <2>3, <3>1, <3>4, <4>1
            <4>3. Continues(t, w, o, cs[q], st) BY <1>21, <4>1, <4>2
            <4>4. cs[q].from \in Nat BY <1>22, <4>1
            <4>5. cs[q].from < nx BY <1>1, <3>4, <4>3, <4>4 DEF Continues
            <4>6. t[TokensIn(t, n)[cs[q].from + (w - o)]] = "blank"
                BY <1>T, <1>17, <3>6, <4>2, <4>3 DEF Continues
            <4> QED BY <3>1, <4>1, <4>2, <4>3, <4>5, <4>6 DEF Continues
        <3> QED BY <3>5, <3>6
    <2> QED BY <2>2, <2>3 DEF Behind
<1>26. WordsKept(t, m, nx, ds)
    <2> SUFFICES ASSUME NEW i \in 1..Len(t), t[i] = "word", UnderHeading(t, i), Passed(t, m, nx, i)
                 PROVE  Covered(t, ds, i)
        BY DEF WordsKept
    <2>1. CASE Passed(t, n, st, i)
        <3>1. Covered(t, cs, i) BY <2>1 DEF Chunked, WordsKept
        <3>2. PICK c \in 1..q : i \in cs[c].first..cs[c].last /\ cs[c].section = SectionOf(t, i)
            BY <1>9, <3>1 DEF Covered
        <3>3. c \in 1..Len(ds) /\ ds[c] = cs[c] BY <1>10, <1>16
        <3> QED BY <3>2, <3>3 DEF Covered
    <2>2. CASE ~Passed(t, n, st, i)
        <3>0. SectionOf(t, i) \in Nat
            <4>1. t[i] # "heading" OBVIOUS
            <4> QED BY <1>1, <4>1, SectionsFacts DEF SectionsIn
        <3>1. ~(SectionOf(t, i) < n) BY <2>2 DEF Passed
        <3>2. SectionOf(t, i) = n /\ \E k \in 1..l : T[k] = i /\ (e # l => k <= nx - 1)
            <4>1. CASE e = l
                <5>1. SectionOf(t, i) < n + 1
                    <6>1. ~ \E k \in 1..(1 - 1) : TRUE OBVIOUS
                    <6> QED BY <1>18, <4>1, <6>1 DEF Passed
                <5>2. SectionOf(t, i) = n BY <1>1, <3>0, <3>1, <5>1
                <5> QED BY <1>6, <4>1, <5>2
            <4>2. CASE e # l
                <5>1. m = n BY <1>18, <4>2
                <5>2. SectionOf(t, i) = n /\ \E k \in 1..(nx - 1) : T[k] = i BY <1>T, <3>1, <5>1 DEF Passed
                <5>3. nx - 1 <= l BY <1>1, <1>4, <1>18, <4>2
                <5>4. \A k \in 1..(nx - 1) : k \in 1..l /\ k <= nx - 1 BY <1>19, <5>3
                <5> QED BY <5>2, <5>4
            <4> QED BY <4>1, <4>2
        <3>3. PICK k \in 1..l : T[k] = i /\ (e # l => k <= nx - 1) BY <3>2
        <3>4. k \in st..e
            <4>1. ~(k \in 1..(st - 1)) BY <1>T, <2>2, <3>2, <3>3 DEF Passed
            <4>2. k >= st BY <1>1, <4>1
            <4>3. k <= e BY <1>1, <1>4, <1>18, <3>3
            <4> QED BY <1>1, <4>2, <4>3
        <3>5. T[st] <= i /\ i <= T[e]
            <4>1. T[st] \in Nat /\ T[e] \in Nat BY <1>5, <1>6, <1>7
            <4>0. /\ st \in Nat /\ e \in Nat /\ k \in Nat /\ T[k] \in Nat
                  /\ (st = k \/ st < k) /\ (k = e \/ k < e)
                BY <1>5, <1>6, <3>3, <3>4, <4>1
            <4>2. st = k \/ T[st] < T[k] BY <1>5, <1>6, <4>0
            <4>3. k = e \/ T[k] < T[e] BY <1>5, <1>6, <4>0
            <4>4. T[st] <= T[k] BY <4>0, <4>1, <4>2
            <4>5. T[k] <= T[e]
                <5>1. PICK x \in Nat, y \in Nat : x = T[k] /\ y = T[e] BY <4>0, <4>1
                <5>2. k = e => x = y BY <5>1
                <5> QED BY <4>3, <5>1, <5>2
            <4> QED BY <3>3, <4>4, <4>5
        <3>6. i \in T[st]..T[e] BY <1>5, <1>6, <1>7, <3>5
        <3>7. ~blank BY <1>14, <3>6 DEF C!IsBlank
        <3>8. q + 1 \in 1..Len(ds) /\ ds[q + 1] = row BY <1>10, <1>16, <3>7
        <3> QED BY <1>12, <3>2, <3>6, <3>8 DEF Covered
    <2> QED BY <2>1, <2>2
<1> QED BY <1>16, <1>20, <1>24, <1>25, <1>26 DEF Chunked

\* A section without tokens holds no word.
LEMMA SkipKeeps ==
    ASSUME NEW t, IsText(t), NEW w, NEW o, NEW n, NEW st, NEW cs, Chunked(t, w, o, n, st, cs),
           n <= SectionsIn(t), st > Len(TokensIn(t, n))
    PROVE  Chunked(t, w, o, n + 1, 1, cs)
<1>1. n \in Nat \ {0} /\ st \in Nat \ {0} /\ SectionsIn(t) \in Nat
    BY SectionsFacts DEF Chunked, InText, SectionsIn
<1>2. n \in 1..SectionsIn(t) BY <1>1
<1>3. PICK T : T = TokensIn(t, n) OBVIOUS
<1>4. PICK l \in Nat : l = Len(T) BY <1>2, <1>3, TokenFacts
<1>5. st - 1 = l
    <2>1. st <= l + 1 /\ st > l BY <1>3, <1>4 DEF Chunked, InText
    <2> QED BY <1>1, <2>1
<1>6. InText(t, n + 1, 1)
    <2> SUFFICES ASSUME n + 1 <= SectionsIn(t) PROVE 1 <= Len(TokensIn(t, n + 1)) + 1
        BY <1>1 DEF InText
    <2>1. PICK m \in 1..SectionsIn(t) : m = n + 1 BY <1>1
    <2>2. Len(TokensIn(t, m)) \in Nat BY TokensAreListed
    <2> QED BY <2>1, <2>2
<1>7. cs \in Seq(ChunkRows) /\ ChunksInOrder(t, w, o, cs) BY DEF Chunked
<1>8. Behind(t, w, o, n + 1, 1, cs)
    <2>1. ASSUME NEW c \in 1..Len(cs) PROVE cs[c].section \in Nat /\ cs[c].section <= n
        <3>1. cs[c] \in ChunkRows BY <1>7
        <3>2. cs[c].section <= n BY DEF Chunked, Behind
        <3> QED BY <3>1, <3>2 DEF ChunkRows
    <2>2. \A c \in 1..Len(cs) : cs[c].section <= n + 1 /\ cs[c].section # n + 1 BY <1>1, <2>1
    <2>3. Len(cs) > 0 => Len(cs) \in 1..Len(cs) BY <1>7
    <2> QED BY <2>2, <2>3 DEF Behind
<1>9. WordsKept(t, n + 1, 1, cs)
    <2> SUFFICES ASSUME NEW i \in 1..Len(t), t[i] = "word", UnderHeading(t, i), Passed(t, n + 1, 1, i)
                 PROVE  Covered(t, cs, i)
        BY DEF WordsKept
    <2>1. ~ \E k \in 1..(1 - 1) : TRUE OBVIOUS
    <2>2. SectionOf(t, i) < n + 1 BY <2>1 DEF Passed
    <2>3. SectionOf(t, i) \in Nat
        <3>1. t[i] # "heading" OBVIOUS
        <3> QED BY <1>1, <3>1, SectionsFacts DEF SectionsIn
    <2>4. SectionOf(t, i) < n \/ SectionOf(t, i) = n BY <1>1, <2>2, <2>3
    <2>5. Passed(t, n, st, i)
        <3>1. CASE SectionOf(t, i) < n BY <3>1 DEF Passed
        <3>2. CASE SectionOf(t, i) = n
            <4>1. \E k \in 1..l : T[k] = i BY <1>2, <1>3, <1>4, <3>2, TokenFacts
            <4> QED BY <1>3, <1>5, <3>2, <4>1 DEF Passed
        <3> QED BY <2>4, <3>1, <3>2
    <2> QED BY <2>5 DEF Chunked, WordsKept
<1> QED BY <1>6, <1>7, <1>8, <1>9 DEF Chunked

LEMMA ChunkStep == ChunkInv /\ [C!Next]_chunkVars => ChunkInv'
<1> SUFFICES ASSUME ChunkInv, [C!Next]_chunkVars PROVE ChunkInv' OBVIOUS
<1>1. CASE C!Window
    <2>1. /\ outcome = "running" /\ UNCHANGED <<text, size, outcome>>
          /\ section <= SectionsIn(text) /\ start <= Len(TokensIn(text, section))
        BY <1>1 DEF C!Window, C!Sections, C!Tokens, SectionsIn, TokensIn
    <2>2. PICK w \in Nat \ {0}, o \in Nat : w = size[1] /\ o = size[2]
        BY ChunkParameters DEF ChunkInv, IsSize
    <2>3. o < w /\ IsText(text) /\ size \in Sizes BY <2>1, <2>2 DEF ChunkInv
    <2>4. Chunked(text, w, o, section, start, chunks) BY <2>2 DEF ChunkInv
    <2>5. section \in Nat \ {0} /\ start \in Nat \ {0} BY <2>4 DEF Chunked, InText
    <2>6. PICK T : T = TokensIn(text, section) OBVIOUS
    <2>7. section \in 1..SectionsIn(text)
        BY <2>1, <2>3, <2>5, SectionsFacts DEF SectionsIn
    <2>8. PICK l \in Nat : l = Len(T) BY <2>3, <2>6, <2>7, TokenFacts
    <2>9. PICK e : e = IF start + w - 1 < l THEN start + w - 1 ELSE l OBVIOUS
    <2>10. C!Stride(size) = w - o BY <2>2, <2>3 DEF C!Stride
    <2>11. /\ chunks' = IF C!IsBlank(text, T[start], T[e]) THEN chunks
                        ELSE Append(chunks, RowOf(text, section, start, e, chunks))
           /\ IF e = l THEN section' = section + 1 /\ start' = 1
                       ELSE start' = start + C!Stride(size) /\ section' = section
        BY <1>1, <2>2, <2>6, <2>8, <2>9
        DEF C!Window, C!Tokens, C!Sections, TokensIn, RowOf
    <2>12. /\ section' = IF e = l THEN section + 1 ELSE section
           /\ start' = IF e = l THEN 1 ELSE start + (w - o)
        BY <2>10, <2>11
    <2>13. PICK ds, m, nx : ds = chunks' /\ m = section' /\ nx = start' OBVIOUS
    <2>14. start <= l BY <2>1, <2>6, <2>8
    <2>15. Chunked(text, w, o, m, nx, ds)
        <3>0. PICK cs : cs = chunks OBVIOUS
        <3>1. PICK n \in Nat \ {0}, st \in Nat \ {0} : n = section /\ st = start BY <2>5
        <3>2. Chunked(text, w, o, n, st, cs) /\ T = TokensIn(text, n) /\ n <= SectionsIn(text) /\ st <= l
            BY <2>1, <2>4, <2>6, <2>14, <3>0, <3>1
        <3>3. /\ e = IF st + w - 1 < l THEN st + w - 1 ELSE l
              /\ ds = IF C!IsBlank(text, T[st], T[e]) THEN cs ELSE Append(cs, RowOf(text, n, st, e, cs))
              /\ m = IF e = l THEN n + 1 ELSE n
              /\ nx = IF e = l THEN 1 ELSE st + (w - o)
            BY <2>9, <2>11, <2>12, <2>13, <3>0, <3>1
        <3>4. IsWindow(text, w, o, n, st, cs, T, l, e, ds, m, nx) BY <2>8, <3>2, <3>3 DEF IsWindow
        <3> QED BY <2>2, <2>3, <2>8, <3>1, <3>2, <3>4, WindowKeeps
    <2> QED BY <2>1, <2>2, <2>3, <2>13, <2>15 DEF ChunkInv
<1>2. CASE C!SkipSection
    <2>1. /\ outcome = "running" /\ UNCHANGED <<text, size, chunks, outcome>>
          /\ section <= SectionsIn(text) /\ start > Len(TokensIn(text, section))
          /\ section' = section + 1 /\ start' = 1
        BY <1>2 DEF C!SkipSection, C!Sections, C!Tokens, SectionsIn, TokensIn
    <2>2. Chunked(text, size[1], size[2], section + 1, 1, chunks)
        BY <2>1, SkipKeeps DEF ChunkInv
    <2> QED BY <2>1, <2>2 DEF ChunkInv
<1>3. CASE C!Finish
    <2>1. /\ outcome = "running" /\ UNCHANGED <<text, size, section, start, chunks>>
          /\ section > SectionsIn(text) /\ outcome' = "done"
        BY <1>3 DEF C!Finish, C!Sections, SectionsIn
    <2> QED BY <2>1 DEF ChunkInv
<1>4. CASE UNCHANGED chunkVars BY <1>4 DEF chunkVars, ChunkInv
<1> QED BY <1>1, <1>2, <1>3, <1>4 DEF C!Next

\* The counts of the model are those above.
LEMMA SameCount == \A i : C!HeadingsBefore(i) = Heads(text, i)
BY DEF C!HeadingsBefore, Heads, Cardinality, C!Cardinality

LEMMA ChunksKept == ChunkInv => C!ChunksKeepText
<1> SUFFICES ASSUME ChunkInv, outcome = "done" PROVE C!ChunksKeepText BY DEF C!ChunksKeepText
<1>1. IsText(text) /\ section > SectionsIn(text) /\ size[2] < size[1] /\ SectionsIn(text) \in Nat
    BY SectionsFacts DEF ChunkInv, SectionsIn
<1>2. PICK w \in Nat \ {0}, o \in Nat : w = size[1] /\ o = size[2] /\ o < w
    BY <1>1, ChunkParameters DEF ChunkInv, IsSize
<1>3. Chunked(text, w, o, section, start, chunks) BY <1>2 DEF ChunkInv
<1>4. chunks \in Seq(ChunkRows) /\ section \in Nat /\ Len(chunks) \in Nat /\ DOMAIN chunks = 1..Len(chunks)
    BY <1>3 DEF Chunked, InText
<1>5. DOMAIN text = 1..Len(text) BY <1>1 DEF IsText
<1>6. ASSUME NEW i \in DOMAIN text, text[i] = "word", C!Headed(i)
      PROVE  \E c \in DOMAIN chunks :
                i \in chunks[c].first..chunks[c].last /\ chunks[c].section = C!SectionAt(i)
    <2>1. C!SectionAt(i) = SectionOf(text, i) /\ UnderHeading(text, i) /\ i \in 1..Len(text)
        BY <1>5, <1>6, SameCount DEF C!SectionAt, C!Headed, SectionOf, UnderHeading
    <2>2. text[i] # "heading" BY <1>6
    <2>3. SectionOf(text, i) \in 1..SectionsIn(text) BY <1>1, <2>1, <2>2, SectionsFacts DEF SectionsIn
    <2>4. SectionOf(text, i) < section BY <1>1, <1>4, <2>3
    <2>5. Passed(text, section, start, i) BY <2>4 DEF Passed
    <2>6. Covered(text, chunks, i) BY <1>3, <1>6, <2>1, <2>5 DEF Chunked, WordsKept
    <2> QED BY <1>4, <2>1, <2>6 DEF Covered
<1>7. ASSUME NEW c \in DOMAIN chunks
      PROVE  /\ chunks[c].tokens <= size[1] /\ chunks[c].index = c - 1
             /\ \A i \in chunks[c].first..chunks[c].last : text[i] # "heading"
             /\ c > 1 =>
                  /\ chunks[c].section > chunks[c-1].section \/ chunks[c].first > chunks[c-1].first
                  /\ chunks[c].section = chunks[c-1].section =>
                       \/ chunks[c-1].from + chunks[c-1].tokens - chunks[c].from = size[2]
                       \/ LET skipped == chunks[c-1].from + size[1] - size[2]
                          IN text[C!TokensOf(text, C!Sections[chunks[c].section])[skipped]] = "blank"
    <2>1. PICK x : x = chunks[c] OBVIOUS
    <2>2. c \in 1..Len(chunks) BY <1>4
    <2>3. IsChunk(text, w, x) /\ x.index = c - 1 /\ x \in ChunkRows
        BY <1>3, <1>4, <2>1, <2>2 DEF Chunked, ChunksInOrder
    <2>4. PICK n \in 1..SectionsIn(text) : n = x.section BY <2>3 DEF IsChunk
    <2>5. PICK T : T = TokensIn(text, n) OBVIOUS
    <2>6. PICK a, b : a = x.from /\ b = x.from + x.tokens - 1 OBVIOUS
    <2>7. a \in 1..Len(T) /\ b \in 1..Len(T) /\ x.first = T[a] /\ x.last = T[b]
        BY <2>3, <2>4, <2>5, <2>6 DEF IsChunk
    <2>8. x.tokens <= size[1] BY <1>2, <2>3 DEF IsChunk
    <2>9. \A i \in x.first..x.last : text[i] # "heading" BY <1>1, <2>5, <2>7, TokenFacts
    <2>10. ASSUME c > 1
           PROVE  /\ x.section > chunks[c-1].section \/ x.first > chunks[c-1].first
                  /\ x.section = chunks[c-1].section =>
                       \/ chunks[c-1].from + chunks[c-1].tokens - x.from = size[2]
                       \/ text[TokensIn(text, x.section)[chunks[c-1].from + size[1] - size[2]]] = "blank"
        <3>1. c - 1 \in 1..Len(chunks) BY <1>4, <2>2, <2>10
        <3>2. PICK y : y = chunks[c - 1] OBVIOUS
        <3>3. IsChunk(text, w, y) /\ y \in ChunkRows
            BY <1>3, <1>4, <3>1, <3>2 DEF Chunked, ChunksInOrder
        <3>4. y.section < x.section \/ (y.section = x.section /\ Continues(text, w, o, y, x.from))
            BY <1>3, <2>1, <2>2, <2>10, <3>2 DEF Chunked, ChunksInOrder
        <3>5. /\ x.section \in Nat /\ y.section \in Nat /\ x.from \in Nat /\ y.from \in Nat
              /\ x.tokens \in Nat /\ y.tokens \in Nat
            BY <2>3, <3>3 DEF ChunkRows
        <3>6. CASE y.section < x.section BY <3>2, <3>5, <3>6
        <3>7. CASE y.section = x.section /\ Continues(text, w, o, y, x.from)
            <4>1. y.tokens = w /\ y.from < x.from BY <3>7 DEF Continues
            <4>2. x.from = y.from + (w - o) \/ text[TokensIn(text, x.section)[y.from + (w - o)]] = "blank"
                BY <3>7 DEF Continues
            <4>3. y.from \in 1..Len(T) /\ y.first = T[y.from] BY <2>4, <2>5, <3>3, <3>7 DEF IsChunk
            <4>4. T[y.from] < T[a] /\ T[a] \in Nat /\ T[y.from] \in Nat
                <5>1. Len(text) \in Nat BY <1>1 DEF IsText
                <5>2. a \in 1..Len(T) /\ y.from < a BY <2>6, <2>7, <4>1
                <5>3. T[y.from] < T[a] /\ T[a] \in 1..Len(text) /\ T[y.from] \in 1..Len(text)
                    BY <1>1, <2>5, <4>3, <5>2, TokenFacts
                <5> QED BY <5>1, <5>3
            <4>5. x.first > y.first BY <2>7, <4>3, <4>4
            <4>6. y.from + (w - o) = y.from + size[1] - size[2] BY <1>2, <3>5
            <4>7. x.from = y.from + (w - o) => y.from + y.tokens - x.from = size[2]
                BY <1>2, <3>5, <4>1
            <4> QED BY <3>2, <4>2, <4>5, <4>6, <4>7
        <3> QED BY <3>4, <3>6, <3>7
    <2>11. \A n_ : C!TokensOf(text, C!Sections[n_]) = TokensIn(text, n_) BY DEF C!Sections, TokensIn
    <2> QED BY <2>1, <2>3, <2>8, <2>9, <2>10, <2>11
<1> QED BY <1>6, <1>7 DEF C!ChunksKeepText

-----------------------------------------------------------------------------
\* Ranked lists

\* A finite set with a strict total order.
IsOrder(S, order) ==
    /\ IsFiniteSet(S)
    /\ \A x \in S : <<x, x>> \notin order
    /\ \A x, y \in S : x = y \/ <<x, y>> \in order \/ <<y, x>> \in order
    /\ \A x, y, z \in S : <<x, y>> \in order /\ <<y, z>> \in order => <<x, z>> \in order

LEMMA SameCardinality == \A S : A!Cardinality(S) = Cardinality(S)
BY DEF Cardinality, A!Cardinality

LEMMA OrderOfPart ==
    ASSUME NEW S, NEW order, IsOrder(S, order), NEW T \in SUBSET S
    PROVE  IsOrder(T, order)
<1>1. IsFiniteSet(T) BY FS_Subset DEF IsOrder
<1> QED BY <1>1 DEF IsOrder

LEMMA AheadIsPart ==
    ASSUME NEW S, NEW order, IsOrder(S, order), NEW x \in S
    PROVE  /\ A!Ahead(x, S, order) \subseteq S \ {x} /\ IsFiniteSet(A!Ahead(x, S, order))
           /\ Cardinality(A!Ahead(x, S, order)) \in Nat
           /\ A!Rank(x, S, order) = Cardinality(A!Ahead(x, S, order)) + 1
           /\ A!Rank(x, S, order) \in Nat \ {0}
<1> DEFINE before == A!Ahead(x, S, order)
<1>1. before \subseteq S \ {x} BY DEF A!Ahead, IsOrder
<1>2. IsFiniteSet(before) BY <1>1, FS_Subset DEF IsOrder
<1>3. Cardinality(before) \in Nat BY <1>2, FS_CardinalityType
<1>4. A!Rank(x, S, order) = Cardinality(before) + 1 BY SameCardinality DEF A!Rank
<1> QED BY <1>1, <1>2, <1>3, <1>4

\* The ranks are the numbers from one, in the order.
LEMMA RanksFollowOrder ==
    ASSUME NEW S, NEW order, IsOrder(S, order), NEW x \in S, NEW y \in S
    PROVE  <<x, y>> \in order <=> A!Rank(x, S, order) < A!Rank(y, S, order)
<1>1. ASSUME NEW a \in S, NEW b \in S, <<a, b>> \in order
      PROVE  A!Rank(a, S, order) < A!Rank(b, S, order)
    <2> DEFINE before == A!Ahead(a, S, order)
               later == A!Ahead(b, S, order)
    <2>1. before \cup {a} \subseteq later BY <1>1 DEF A!Ahead, IsOrder
    <2>2. /\ IsFiniteSet(before) /\ a \notin before /\ IsFiniteSet(later)
          /\ Cardinality(before) \in Nat /\ Cardinality(later) \in Nat
        BY AheadIsPart
    <2>3. IsFiniteSet(before \cup {a}) /\ Cardinality(before \cup {a}) = Cardinality(before) + 1
        BY <2>2, FS_AddElement
    <2>4. Cardinality(before \cup {a}) <= Cardinality(later) BY <2>1, <2>2, FS_Subset
    <2>5. /\ A!Rank(a, S, order) = Cardinality(before) + 1
          /\ A!Rank(b, S, order) = Cardinality(later) + 1
        BY AheadIsPart
    <2> HIDE DEF before, later
    <2> QED BY <2>2, <2>3, <2>4, <2>5
<1> DEFINE m == A!Rank(x, S, order)
           n == A!Rank(y, S, order)
<1>2. m \in Nat /\ n \in Nat BY AheadIsPart
<1>3. x = y \/ <<x, y>> \in order \/ <<y, x>> \in order BY DEF IsOrder
<1>4. (x = y => m = n) /\ (<<y, x>> \in order => n < m) /\ (<<x, y>> \in order => m < n)
    BY <1>1
<1>5. <<x, y>> \in order => m < n BY <1>1
<1> HIDE DEF m, n
<1>6. ASSUME m < n PROVE <<x, y>> \in order
    <2>1. ~(m = n) /\ ~(n < m) BY <1>2, <1>6
    <2> QED BY <1>3, <1>4, <2>1
<1>7. <<x, y>> \in order <=> m < n BY <1>5, <1>6
<1> QED BY <1>7 DEF m, n

LEMMA RanksAreBounded ==
    ASSUME NEW S, NEW order, IsOrder(S, order), NEW x \in S
    PROVE  Cardinality(S) \in Nat /\ A!Rank(x, S, order) \in 1..Cardinality(S)
<1> DEFINE before == A!Ahead(x, S, order)
<1>1. before \subseteq S \ {x} /\ A!Rank(x, S, order) = Cardinality(before) + 1
        /\ Cardinality(before) \in Nat
    BY AheadIsPart
<1>2. /\ IsFiniteSet(S) /\ Cardinality(S) \in Nat
      /\ IsFiniteSet(S \ {x}) /\ Cardinality(S \ {x}) = Cardinality(S) - 1
    BY FS_RemoveElement, FS_CardinalityType DEF IsOrder
<1>3. Cardinality(before) <= Cardinality(S \ {x}) BY <1>1, <1>2, FS_Subset
<1> QED BY <1>1, <1>2, <1>3

\* A list written out holds every member at its rank.
LEMMA Enumerated ==
    ASSUME NEW S, NEW order, IsOrder(S, order)
    PROVE  LET s == A!InOrder(S, order)
               n == Cardinality(S)
           IN  /\ n \in Nat /\ s = [i \in 1..n |-> s[i]]
               /\ \A i \in 1..n : s[i] \in S /\ A!Rank(s[i], S, order) = i
               /\ \A x \in S : A!Rank(x, S, order) \in 1..n /\ s[A!Rank(x, S, order)] = x
<1> DEFINE s == A!InOrder(S, order)
           n == Cardinality(S)
           f == [x \in S |-> A!Rank(x, S, order)]
<1>1. n \in Nat /\ IsFiniteSet(S) BY FS_CardinalityType DEF IsOrder
<1>2. s = [i \in 1..n |-> CHOOSE x \in S : A!Rank(x, S, order) = i]
    BY SameCardinality DEF A!InOrder
<1>3. f \in [S -> 1..n] BY RanksAreBounded
<1>4. \A x, y \in S : f[x] = f[y] => x = y
    <2> SUFFICES ASSUME NEW x \in S, NEW y \in S, f[x] = f[y] PROVE x = y OBVIOUS
    <2>1. <<x, y>> \notin order /\ <<y, x>> \notin order BY RanksFollowOrder, RanksAreBounded
    <2> QED BY <2>1 DEF IsOrder
<1>5. f \in Injection(S, 1..n) BY <1>3, <1>4 DEF Injection, IsInjective
<1>6. IsFiniteSet(1..n) /\ Cardinality(1..n) = n BY <1>1, FS_Interval
<1>7. f \in Surjection(S, 1..n) BY <1>1, <1>5, <1>6, FS_Injection
<1>8. ASSUME NEW i \in 1..n PROVE s[i] \in S /\ A!Rank(s[i], S, order) = i
    <2>1. PICK x \in S : f[x] = i BY <1>7 DEF Surjection
    <2> QED BY <1>2, <2>1
<1>9. ASSUME NEW x \in S PROVE A!Rank(x, S, order) \in 1..n /\ s[A!Rank(x, S, order)] = x
    BY <1>3, <1>4, <1>8
<1>10. s = [i \in 1..n |-> s[i]] BY <1>2
<1> QED BY <1>1, <1>8, <1>9, <1>10

LEMMA BestFacts ==
    ASSUME NEW S, NEW order, IsOrder(S, order), NEW n \in Nat
    PROVE  LET B == A!Best(S, order, n)
           IN  /\ B \subseteq S /\ IsOrder(B, order) /\ Cardinality(B) <= n
               /\ \A x \in S, y \in B : <<x, y>> \in order => x \in B
<1> DEFINE B == A!Best(S, order, n)
           f == [x \in B |-> A!Rank(x, S, order)]
<1>1. B \subseteq S BY DEF A!Best
<1>2. IsOrder(B, order) BY <1>1, OrderOfPart
<1>3. \A x \in B : A!Rank(x, S, order) \in 1..n BY <1>1, AheadIsPart DEF A!Best
<1>4. f \in [B -> 1..n] BY <1>3
<1>5. \A x, y \in B : f[x] = f[y] => x = y
    <2> SUFFICES ASSUME NEW x \in B, NEW y \in B, f[x] = f[y] PROVE x = y OBVIOUS
    <2>1. <<x, y>> \notin order /\ <<y, x>> \notin order BY <1>1, <1>3, RanksFollowOrder
    <2> QED BY <1>1, <2>1 DEF IsOrder
<1>6. f \in Injection(B, 1..n) BY <1>4, <1>5 DEF Injection, IsInjective
<1>7. Cardinality(B) <= n
    <2>1. IsFiniteSet(1..n) /\ Cardinality(1..n) = n BY FS_Interval
    <2> QED BY <1>6, <2>1, FS_Injection
<1>8. ASSUME NEW x \in S, NEW y \in B, <<x, y>> \in order PROVE x \in B
    <2>1. A!Rank(x, S, order) < A!Rank(y, S, order) BY <1>1, <1>8, RanksFollowOrder
    <2>2. A!Rank(y, S, order) \in 1..n /\ A!Rank(x, S, order) \in Nat BY <1>1, <1>3, AheadIsPart
    <2> QED BY <2>1, <2>2 DEF A!Best
<1> QED BY <1>1, <1>2, <1>7, <1>8

\* Cutting a list longer, dropping a member and cutting it shorter is dropping the
\* member and cutting it shorter.
LEMMA BestOfBest ==
    ASSUME NEW S, NEW order, IsOrder(S, order), NEW l \in Nat, NEW k \in Nat, k < l, NEW m
    PROVE  A!Best(A!Best(S, order, l) \ {m}, order, k) = A!Best(S \ {m}, order, k)
<1> DEFINE B == A!Best(S, order, l)
<1>1. B \subseteq S /\ \A x \in S, y \in B : <<x, y>> \in order => x \in B BY BestFacts
<1>2. IsOrder(S \ {m}, order) /\ IsOrder(B \ {m}, order) BY <1>1, OrderOfPart
<1>3. ASSUME NEW p \in A!Best(S \ {m}, order, k) PROVE p \in A!Best(B \ {m}, order, k)
    <2> DEFINE here == A!Ahead(p, S \ {m}, order)
               all == A!Ahead(p, S, order)
               there == A!Ahead(p, B \ {m}, order)
    <2>1. p \in S \ {m} /\ A!Rank(p, S \ {m}, order) <= k BY DEF A!Best
    <2>2. /\ A!Rank(p, S \ {m}, order) = Cardinality(here) + 1
          /\ Cardinality(here) \in Nat /\ IsFiniteSet(here)
        BY <1>2, <2>1, AheadIsPart
    <2>3. A!Rank(p, S, order) = Cardinality(all) + 1 /\ Cardinality(all) \in Nat /\ IsFiniteSet(all)
        BY <2>1, AheadIsPart
    <2>4. all \subseteq here \cup {m} BY DEF A!Ahead
    <2>5. IsFiniteSet(here \cup {m}) /\ Cardinality(here \cup {m}) \in {Cardinality(here), Cardinality(here) + 1}
        BY <2>2, FS_AddElement
    <2>6. Cardinality(all) <= Cardinality(here \cup {m}) BY <2>4, <2>5, FS_Subset
    <2>7. p \in B \ {m}
        <3>1. A!Rank(p, S, order) <= l BY <2>1, <2>2, <2>3, <2>5, <2>6
        <3> QED BY <2>1, <3>1 DEF A!Best
    <2>8. A!Rank(p, B \ {m}, order) = Cardinality(there) + 1 /\ Cardinality(there) \in Nat
        BY <1>2, <2>7, AheadIsPart
    <2>9. there \subseteq here BY <1>1 DEF A!Ahead
    <2>10. Cardinality(there) <= Cardinality(here) BY <2>2, <2>9, FS_Subset
    <2>11. A!Rank(p, B \ {m}, order) <= k BY <2>1, <2>2, <2>8, <2>10
    <2> QED BY <2>7, <2>11 DEF A!Best
<1>4. ASSUME NEW p \in A!Best(B \ {m}, order, k) PROVE p \in A!Best(S \ {m}, order, k)
    <2>1. p \in B \ {m} /\ A!Rank(p, B \ {m}, order) <= k BY DEF A!Best
    <2>2. A!Ahead(p, S \ {m}, order) = A!Ahead(p, B \ {m}, order) BY <1>1, <2>1 DEF A!Ahead
    <2>3. /\ A!Rank(p, S \ {m}, order) = Cardinality(A!Ahead(p, S \ {m}, order)) + 1
          /\ A!Rank(p, B \ {m}, order) = Cardinality(A!Ahead(p, B \ {m}, order)) + 1
        BY <1>1, <1>2, <2>1, AheadIsPart
    <2>4. A!Rank(p, S \ {m}, order) <= k BY <2>1, <2>2, <2>3
    <2> QED BY <1>1, <2>1, <2>4 DEF A!Best
<1> QED BY <1>3, <1>4

-----------------------------------------------------------------------------
\* Rankings of the two searches and of their fusion

\* What the proof needs of the chunks and of the queries.
IsQuery(q) ==
    /\ q.topK \in Nat /\ q.topK < Depth
    /\ q.dense \in Seq(A!Points)
    /\ \A i, j \in DOMAIN q.dense : q.dense[i] = q.dense[j] => i = j
    /\ \A p \in A!Points : \E i \in DOMAIN q.dense : q.dense[i] = p
    /\ \A c \in Chunks : q.sparse[c] \in Nat

LEMMA AnswerParameters ==
    /\ Chunks \subseteq Nat \ {0} /\ IsFiniteSet(A!Points)
    /\ \A c \in Chunks : Source[c] # A!NoSource
    /\ \A q \in Queries : IsQuery(q)
<1>1. IsFiniteSet(Chunks) /\ IsFiniteSet({A!Marker}) BY ChunksOK, FS_Singleton
<1>2. IsFiniteSet(A!Points) BY <1>1, FS_Union DEF A!Points
<1>3. \A q \in Queries : IsQuery(q) BY QueriesOK DEF IsQuery
<1> QED BY <1>2, <1>3, ChunksOK

LEMMA ChunksAreFinite == IsFiniteSet(Chunks) /\ Chunks \subseteq A!Points /\ A!Marker \notin Chunks
<1>1. Chunks \subseteq A!Points BY DEF A!Points
<1>2. A!Marker \notin Chunks BY AnswerParameters DEF A!Marker
<1> QED BY <1>1, <1>2, AnswerParameters, FS_Subset

LEMMA DenseIsOrder ==
    ASSUME NEW q, IsQuery(q)
    PROVE  IsOrder(A!Points, A!DenseOrder(q))
<1> DEFINE d == q.dense
           o == A!DenseOrder(q)
<1>1. DOMAIN d = 1..Len(d) /\ Len(d) \in Nat BY DEF IsQuery
<1>2. \A i, j \in DOMAIN d : d[i] = d[j] => i = j BY DEF IsQuery
<1>3. ASSUME NEW x \in A!Points, NEW y \in A!Points
      PROVE  <<x, y>> \in o <=> \E i, j \in DOMAIN d : i < j /\ d[i] = x /\ d[j] = y
    BY DEF A!DenseOrder
<1> HIDE DEF o
<1>4. ASSUME NEW x \in A!Points PROVE <<x, x>> \notin o BY <1>1, <1>2, <1>3
<1>5. ASSUME NEW x \in A!Points, NEW y \in A!Points PROVE x = y \/ <<x, y>> \in o \/ <<y, x>> \in o
    <2>1. PICK i \in DOMAIN d : d[i] = x BY DEF IsQuery
    <2>2. PICK j \in DOMAIN d : d[j] = y BY DEF IsQuery
    <2> QED BY <1>1, <1>3, <2>1, <2>2
<1>6. ASSUME NEW x \in A!Points, NEW y \in A!Points, NEW z \in A!Points,
             <<x, y>> \in o, <<y, z>> \in o
      PROVE  <<x, z>> \in o
    <2>1. PICK i \in DOMAIN d, j \in DOMAIN d : i < j /\ d[i] = x /\ d[j] = y BY <1>3, <1>6
    <2>2. PICK k \in DOMAIN d, l \in DOMAIN d : k < l /\ d[k] = y /\ d[l] = z BY <1>3, <1>6
    <2>3. j = k BY <1>2, <2>1, <2>2
    <2>4. i < l BY <1>1, <2>1, <2>2, <2>3
    <2> QED BY <1>3, <2>1, <2>2, <2>4
<1> QED BY <1>4, <1>5, <1>6, AnswerParameters DEF IsOrder, o

LEMMA SparseIsOrder ==
    ASSUME NEW q, IsQuery(q)
    PROVE  IsOrder(Chunks, A!SparseOrder(q))
<1> DEFINE o == A!SparseOrder(q)
<1>1. ASSUME NEW x \in Chunks, NEW y \in Chunks
      PROVE  <<x, y>> \in o <=> q.sparse[x] > q.sparse[y] \/ (q.sparse[x] = q.sparse[y] /\ x < y)
    BY DEF A!SparseOrder
<1>2. \A x \in Chunks : x \in Nat /\ q.sparse[x] \in Nat BY AnswerParameters DEF IsQuery
<1> HIDE DEF o
<1>3. IsFiniteSet(Chunks) BY ChunksAreFinite
<1>4. \A x \in Chunks : <<x, x>> \notin o BY <1>1, <1>2
<1>5. ASSUME NEW x \in Chunks, NEW y \in Chunks PROVE x = y \/ <<x, y>> \in o \/ <<y, x>> \in o
    <2>1. PICK m \in Nat, n \in Nat : m = q.sparse[x] /\ n = q.sparse[y] BY <1>2
    <2>2. x \in Nat /\ y \in Nat BY <1>2
    <2>3. m > n \/ n > m \/ (m = n /\ (x = y \/ x < y \/ y < x)) BY <2>1, <2>2
    <2> QED BY <1>1, <2>1, <2>3
<1>6. ASSUME NEW x \in Chunks, NEW y \in Chunks, NEW z \in Chunks, <<x, y>> \in o, <<y, z>> \in o
      PROVE  <<x, z>> \in o
    BY <1>1, <1>2, <1>6
<1> QED BY <1>3, <1>4, <1>5, <1>6 DEF IsOrder, o

-----------------------------------------------------------------------------
\* Fractions

IsFraction(x) == x[1] \in Nat \ {0} /\ x[2] \in Nat \ {0}

LEMMA Cancelled ==
    ASSUME NEW x \in Nat, NEW y \in Nat, NEW n \in Nat \ {0}
    PROVE  (x * n > y * n => x > y) /\ (x > y => x * n > y * n)
           /\ (x * n >= y * n => x >= y) /\ (x >= y => x * n >= y * n)
OBVIOUS

LEMMA Products == ASSUME NEW x \in Nat, NEW y \in Nat PROVE x * y \in Nat
OBVIOUS

\* What is not below what is not below is not below.
LEMMA FractionsCompare ==
    ASSUME NEW x, NEW y, NEW z, IsFraction(x), IsFraction(y), IsFraction(z),
           ~A!Above(y, x), ~A!Above(z, y)
    PROVE  /\ ~A!Above(z, x)
           /\ A!Above(x, y) \/ A!Above(y, z) => A!Above(x, z)
<1>1. PICK a \in Nat \ {0}, b \in Nat \ {0} : a = x[1] /\ b = x[2] BY DEF IsFraction
<1>2. PICK c \in Nat \ {0}, d \in Nat \ {0} : c = y[1] /\ d = y[2] BY DEF IsFraction
<1>3. PICK e \in Nat \ {0}, f \in Nat \ {0} : e = z[1] /\ f = z[2] BY DEF IsFraction
<1>4. a * d \in Nat /\ c * b \in Nat /\ c * f \in Nat /\ e * d \in Nat /\ a * f \in Nat /\ e * b \in Nat
    BY Products
<1>5. a * d >= c * b /\ c * f >= e * d
    BY <1>1, <1>2, <1>3, <1>4 DEF A!Above
<1>6. (a * d) * f >= (c * b) * f /\ (c * f) * b >= (e * d) * b
        /\ (a * d > c * b => (a * d) * f > (c * b) * f) /\ (c * f > e * d => (c * f) * b > (e * d) * b)
    BY <1>4, <1>5, Cancelled
<1>7. (a * d) * f = (a * f) * d /\ (c * b) * f = (c * f) * b /\ (e * d) * b = (e * b) * d OBVIOUS
<1>8. (a * d) * f \in Nat /\ (c * b) * f \in Nat /\ (e * d) * b \in Nat BY <1>4, Products
<1>9. (a * f) * d >= (e * b) * d
        /\ (a * d > c * b \/ c * f > e * d => (a * f) * d > (e * b) * d)
    BY <1>6, <1>7, <1>8
<1>10. a * f >= e * b /\ (a * d > c * b \/ c * f > e * d => a * f > e * b) BY <1>4, <1>9, Cancelled
<1> QED BY <1>1, <1>2, <1>3, <1>4, <1>10 DEF A!Above

\* The sum of the reciprocals falls with each of the ranks.
LEMMA ScoresFall ==
    ASSUME NEW x \in Nat \ {0}, NEW y \in Nat \ {0}, NEW u \in Nat, NEW v \in Nat, x < u, y < v
    PROVE  /\ (x + y) * (u * v) > (u + v) * (x * y)
           /\ (x + y) * u > x * y /\ (x + y) * v > x * y
<1>1. x * y < u * y /\ x * y < x * v BY Cancelled
<1>2. (x * y) * v < (u * y) * v /\ (x * y) * u < (x * v) * u BY <1>1, Products, Cancelled
<1>3. (x + y) * (u * v) = (x * v) * u + (u * y) * v OBVIOUS
<1>4. (u + v) * (x * y) = (x * y) * u + (x * y) * v OBVIOUS
<1>5. (x * v) * u \in Nat /\ (u * y) * v \in Nat /\ (x * y) * u \in Nat /\ (x * y) * v \in Nat BY Products
<1>6. (x + y) * u = x * u + u * y /\ (x + y) * v = x * v + y * v OBVIOUS
<1>7. x * u \in Nat /\ u * y \in Nat /\ x * v \in Nat /\ y * v \in Nat /\ x * y \in Nat BY Products
<1> QED BY <1>1, <1>2, <1>3, <1>4, <1>5, <1>6, <1>7

-----------------------------------------------------------------------------
\* The fused order

Matching(q) == {p \in A!Points : A!Matches(q, p)}
DenseRank(q, c) == A!Rank(c, A!DenseSearch(q), A!DenseOrder(q))
SparseRank(q, c) == A!Rank(c, A!Bm25Search(q), A!SparseOrder(q))
Score(q, c) == A!RrfScore(DenseRank(q, c), SparseRank(q, c))

LEMMA SearchesFacts ==
    ASSUME NEW q, IsQuery(q)
    PROVE  /\ A!Limit(q) \in Nat /\ q.topK < A!Limit(q)
           /\ A!DenseSearch(q) \subseteq Chunks /\ IsOrder(A!DenseSearch(q), A!DenseOrder(q))
           /\ A!Bm25Search(q) \subseteq Chunks /\ IsOrder(A!Bm25Search(q), A!SparseOrder(q))
           /\ \A x \in Chunks, y \in A!DenseSearch(q) :
                A!Matches(q, x) /\ <<x, y>> \in A!DenseOrder(q) => x \in A!DenseSearch(q)
<1> DEFINE cut == A!Best(Matching(q), A!DenseOrder(q), A!Limit(q))
           scoring == {c \in Chunks : q.sparse[c] > 0}
<1>1. A!Limit(q) \in Nat /\ q.topK < A!Limit(q) BY QueriesOK DEF A!Limit, IsQuery
<1>2. A!DenseSearch(q) = cut \ {A!Marker} BY DEF A!DenseSearch, Matching
<1>3. A!Bm25Search(q) = A!Best(scoring, A!SparseOrder(q), A!Limit(q)) BY DEF A!Bm25Search
<1>4. Matching(q) \subseteq A!Points /\ IsOrder(Matching(q), A!DenseOrder(q))
    BY DenseIsOrder, OrderOfPart DEF Matching
<1>5. scoring \subseteq Chunks /\ IsOrder(scoring, A!SparseOrder(q))
    BY SparseIsOrder, OrderOfPart
<1> HIDE DEF scoring
<1>6. /\ cut \subseteq Matching(q) /\ IsOrder(cut, A!DenseOrder(q))
      /\ \A x \in Matching(q), y \in cut : <<x, y>> \in A!DenseOrder(q) => x \in cut
    BY <1>1, <1>4, BestFacts
<1>7. A!Bm25Search(q) \subseteq scoring /\ IsOrder(A!Bm25Search(q), A!SparseOrder(q))
    BY <1>1, <1>3, <1>5, BestFacts
<1>8. IsOrder(A!DenseSearch(q), A!DenseOrder(q)) BY <1>2, <1>6, OrderOfPart
<1>9. A!DenseSearch(q) \subseteq Chunks BY <1>2, <1>4, <1>6 DEF A!Points
<1>10. ASSUME NEW x \in Chunks, NEW y \in A!DenseSearch(q), A!Matches(q, x), <<x, y>> \in A!DenseOrder(q)
       PROVE  x \in A!DenseSearch(q)
    <2>1. x \in Matching(q) /\ x # A!Marker BY <1>10, ChunksAreFinite DEF Matching
    <2> QED BY <1>2, <1>6, <1>10, <2>1
<1> QED BY <1>1, <1>5, <1>7, <1>8, <1>9, <1>10

LEMMA RanksAreNumbers ==
    ASSUME NEW q, IsQuery(q), NEW c
    PROVE  /\ DenseRank(q, c) \in Nat /\ (DenseRank(q, c) = 0 <=> c \notin A!DenseSearch(q))
           /\ SparseRank(q, c) \in Nat /\ (SparseRank(q, c) = 0 <=> c \notin A!Bm25Search(q))
<1>1. c \in A!DenseSearch(q) => DenseRank(q, c) \in Nat \ {0}
    BY SearchesFacts, AheadIsPart DEF DenseRank
<1>2. c \notin A!DenseSearch(q) => DenseRank(q, c) = 0 BY DEF DenseRank, A!Rank
<1>3. c \in A!Bm25Search(q) => SparseRank(q, c) \in Nat \ {0}
    BY SearchesFacts, AheadIsPart DEF SparseRank
<1>4. c \notin A!Bm25Search(q) => SparseRank(q, c) = 0 BY DEF SparseRank, A!Rank
<1> QED BY <1>1, <1>2, <1>3, <1>4

LEMMA ScoreIsFraction ==
    ASSUME NEW d \in Nat, NEW s \in Nat, d # 0 \/ s # 0
    PROVE  LET x == A!RrfScore(d, s)
               m == RrfK + d
               n == RrfK + s
           IN  /\ IsFraction(x)
               /\ d = 0 => x[1] = 1 /\ x[2] = n
               /\ s = 0 => x[1] = 1 /\ x[2] = m
               /\ d # 0 /\ s # 0 => x[1] = m + n /\ x[2] = m * n
<1> DEFINE x == A!RrfScore(d, s)
           m == RrfK + d
           n == RrfK + s
<1>1. m \in Nat /\ n \in Nat /\ (d # 0 => m # 0) /\ (s # 0 => n # 0) BY QueriesOK
<1>2. /\ d = 0 => x[1] = 1 /\ x[2] = n
      /\ d # 0 /\ s = 0 => x[1] = 1 /\ x[2] = m
      /\ d # 0 /\ s # 0 => x[1] = 2 * RrfK + d + s /\ x[2] = m * n
    BY DEF A!RrfScore
<1>3. 2 * RrfK + d + s = m + n BY QueriesOK
<1> HIDE DEF m, n, x
<1>4. d # 0 /\ s # 0 => m * n \in Nat \ {0} BY <1>1
<1>5. IsFraction(x) BY <1>1, <1>2, <1>3, <1>4 DEF IsFraction
<1>6. d # 0 /\ s # 0 => x[1] = m + n /\ x[2] = m * n BY <1>2, <1>3
<1> QED BY <1>2, <1>5, <1>6 DEF m, n, x

\* Nearer the front of the lists is more.
LEMMA NearerIsMore ==
    ASSUME NEW da \in Nat, NEW sa \in Nat \ {0}, NEW db \in Nat, NEW sb \in Nat,
           db # 0 \/ sb # 0, db # 0 => da # 0 /\ da < db, sb # 0 => sa < sb
    PROVE  A!Above(A!RrfScore(da, sa), A!RrfScore(db, sb))
<1> DEFINE a == A!RrfScore(da, sa)
           b == A!RrfScore(db, sb)
           x == RrfK + da
           y == RrfK + sa
           u == RrfK + db
           v == RrfK + sb
<1>1. /\ x \in Nat /\ y \in Nat \ {0} /\ u \in Nat /\ v \in Nat /\ (da # 0 => x # 0)
      /\ (db # 0 => x # 0 /\ x < u) /\ (sb # 0 => y < v)
    BY QueriesOK
<1>2. da # 0 => a[1] = x + y /\ a[2] = x * y BY ScoreIsFraction
<1>3. da = 0 => a[1] = 1 /\ a[2] = y BY ScoreIsFraction
<1>4. db = 0 => b[1] = 1 /\ b[2] = v BY ScoreIsFraction
<1>5. sb = 0 => b[1] = 1 /\ b[2] = u BY ScoreIsFraction
<1>6. db # 0 /\ sb # 0 => b[1] = u + v /\ b[2] = u * v BY ScoreIsFraction
<1> HIDE DEF a, b, x, y, u, v
<1>7. CASE db # 0 /\ sb # 0
    <2>1. (x + y) * (u * v) > (u + v) * (x * y) BY <1>1, <1>7, ScoresFall
    <2> QED BY <1>2, <1>6, <1>7, <2>1 DEF A!Above, a, b
<1>8. CASE sb = 0
    <2>1. u \in Nat /\ x \in Nat \ {0} /\ x < u BY <1>1, <1>8
    <2>2. PICK w \in Nat : y < w BY <1>1
    <2>3. (x + y) * u > x * y BY <1>1, <2>1, <2>2, ScoresFall
    <2>4. x * y \in Nat BY <1>1, Products
    <2> QED BY <1>2, <1>5, <1>8, <2>3, <2>4 DEF A!Above, a, b
<1>9. CASE db = 0 /\ da # 0
    <2>1. PICK w \in Nat : x < w BY <1>1
    <2>2. (x + y) * v > x * y BY <1>1, <1>9, <2>1, ScoresFall
    <2>3. x * y \in Nat BY <1>1, Products
    <2> QED BY <1>2, <1>4, <1>9, <2>2, <2>3 DEF A!Above, a, b
<1>10. CASE db = 0 /\ da = 0
    BY <1>1, <1>3, <1>4, <1>10 DEF A!Above, a, b
<1> QED BY <1>7, <1>8, <1>9, <1>10

LEMMA FusedPairs ==
    ASSUME NEW q, NEW x \in Chunks, NEW y \in Chunks
    PROVE  <<x, y>> \in A!FusedOrder(q) <=>
             \/ A!Above(Score(q, x), Score(q, y))
             \/ ~A!Above(Score(q, y), Score(q, x)) /\ x < y
BY DEF A!FusedOrder, Score, DenseRank, SparseRank

LEMMA FusedIsOrder ==
    ASSUME NEW q, IsQuery(q)
    PROVE  IsOrder(A!DenseSearch(q) \cup A!Bm25Search(q), A!FusedOrder(q))
<1> DEFINE S == A!DenseSearch(q) \cup A!Bm25Search(q)
           o == A!FusedOrder(q)
<1>1. S \subseteq Chunks BY SearchesFacts
<1>2. IsFiniteSet(S) BY <1>1, ChunksAreFinite, FS_Subset
<1>3. ASSUME NEW x \in S PROVE IsFraction(Score(q, x)) /\ x \in Nat
    <2>1. DenseRank(q, x) \in Nat /\ SparseRank(q, x) \in Nat
            /\ (DenseRank(q, x) # 0 \/ SparseRank(q, x) # 0)
        BY RanksAreNumbers
    <2> QED BY <1>1, <2>1, ScoreIsFraction, AnswerParameters DEF Score
<1>4. ASSUME NEW x \in S, NEW y \in S
      PROVE  <<x, y>> \in o <=> \/ A!Above(Score(q, x), Score(q, y))
                                \/ ~A!Above(Score(q, y), Score(q, x)) /\ x < y
    BY <1>1, FusedPairs
<1>5. ASSUME NEW x \in S, NEW y \in S PROVE ~(A!Above(Score(q, x), Score(q, y)) /\ A!Above(Score(q, y), Score(q, x)))
    <2>1. IsFraction(Score(q, x)) /\ IsFraction(Score(q, y)) BY <1>3
    <2>2. PICK a \in Nat, b \in Nat, c \in Nat, d \in Nat :
             a = Score(q, x)[1] /\ b = Score(q, x)[2] /\ c = Score(q, y)[1] /\ d = Score(q, y)[2]
        BY <2>1 DEF IsFraction
    <2>3. a * d \in Nat /\ c * b \in Nat BY Products
    <2> QED BY <2>2, <2>3 DEF A!Above
<1> HIDE DEF S, o
<1>6. \A x \in S : <<x, x>> \notin o BY <1>3, <1>4, <1>5
<1>7. ASSUME NEW x \in S, NEW y \in S PROVE x = y \/ <<x, y>> \in o \/ <<y, x>> \in o
    <2>1. x = y \/ x < y \/ y < x BY <1>3
    <2> QED BY <1>4, <2>1
<1>8. ASSUME NEW x \in S, NEW y \in S, NEW z \in S, <<x, y>> \in o, <<y, z>> \in o
      PROVE  <<x, z>> \in o
    <2>1. ~A!Above(Score(q, y), Score(q, x)) /\ ~A!Above(Score(q, z), Score(q, y))
        BY <1>4, <1>5, <1>8
    <2>2. /\ ~A!Above(Score(q, z), Score(q, x))
          /\ A!Above(Score(q, x), Score(q, y)) \/ A!Above(Score(q, y), Score(q, z)) =>
               A!Above(Score(q, x), Score(q, z))
        BY <1>3, <2>1, FractionsCompare
    <2>3. CASE A!Above(Score(q, x), Score(q, y)) \/ A!Above(Score(q, y), Score(q, z))
        BY <1>4, <2>2, <2>3
    <2>4. CASE x < y /\ y < z
        <3>1. x < z BY <1>3, <2>4
        <3> QED BY <1>4, <2>2, <3>1
    <2> QED BY <1>4, <1>8, <2>3, <2>4
<1> QED BY <1>2, <1>6, <1>7, <1>8 DEF IsOrder, S, o

-----------------------------------------------------------------------------
\* What a search returns

LEMMA FoundFacts ==
    ASSUME NEW q \in Queries
    PROVE  LET F == A!Found(q)
               o == A!OrderOf(q)
           IN  /\ F \subseteq Chunks /\ IsOrder(F, o) /\ Cardinality(F) <= q.topK
               /\ q.mode = "dense" => F \subseteq A!DenseSearch(q)
<1>1. IsQuery(q) BY AnswerParameters
<1>2. q.topK \in Nat BY <1>1 DEF IsQuery
<1>3. CASE q.mode = "dense"
    <2>1. A!Found(q) = A!Best(A!DenseSearch(q), A!DenseOrder(q), q.topK) /\ A!OrderOf(q) = A!DenseOrder(q)
        BY <1>3 DEF A!Found, A!OrderOf
    <2> QED BY <1>1, <1>2, <2>1, SearchesFacts, BestFacts
<1>4. CASE q.mode # "dense"
    <2> DEFINE S == A!DenseSearch(q) \cup A!Bm25Search(q)
    <2>1. A!Found(q) = A!Best(S, A!FusedOrder(q), q.topK) /\ A!OrderOf(q) = A!FusedOrder(q)
        BY <1>4 DEF A!Found, A!OrderOf
    <2>2. S \subseteq Chunks /\ IsOrder(S, A!FusedOrder(q)) BY <1>1, SearchesFacts, FusedIsOrder
    <2> QED BY <1>2, <1>4, <2>1, <2>2, BestFacts
<1> QED BY <1>3, <1>4

LEMMA SearchListsFound ==
    ASSUME NEW q \in Queries
    PROVE  LET s == A!Search(q)
               ranked == A!InOrder(A!Found(q), A!OrderOf(q))
               n == Cardinality(A!Found(q))
           IN  /\ q.client # "up" => s = <<>>
               /\ q.client = "up" => /\ n \in Nat /\ s = [i \in 1..n |-> s[i]]
                                     /\ ranked = [i \in 1..n |-> s[i].chunk]
               /\ \A i \in DOMAIN s :
                    /\ s[i].chunk \in A!Found(q)
                    /\ s[i].source = IF s[i].chunk \in A!DenseSearch(q) THEN Source[s[i].chunk]
                                                                       ELSE A!NoSource
<1> DEFINE s == A!Search(q)
           ranked == A!InOrder(A!Found(q), A!OrderOf(q))
           n == Cardinality(A!Found(q))
<1>1. n \in Nat /\ ranked = [i \in 1..n |-> ranked[i]] /\ \A i \in 1..n : ranked[i] \in A!Found(q)
    BY FoundFacts, Enumerated
<1> HIDE DEF ranked, n
<1>2. CASE q.client # "up"
    <2>1. s = <<>> BY <1>2 DEF A!Search
    <2> QED BY <1>2, <2>1 DEF ranked, n
<1>3. CASE q.client = "up"
    <2>1. s = [i \in DOMAIN ranked |->
                 [chunk |-> ranked[i],
                  source |-> IF ranked[i] \in A!DenseSearch(q) THEN Source[ranked[i]] ELSE A!NoSource]]
        BY <1>3 DEF A!Search, ranked
    <2>2. DOMAIN ranked = 1..n BY <1>1
    <2>3. s = [i \in 1..n |-> s[i]] /\ DOMAIN s = 1..n BY <2>1, <2>2
    <2>4. \A i \in 1..n : /\ s[i].chunk = ranked[i]
                          /\ s[i].source = IF ranked[i] \in A!DenseSearch(q) THEN Source[ranked[i]]
                                                                            ELSE A!NoSource
        BY <2>1, <2>2
    <2>5. ranked = [i \in 1..n |-> s[i].chunk] BY <1>1, <2>4
    <2> QED BY <1>1, <1>3, <2>3, <2>4, <2>5 DEF ranked, n
<1> QED BY <1>2, <1>3

\* A search of a client that answers, with the rankings it is judged by.
LEMMA DenseResult ==
    ASSUME NEW q \in Queries, q.mode = "dense"
    PROVE  A!InOrder(A!Found(q), A!OrderOf(q)) =
             A!InOrder(A!Best({c \in Chunks : A!Matches(q, c)}, A!DenseOrder(q), q.topK),
                       A!DenseOrder(q))
<1> DEFINE cut == A!Best(Matching(q), A!DenseOrder(q), A!Limit(q))
<1>1. IsQuery(q) BY AnswerParameters
<1>2. A!DenseSearch(q) = cut \ {A!Marker} BY DEF A!DenseSearch, Matching
<1>3. A!Found(q) = A!Best(cut \ {A!Marker}, A!DenseOrder(q), q.topK) /\ A!OrderOf(q) = A!DenseOrder(q)
    BY <1>2 DEF A!Found, A!OrderOf
<1>4. IsOrder(Matching(q), A!DenseOrder(q)) BY <1>1, DenseIsOrder, OrderOfPart DEF Matching
<1>5. A!Limit(q) \in Nat /\ q.topK \in Nat /\ q.topK < A!Limit(q) BY <1>1, SearchesFacts DEF IsQuery
<1>6. A!Best(cut \ {A!Marker}, A!DenseOrder(q), q.topK) =
        A!Best(Matching(q) \ {A!Marker}, A!DenseOrder(q), q.topK)
    BY <1>4, <1>5, BestOfBest
<1>7. Matching(q) \ {A!Marker} = {c \in Chunks : A!Matches(q, c)}
    BY ChunksAreFinite DEF Matching, A!Points
<1> QED BY <1>3, <1>6, <1>7

LEMMA FusedResult ==
    ASSUME NEW q \in Queries, q.mode = "hybrid_rrf", NEW a \in Chunks, NEW b \in A!Found(q),
           A!Matches(q, a), A!Matches(q, b) => <<a, b>> \in A!DenseOrder(q),
           a \in A!Bm25Search(q), b \in A!Bm25Search(q) => <<a, b>> \in A!SparseOrder(q)
    PROVE  a \in A!Found(q) /\ <<a, b>> \in A!FusedOrder(q) /\ A!OrderOf(q) = A!FusedOrder(q)
<1> DEFINE S == A!DenseSearch(q) \cup A!Bm25Search(q)
           da == DenseRank(q, a)
           sa == SparseRank(q, a)
           db == DenseRank(q, b)
           sb == SparseRank(q, b)
<1>1. IsQuery(q) BY AnswerParameters
<1>2. A!Found(q) = A!Best(S, A!FusedOrder(q), q.topK) /\ A!OrderOf(q) = A!FusedOrder(q)
    BY DEF A!Found, A!OrderOf
<1>3. q.topK \in Nat /\ IsOrder(S, A!FusedOrder(q)) /\ S \subseteq Chunks
    BY <1>1, FusedIsOrder, SearchesFacts DEF IsQuery
<1>4. /\ A!Found(q) \subseteq S
      /\ \A x \in S, y \in A!Found(q) : <<x, y>> \in A!FusedOrder(q) => x \in A!Found(q)
    <2>1. PICK T : T = S OBVIOUS
    <2>2. LET B == A!Best(T, A!FusedOrder(q), q.topK)
          IN B \subseteq T /\ \A x \in T, y \in B : <<x, y>> \in A!FusedOrder(q) => x \in B
        BY <1>3, <2>1, BestFacts
    <2> QED BY <1>2, <2>1, <2>2
<1>5. b \in S /\ b \in Chunks BY <1>3, <1>4
<1>6. /\ da \in Nat /\ db \in Nat /\ sa \in Nat \ {0} /\ sb \in Nat /\ (db # 0 \/ sb # 0)
      /\ (db # 0 <=> b \in A!DenseSearch(q)) /\ (sb # 0 <=> b \in A!Bm25Search(q))
    BY <1>1, <1>5, RanksAreNumbers
<1>7. b \in A!DenseSearch(q) => da # 0 /\ da < db
    <2> SUFFICES ASSUME b \in A!DenseSearch(q) PROVE da # 0 /\ da < db OBVIOUS
    <2>1. A!Matches(q, b) BY DEF A!DenseSearch, A!Best
    <2>2. a \in A!DenseSearch(q) BY <1>1, <2>1, SearchesFacts
    <2>3. da < db BY <1>1, <2>1, <2>2, SearchesFacts, RanksFollowOrder DEF DenseRank
    <2> QED BY <1>1, <2>2, <2>3, RanksAreNumbers
<1>8. b \in A!Bm25Search(q) => sa < sb
    BY <1>1, SearchesFacts, RanksFollowOrder DEF SparseRank
<1>9. A!Above(Score(q, a), Score(q, b)) BY <1>6, <1>7, <1>8, NearerIsMore DEF Score
<1>10. <<a, b>> \in A!FusedOrder(q) BY <1>5, <1>9, FusedPairs
<1> QED BY <1>2, <1>4, <1>5, <1>10

LEMMA SearchHolds ==
    ASSUME query \in Queries, items = A!Search(query)
    PROVE  A!SearchIsFaithful
<1> DEFINE ranks == [i \in DOMAIN items |-> items[i].chunk]
           F == A!Found(query)
           o == A!OrderOf(query)
           ranked == A!InOrder(F, o)
           n == Cardinality(F)
<1>1. IsQuery(query) /\ query.topK \in Nat BY AnswerParameters DEF IsQuery
<1>2. F \subseteq Chunks /\ IsOrder(F, o) /\ n <= query.topK BY FoundFacts
<1>3. /\ n \in Nat
      /\ \A i \in 1..n : ranked[i] \in F /\ A!Rank(ranked[i], F, o) = i
      /\ \A x \in F : A!Rank(x, F, o) \in 1..n /\ ranked[A!Rank(x, F, o)] = x
    BY <1>2, Enumerated
<1>4. /\ query.client # "up" => items = <<>>
      /\ query.client = "up" => items = [i \in 1..n |-> items[i]] /\ ranked = [i \in 1..n |-> items[i].chunk]
    BY SearchListsFound
<1>5. CASE query.client # "up"
    <2>1. items = <<>> /\ Len(items) = 0 /\ DOMAIN items = {} BY <1>4, <1>5
    <2>2. A!Retrieved = {} BY <2>1 DEF A!Retrieved
    <2>3. A!Cardinality({}) = 0 BY SameCardinality, FS_EmptySet
    <2> QED BY <1>1, <1>5, <2>1, <2>2, <2>3 DEF A!SearchIsFaithful
<1>6. CASE query.client = "up"
    <2>1. DOMAIN items = 1..n BY <1>4, <1>6
    <2>2. Len(items) = n
        <3>1. items \in Seq({items[i] : i \in 1..n}) BY <1>3, <1>4, <1>6
        <3> QED BY <1>3, <2>1, <3>1
    <2>3. ranks = ranked BY <1>4, <1>6, <2>1
    <2>4. A!Retrieved = F
        <3>1. \A i \in 1..n : items[i].chunk = ranked[i] BY <1>4, <1>6
        <3>2. \A x \in F : \E i \in 1..n : items[i].chunk = x BY <1>3, <3>1
        <3> QED BY <1>3, <2>1, <3>1, <3>2 DEF A!Retrieved
    <2>5. A!Cardinality(A!Retrieved) = Len(items) BY <2>2, <2>4, SameCardinality
    <2>6. query.mode = "dense" =>
            ranks = A!InOrder(A!Best({c \in Chunks : A!Matches(query, c)}, A!DenseOrder(query), query.topK),
                              A!DenseOrder(query))
        BY <2>3, DenseResult
    <2>7. ASSUME query.mode = "hybrid_rrf", NEW a \in Chunks, NEW b \in F,
                 A!Matches(query, a), A!Matches(query, b) => <<a, b>> \in A!DenseOrder(query),
                 a \in A!Bm25Search(query), b \in A!Bm25Search(query) => <<a, b>> \in A!SparseOrder(query)
          PROVE  \E i, j \in DOMAIN ranks : i < j /\ ranks[i] = a /\ ranks[j] = b
        <3>1. a \in F /\ <<a, b>> \in o BY <2>7, FusedResult
        <3>2. A!Rank(a, F, o) < A!Rank(b, F, o) BY <1>2, <3>1, RanksFollowOrder
        <3>3. DOMAIN ranks = 1..n BY <2>1
        <3> QED BY <1>3, <2>3, <3>1, <3>2, <3>3
    <2> HIDE DEF ranks, F, o, n
    <2>8. Len(items) <= query.topK /\ A!Retrieved \subseteq Chunks BY <1>2, <2>2, <2>4
    <2>9. query.mode = "hybrid_rrf" =>
            \A a, b \in Chunks :
                /\ b \in A!Retrieved
                /\ A!Matches(query, a) /\ (A!Matches(query, b) => <<a, b>> \in A!DenseOrder(query))
                /\ a \in A!Bm25Search(query)
                /\ (b \in A!Bm25Search(query) => <<a, b>> \in A!SparseOrder(query))
                => \E i, j \in DOMAIN ranks : i < j /\ ranks[i] = a /\ ranks[j] = b
        BY <2>4, <2>7
    <2> QED BY <2>5, <2>6, <2>8, <2>9 DEF A!SearchIsFaithful, ranks
<1> QED BY <1>5, <1>6

-----------------------------------------------------------------------------
\* Answers

\* An answer that no exception replaced, but for what it says of an outage.
GoodAnswer(r) ==
    /\ r.refused <=> r.cites = {}
    /\ r.cites \subseteq A!Retrieved
    /\ question.live => r.refused
    /\ \A claim \in r.claims :
         /\ claim.shaped /\ claim.cites \subseteq r.cites
         /\ claim.quoted \cap claim.cites # {}
         /\ query.mode = "dense" /\ (\A c \in claim.cites : LanguageOf[Source[c]] = question.language)
              => claim.overlaps
    /\ r.text = "extract" => r.degraded /\ \A c \in r.cites : question.signal[c] # <<>>

TellsOutage(r) == r.degraded /\ r.reason = "provider_transport_failed_after_retries"

\* Only a dense search knows every source, and what it found has one.
KnownItems == \A i \in DOMAIN items : query.mode = "dense" => items[i].source = Source[items[i].chunk]
                                                             /\ items[i].chunk \in Chunks

AnswersInv ==
    /\ query \in Queries
    /\ pc # "asked" /\ ~question.live => items = A!Search(query)
    /\ pc \in {"asked", "posting", "asserting", "answered"}
    /\ pc # "answered" => transients \in Nat /\ transients < TransientAttempts
    /\ pc \in {"posting", "asserting"} => ~question.live
    /\ A!AnswersAreGrounded

LEMMA AnswersInit == A!Init => AnswersInv
BY ScriptsOK DEF A!Init, AnswersInv, A!AnswersAreGrounded

LEMMA AnswersSearch == AnswersInv => A!SearchIsFaithful
BY SearchHolds DEF AnswersInv, A!SearchIsFaithful

LEMMA ItemsAreKnown ==
    ASSUME AnswersInv, pc \in {"posting", "asserting"}
    PROVE  KnownItems
<1>1. query \in Queries /\ items = A!Search(query) BY DEF AnswersInv
<1>2. A!Found(query) \subseteq Chunks /\ (query.mode = "dense" => A!Found(query) \subseteq A!DenseSearch(query))
    BY <1>1, FoundFacts
<1>3. \A i \in DOMAIN items :
        /\ items[i].chunk \in A!Found(query)
        /\ items[i].source = IF items[i].chunk \in A!DenseSearch(query) THEN Source[items[i].chunk]
                                                                      ELSE A!NoSource
    BY <1>1, SearchListsFound
<1> QED BY <1>2, <1>3 DEF KnownItems

LEMMA RefusalIsGood ==
    ASSUME NEW reason, NEW degraded
    PROVE  LET r == A!Refusal(reason, degraded)
           IN  GoodAnswer(r) /\ r.degraded = degraded /\ r.reason = reason
BY DEF A!Refusal, A!NoResult, GoodAnswer

LEMMA ExtractIsGood ==
    ASSUME ~question.live, NEW reason
    PROVE  LET r == A!Extract(reason) IN GoodAnswer(r) /\ r.degraded = TRUE /\ r.reason = reason
<1> DEFINE selected == {items[s[1]].chunk : s \in A!Best(A!Relevant, A!FitOrder, 2)}
           r == A!Extract(reason)
<1>1. ASSUME NEW c \in selected PROVE c \in A!Retrieved /\ question.signal[c] # <<>>
    <2>1. PICK s \in A!Relevant : c = items[s[1]].chunk BY DEF A!Best
    <2>2. PICK i \in DOMAIN items : s \in {i} \X DOMAIN question.signal[items[i].chunk]
        BY <2>1 DEF A!Relevant
    <2>3. s[1] = i /\ s[2] \in DOMAIN question.signal[c] BY <2>1, <2>2
    <2>4. DOMAIN <<>> = {} OBVIOUS
    <2> QED BY <2>1, <2>3, <2>4 DEF A!Retrieved
<1>2. CASE selected = {}
    <2>1. r = [A!Refusal(reason, TRUE) EXCEPT !.how = "no_relevant_extractive_sentence"]
        BY <1>2 DEF A!Extract
    <2> QED BY <2>1 DEF A!Refusal, A!NoResult, GoodAnswer
<1>3. CASE selected # {}
    <2>1. r = [A!NoResult EXCEPT !.text = "extract", !.cites = selected, !.degraded = TRUE,
                                 !.reason = reason, !.how = "used_relevant_extractive_fallback",
                                 !.fallback = TRUE]
        BY <1>3 DEF A!Extract
    <2> HIDE DEF selected
    <2>2. r.text = "extract" /\ r.cites = selected /\ r.degraded = TRUE /\ r.reason = reason
            /\ r.refused = FALSE /\ r.claims = {}
        BY <2>1 DEF A!NoResult
    <2> QED BY <1>1, <1>3, <2>2 DEF GoodAnswer
<1> QED BY <1>2, <1>3

LEMMA ClaimsAreGood ==
    ASSUME KnownItems, NEW claim, A!Supported(claim), query.mode = "dense",
           \A c \in claim.cites : LanguageOf[Source[c]] = question.language
    PROVE  claim.overlaps
<1>1. ASSUME NEW i \in DOMAIN items, items[i].chunk \in claim.cites
      PROVE  items[i].source # A!NoSource /\ LanguageOf[items[i].source] = question.language
    BY <1>1, AnswerParameters DEF KnownItems
<1>2. A!SameLanguage(claim) BY <1>1 DEF A!SameLanguage
<1> QED BY <1>2 DEF A!Supported

LEMMA ObjectIsGood ==
    ASSUME KnownItems, ~question.live, NEW object, A!Valid(object)
    PROVE  LET r == A!FromObject(object) IN GoodAnswer(r) /\ ~TellsOutage(r)
<1> DEFINE claims == {object.claims[i] : i \in DOMAIN object.claims}
           kept == {claim \in claims : A!Supported(claim)}
           r == A!FromObject(object)
<1>1. CASE object.status = "insufficient" \/ kept = {}
    <2>1. \/ r = A!Extract("model_reported_insufficient_despite_question_relevant_context")
          \/ r = A!Refusal("none", FALSE)
        BY <1>1 DEF A!FromObject
    <2>2. "none" # "provider_transport_failed_after_retries"
            /\ "model_reported_insufficient_despite_question_relevant_context"
                 # "provider_transport_failed_after_retries"
        OBVIOUS
    <2>3. PICK reason :
            /\ \/ reason = "none" /\ r = A!Refusal("none", FALSE)
               \/ /\ reason = "model_reported_insufficient_despite_question_relevant_context"
                  /\ r = A!Extract(reason)
            /\ reason # "provider_transport_failed_after_retries"
        BY <2>1, <2>2
    <2>4. GoodAnswer(r) /\ r.reason = reason
        <3>1. CASE r = A!Extract(reason) BY <3>1, ExtractIsGood
        <3>2. CASE r = A!Refusal("none", FALSE) /\ reason = "none"
            <4>1. PICK x : x = A!Refusal("none", FALSE) OBVIOUS
            <4>2. GoodAnswer(x) /\ x.reason = "none" BY <4>1, RefusalIsGood
            <4> QED BY <3>2, <4>1, <4>2
        <3> QED BY <2>3, <3>1, <3>2
    <2> QED BY <2>3, <2>4 DEF TellsOutage
<1>2. CASE object.status # "insufficient" /\ kept # {}
    <2>1. r = [A!NoResult EXCEPT !.text = "claims", !.claims = kept,
                                 !.cites = UNION {claim.cites : claim \in kept}]
        BY <1>2 DEF A!FromObject
    <2>2. ASSUME NEW claim \in kept
          PROVE  claim.shaped /\ A!Supported(claim)
        BY DEF A!Valid, A!Shaped
    <2> HIDE DEF kept
    <2>3. r.text = "claims" /\ r.claims = kept /\ r.cites = UNION {claim.cites : claim \in kept}
            /\ r.refused = FALSE /\ r.degraded = FALSE
        BY <2>1 DEF A!NoResult
    <2>4. ASSUME NEW claim \in kept
          PROVE  /\ claim.cites \subseteq r.cites /\ claim.cites \subseteq A!Retrieved
                 /\ claim.quoted \cap claim.cites # {}
        BY <2>2, <2>3 DEF A!Supported
    <2>5. r.cites \subseteq A!Retrieved /\ r.cites # {} BY <1>2, <2>3, <2>4
    <2> QED BY <2>2, <2>3, <2>4, <2>5, ClaimsAreGood DEF GoodAnswer, TellsOutage
<1> QED BY <1>1, <1>2

\* How an answer, or an exception, ends a question.
LEMMA AnswerKeeps ==
    ASSUME AnswersInv, pc # "answered", pc' = "answered", UNCHANGED <<query, question>>,
           ~question.live => items' = A!Search(query), NEW r, result' = r,
           \/ r.text = "raised"
           \/ GoodAnswer(r) /\ items' = items /\ (transients' = TransientAttempts <=> TellsOutage(r))
           \/ /\ r.refused /\ r.cites = {} /\ r.claims = {} /\ r.text # "extract"
              /\ transients' # TransientAttempts /\ ~TellsOutage(r)
    PROVE  AnswersInv'
<1>1. A!Retrieved' = {items'[i].chunk : i \in DOMAIN items'} BY DEF A!Retrieved
<1>2. A!AnswersAreGrounded'
    <2>1. CASE r.text = "raised" BY <2>1 DEF A!AnswersAreGrounded
    <2>2. CASE GoodAnswer(r) /\ items' = items /\ (transients' = TransientAttempts <=> TellsOutage(r))
        <3>1. A!Retrieved' = A!Retrieved BY <2>2 DEF A!Retrieved
        <3> QED BY <2>2, <3>1 DEF A!AnswersAreGrounded, GoodAnswer, TellsOutage
    <2>3. CASE /\ r.refused /\ r.cites = {} /\ r.claims = {} /\ r.text # "extract"
               /\ transients' # TransientAttempts /\ ~TellsOutage(r)
        BY <2>3 DEF A!AnswersAreGrounded, TellsOutage
    <2> QED BY <2>1, <2>2, <2>3
<1>3. A!Search(query)' = A!Search(query) BY DEF A!Search
<1> QED BY <1>2 DEF AnswersInv

LEMMA AskKeeps == ASSUME AnswersInv, A!Ask PROVE AnswersInv'
<1>1. pc = "asked" /\ UNCHANGED <<query, question, provider, attempt, posts, transients>>
        /\ transients \in Nat /\ transients < TransientAttempts
    BY DEF A!Ask, AnswersInv
<1>2. transients' # TransientAttempts BY <1>1, ScriptsOK
<1>3. CASE question.live
    <2>1. PICK r : r = A!Refusal("live_data_required", FALSE) OBVIOUS
    <2>2. pc' = "answered" /\ result' = r BY <1>3, <2>1 DEF A!Ask, A!Answer
    <2>3. r.refused /\ r.cites = {} /\ r.claims = {} /\ r.text # "extract" /\ ~TellsOutage(r)
        BY <2>1 DEF A!Refusal, A!NoResult, TellsOutage
    <2> QED BY <1>1, <1>2, <1>3, <2>2, <2>3, AnswerKeeps
<1>4. CASE ~question.live
    <2>1. items' = A!Search(query) BY <1>4 DEF A!Ask
    <2>2. CASE pc' = "posting"
        BY <1>1, <1>4, <2>1, <2>2 DEF AnswersInv, A!AnswersAreGrounded
    <2>3. CASE A!Answer(A!Catalog)
        <3>1. PICK r : r = A!Catalog OBVIOUS
        <3>2. pc' = "answered" /\ result' = r BY <2>3, <3>1 DEF A!Answer
        <3>3. r.refused /\ r.cites = {} /\ r.claims = {} /\ r.text # "extract" /\ ~TellsOutage(r)
            BY <3>1 DEF A!Catalog, A!Refusal, A!NoResult, TellsOutage
        <3> QED BY <1>1, <1>2, <2>1, <3>2, <3>3, AnswerKeeps
    <2> QED BY <1>4, <2>2, <2>3 DEF A!Ask
<1> QED BY <1>3, <1>4

LEMMA RepairKeeps ==
    ASSUME AnswersInv, pc \in {"posting", "asserting"}, A!Repair
    PROVE  AnswersInv'
<1>1. ~question.live /\ items = A!Search(query) /\ transients \in Nat /\ transients < TransientAttempts
    BY DEF AnswersInv
<1>2. CASE A!Answer(A!Extract("structured_generation_failed_after_retries")) /\ A!Unchanged
    <2>1. PICK r : r = A!Extract("structured_generation_failed_after_retries") OBVIOUS
    <2>2. pc' = "answered" /\ result' = r /\ UNCHANGED <<query, question, items, transients>>
        BY <1>2, <2>1 DEF A!Answer, A!Unchanged
    <2>3. GoodAnswer(r) /\ ~TellsOutage(r)
        <3>1. "structured_generation_failed_after_retries" # "provider_transport_failed_after_retries" OBVIOUS
        <3> QED BY <1>1, <2>1, <3>1, ExtractIsGood DEF TellsOutage
    <2>4. transients' # TransientAttempts BY <1>1, <2>2, ScriptsOK
    <2> QED BY <1>1, <2>2, <2>3, <2>4, AnswerKeeps
<1>3. CASE /\ transients' = 0 /\ pc' = "posting"
           /\ UNCHANGED <<query, question, items, provider, result>>
    BY <1>1, <1>3, ScriptsOK DEF AnswersInv, A!AnswersAreGrounded
<1> QED BY <1>2, <1>3 DEF A!Repair

LEMMA ReplyKeeps == ASSUME AnswersInv, A!Reply PROVE AnswersInv'
<1>1. pc = "posting" /\ ~question.live /\ items = A!Search(query) /\ KnownItems
        /\ transients \in Nat /\ transients < TransientAttempts
    BY ItemsAreKnown DEF AnswersInv, A!Reply
<1>2. PICK reply \in UNION {[1..n -> Objects] : n \in 0..2} :
         LET valid == {i \in DOMAIN reply : A!Valid(reply[i])}
         IN IF valid # {} THEN A!Answer(A!FromObject(reply[A!Max(valid)])) /\ A!Unchanged
            ELSE A!Repair
    BY DEF A!Reply
<1> DEFINE valid == {i \in DOMAIN reply : A!Valid(reply[i])}
<1>3. CASE valid = {} BY <1>1, <1>2, <1>3, RepairKeeps
<1>4. CASE valid # {}
    <2>1. valid \subseteq 1..2 BY <1>2
    <2>2. \E x \in valid : \A y \in valid : x >= y BY <1>4, <2>1
    <2>3. A!Max(valid) \in valid BY <2>2 DEF A!Max
    <2>4. PICK object : object = reply[A!Max(valid)] OBVIOUS
    <2>5. A!Valid(object) BY <2>3, <2>4
    <2>6. PICK r : r = A!FromObject(object) OBVIOUS
    <2>7. pc' = "answered" /\ result' = r /\ UNCHANGED <<query, question, items, transients>>
        BY <1>2, <1>4, <2>4, <2>6 DEF A!Answer, A!Unchanged
    <2>8. GoodAnswer(r) /\ ~TellsOutage(r) BY <1>1, <2>5, <2>6, ObjectIsGood
    <2>9. transients' # TransientAttempts BY <1>1, <2>7, ScriptsOK
    <2> QED BY <1>1, <2>7, <2>8, <2>9, AnswerKeeps
<1> QED BY <1>3, <1>4

LEMMA RaiseKeeps ==
    ASSUME AnswersInv, pc = "posting", NEW error, A!Raise(error)
    PROVE  AnswersInv'
<1>1. PICK r : r = [A!NoResult EXCEPT !.text = "raised", !.reason = error] OBVIOUS
<1>2. pc' = "answered" /\ result' = r /\ UNCHANGED <<query, question, items, transients>>
    BY <1>1 DEF A!Raise, A!Answer, A!Unchanged
<1>3. r.text = "raised" BY <1>1 DEF A!NoResult
<1> QED BY <1>2, <1>3, AnswerKeeps DEF AnswersInv

LEMMA RateLimitedKeeps == ASSUME AnswersInv, A!RateLimited PROVE AnswersInv'
<1>1. CASE A!Raise("rate_limit") BY <1>1, RaiseKeeps DEF A!RateLimited
<1>2. CASE UNCHANGED <<query, question, items, provider, pc, attempt, transients, result>>
    BY <1>2 DEF A!RateLimited, AnswersInv, A!AnswersAreGrounded
<1> QED BY <1>1, <1>2 DEF A!RateLimited

LEMMA TransientKeeps == ASSUME AnswersInv, A!Transient PROVE AnswersInv'
<1>1. /\ pc = "posting" /\ ~question.live /\ items = A!Search(query)
      /\ transients \in Nat /\ transients < TransientAttempts /\ transients' = transients + 1
      /\ UNCHANGED <<query, question, items>>
    BY DEF AnswersInv, A!Transient
<1>2. CASE transients' = TransientAttempts
    <2>1. PICK r : r = A!Extract("provider_transport_failed_after_retries") OBVIOUS
    <2>2. pc' = "answered" /\ result' = r BY <1>2, <2>1 DEF A!Transient
    <2>3. GoodAnswer(r) /\ TellsOutage(r) BY <1>1, <2>1, ExtractIsGood DEF TellsOutage
    <2> QED BY <1>1, <1>2, <2>2, <2>3, AnswerKeeps
<1>3. CASE transients' # TransientAttempts
    <2>1. pc' \in {"asserting", "posting"} /\ UNCHANGED result BY <1>3 DEF A!Transient
    <2>2. transients' \in Nat /\ transients' < TransientAttempts BY <1>1, <1>3, ScriptsOK
    <2> QED BY <1>1, <2>1, <2>2 DEF AnswersInv, A!AnswersAreGrounded
<1> QED BY <1>2, <1>3

LEMMA AnswersStep == AnswersInv /\ [A!Next]_answerVars => AnswersInv'
<1> SUFFICES ASSUME AnswersInv, [A!Next]_answerVars PROVE AnswersInv' OBVIOUS
<1>1. CASE A!BadBody BY <1>1, RepairKeeps DEF A!BadBody
<1>2. CASE A!Definitive BY <1>2, RaiseKeeps DEF A!Definitive
<1>3. CASE A!Asserted BY <1>3, RepairKeeps DEF A!Asserted
<1>4. CASE UNCHANGED answerVars
    BY <1>4 DEF answerVars, AnswersInv, A!AnswersAreGrounded, A!Retrieved
<1> QED BY <1>1, <1>2, <1>3, <1>4, AskKeeps, ReplyKeeps, RateLimitedKeeps, TransientKeeps DEF A!Next

-----------------------------------------------------------------------------
\* The generation evaluation

\* What the proof needs of the questions, the setups and the environments.
AskedOf(kind) == {E!Todo(kind)[i] : i \in DOMAIN E!Todo(kind)}
Asked == AskedOf("full") \cup AskedOf("smoke")

LEMMA EvalParameters ==
    /\ FirstSetup \in Setups
    /\ \A kind \in {"full", "smoke"} :
         /\ E!Todo(kind) \in Seq(AskedOf(kind)) /\ Len(E!Todo(kind)) \in Nat
         /\ DOMAIN E!Todo(kind) = 1..Len(E!Todo(kind)) /\ AskedOf(kind) \subseteq Asked
<1> SUFFICES ASSUME NEW kind \in {"full", "smoke"}
             PROVE  E!Todo(kind) \in Seq(AskedOf(kind)) /\ AskedOf(kind) \subseteq Asked
    BY ScriptsOK
<1>1. E!Todo(kind) = Questions \/ E!Todo(kind) = SmokeQuestions BY DEF E!Todo
<1> QED BY <1>1, ScriptsOK DEF AskedOf, Asked

Experiments == {E!Experiment(s, e) : s \in Setups, e \in Envs}

\* The rows evaluate_one makes of a question in an experiment.
RowsOf(q, x) ==
    {E!Row(q, x, a, j) : a \in E!Answers(x.generator), j \in E!Judgements(q, x.judge)}

EvalRows == UNION {RowsOf(q, x) : q \in Asked, x \in Experiments}

OfOne(rows) == \A i, j \in DOMAIN rows : rows[i].fingerprint = rows[j].fingerprint
Distinct(rows) == \A i, j \in DOMAIN rows : rows[i].question = rows[j].question => i = j
Stamped(rows, x) == \A i \in DOMAIN rows : rows[i].fingerprint = E!EvaluationFingerprint(x)
InOrder(rows, kind) == \A i \in DOMAIN rows : rows[i].question = E!Todo(kind)[i]

RunFields == {"pc", "kind", "experiment", "completed", "rows"}

Evaluating ==
    /\ run.kind \in {"full", "smoke"}
    /\ run.experiment = E!Experiment(setup, env) /\ E!MayRun(run.kind, env)
    /\ run.rows \in Seq(EvalRows) /\ Len(run.rows) <= Len(E!Todo(run.kind))
    /\ InOrder(run.rows, run.kind)
    /\ run.kind = "full" => /\ run.completed = checkpoint
                            /\ Stamped(checkpoint, run.experiment)
                            /\ Stamped(run.rows, run.experiment)
    /\ run.kind = "smoke" => run.completed = <<>>
    /\ run.pc = "writing" => /\ run.kind = "full" /\ run.rows # <<>>
                             /\ \A i \in DOMAIN checkpoint :
                                  checkpoint[i].question # run.rows[Len(run.rows)].question

Reported ==
    /\ report.rows \in Seq(EvalRows)
    /\ report.kind = "full" =>
         /\ report.experiment \in Experiments /\ Len(report.rows) = Len(Questions)
         /\ InOrder(report.rows, "full") /\ Stamped(report.rows, report.experiment)
    /\ report.passed => IF report.kind = "full" THEN E!GatePassed(report.rows)
                                                ELSE E!SmokeGatePassed(report.rows)

EvalInv ==
    /\ setup \in Setups /\ env \in Envs
    /\ checkpoint \in Seq(EvalRows) /\ OfOne(checkpoint) /\ Distinct(checkpoint)
    /\ run = [f \in RunFields |-> run[f]] /\ run.pc \in {"idle", "evaluating", "writing"}
    /\ run.pc # "idle" => Evaluating
    /\ report.made => Reported

LEMMA EvalInit == E!Init => EvalInv
<1> SUFFICES ASSUME E!Init PROVE EvalInv OBVIOUS
<1>1. setup = FirstSetup /\ env \in Envs /\ checkpoint = <<>> /\ run = E!Idle /\ ~report.made
    BY DEF E!Init, E!NoReport
<1>2. checkpoint \in Seq(EvalRows) /\ DOMAIN checkpoint = {} BY <1>1
<1>3. run = [f \in RunFields |-> run[f]] /\ run.pc = "idle" BY <1>1 DEF E!Idle, RunFields
<1> QED BY <1>1, <1>2, <1>3, EvalParameters DEF EvalInv, OfOne, Distinct

\* Rows with one fingerprint are of comparable experiments.
LEMMA FingerprintTells ==
    ASSUME NEW x \in Experiments, NEW y \in Experiments,
           E!EvaluationFingerprint(x) = E!EvaluationFingerprint(y)
    PROVE  E!Comparable(x, y)
<1> DEFINE fx == E!EvaluationFingerprint(x)
           fy == E!EvaluationFingerprint(y)
<1>1. ASSUME NEW z \in Experiments
      PROVE  LET f == E!EvaluationFingerprint(z)
             IN f.setup = z.setup.hashed /\ f.generator = z.generator /\ f.judge = z.judge
    BY DEF Experiments, E!Experiment, E!EvaluationFingerprint
<1>2. fx.setup = x.setup.hashed /\ fx.generator = x.generator /\ fx.judge = x.judge
    BY <1>1
<1>3. fy.setup = y.setup.hashed /\ fy.generator = y.generator /\ fy.judge = y.judge
    BY <1>1
<1> QED BY <1>2, <1>3 DEF E!Comparable

LEMMA RowFacts ==
    ASSUME NEW r \in EvalRows
    PROVE  /\ r.made \in Experiments /\ r.fingerprint = E!EvaluationFingerprint(r.made)
           /\ r.answer.transport => "generator_transport_failed" \in r.failures
           /\ (r.answer.refused # (r.question \in Unanswerable)) => "refusal_failure" \in r.failures
           /\ ~r.answer.refused => r.citations > 0
           /\ r.question \notin Unanswerable /\ ~r.error =>
                r.score \in 0..2 /\ (r.score < 2 => "generation_hallucination" \in r.failures)
<1>1. PICK q \in Asked, x \in Experiments : r \in RowsOf(q, x) BY DEF EvalRows
<1>2. PICK a \in E!Answers(x.generator), j \in E!Judgements(q, x.judge) : r = E!Row(q, x, a, j)
    BY <1>1 DEF RowsOf
<1>3. a.refused \in BOOLEAN /\ a.transport \in BOOLEAN BY DEF E!Answers
<1>4. /\ r.made = x /\ r.question = q /\ r.answer = a /\ r.score = j.score /\ r.error = j.error
      /\ r.fingerprint = E!EvaluationFingerprint(x)
      /\ r.citations = IF a.refused THEN 0 ELSE 1
      /\ j.failures \subseteq r.failures
      /\ a.refused # (q \in Unanswerable) => "refusal_failure" \in r.failures
      /\ a.transport => "generator_transport_failed" \in r.failures
    BY <1>2 DEF E!Row
<1>5. q \notin Unanswerable /\ ~j.error =>
        j.score \in 0..2 /\ (j.score < 2 => "generation_hallucination" \in j.failures)
    BY DEF E!Judgements, E!Unjudged
<1> QED BY <1>1, <1>3, <1>4, <1>5

LEMMA RowIsMade ==
    ASSUME NEW q \in Asked, NEW x \in Experiments, NEW a \in E!Answers(x.generator),
           NEW j \in E!Judgements(q, x.judge)
    PROVE  LET r == E!Row(q, x, a, j)
           IN  r \in EvalRows /\ r.question = q /\ r.fingerprint = E!EvaluationFingerprint(x)
<1>1. E!Row(q, x, a, j) \in RowsOf(q, x) BY DEF RowsOf
<1>2. E!Row(q, x, a, j) \in EvalRows BY <1>1 DEF EvalRows
<1> QED BY <1>2 DEF E!Row

\* The run has one row more, of the question it is at.
LEMMA OneMoreRow ==
    ASSUME EvalInv, E!More, NEW r \in EvalRows, r.question = E!Current,
           run.kind = "full" => r.fingerprint = E!EvaluationFingerprint(run.experiment)
    PROVE  LET rows == Append(run.rows, r)
           IN  /\ rows \in Seq(EvalRows) /\ Len(rows) <= Len(E!Todo(run.kind))
               /\ InOrder(rows, run.kind)
               /\ rows # <<>> /\ rows[Len(rows)] = r
               /\ run.kind = "full" => Stamped(rows, run.experiment)
<1> DEFINE rows == Append(run.rows, r)
           n == Len(run.rows)
<1>1. /\ run.rows \in Seq(EvalRows) /\ InOrder(run.rows, run.kind) /\ run.kind \in {"full", "smoke"}
      /\ run.kind = "full" => Stamped(run.rows, run.experiment)
    BY DEF EvalInv, Evaluating, E!More
<1> DEFINE todo == E!Todo(run.kind)
<1>2. n < Len(todo) /\ r.question = todo[n + 1] /\ Len(todo) \in Nat
    BY <1>1, EvalParameters DEF E!More, E!Current
<1>3. rows \in Seq(EvalRows) /\ Len(rows) = n + 1 /\ n \in Nat /\ DOMAIN rows = 1..(n + 1)
        /\ DOMAIN run.rows = 1..n
    BY <1>1
<1>4. \A i \in 1..(n + 1) : rows[i] = IF i = n + 1 THEN r ELSE run.rows[i]
    BY <1>1
<1> HIDE DEF rows, n
<1>5. InOrder(rows, run.kind) BY <1>1, <1>2, <1>3, <1>4 DEF InOrder
<1>6. run.kind = "full" => Stamped(rows, run.experiment) BY <1>1, <1>3, <1>4 DEF Stamped
<1>7. rows # <<>> /\ rows[Len(rows)] = r /\ Len(rows) <= Len(todo)
    BY <1>2, <1>3, <1>4
<1> QED BY <1>3, <1>5, <1>6, <1>7 DEF rows

LEMMA RepeatedReport == ASSUME Reported, UNCHANGED report PROVE Reported'
BY DEF Reported, InOrder, Stamped, E!GatePassed, E!SmokeGatePassed

LEMMA StartKeeps == ASSUME EvalInv, E!Start PROVE EvalInv'
<1>1. run.pc = "idle" /\ ~report'.made /\ UNCHANGED <<setup, env, checkpoint>>
    BY DEF E!Start, E!NoReport
<1>2. PICK kind \in {"full", "smoke"} :
        LET experiment == E!Experiment(setup, env)
            compatible == E!LoadCheckpoint(checkpoint, E!EvaluationFingerprint(experiment))
        IN run' = IF E!MayRun(kind, env) /\ (kind = "full" => compatible)
                    THEN [E!Idle EXCEPT !.pc = "evaluating", !.kind = kind,
                            !.experiment = experiment,
                            !.completed = IF kind = "full" THEN checkpoint ELSE <<>>]
                    ELSE run
    BY DEF E!Start
<1> DEFINE x == E!Experiment(setup, env)
<1>3. CASE run' = run BY <1>1, <1>3 DEF EvalInv
<1>4. CASE /\ E!MayRun(kind, env)
           /\ kind = "full" => E!LoadCheckpoint(checkpoint, E!EvaluationFingerprint(x))
           /\ run' = [E!Idle EXCEPT !.pc = "evaluating", !.kind = kind, !.experiment = x,
                        !.completed = IF kind = "full" THEN checkpoint ELSE <<>>]
    <2>1. /\ run' = [f \in RunFields |-> run'[f]] /\ run'.pc = "evaluating" /\ run'.kind = kind
          /\ run'.experiment = x /\ run'.rows = <<>>
          /\ run'.completed = IF kind = "full" THEN checkpoint ELSE <<>>
        BY <1>4 DEF E!Idle, RunFields
    <2>2. kind = "full" => Stamped(checkpoint, x) BY <1>4 DEF E!LoadCheckpoint, Stamped
    <2>3. /\ <<>> \in Seq(EvalRows) /\ InOrder(<<>>, kind) /\ Stamped(<<>>, x)
          /\ Len(<<>>) <= Len(E!Todo(kind))
        BY EvalParameters DEF InOrder, Stamped
    <2>4. Evaluating'
        <3>1. kind = "full" =>
                /\ run'.completed = checkpoint'
                /\ Stamped(checkpoint', run'.experiment) /\ Stamped(run'.rows, run'.experiment)
            BY <1>1, <2>1, <2>2, <2>3
        <3>2. /\ InOrder(run'.rows, run'.kind) /\ run'.rows \in Seq(EvalRows)
              /\ Len(run'.rows) <= Len(E!Todo(run'.kind))
            BY <2>1, <2>3
        <3>3. run'.experiment = E!Experiment(setup', env') /\ E!MayRun(run'.kind, env')
            BY <1>1, <1>4, <2>1
        <3> QED BY <2>1, <3>1, <3>2, <3>3 DEF Evaluating, Stamped, InOrder
    <2> QED BY <1>1, <2>1, <2>4 DEF EvalInv, OfOne, Distinct
<1> QED BY <1>2, <1>3, <1>4

LEMMA ResumeKeeps == ASSUME EvalInv, E!Resume PROVE EvalInv'
<1>1. E!More /\ UNCHANGED <<setup, env, checkpoint, report>> BY DEF E!Resume
<1>2. PICK i \in E!Checkpointed : run' = [run EXCEPT !.rows = Append(@, run.completed[i])]
    BY DEF E!Resume
<1>3. Evaluating /\ run.pc = "evaluating" BY <1>1 DEF EvalInv, E!More
<1>4. i \in DOMAIN run.completed /\ run.completed[i].question = E!Current BY DEF E!Checkpointed
<1>5. run.kind = "full" /\ run.completed = checkpoint BY <1>3, <1>4 DEF Evaluating
<1>6. PICK r : r = run.completed[i] OBVIOUS
<1>7. r \in EvalRows /\ r.question = E!Current
        /\ r.fingerprint = E!EvaluationFingerprint(run.experiment)
    BY <1>3, <1>4, <1>5, <1>6 DEF EvalInv, Evaluating, Stamped
<1>8. PICK rows : rows = Append(run.rows, r) OBVIOUS
<1>9. /\ rows \in Seq(EvalRows) /\ Len(rows) <= Len(E!Todo(run.kind)) /\ InOrder(rows, run.kind)
      /\ Stamped(rows, run.experiment)
    BY <1>1, <1>5, <1>7, <1>8, OneMoreRow
<1>10. /\ run' = [f \in RunFields |-> run'[f]] /\ run'.pc = run.pc /\ run'.kind = run.kind
       /\ run'.experiment = run.experiment /\ run'.rows = rows /\ run'.completed = run.completed
    BY <1>2, <1>6, <1>8 DEF EvalInv, RunFields
<1>11. Evaluating'
    BY <1>1, <1>3, <1>5, <1>9, <1>10 DEF Evaluating, Stamped, InOrder
<1> QED BY <1>1, <1>10, <1>11 DEF EvalInv, OfOne, Distinct, Reported

LEMMA EvaluateKeeps == ASSUME EvalInv, E!Evaluate PROVE EvalInv'
<1>1. E!More /\ E!Checkpointed = {} /\ UNCHANGED <<setup, env, checkpoint, report>>
    BY DEF E!Evaluate
<1>2. Evaluating /\ run.pc = "evaluating" BY <1>1 DEF EvalInv, E!More
<1> DEFINE q == E!Current
           x == run.experiment
<1>3. PICK a \in E!Answers(x.generator), j \in E!Judgements(q, x.judge) :
        run' = [run EXCEPT !.rows = Append(@, E!Row(q, x, a, j)),
                           !.pc = IF run.kind = "full" THEN "writing" ELSE @]
    BY DEF E!Evaluate
<1>4. x \in Experiments BY <1>2 DEF Evaluating, EvalInv, Experiments
<1>5. q \in Asked
    <2>1. Len(run.rows) + 1 \in DOMAIN E!Todo(run.kind)
        BY <1>1, <1>2, EvalParameters DEF E!More, Evaluating
    <2>2. q \in AskedOf(run.kind) BY <2>1 DEF E!Current, AskedOf
    <2> QED BY <1>2, <2>2, EvalParameters DEF Evaluating
<1>6. PICK r : r = E!Row(q, x, a, j) OBVIOUS
<1>7. r \in EvalRows /\ r.question = q /\ r.fingerprint = E!EvaluationFingerprint(x)
    BY <1>4, <1>5, <1>6, RowIsMade
<1>8. PICK rows : rows = Append(run.rows, r) OBVIOUS
<1>9. /\ rows \in Seq(EvalRows) /\ Len(rows) <= Len(E!Todo(run.kind)) /\ InOrder(rows, run.kind)
      /\ rows # <<>> /\ rows[Len(rows)] = r
      /\ run.kind = "full" => Stamped(rows, x)
    BY <1>1, <1>7, <1>8, OneMoreRow
<1>10. /\ run' = [f \in RunFields |-> run'[f]] /\ run'.kind = run.kind
       /\ run'.pc = IF run.kind = "full" THEN "writing" ELSE "evaluating"
       /\ run'.experiment = x /\ run'.rows = rows /\ run'.completed = run.completed
    BY <1>2, <1>3, <1>6, <1>8 DEF EvalInv, RunFields
<1>11. run.kind = "full" => \A i \in DOMAIN checkpoint : checkpoint[i].question # q
    BY <1>1, <1>2 DEF Evaluating, E!Checkpointed
<1>12. Evaluating'
    BY <1>1, <1>2, <1>7, <1>9, <1>10, <1>11 DEF Evaluating, Stamped, InOrder
<1> QED BY <1>1, <1>10, <1>12 DEF EvalInv, OfOne, Distinct, Reported

LEMMA ReplaceKeeps == ASSUME EvalInv, E!Replace PROVE EvalInv'
<1>1. run.pc = "writing" /\ UNCHANGED <<setup, env, report>> BY DEF E!Replace
<1>2. Evaluating /\ run.kind = "full" BY <1>1 DEF EvalInv, Evaluating
<1> DEFINE n == Len(checkpoint)
<1>3. PICK r : r = run.rows[Len(run.rows)] OBVIOUS
<1>4. r \in EvalRows /\ r.fingerprint = E!EvaluationFingerprint(run.experiment)
    <2>1. Len(run.rows) \in DOMAIN run.rows BY <1>1, <1>2 DEF Evaluating
    <2> QED BY <1>2, <1>3, <2>1 DEF Evaluating, Stamped
<1>5. PICK rows : rows = Append(checkpoint, r) OBVIOUS
<1>6. checkpoint' = rows /\ run' = [run EXCEPT !.completed = rows, !.pc = "evaluating"]
    BY <1>2, <1>3, <1>5 DEF E!Replace, Evaluating
<1>7. /\ checkpoint \in Seq(EvalRows) /\ Distinct(checkpoint)
      /\ Stamped(checkpoint, run.experiment)
      /\ \A i \in DOMAIN checkpoint : checkpoint[i].question # r.question
    BY <1>1, <1>2, <1>3 DEF EvalInv, Evaluating
<1>8. rows \in Seq(EvalRows) /\ n \in Nat /\ DOMAIN rows = 1..(n + 1) /\ DOMAIN checkpoint = 1..n
    BY <1>4, <1>5, <1>7
<1>9. \A i \in 1..(n + 1) : rows[i] = IF i = n + 1 THEN r ELSE checkpoint[i]
    BY <1>4, <1>5, <1>7
<1> HIDE DEF n
<1>10. Stamped(rows, run.experiment) BY <1>4, <1>7, <1>8, <1>9 DEF Stamped
<1>11. OfOne(rows) BY <1>10 DEF Stamped, OfOne
<1>12. Distinct(rows) BY <1>7, <1>8, <1>9 DEF Distinct
<1>13. /\ run' = [f \in RunFields |-> run'[f]] /\ run'.pc = "evaluating" /\ run'.kind = run.kind
       /\ run'.experiment = run.experiment /\ run'.rows = run.rows /\ run'.completed = rows
    BY <1>6 DEF EvalInv, RunFields
<1>14. Evaluating'
    BY <1>1, <1>2, <1>6, <1>10, <1>13 DEF Evaluating, Stamped, InOrder
<1>15. report'.made => Reported' BY <1>1, RepeatedReport DEF EvalInv
<1>16. OfOne(checkpoint') /\ Distinct(checkpoint') BY <1>6, <1>11, <1>12
<1> QED BY <1>1, <1>6, <1>8, <1>13, <1>14, <1>15, <1>16 DEF EvalInv, OfOne, Distinct

LEMMA ReportKeeps == ASSUME EvalInv, E!Report PROVE EvalInv'
<1>1. run.pc = "evaluating" /\ Len(run.rows) = Len(E!Todo(run.kind))
        /\ UNCHANGED <<setup, env, checkpoint>> /\ run' = E!Idle
    BY DEF E!Report
<1>2. Evaluating BY <1>1 DEF EvalInv
<1>3. report'.made /\ report'.kind = run.kind /\ report'.experiment = run.experiment
        /\ report'.rows = run.rows
        /\ report'.passed = IF run.kind = "full" THEN E!GatePassed(run.rows)
                                                 ELSE E!SmokeGatePassed(run.rows)
    BY DEF E!Report
<1>4. run.experiment \in Experiments BY <1>2 DEF Evaluating, EvalInv, Experiments
<1>5. Reported'
    BY <1>1, <1>2, <1>3, <1>4
    DEF Reported, Evaluating, Stamped, InOrder, E!Todo, E!GatePassed, E!SmokeGatePassed
<1>6. run' = [f \in RunFields |-> run'[f]] /\ run'.pc = "idle" BY <1>1 DEF E!Idle, RunFields
<1> QED BY <1>1, <1>5, <1>6 DEF EvalInv, OfOne, Distinct

LEMMA EvalStopKeeps == ASSUME EvalInv, E!Stop PROVE EvalInv'
<1>1. run' = E!Idle /\ UNCHANGED <<setup, env, checkpoint, report>> BY DEF E!Stop
<1>2. run' = [f \in RunFields |-> run'[f]] /\ run'.pc = "idle" BY <1>1 DEF E!Idle, RunFields
<1> QED BY <1>1, <1>2 DEF EvalInv, OfOne, Distinct, Reported

LEMMA ChangeKeeps == ASSUME EvalInv, E!Change PROVE EvalInv'
<1>1. run.pc = "idle" /\ UNCHANGED <<run, report>> BY DEF E!Change
<1>2. setup' \in Setups /\ env' \in Envs BY DEF E!Change, EvalInv
<1>3. checkpoint' = checkpoint \/ checkpoint' = <<>> BY DEF E!Change
<1>4. checkpoint' \in Seq(EvalRows) /\ OfOne(checkpoint') /\ Distinct(checkpoint')
    <2>1. CASE checkpoint' = checkpoint BY <2>1 DEF EvalInv, OfOne, Distinct
    <2>2. CASE checkpoint' = <<>>
        <3>1. <<>> \in Seq(EvalRows) /\ DOMAIN <<>> = {} OBVIOUS
        <3> QED BY <2>2, <3>1 DEF OfOne, Distinct
    <2> QED BY <1>3, <2>1, <2>2
<1> QED BY <1>1, <1>2, <1>4 DEF EvalInv, OfOne, Distinct, Reported

LEMMA EvalStep == EvalInv /\ [E!Next]_evalVars => EvalInv'
<1> SUFFICES ASSUME EvalInv, [E!Next]_evalVars PROVE EvalInv' OBVIOUS
<1>1. CASE E!Next
    BY <1>1, StartKeeps, ResumeKeeps, EvaluateKeeps, ReplaceKeeps, ReportKeeps, EvalStopKeeps, ChangeKeeps
    DEF E!Next
<1>2. CASE UNCHANGED evalVars
    <2>1. UNCHANGED <<setup, env, checkpoint, run, report>> BY <1>2 DEF evalVars
    <2>2. run.pc # "idle" => Evaluating' BY <2>1 DEF EvalInv, Evaluating, Stamped, InOrder
    <2>3. report.made => Reported' BY <2>1, RepeatedReport DEF EvalInv
    <2> QED BY <2>1, <2>2, <2>3 DEF EvalInv, OfOne, Distinct
<1> QED BY <1>1, <1>2

\* The least of three positions is a position.
LEMMA LeastPosition ==
    ASSUME NEW S \in SUBSET (1..3), S # {}
    PROVE  E!Min(S) \in S
<1>1. \E x \in S : \A y \in S : x <= y
    <2>1. CASE 1 \in S BY <2>1
    <2>2. CASE 1 \notin S /\ 2 \in S
        <3>1. \A y \in S : 2 <= y BY <2>2
        <3> QED BY <2>2, <3>1
    <2>3. CASE 1 \notin S /\ 2 \notin S
        <3>1. \A y \in S : y = 3 BY <2>3
        <3>2. 3 \in S BY <3>1
        <3> QED BY <3>1, <3>2
    <2> QED BY <2>1, <2>2, <2>3
<1> QED BY <1>1 DEF E!Min

LEMMA DetectedHasCredential ==
    ASSUME NEW e, E!Detected(e) \in {"groq", "ollama"}
    PROVE  E!Credential(E!Detected(e), e)
<1> DEFINE keyed == {i \in 1..3 : E!Hosted[i] \in e.keys}
<1>1. DOMAIN E!Hosted = 1..3 BY DEF E!Hosted
<1>2. E!Detected(e) = IF keyed # {} THEN E!Hosted[E!Min(keyed)]
                      ELSE IF e.ollama THEN "ollama" ELSE "none"
    BY <1>1 DEF E!Detected
<1>3. CASE keyed = {} BY <1>2, <1>3 DEF E!Credential
<1>4. CASE keyed # {}
    <2>1. PICK i \in keyed : i = E!Min(keyed)
        <3>1. keyed \in SUBSET (1..3) OBVIOUS
        <3> HIDE DEF keyed
        <3> QED BY <1>4, <3>1, LeastPosition
    <2>2. E!Hosted[i] \in e.keys /\ E!Hosted[i] \in {"anthropic", "openai", "groq"}
        BY <2>1 DEF E!Hosted
    <2>3. E!Detected(e) = E!Hosted[i] BY <1>2, <1>4, <2>1
    <2>4. E!Detected(e) = "groq" /\ "groq" \in e.keys BY <2>2, <2>3
    <2> QED BY <2>4 DEF E!Credential
<1> QED BY <1>3, <1>4

LEMMA EvalReports == EvalInv => E!ReportIsOneExperiment
<1> SUFFICES ASSUME EvalInv PROVE E!ReportIsOneExperiment OBVIOUS
<1>1. ASSUME report.made, report.kind = "full"
      PROVE  /\ [i \in DOMAIN report.rows |-> report.rows[i].question] = Questions
             /\ \A i \in DOMAIN report.rows : E!Comparable(report.rows[i].made, report.experiment)
    <2>1. /\ report.rows \in Seq(EvalRows) /\ Len(report.rows) = Len(Questions)
          /\ InOrder(report.rows, "full") /\ Stamped(report.rows, report.experiment)
          /\ report.experiment \in Experiments
        BY <1>1 DEF EvalInv, Reported
    <2>2. DOMAIN report.rows = 1..Len(Questions)
            /\ Questions = [i \in 1..Len(Questions) |-> Questions[i]]
        BY <2>1, EvalParameters, ScriptsOK DEF E!Todo
    <2>3. \A i \in DOMAIN report.rows : report.rows[i].question = Questions[i]
        BY <2>1 DEF InOrder, E!Todo
    <2>4. ASSUME NEW i \in DOMAIN report.rows
          PROVE  E!Comparable(report.rows[i].made, report.experiment)
        <3>1. report.rows[i] \in EvalRows BY <2>1
        <3>2. report.rows[i].made \in Experiments
                /\ E!EvaluationFingerprint(report.rows[i].made)
                     = E!EvaluationFingerprint(report.experiment)
            BY <2>1, <3>1, RowFacts DEF Stamped
        <3> QED BY <2>1, <3>2, FingerprintTells
    <2> QED BY <2>2, <2>3, <2>4
<1>2. ASSUME NEW i \in DOMAIN checkpoint, NEW j \in DOMAIN checkpoint
      PROVE  /\ E!Comparable(checkpoint[i].made, checkpoint[j].made)
             /\ checkpoint[i].question = checkpoint[j].question => i = j
    <2>1. checkpoint[i] \in EvalRows /\ checkpoint[j] \in EvalRows
            /\ checkpoint[i].fingerprint = checkpoint[j].fingerprint
        BY DEF EvalInv, OfOne
    <2>2. /\ checkpoint[i].made \in Experiments /\ checkpoint[j].made \in Experiments
          /\ E!EvaluationFingerprint(checkpoint[i].made)
               = E!EvaluationFingerprint(checkpoint[j].made)
        BY <2>1, RowFacts
    <2>3. E!Comparable(checkpoint[i].made, checkpoint[j].made) BY <2>2, FingerprintTells
    <2> QED BY <2>3 DEF EvalInv, Distinct
<1>3. ASSUME run.pc # "idle", run.kind = "full", NEW role \in E!Roles, env.requireRole[role] # "none"
      PROVE  /\ run.experiment[role] = env.requireRole[role]
             /\ E!Credential(run.experiment[role], env)
    <2>1. run.experiment = E!Experiment(setup, env) /\ E!MayRun("full", env)
        BY <1>3 DEF EvalInv, Evaluating
    <2>2. run.experiment[role] = E!Resolved(role, env) BY <2>1 DEF E!Experiment, E!Roles
    <2>3. env.requireRole[role] = E!Resolved(role, env) /\ E!Selectable(role, env)
        BY <1>3, <2>1 DEF E!MayRun, E!RequiredRole
    <2>4. E!Credential(E!Resolved(role, env), env)
        <3>1. CASE env.override[role] # "none" BY <2>3, <3>1 DEF E!Selectable, E!Resolved
        <3>2. CASE env.override[role] = "none"
            <4>1. E!Resolved(role, env) = E!Detected(env) BY <3>2 DEF E!Resolved
            <4>2. E!Detected(env) \in {"groq", "ollama"}
                BY <1>3, <2>3, <3>2, <4>1 DEF E!Selectable
            <4> QED BY <4>1, <4>2, DetectedHasCredential
        <3> QED BY <3>1, <3>2
    <2> QED BY <2>2, <2>3, <2>4
<1> QED BY <1>1, <1>2, <1>3 DEF E!ReportIsOneExperiment

LEMMA EvalGates == EvalInv => E!HonestGate
<1> SUFFICES ASSUME EvalInv, report.made, report.passed, NEW i \in DOMAIN report.rows
             PROVE  LET r == report.rows[i]
                        answerable == r.question \notin Unanswerable
                    IN /\ ~r.answer.transport /\ (answerable => r.score # E!NoScore)
                       /\ report.kind = "full" =>
                            /\ answerable => ~r.answer.refused /\ r.score = 2 /\ r.citations > 0
                            /\ ~answerable => r.answer.refused
    BY DEF E!HonestGate
<1>1. PICK r : r = report.rows[i] OBVIOUS
<1>2. r \in EvalRows BY <1>1 DEF EvalInv, Reported
<1>3. CASE report.kind = "full"
    <2>1. E!GatePassed(report.rows) BY <1>3 DEF EvalInv, Reported
    <2>2. /\ IF r.question \in Unanswerable THEN r.answer.refused
             ELSE ~r.error /\ r.score # E!NoScore /\ "refusal_failure" \notin r.failures
          /\ "generation_hallucination" \notin r.failures
          /\ "generator_transport_failed" \notin r.failures
        BY <1>1, <2>1 DEF E!GatePassed
    <2>3. CASE r.question \in Unanswerable BY <1>1, <1>2, <1>3, <2>2, <2>3, RowFacts
    <2>4. CASE r.question \notin Unanswerable
        <3>1. r.score \in 0..2 /\ ~(r.score < 2) /\ ~r.answer.refused /\ r.citations > 0
                /\ ~r.answer.transport
            BY <1>2, <2>2, <2>4, RowFacts
        <3>2. r.score = 2 BY <3>1
        <3> QED BY <1>1, <2>2, <2>4, <3>1, <3>2
    <2> QED BY <2>3, <2>4
<1>4. CASE report.kind # "full"
    <2>1. E!SmokeGatePassed(report.rows) BY <1>4 DEF EvalInv, Reported
    <2>2. ~r.error /\ "generator_transport_failed" \notin r.failures
        BY <1>1, <2>1 DEF E!SmokeGatePassed
    <2> QED BY <1>1, <1>2, <1>4, <2>2, RowFacts DEF E!NoScore
<1> QED BY <1>3, <1>4

-----------------------------------------------------------------------------
\* The live evaluations

LEMMA LiveParameters == Len(Cases) \in Nat \ {0}
BY ScriptsOK

LiveErrors == {"none", "transport_error", "decision_format_invalid", "classification_format_invalid",
               "ineligible_action_uncorrected", "possible_transport_error"}
LiveRows ==
    [case : Nat, start : Nat, first : BOOLEAN, valid : BOOLEAN, repairs : Nat, error : LiveErrors,
     correct : BOOLEAN, needless : BOOLEAN, raised : BOOLEAN]

\* What a row says hangs together: an outage is never a decision.
Sound(r) ==
    /\ r.error = "transport_error" \/ r.error = "none" => (r.valid <=> r.error = "none")
    /\ r.first \/ r.correct => r.valid

\* The first n rows end in an outage that stops the script.
Outage(rows, n) ==
    /\ n >= OutageLength
    /\ \A i \in (n - OutageLength + 1)..n : L!Broken(rows, i)

\* The last n rows are broken, the one before them is not.
BrokenEnd(rows, n) ==
    /\ n \in 0..Len(rows)
    /\ \A i \in (Len(rows) - n + 1)..Len(rows) : L!Broken(rows, i)
    /\ n < Len(rows) => ~L!Broken(rows, Len(rows) - n)

OneShotScript == script \in L!OneShot

Measuring ==
    /\ file.made /\ liveRun.rows = file.rows /\ starts # 0
    /\ BrokenEnd(file.rows, liveRun.outage) /\ liveRun.outage <= OutageLength
    /\ \A n \in 1..(Len(file.rows) - 1) : ~Outage(file.rows, n)
    /\ OneShotScript => ~summary.made /\ (file.rows # <<>> => measured = starts)

Summarized ==
    LET rows == file.rows
    IN  /\ rows # <<>>
        /\ summary.start = measured /\ summary.completed = Len(rows)
        /\ summary.unbroken >= summary.valid /\ summary.valid >= summary.correct
        /\ summary.valid >= summary.first
        /\ summary.blocked <=> Outage(rows, Len(rows))
        /\ ~summary.blocked => Len(rows) = Len(Cases)
        /\ \A n \in 1..(Len(rows) - 1) : ~Outage(rows, n)

LiveInv ==
    /\ script \in L!Scripts /\ starts \in Nat /\ measured \in Nat
    /\ file = [f \in {"made", "rows"} |-> file[f]]
    /\ liveRun = [f \in {"on", "rows", "outage"} |-> liveRun[f]] /\ liveRun.on \in BOOLEAN
    /\ file.rows \in Seq(LiveRows) /\ Len(file.rows) <= Len(Cases)
    /\ \A i \in DOMAIN file.rows : file.rows[i].case = i /\ Sound(file.rows[i])
    /\ file.rows # <<>> => file.made
    /\ OneShotScript => /\ file.rows = <<>> <=> measured = 0
                        /\ \A i \in DOMAIN file.rows : file.rows[i].start = measured
    /\ liveRun.on => Measuring
    /\ OneShotScript /\ summary.made => Summarized

LEMMA LiveInit == L!Init => LiveInv
<1> SUFFICES ASSUME L!Init PROVE LiveInv OBVIOUS
<1>1. /\ file.rows = <<>> /\ DOMAIN file.rows = {} /\ Len(file.rows) = 0 /\ file.rows \in Seq(LiveRows)
      /\ liveRun.on = FALSE /\ ~summary.made /\ measured = 0 /\ starts = 0 /\ script \in L!Scripts
      /\ file = [f \in {"made", "rows"} |-> file[f]]
      /\ liveRun = [f \in {"on", "rows", "outage"} |-> liveRun[f]]
    BY DEF L!Init, L!NoFile, L!NoSummary, L!NotRunning
<1>2. Len(file.rows) <= Len(Cases) BY <1>1, LiveParameters
<1>3. \A i \in DOMAIN file.rows : FALSE BY <1>1
<1>4. measured \in Nat /\ starts \in Nat /\ liveRun.on \in BOOLEAN BY <1>1
<1> QED BY <1>1, <1>2, <1>3, <1>4 DEF LiveInv

LEMMA LiveMeasures == LiveInv => L!MeasuredOnce
<1> SUFFICES ASSUME LiveInv PROVE L!MeasuredOnce OBVIOUS
<1>1. ASSUME NEW i \in DOMAIN file.rows
      PROVE  /\ file.rows[i].case = i
             /\ script \in L!OneShot => file.rows[i].start = measured
             /\ L!Broken(file.rows, i) => ~file.rows[i].valid /\ ~file.rows[i].correct /\ ~file.rows[i].first
             /\ ~file.rows[i].valid => file.rows[i].error # "none"
    BY <1>1 DEF LiveInv, Sound, L!Broken, OneShotScript
<1>2. summary.made /\ script \in L!OneShot => Summarized BY DEF LiveInv, OneShotScript
<1> QED BY <1>1, <1>2 DEF L!MeasuredOnce, Summarized, Outage

LEMMA OpenKeeps ==
    ASSUME LiveInv, ~liveRun.on, L!Open, OneShotScript => file.rows = <<>>
    PROVE  LiveInv'
<1>1. /\ file'.made /\ file'.rows = <<>> /\ DOMAIN file'.rows = {} /\ Len(file'.rows) = 0
      /\ file'.rows \in Seq(LiveRows) /\ file' = [f \in {"made", "rows"} |-> file'[f]]
      /\ liveRun' = [f \in {"on", "rows", "outage"} |-> liveRun'[f]]
      /\ liveRun'.on = TRUE /\ liveRun'.rows = <<>> /\ liveRun'.outage = 0
      /\ starts' = starts + 1 /\ UNCHANGED <<script, summary, measured>>
    BY DEF L!Open, L!NotRunning
<1>2. OneShotScript => measured = 0 /\ ~summary.made
    BY DEF LiveInv, Summarized
<1>3. BrokenEnd(file.rows, liveRun.outage)' /\ (\A n \in 1..(Len(file.rows) - 1) : ~Outage(file.rows, n))'
    BY <1>1 DEF BrokenEnd
<1>4. starts \in Nat /\ script \in L!Scripts /\ measured \in Nat BY DEF LiveInv
<1>5. Measuring' BY <1>1, <1>2, <1>3, <1>4, ScriptsOK DEF Measuring, OneShotScript
<1>6. Len(file'.rows) <= Len(Cases) BY <1>1, LiveParameters
<1>7. \A i \in DOMAIN file'.rows : FALSE BY <1>1
<1>8. measured' \in Nat /\ starts' \in Nat BY <1>1, <1>4
<1>9. liveRun'.on \in BOOLEAN BY <1>1
<1> QED BY <1>1, <1>2, <1>4, <1>5, <1>6, <1>7, <1>8, <1>9 DEF LiveInv, OneShotScript

LEMMA BeginsKeep ==
    ASSUME LiveInv, L!BeginE1 \/ L!BeginE1r \/ L!BeginE1v \/ L!BeginE1x \/ L!BeginE1z
    PROVE  LiveInv'
<1>1. ~liveRun.on /\ L!Open /\ (script = "e1" \/ ~file.made \/ file.rows = <<>>)
    BY DEF L!BeginE1, L!BeginE1r, L!BeginE1v, L!BeginE1x, L!BeginE1z, L!CanStart
<1>2. OneShotScript => file.rows = <<>> BY <1>1 DEF LiveInv, OneShotScript, L!OneShot
<1> QED BY <1>1, <1>2, OpenKeeps

-----------------------------------------------------------------------------
\* One more row

\* What the last row leaves of the outage.
LEMMA OutageGoesOn ==
    ASSUME NEW rows \in Seq(LiveRows), NEW r \in LiveRows, NEW n \in Nat, BrokenEnd(rows, n),
           n < OutageLength, \A k \in 1..(Len(rows) - 1) : ~Outage(rows, k)
    PROVE  LET more == Append(rows, r)
               m == IF r.error = "transport_error" THEN n + 1 ELSE 0
           IN  /\ BrokenEnd(more, m) /\ m <= OutageLength
               /\ \A k \in 1..(Len(more) - 1) : ~Outage(more, k)
<1> DEFINE more == Append(rows, r)
           l == Len(rows)
           m == IF r.error = "transport_error" THEN n + 1 ELSE 0
<1>1. l \in Nat /\ Len(more) = l + 1 /\ \A i \in 1..(l + 1) : more[i] = IF i = l + 1 THEN r ELSE rows[i]
    OBVIOUS
<1> HIDE DEF more, l
<1>2. \A i \in 1..l : L!Broken(more, i) <=> L!Broken(rows, i) BY <1>1 DEF L!Broken
<1>3. L!Broken(more, l + 1) <=> r.error = "transport_error" BY <1>1 DEF L!Broken
<1>4. BrokenEnd(more, m)
    <2>1. n \in 0..l /\ (\A i \in (l - n + 1)..l : L!Broken(rows, i)) /\ (n < l => ~L!Broken(rows, l - n))
        BY DEF BrokenEnd, l
    <2>2. CASE r.error = "transport_error"
        <3>1. m = n + 1 /\ m \in 0..Len(more) BY <1>1, <2>1, <2>2
        <3>2. ASSUME NEW i \in (Len(more) - m + 1)..Len(more) PROVE L!Broken(more, i)
            <4>1. i \in (l - n + 1)..l \/ i = l + 1 BY <1>1, <2>1, <3>1
            <4> QED BY <4>1, <1>1, <1>2, <1>3, <2>1, <2>2
        <3>3. m < Len(more) => ~L!Broken(more, Len(more) - m)
            <4> SUFFICES ASSUME m < Len(more) PROVE ~L!Broken(more, Len(more) - m) OBVIOUS
            <4>1. Len(more) - m = l - n /\ n < l /\ l - n \in 1..l BY <1>1, <2>1, <3>1
            <4> QED BY <4>1, <1>2, <2>1
        <3> QED BY <3>1, <3>2, <3>3 DEF BrokenEnd
    <2>3. CASE r.error # "transport_error"
        BY <1>1, <1>3, <2>3 DEF BrokenEnd
    <2> QED BY <2>2, <2>3
<1>5. m <= OutageLength BY ScriptsOK
<1>6. ASSUME NEW k \in 1..(Len(more) - 1), Outage(more, k) PROVE FALSE
    <2>1. k \in 1..l BY <1>1
    <2>2. Outage(rows, k)
        <3>1. ASSUME NEW i \in (k - OutageLength + 1)..k PROVE L!Broken(rows, i)
            <4>1. i \in 1..l /\ L!Broken(more, i) BY <1>1, <1>6, <2>1, ScriptsOK DEF Outage
            <4> QED BY <4>1, <1>2
        <3> QED BY <3>1, <1>6 DEF Outage
    <2>3. k = l BY <1>1, <2>1, <2>2 DEF l
    <2>4. n < l /\ l - n \in (k - OutageLength + 1)..k
        BY <1>1, <2>2, <2>3, ScriptsOK DEF Outage
    <2> QED BY <2>2, <2>4 DEF Outage, BrokenEnd, l
<1> QED BY <1>4, <1>5, <1>6 DEF more, m

LEMMA TakeKeeps ==
    ASSUME LiveInv, L!More, NEW r \in LiveRows, Sound(r), r.case = L!Case, r.start = starts, L!Take(r)
    PROVE  LiveInv'
<1> DEFINE rows == file.rows
           more == Append(rows, r)
           l == Len(rows)
<1>1. /\ Measuring /\ liveRun.on /\ liveRun.outage < OutageLength /\ r.case = l + 1 /\ l + 1 <= Len(Cases)
      /\ rows \in Seq(LiveRows)
    <2>1. Measuring /\ liveRun.on BY DEF LiveInv, L!More
    <2>2. liveRun.outage < OutageLength
        BY <2>1, ScriptsOK DEF L!More, L!Blocked, Measuring, BrokenEnd, LiveInv
    <2> QED BY <2>1, <2>2 DEF LiveInv, L!More, L!Case, Measuring
<1>2. /\ file' = [file EXCEPT !.rows = more]
      /\ liveRun' = [liveRun EXCEPT !.rows = more, !.outage = L!OutageAfter(r)]
      /\ measured' = IF measured = 0 THEN starts ELSE measured
      /\ UNCHANGED <<script, summary, starts>>
    BY <1>1 DEF L!Take, Measuring
<1>3. /\ more \in Seq(LiveRows) /\ Len(more) = l + 1 /\ more # <<>> /\ DOMAIN more = 1..(l + 1)
      /\ l \in Nat /\ DOMAIN rows = 1..l
      /\ \A i \in 1..(l + 1) : more[i] = IF i = l + 1 THEN r ELSE rows[i]
    BY <1>1
<1>4. liveRun.outage \in Nat /\ BrokenEnd(rows, liveRun.outage) /\ (\A k \in 1..(l - 1) : ~Outage(rows, k))
    BY <1>1 DEF Measuring, BrokenEnd
<1>5. /\ BrokenEnd(more, L!OutageAfter(r)) /\ L!OutageAfter(r) <= OutageLength
      /\ \A k \in 1..(Len(more) - 1) : ~Outage(more, k)
    BY <1>1, <1>4, OutageGoesOn DEF L!OutageAfter
<1>6. /\ file'.rows = more /\ file'.made = file.made /\ file' = [f \in {"made", "rows"} |-> file'[f]]
      /\ liveRun' = [f \in {"on", "rows", "outage"} |-> liveRun'[f]]
      /\ liveRun'.on = liveRun.on /\ liveRun'.rows = more /\ liveRun'.outage = L!OutageAfter(r)
    BY <1>2 DEF LiveInv
<1> HIDE DEF more, l
<1>7. OneShotScript => measured' = starts /\ measured' # 0
    BY <1>1, <1>2 DEF Measuring, LiveInv
<1>8. OneShotScript => \A i \in 1..(l + 1) : more[i].start = measured'
    BY <1>1, <1>2, <1>3, <1>7 DEF LiveInv, Measuring
<1>9. \A i \in 1..(l + 1) : more[i].case = i /\ Sound(more[i])
    BY <1>1, <1>3 DEF LiveInv
<1>10. Measuring'
    BY <1>1, <1>2, <1>5, <1>6, <1>7 DEF Measuring, OneShotScript
<1>11. measured' \in Nat /\ starts' \in Nat /\ script' \in L!Scripts BY <1>2 DEF LiveInv
<1>12. OneShotScript => ~summary'.made BY <1>1, <1>2 DEF Measuring
<1>13. OneShotScript' <=> OneShotScript BY <1>2 DEF OneShotScript
<1> QED BY <1>1, <1>3, <1>6, <1>7, <1>8, <1>9, <1>10, <1>11, <1>12, <1>13 DEF LiveInv, Measuring

LEMMA RaisedRow ==
    ASSUME LiveInv, NEW c \in Nat
    PROVE  LET r == L!Raised(c) IN r \in LiveRows /\ Sound(r) /\ r.case = c /\ r.start = starts
BY DEF LiveInv, L!Raised, L!Made, LiveRows, LiveErrors, Sound

LEMMA E1RowMade ==
    ASSUME LiveInv, NEW c \in Nat, NEW tries \in L!Tries, NEW action
    PROVE  LET r == L!E1Row(c, tries, action) IN r \in LiveRows /\ Sound(r) /\ r.case = c /\ r.start = starts
<1>1. Len(tries) \in Nat \ {0}
    BY ScriptsOK DEF L!Tries
<1> DEFINE r == L!E1Row(c, tries, action)
<1>2. r.error \in LiveErrors /\ Sound(r) /\ r.case = c /\ r.start = starts
    BY DEF L!E1Row, L!Made, LiveErrors, Sound
<1>3. r.repairs \in Nat BY <1>1 DEF L!E1Row, L!Made
<1>4. r.valid \in BOOLEAN /\ r.first \in BOOLEAN BY DEF L!E1Row, L!Made
<1> QED BY <1>2, <1>3, <1>4 DEF LiveInv, L!E1Row, L!Made, LiveRows

LEMMA SupervisorRowMade ==
    ASSUME LiveInv, NEW c \in Nat, NEW t \in L!Traces, NEW action
    PROVE  LET r == L!SupervisorRow(c, t, action)
           IN  r \in LiveRows /\ Sound(r) /\ r.case = c /\ r.start = starts
<1>1. t.repairs \in Nat BY ScriptsOK DEF L!Traces
<1>2. L!SupervisorError(t) \in LiveErrors BY DEF L!SupervisorError, LiveErrors
<1> QED BY <1>1, <1>2 DEF LiveInv, L!SupervisorRow, L!Made, LiveRows, LiveErrors, Sound

LEMMA SpecialistRowMade ==
    ASSUME LiveInv, NEW c \in Nat, NEW reason, NEW repairs \in 0..MaxRepairs, NEW action
    PROVE  LET r == L!SpecialistRow(c, reason, repairs, action)
           IN  r \in LiveRows /\ Sound(r) /\ r.case = c /\ r.start = starts
<1> DEFINE r == L!SpecialistRow(c, reason, repairs, action)
<1>1. repairs \in Nat BY ScriptsOK
<1>2. r.error \in LiveErrors /\ Sound(r) /\ r.case = c /\ r.start = starts
    BY DEF L!SpecialistRow, L!Made, LiveErrors, Sound
<1>3. r.valid \in BOOLEAN /\ r.first \in BOOLEAN BY DEF L!SpecialistRow, L!Made
<1> QED BY <1>1, <1>2, <1>3 DEF LiveInv, L!SpecialistRow, L!Made, LiveRows

LEMMA CasesKeep ==
    ASSUME LiveInv, L!CaseE1 \/ L!CaseE1r \/ L!CaseE1v \/ L!CaseE1x \/ L!CaseE1z
    PROVE  LiveInv'
<1>1. L!More /\ L!Case \in Nat
    <2>1. L!More BY DEF L!CaseE1, L!CaseE1r, L!CaseE1v, L!CaseE1x, L!CaseE1z
    <2> QED BY <2>1 DEF L!More, LiveInv, Measuring, L!Case
<1>2. \/ L!Take(L!Raised(L!Case))
      \/ \E tries \in L!Tries, action \in L!Actions : L!Take(L!E1Row(L!Case, tries, action))
      \/ \E t \in L!Traces, action \in L!Actions : L!Take(L!SupervisorRow(L!Case, t, action))
      \/ \E reason \in {"decision_format_invalid", "tool_unavailable", "other"},
            repairs \in 0..MaxRepairs, action \in L!Actions :
            L!Take(L!SpecialistRow(L!Case, reason, repairs, action))
    BY DEF L!CaseE1, L!CaseE1r, L!CaseE1v, L!CaseE1x, L!CaseE1z, L!E1rRow, L!XRow, L!ZRow
<1>3. CASE L!Take(L!Raised(L!Case))
    <2>1. PICK r : r = L!Raised(L!Case) OBVIOUS
    <2> QED BY <1>1, <1>3, <2>1, RaisedRow, TakeKeeps
<1>4. ASSUME NEW tries \in L!Tries, NEW action \in L!Actions, L!Take(L!E1Row(L!Case, tries, action))
      PROVE  LiveInv'
    <2>1. PICK r : r = L!E1Row(L!Case, tries, action) OBVIOUS
    <2> QED BY <1>1, <1>4, <2>1, E1RowMade, TakeKeeps
<1>5. ASSUME NEW t \in L!Traces, NEW action \in L!Actions, L!Take(L!SupervisorRow(L!Case, t, action))
      PROVE  LiveInv'
    <2>1. PICK r : r = L!SupervisorRow(L!Case, t, action) OBVIOUS
    <2> QED BY <1>1, <1>5, <2>1, SupervisorRowMade, TakeKeeps
<1>6. ASSUME NEW reason, NEW repairs \in 0..MaxRepairs, NEW action \in L!Actions,
             L!Take(L!SpecialistRow(L!Case, reason, repairs, action))
      PROVE  LiveInv'
    <2>1. PICK r : r = L!SpecialistRow(L!Case, reason, repairs, action) OBVIOUS
    <2> QED BY <1>1, <1>6, <2>1, SpecialistRowMade, TakeKeeps
<1> QED BY <1>2, <1>3, <1>4, <1>5, <1>6

-----------------------------------------------------------------------------
\* The end of a script

LEMMA TalliesAreNested ==
    ASSUME NEW rows \in Seq(LiveRows), \A i \in DOMAIN rows : Sound(rows[i])
    PROVE  /\ L!Cardinality({i \in DOMAIN rows : rows[i].error # "transport_error"})
                >= L!Counted(rows, "valid")
           /\ L!Counted(rows, "valid") >= L!Counted(rows, "correct")
           /\ L!Counted(rows, "valid") >= L!Counted(rows, "first")
<1> DEFINE unbroken == {i \in DOMAIN rows : rows[i].error # "transport_error"}
           valid == {i \in DOMAIN rows : rows[i]["valid"]}
           correct == {i \in DOMAIN rows : rows[i]["correct"]}
           first == {i \in DOMAIN rows : rows[i]["first"]}
<1>1. valid \subseteq unbroken /\ correct \subseteq valid /\ first \subseteq valid BY DEF Sound
<1>2. unbroken \subseteq 1..Len(rows) /\ Len(rows) \in Nat OBVIOUS
<1>3. /\ L!Cardinality(unbroken) = Cardinality(unbroken)
      /\ L!Counted(rows, "valid") = Cardinality(valid)
      /\ L!Counted(rows, "correct") = Cardinality(correct)
      /\ L!Counted(rows, "first") = Cardinality(first)
    BY DEF L!Counted, Cardinality, L!Cardinality
<1> HIDE DEF unbroken, valid, correct, first
<1>4. IsFiniteSet(unbroken)
    <2>1. IsFiniteSet(1..Len(rows)) BY <1>2, FS_Interval
    <2> QED BY <1>2, <2>1, FS_Subset
<1>5. IsFiniteSet(valid) /\ Cardinality(valid) <= Cardinality(unbroken) BY <1>1, <1>4, FS_Subset
<1>6. Cardinality(correct) <= Cardinality(valid) /\ Cardinality(first) <= Cardinality(valid)
    BY <1>1, <1>5, FS_Subset
<1>7. /\ Cardinality(unbroken) \in Nat /\ Cardinality(valid) \in Nat
      /\ Cardinality(correct) \in Nat /\ Cardinality(first) \in Nat
    BY <1>1, <1>4, <1>5, FS_Subset, FS_CardinalityType
<1>8. L!Cardinality(unbroken) >= L!Counted(rows, "valid") BY <1>3, <1>5, <1>7
<1>9. L!Counted(rows, "valid") >= L!Counted(rows, "correct")
        /\ L!Counted(rows, "valid") >= L!Counted(rows, "first")
    BY <1>3, <1>6, <1>7
<1> QED BY <1>8, <1>9 DEF unbroken

LEMMA ConcludeKeeps == ASSUME LiveInv, NEW name, L!Conclude(name) PROVE LiveInv'
<1> DEFINE rows == file.rows
           l == Len(rows)
           o == liveRun.outage
<1>1. /\ Measuring /\ liveRun.on /\ ~L!More /\ liveRun.rows = rows /\ liveRun' = L!NotRunning
      /\ UNCHANGED <<script, file, starts, measured>> /\ summary' = L!Tally(rows)
    BY DEF L!Conclude, L!End, LiveInv, Measuring
<1>2. /\ rows \in Seq(LiveRows) /\ l \in Nat /\ l <= Len(Cases) /\ o \in 0..l /\ o <= OutageLength
      /\ \A i \in DOMAIN rows : Sound(rows[i])
    BY <1>1 DEF LiveInv, Measuring, BrokenEnd
<1>3. L!Blocked <=> o = OutageLength BY <1>2, ScriptsOK DEF L!Blocked
<1>4. ~L!Blocked => l = Len(Cases) BY <1>1, <1>2, LiveParameters DEF L!More, L!Case
<1>5. l # 0 BY <1>2, <1>3, <1>4, LiveParameters, ScriptsOK
<1>6. L!Blocked <=> Outage(rows, l)
    <2>1. CASE o = OutageLength
        BY <1>1, <1>2, <1>3, <2>1 DEF Measuring, BrokenEnd, Outage
    <2>2. ASSUME o < OutageLength, Outage(rows, l) PROVE FALSE
        <3>1. o < l /\ l - o \in (l - OutageLength + 1)..l BY <1>2, <2>2, ScriptsOK DEF Outage
        <3> QED BY <1>1, <2>2, <3>1 DEF Measuring, BrokenEnd, Outage
    <2> QED BY <1>2, <1>3, <2>1, <2>2, ScriptsOK
<1>7. /\ summary'.start = starts /\ summary'.blocked = L!Blocked /\ summary'.completed = l
      /\ summary'.correct = L!Counted(rows, "correct") /\ summary'.first = L!Counted(rows, "first")
      /\ summary'.valid = L!Counted(rows, "valid")
      /\ summary'.unbroken = L!Cardinality({i \in DOMAIN rows : rows[i].error # "transport_error"})
    BY <1>1 DEF L!Tally
<1>8. /\ summary'.unbroken >= summary'.valid /\ summary'.valid >= summary'.correct
      /\ summary'.valid >= summary'.first
    BY <1>2, <1>7, TalliesAreNested
<1>9. OneShotScript => Summarized'
    <2>1. OneShotScript => starts = measured BY <1>1, <1>2, <1>5 DEF Measuring
    <2>2. rows # <<>> /\ \A n \in 1..(l - 1) : ~Outage(rows, n) BY <1>1, <1>2, <1>5 DEF Measuring
    <2> QED BY <1>1, <1>4, <1>6, <1>7, <1>8, <2>1, <2>2 DEF Summarized
<1>10. liveRun'.on = FALSE /\ liveRun' = [f \in {"on", "rows", "outage"} |-> liveRun'[f]]
    BY <1>1 DEF L!NotRunning
<1> QED BY <1>1, <1>9, <1>10 DEF LiveInv, OneShotScript

LEMMA LiveStopKeeps ==
    ASSUME LiveInv, liveRun' = L!NotRunning, UNCHANGED <<script, file, summary, starts, measured>>
    PROVE  LiveInv'
<1>1. liveRun'.on = FALSE /\ liveRun' = [f \in {"on", "rows", "outage"} |-> liveRun'[f]]
    BY DEF L!NotRunning
<1> QED BY <1>1 DEF LiveInv, OneShotScript, Summarized

LEMMA LiveStep == LiveInv /\ [L!Next]_liveVars => LiveInv'
<1> SUFFICES ASSUME LiveInv, [L!Next]_liveVars PROVE LiveInv' OBVIOUS
<1>1. CASE L!SummarizeE1 \/ L!SummarizeE1r \/ L!SummarizeE1v \/ L!SummarizeE1x \/ L!SummarizeE1z \/ L!Kill
    <2>1. (\E name : L!Conclude(name)) \/ (L!End("e1v") /\ UNCHANGED summary) \/ L!Kill
        BY <1>1 DEF L!SummarizeE1, L!SummarizeE1r, L!SummarizeE1v, L!SummarizeE1x, L!SummarizeE1z
    <2> QED BY <2>1, ConcludeKeeps, LiveStopKeeps DEF L!End, L!Kill
<1>2. CASE UNCHANGED liveVars
    BY <1>2 DEF liveVars, LiveInv, OneShotScript, Measuring, Summarized
<1> QED BY <1>1, <1>2, BeginsKeep, CasesKeep DEF L!Next

-----------------------------------------------------------------------------
\* The verification harness of Phase 0

Places ==
    {<<"launch", "a2a">>, <<"append", "a2a">>, <<"launch", "mcp">>, <<"append", "mcp">>,
     <<"probe", "a2a">>, <<"probe", "mcp">>, <<"pids", "none">>, <<"launch", "planner">>,
     <<"append", "planner">>, <<"wait", "planner">>, <<"judge", "none">>, <<"finally", "none">>,
     <<"terminate", "none">>, <<"ended", "none">>}

PlannerOut == {<<"append", "planner">>, <<"wait", "planner">>, <<"judge", "none">>}
BeforePlanner == {<<"launch", "a2a">>, <<"append", "a2a">>, <<"launch", "mcp">>, <<"append", "mcp">>,
                  <<"probe", "a2a">>, <<"probe", "mcp">>, <<"pids", "none">>, <<"launch", "planner">>}
Unwinding == {<<"finally", "none">>, <<"terminate", "none">>}

\* What is said once the planner has ended.
Spoken == said.kind \in {"result", "nonzero", "silent", "garbled"}

\* The evidence a pass rests on, which nothing changes any more.
RoundTrip ==
    /\ "planner" \notin alive /\ pidFile = H!Servers
    /\ said.kind = "result" /\ H!Evidence

\* A child that runs is known, is about to be, or was started when the signal came.
Remembered ==
    \A c \in alive : \/ c \in H!Range(procs)
                     \/ at = <<"append", c>>
                     \/ signal.kind = "term" /\ signal.at = <<"append", c>>

HarnessInv ==
    /\ at \in Places
    /\ procs \in Seq(H!Children) /\ alive \subseteq H!Children /\ pidFile \subseteq H!Servers
    /\ at \in BeforePlanner => "planner" \notin alive /\ said.kind = "none"
    /\ at \in PlannerOut \cup {<<"launch", "planner">>} => pidFile = H!Servers
    /\ at \in PlannerOut => "planner" \in alive \/ Spoken
    /\ at = <<"judge", "none">> => "planner" \notin alive
    /\ broken \in {"none", "fail", "raised", "pass"}
    /\ broken = "pass" => at \in Unwinding \cup {<<"ended", "none">>} /\ RoundTrip
    /\ exit = "pass" => broken = "pass"
    /\ exit # "none" <=> at = <<"ended", "none">>
    /\ at \in Unwinding => broken # "none"
    /\ exit = "none" => Remembered
    /\ exit \notin {"none", "killed"} =>
         \A c \in alive : signal.kind = "term" /\ signal.at = <<"append", c>>

LEMMA HarnessInit == H!Init => HarnessInv
BY DEF H!Init, HarnessInv, H!NoReport, Places, PlannerOut, BeforePlanner, Unwinding, Remembered,
       RoundTrip, Spoken, H!Children, H!Servers

LEMMA HarnessPasses == HarnessInv => H!PassIsGenuine
BY DEF HarnessInv, H!PassIsGenuine, RoundTrip, H!Evidence, H!Servers

LEMMA Remembering ==
    ASSUME NEW c \in H!Children, procs \in Seq(H!Children)
    PROVE  /\ Append(procs, c) \in Seq(H!Children)
           /\ H!Range(Append(procs, c)) = H!Range(procs) \cup {c}
<1>1. Len(procs) \in Nat /\ Append(procs, c) \in Seq(H!Children)
        /\ DOMAIN Append(procs, c) = 1..(Len(procs) + 1) /\ DOMAIN procs = 1..Len(procs)
        /\ Append(procs, c)[Len(procs) + 1] = c
        /\ \A i \in 1..Len(procs) : Append(procs, c)[i] = procs[i]
    OBVIOUS
<1>2. ASSUME NEW i \in DOMAIN Append(procs, c)
      PROVE  Append(procs, c)[i] \in H!Range(procs) \cup {c}
    BY <1>1 DEF H!Range
<1>3. ASSUME NEW d \in H!Range(procs) \cup {c} PROVE d \in H!Range(Append(procs, c))
    BY <1>1 DEF H!Range
<1> QED BY <1>1, <1>2, <1>3 DEF H!Range

LEMMA HarnessSurroundings ==
    ASSUME HarnessInv,
           (\E s \in H!Servers : H!ForeignBinds(s) \/ H!ServerStarts(s)) \/ H!PlannerEnds
    PROVE  HarnessInv'
<1>1. ASSUME NEW s \in H!Servers, H!ForeignBinds(s) PROVE HarnessInv'
    BY <1>1 DEF HarnessInv, H!ForeignBinds, Remembered, RoundTrip, H!Evidence, Spoken, H!Servers
<1>2. ASSUME NEW s \in H!Servers, H!ServerStarts(s) PROVE HarnessInv'
    <2>1. alive' \subseteq alive /\ pidFile' = pidFile \cup {s}
            /\ ("planner" \in alive => "planner" \in alive')
            /\ UNCHANGED <<at, procs, said, exit, signal, broken>>
        BY <1>2 DEF H!ServerStarts, H!Servers
    <2> QED BY <2>1 DEF HarnessInv, Remembered, RoundTrip, H!Evidence, Spoken, H!Servers
<1>3. CASE H!PlannerEnds
    <2>1. alive' \subseteq alive /\ "planner" \in alive /\ Spoken'
            /\ UNCHANGED <<at, procs, pidFile, exit, signal, broken>>
        BY <1>3 DEF H!PlannerEnds, Spoken
    <2> QED BY <2>1 DEF HarnessInv, Remembered, RoundTrip, H!Servers
<1> QED BY <1>1, <1>2, <1>3

LEMMA HarnessMain ==
    ASSUME HarnessInv,
           \/ \E s \in H!Servers : H!WaitReady(s)
           \/ \E c \in H!Children : H!Launch(c) \/ H!Remember(c)
           \/ H!ReadPidFiles \/ H!WaitPlanner \/ H!Judge
    PROVE  HarnessInv'
<1> USE DEF Places, PlannerOut, BeforePlanner, Unwinding, H!At, H!Goto, H!Environment
<1>1. ASSUME NEW s \in H!Servers, H!WaitReady(s) PROVE HarnessInv'
    BY <1>1 DEF HarnessInv, H!WaitReady, H!Fail, H!Raise, Remembered, RoundTrip, H!Evidence, Spoken, H!Servers
<1>2. ASSUME NEW c \in H!Children, H!Launch(c) PROVE HarnessInv'
    <2>1. CASE alive' = alive \cup {c} /\ H!Goto("append", c) /\ UNCHANGED broken
        BY <1>2, <2>1 DEF HarnessInv, H!Launch, Remembered, RoundTrip, H!Evidence, Spoken, H!Servers, H!Children
    <2>2. CASE H!Raise /\ UNCHANGED alive
        BY <1>2, <2>2 DEF HarnessInv, H!Launch, H!Raise, Remembered, RoundTrip, H!Evidence, Spoken, H!Servers, H!Children
    <2> QED BY <1>2, <2>1, <2>2 DEF H!Launch
<1>3. ASSUME NEW c \in H!Children, H!Remember(c) PROVE HarnessInv'
    <2>1. procs' \in Seq(H!Children) /\ H!Range(procs') = H!Range(procs) \cup {c}
        BY <1>3, Remembering DEF HarnessInv, H!Remember
    <2> QED BY <1>3, <2>1 DEF HarnessInv, H!Remember, Remembered, RoundTrip, H!Evidence, Spoken, H!Servers, H!Children
<1>4. CASE H!ReadPidFiles
    BY <1>4 DEF HarnessInv, H!ReadPidFiles, H!Fail, H!Raise, Remembered, RoundTrip, H!Evidence, Spoken, H!Servers
<1>5. CASE H!WaitPlanner
    BY <1>5 DEF HarnessInv, H!WaitPlanner, H!Fail, H!Raise, Remembered, RoundTrip, H!Evidence, Spoken, H!Servers
<1>6. CASE H!Judge
    BY <1>6 DEF HarnessInv, H!Judge, H!Fail, H!Raise, Remembered, RoundTrip, H!Evidence, Spoken, H!Servers
<1> QED BY <1>1, <1>2, <1>3, <1>4, <1>5, <1>6

LEMMA HarnessEnds ==
    ASSUME HarnessInv, H!Finally \/ H!Terminate \/ H!Terminated \/ H!Killed
    PROVE  HarnessInv'
<1> USE DEF Places, PlannerOut, BeforePlanner, Unwinding, H!At, H!Goto, H!Environment
<1>1. CASE H!Finally
    BY <1>1 DEF HarnessInv, H!Finally, Remembered, RoundTrip, H!Evidence, Spoken, H!Servers
<1>2. CASE H!Terminate
    BY <1>2 DEF HarnessInv, H!Terminate, H!Known, Remembered, RoundTrip, H!Evidence, Spoken, H!Servers
<1>3. CASE H!Terminated
    BY <1>3 DEF HarnessInv, H!Terminated, H!Fail, H!Raise, Remembered, RoundTrip, H!Evidence, Spoken, H!Servers
<1>4. CASE H!Killed
    BY <1>4 DEF HarnessInv, H!Killed, Remembered, RoundTrip, H!Evidence, Spoken, H!Servers
<1> QED BY <1>1, <1>2, <1>3, <1>4

LEMMA HarnessStep == HarnessInv /\ [H!Next]_harnessVars => HarnessInv'
<1> SUFFICES ASSUME HarnessInv, [H!Next]_harnessVars PROVE HarnessInv' OBVIOUS
<1>1. CASE H!Next BY <1>1, HarnessSurroundings, HarnessMain, HarnessEnds DEF H!Next
<1>2. CASE UNCHANGED harnessVars
    BY <1>2 DEF harnessVars, HarnessInv, Remembered, RoundTrip, H!Evidence, Spoken
<1> QED BY <1>1, <1>2

-----------------------------------------------------------------------------
\* The components together

OfflineInv ==
    /\ part = "harness" => HarnessInv
    /\ part = "evaluation" => EvalInv
    /\ part = "live" => LiveInv
    /\ part = "answers" => AnswersInv
    /\ part = "chunking" => ChunkInv

LEMMA OfflineStarts == OfflineInit => OfflineInv
BY HarnessInit, EvalInit, LiveInit, AnswersInit, ChunkInit DEF OfflineInit, OfflineInv

LEMMA OfflineSteps ==
    OfflineInv /\ [OfflineNext]_<<part, bootVars, chunkVars, answerVars, evalVars, liveVars, harnessVars>>
        => OfflineInv'
<1> SUFFICES ASSUME OfflineInv,
                    [OfflineNext]_<<part, bootVars, chunkVars, answerVars, evalVars, liveVars, harnessVars>>
             PROVE  OfflineInv'
    OBVIOUS
<1>1. part' = part BY DEF OfflineNext
<1>2. part = "harness" => [H!Next]_harnessVars BY DEF OfflineNext
<1>3. part = "evaluation" => [E!Next]_evalVars BY DEF OfflineNext
<1>4. part = "live" => [L!Next]_liveVars BY DEF OfflineNext
<1>5. part = "answers" => [A!Next]_answerVars BY DEF OfflineNext
<1>6. part = "chunking" => [C!Next]_chunkVars BY DEF OfflineNext
<1>7. (part = "harness" => HarnessInv') /\ (part = "evaluation" => EvalInv')
    BY <1>2, <1>3, HarnessStep, EvalStep DEF OfflineInv
<1>8. (part = "live" => LiveInv') /\ (part = "answers" => AnswersInv')
    BY <1>4, <1>5, LiveStep, AnswersStep DEF OfflineInv
<1>9. part = "chunking" => ChunkInv' BY <1>6, ChunkStep DEF OfflineInv
<1> QED BY <1>1, <1>7, <1>8, <1>9 DEF OfflineInv

\* Each component beside the service keeps its own inductive invariant while it runs:
\* rows carry the fingerprint of their experiment, broken ends are counted, what is
\* cited was retrieved, chunks follow one another, children are remembered.
THEOREM OfflineInvariance == OfflineSpec => []OfflineInv
BY OfflineStarts, OfflineSteps, PTL DEF OfflineSpec

\* PASS is said only of a real round trip: the two servers that answered the planner
\* are the ones this run started, whoever else holds a port; and a child outlives the
\* harness only where a signal came between starting and remembering it, or killed it.
\* Proved for every order of launches, deaths, answers and signals.
THEOREM GenuinePasses == OfflineSpec => []PassIsGenuine
<1>1. OfflineInv => PassIsGenuine BY HarnessPasses DEF OfflineInv, PassIsGenuine
<1> QED BY <1>1, OfflineInvariance, PTL

\* However often a full evaluation was stopped and resumed, and whatever was edited in
\* between, its report has one row for each question in order, all of one experiment as
\* far as its code is hashed, and a role pinned to a provider ran with that one.
THEOREM OneExperimentReports == OfflineSpec => []ReportIsOneExperiment
<1>1. OfflineInv => ReportIsOneExperiment BY EvalReports DEF OfflineInv, ReportIsOneExperiment
<1> QED BY <1>1, OfflineInvariance, PTL

\* A gate that passed tells the truth of every row it read: cited, faithful answers to
\* the answerable questions, refusals of the others, and no outage among them.
THEOREM GatesAreHonest == OfflineSpec => []HonestGate
<1>1. OfflineInv => HonestGate BY EvalGates DEF OfflineInv, HonestGate
<1> QED BY <1>1, OfflineInvariance, PTL

\* A one-shot live evaluation is of one start, however often it was killed and started;
\* its summary covers its rows, and is blocked exactly by the first outage of full
\* length, for every length of outage and every bound on repairs.
THEOREM EvaluationsMeasuredOnce == OfflineSpec => []MeasuredOnce
<1>1. OfflineInv => MeasuredOnce BY LiveMeasures DEF OfflineInv, MeasuredOnce
<1> QED BY <1>1, OfflineInvariance, PTL

\* A search returns at most what was asked for, no chunk twice and never the marker; a
\* dense one leaves out nothing that ranks higher, and a fused one never puts a chunk
\* behind one that both rankings put behind it.  Proved for every finite set of chunks,
\* every ranking of them, every constant of the fusion and every depth above what is
\* asked for.
THEOREM FaithfulSearches == OfflineSpec => []SearchIsFaithful
<1>1. OfflineInv => SearchIsFaithful BY AnswersSearch DEF OfflineInv, SearchIsFaithful
<1> QED BY <1>1, OfflineInvariance, PTL

\* Whatever the model, the network and the retriever did, an answer that is no refusal
\* cites retrieved chunks only and every claim quotes one it cites; a live-data question
\* is refused, and an outage is told as one.
THEOREM GroundedAnswersOnly == OfflineSpec => []AnswersAreGrounded
<1>1. OfflineInv => AnswersAreGrounded BY DEF OfflineInv, AnswersAreGrounded, AnswersInv
<1> QED BY <1>1, OfflineInvariance, PTL

\* Of a document of any length, every word under a heading is in a chunk of its own
\* section, no chunk is too long or crosses a heading, and neighbours of a section share
\* exactly the overlap where no blank window lies between them.
THEOREM ChunkedTextIsKept == OfflineSpec => []ChunksKeepText
<1>1. OfflineInv => ChunksKeepText BY ChunksKept DEF OfflineInv, ChunksKeepText
<1> QED BY <1>1, OfflineInvariance, PTL
=============================================================================
