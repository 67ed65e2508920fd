--------------------------- MODULE ShareListProofs --------------------------
(***************************************************************************)
(* What Walk, Glob and the paged listings of a share promise while other   *)
(* clients change the tree: Walk is told of everything that lasted, once   *)
(* and a directory before its entries; Glob and a paged listing give all   *)
(* that lasted and nothing that was never there, in order.                 *)
(*                                                                         *)
(* The invariant has three layers: the tree is one, whatever is done to it *)
(* (TreeIInv); what Stat and ReadDir have just said is true of everything  *)
(* that has lasted (SaidOK); and each listing accounts for everything that *)
(* has lasted, as seen to or as still awaited by a call under way (WalkOK, *)
(* GlobOK, DirOK).                                                         *)
(***************************************************************************)
EXTENDS ShareProofs, FiniteSetTheorems, WellFoundedInduction, NaturalsInduction

\* A set of numbers has a least one: the induction of the lemmas below.
LEMMA LeastNumber ==
  ASSUME NEW S, S \subseteq Nat, S # {}
  PROVE  \E x \in S : \A y \in S : x <= y
<1> DEFINE Smaller == {ss \in Nat \X Nat : ss[1] < ss[2]}
<1>1. IsWellFoundedOn(Smaller, Nat) BY NatLessThanWellFounded DEF OpToRel
<1>2. \E x \in S : \A y \in S : ~(<<y, x>> \in Smaller)
  <2> HIDE DEF Smaller
  <2>1. QED BY <1>1, WFMin
<1>3. PICK x \in S : \A y \in S : ~(<<y, x>> \in Smaller) BY <1>2
<1>4. ASSUME NEW y \in S PROVE x <= y
  <2>1. x \in Nat /\ y \in Nat OBVIOUS
  <2>2. <<y, x>> \in Nat \X Nat /\ <<y, x>>[1] = y /\ <<y, x>>[2] = x BY <2>1
  <2>3. ~(y < x) BY <1>3, <2>2
  <2>4. QED BY <2>1, <2>3
<1>5. QED BY <1>4

-----------------------------------------------------------------------------
(* Paths.                                                                  *)

\* p leads to q and is not q; q is an entry of p.
Above(p, q) == Len(p) < Len(q) /\ IsPrefix(p, q)
Child(q, p) == Len(q) = Len(p) + 1 /\ IsPrefix(p, q)

\* The first i names of a path.
LEMMA PrefixNames ==
  ASSUME NEW S, NEW p \in Seq(S), NEW i \in 0 .. Len(p)
  PROVE  /\ Prefix(p, i) \in Seq(S) /\ Len(Prefix(p, i)) = i
         /\ \A k \in 1 .. i : Prefix(p, i)[k] = p[k]
BY DEF Prefix

\* One path leads to another when it has the same names.
LEMMA PrefixMeans ==
  ASSUME NEW S, NEW p \in Seq(S), NEW q \in Seq(S)
  PROVE  IsPrefix(p, q) <=> Len(p) <= Len(q) /\ \A k \in 1 .. Len(p) : p[k] = q[k]
<1>1. SubSeq(p, 1, Len(p)) = p OBVIOUS
<1>2. CASE Len(p) <= Len(q)
  <2>1. /\ SubSeq(q, 1, Len(p)) \in Seq(S) /\ Len(SubSeq(q, 1, Len(p))) = Len(p)
        /\ \A k \in 1 .. Len(p) : SubSeq(q, 1, Len(p))[k] = q[k]
    BY <1>2
  <2>2. (p = SubSeq(q, 1, Len(p))) <=> \A k \in 1 .. Len(p) : p[k] = q[k]
    BY <2>1, SeqEqual
  <2>3. QED BY <1>1, <1>2, <2>2 DEF IsPrefix
<1>3. CASE ~(Len(p) <= Len(q)) BY <1>3 DEF IsPrefix
<1>4. QED BY <1>2, <1>3

\* How paths that lead to one another relate.
LEMMA PrefixOrder ==
  ASSUME NEW S, NEW p \in Seq(S), NEW q \in Seq(S), NEW r \in Seq(S)
  PROVE  /\ IsPrefix(p, p)
         /\ IsPrefix(p, q) /\ IsPrefix(q, r) => IsPrefix(p, r)
         /\ IsPrefix(p, r) /\ IsPrefix(q, r) /\ Len(p) <= Len(q) => IsPrefix(p, q)
         /\ IsPrefix(p, q) /\ Len(p) = Len(q) => p = q
         /\ IsPrefix(p, q) => p = q \/ Above(p, q)
         /\ IsPrefix(<<>>, p)
<1>1. /\ IsPrefix(p, q) <=> Len(p) <= Len(q) /\ \A k \in 1 .. Len(p) : p[k] = q[k]
      /\ IsPrefix(q, r) <=> Len(q) <= Len(r) /\ \A k \in 1 .. Len(q) : q[k] = r[k]
      /\ IsPrefix(p, r) <=> Len(p) <= Len(r) /\ \A k \in 1 .. Len(p) : p[k] = r[k]
      /\ IsPrefix(p, p) <=> Len(p) <= Len(p) /\ \A k \in 1 .. Len(p) : p[k] = p[k]
  BY PrefixMeans
<1>2. <<>> \in Seq(S) /\ Len(<<>>) = 0 OBVIOUS
<1>3. IsPrefix(<<>>, p)
  <2>1. PICK e : e = <<>> OBVIOUS
  <2>2. e \in Seq(S) /\ Len(e) <= Len(p) /\ \A k \in 1 .. Len(e) : e[k] = p[k] BY <1>2, <2>1
  <2>3. IsPrefix(e, p) BY <2>2, PrefixMeans
  <2>4. QED BY <2>1, <2>3
<1>4. Len(p) \in Nat /\ Len(q) \in Nat /\ Len(r) \in Nat OBVIOUS
<1>5. IsPrefix(p, p) BY <1>1, <1>4
<1>6. IsPrefix(p, q) /\ IsPrefix(q, r) => IsPrefix(p, r) BY <1>1, <1>4
<1>7. IsPrefix(p, r) /\ IsPrefix(q, r) /\ Len(p) <= Len(q) => IsPrefix(p, q) BY <1>1, <1>4
<1>8. IsPrefix(p, q) /\ Len(p) = Len(q) => p = q BY <1>1, SeqEqual
<1>9. IsPrefix(p, q) => p = q \/ Above(p, q) BY <1>1, <1>4, <1>8 DEF Above
<1>10. QED BY <1>3, <1>5, <1>6, <1>7, <1>8, <1>9

\* The entry of p on the way to q.
LEMMA NextName ==
  ASSUME NEW S, NEW p \in Seq(S), NEW q \in Seq(S), Above(p, q)
  PROVE  /\ Len(p) + 1 \in 1 .. Len(q)
         /\ Prefix(q, Len(p) + 1) \in Seq(S)
         /\ Child(Prefix(q, Len(p) + 1), p) /\ IsPrefix(Prefix(q, Len(p) + 1), q)
<1>1. Len(p) \in Nat /\ Len(q) \in Nat /\ Len(p) + 1 \in 1 .. Len(q) BY DEF Above
<1>2. PICK c : c = Prefix(q, Len(p) + 1) OBVIOUS
<1>3. c \in Seq(S) /\ Len(c) = Len(p) + 1 /\ \A k \in 1 .. Len(p) + 1 : c[k] = q[k]
  BY <1>1, <1>2, PrefixNames
<1>4. IsPrefix(c, q) BY <1>1, <1>3, PrefixMeans
<1>5. IsPrefix(p, c) BY <1>1, <1>3, <1>4, PrefixOrder DEF Above
<1>6. QED BY <1>1, <1>2, <1>3, <1>4, <1>5 DEF Child

\* A path of which the first names are another path.
LEMMA PrefixIs ==
  ASSUME NEW S, NEW p \in Seq(S), NEW q \in Seq(S), IsPrefix(p, q)
  PROVE  Prefix(q, Len(p)) = p /\ Len(p) \in 0 .. Len(q)
BY DEF IsPrefix, Prefix

\* The directory of an entry.
LEMMA FrontOfChild ==
  ASSUME NEW S, NEW p \in Seq(S), NEW q \in Seq(S)
  PROVE  /\ Child(q, p) => Front(q) = p
         /\ q # <<>> => /\ Front(q) \in Seq(S) /\ Len(Front(q)) = Len(q) - 1 /\ Child(q, Front(q))
                        /\ \A k \in 1 .. Len(q) - 1 : Front(q)[k] = q[k]
<1>1. Child(q, p) => Front(q) = p
  <2> SUFFICES ASSUME Child(q, p) PROVE Front(q) = p OBVIOUS
  <2>1. SubSeq(p, 1, Len(p)) = p OBVIOUS
  <2>2. Len(q) - 1 = Len(p) BY DEF Child
  <2>3. QED BY <2>1, <2>2 DEF Front, IsPrefix, Child
<1>2. ASSUME q # <<>>
      PROVE  /\ Front(q) \in Seq(S) /\ Len(Front(q)) = Len(q) - 1 /\ Child(q, Front(q))
             /\ \A k \in 1 .. Len(q) - 1 : Front(q)[k] = q[k]
  <2>1. Len(q) \in Nat /\ Len(q) > 0 /\ Len(q) - 1 \in 0 .. Len(q) BY <1>2
  <2>2. Front(q) = Prefix(q, Len(q) - 1) BY DEF Front, Prefix
  <2>3. /\ Front(q) \in Seq(S) /\ Len(Front(q)) = Len(q) - 1
        /\ \A k \in 1 .. Len(q) - 1 : Front(q)[k] = q[k]
    BY <2>1, <2>2, PrefixNames
  <2>4. IsPrefix(Front(q), q)
    <3>1. PICK f : f = Front(q) OBVIOUS
    <3>2. f \in Seq(S) /\ Len(f) <= Len(q) /\ \A k \in 1 .. Len(f) : f[k] = q[k] BY <2>1, <2>3, <3>1
    <3>3. IsPrefix(f, q) BY <3>2, PrefixMeans
    <3>4. QED BY <3>1, <3>3
  <2>5. QED BY <2>1, <2>3, <2>4 DEF Child
<1>3. QED BY <1>1, <1>2

-----------------------------------------------------------------------------
(* The order of the client.                                                *)

\* Of two paths with the same number of names one comes first.
LEMMA LessTotal ==
  ASSUME NEW n \in Nat, NEW a \in [1 .. n -> Nat], NEW b \in [1 .. n -> Nat], a # b
  PROVE  Less(a, b) \/ Less(b, a)
<1> DEFINE D == {i \in 1 .. n : a[i] # b[i]}
<1>1. D \subseteq Nat /\ D # {} OBVIOUS
<1>2. PICK i \in D : \A j \in D : i <= j BY <1>1, LeastNumber
<1>3. \A j \in 1 .. i - 1 : a[j] = b[j] BY <1>2
<1>4. i \in DOMAIN a /\ i \in DOMAIN b /\ a[i] \in Nat /\ b[i] \in Nat /\ a[i] # b[i] OBVIOUS
<1>5. a[i] < b[i] \/ b[i] < a[i] BY <1>4
<1>6. QED BY <1>3, <1>4, <1>5 DEF Less

\* The order of paths is transitive.
LEMMA LessTransitive ==
  ASSUME NEW n \in Nat, NEW a \in [1 .. n -> Nat], NEW b \in [1 .. n -> Nat], NEW c \in [1 .. n -> Nat],
         Less(a, b), Less(b, c)
  PROVE  Less(a, c)
<1>1. PICK i \in 1 .. n : a[i] < b[i] /\ \A k \in 1 .. i - 1 : a[k] = b[k] BY DEF Less
<1>2. PICK j \in 1 .. n : b[j] < c[j] /\ \A k \in 1 .. j - 1 : b[k] = c[k] BY DEF Less
<1>3. \A k \in 1 .. n : a[k] \in Nat /\ b[k] \in Nat /\ c[k] \in Nat OBVIOUS
<1>4. CASE i <= j
  <2>0. \A k \in 1 .. i - 1 : k \in 1 .. n /\ k \in 1 .. j - 1 BY <1>4
  <2>1. a[i] < c[i] /\ \A k \in 1 .. i - 1 : a[k] = c[k]
    <3>1. i = j \/ i \in 1 .. j - 1 BY <1>4
    <3>2. a[i] < c[i] BY <1>1, <1>2, <1>3, <3>1
    <3>3. QED BY <1>1, <1>2, <2>0, <3>2
  <2>2. QED BY <2>1 DEF Less
<1>5. CASE j < i
  <2>0. j \in 1 .. i - 1 /\ \A k \in 1 .. j - 1 : k \in 1 .. i - 1 BY <1>5
  <2>1. a[j] < c[j] /\ \A k \in 1 .. j - 1 : a[k] = c[k] BY <1>1, <1>2, <1>3, <2>0
  <2>2. QED BY <2>1 DEF Less
<1>6. QED BY <1>4, <1>5

\* In the order or the same.
Upto(a, b) == Less(a, b) \/ a = b

\* One of the last members of a sequence in that order.
LEMMA Greatest ==
  ASSUME NEW n \in Nat
  PROVE  \A m \in Nat \ {0} : \A s \in [1 .. m -> [1 .. n -> Nat]] :
            \E x \in 1 .. m : \A i \in 1 .. m : Upto(s[i], s[x])
<1> DEFINE T == [1 .. n -> Nat]
           HasOne(m) == \A s \in [1 .. m -> T] : \E x \in 1 .. m : \A i \in 1 .. m : Upto(s[i], s[x])
           Bad == {m \in Nat \ {0} : ~ HasOne(m)}
<1> SUFFICES ASSUME Bad # {} PROVE FALSE OBVIOUS
<1>1. PICK m \in Bad : \A k \in Bad : m <= k
  <2>1. Bad \subseteq Nat OBVIOUS
  <2> HIDE DEF Bad
  <2>2. QED BY <2>1, LeastNumber
<1>2. PICK s \in [1 .. m -> T] : ~ \E x \in 1 .. m : \A i \in 1 .. m : Upto(s[i], s[x]) OBVIOUS
<1>3. m \in Nat \ {0} /\ \A k \in Nat \ {0} : k < m => HasOne(k)
  <2> HIDE DEF HasOne
  <2>1. QED BY <1>1
<1> HIDE DEF Bad
<1>4. \A a, b \in T : ~ Upto(a, b) => Less(b, a) BY LessTotal DEF Upto
<1>5. \A a, b, c \in T : Upto(a, b) /\ Less(b, c) => Upto(a, c) BY LessTransitive DEF Upto
<1>6. \A i \in 1 .. m : s[i] \in T BY <1>2
<1>7. \A a : Upto(a, a) BY DEF Upto
<1>8. CASE m = 1
  <2>1. \A i \in 1 .. m : i = 1 BY <1>8
  <2>2. QED BY <1>2, <1>7, <1>8, <2>1
<1>9. CASE m > 1
  <2>1. m - 1 \in Nat \ {0} /\ m - 1 < m BY <1>3, <1>9
  <2>2. HasOne(m - 1) BY <1>3, <2>1
  <2> DEFINE t == [i \in 1 .. m - 1 |-> s[i]]
  <2>3. \A i \in 1 .. m - 1 : i \in 1 .. m /\ t[i] = s[i] BY <1>3, <2>1
  <2>4. t \in [1 .. m - 1 -> T] BY <1>6, <2>3
  <2>5. PICK x \in 1 .. m - 1 : \A i \in 1 .. m - 1 : Upto(t[i], t[x]) BY <2>2, <2>4
  <2> HIDE DEF t, T
  <2>6. x \in 1 .. m /\ \A i \in 1 .. m - 1 : Upto(s[i], s[x]) BY <2>3, <2>5
  <2>7. m \in 1 .. m /\ \A i \in 1 .. m : i = m \/ i \in 1 .. m - 1 BY <1>3, <2>1
  <2>8. CASE Upto(s[m], s[x]) BY <1>2, <2>6, <2>7, <2>8
  <2>9. CASE ~ Upto(s[m], s[x])
    <3>1. Less(s[x], s[m]) BY <1>4, <1>6, <2>6, <2>7, <2>9
    <3>2. ASSUME NEW i \in 1 .. m - 1 PROVE Upto(s[i], s[m])
      BY <1>5, <1>6, <2>3, <2>6, <2>7, <3>1
    <3>3. QED BY <1>2, <1>7, <2>7, <3>2
  <2>10. QED BY <2>8, <2>9
<1>10. QED BY <1>3, <1>8, <1>9

\* Every sequence of paths with the same number of names can be put in order.
LEMMA Sortable ==
  ASSUME NEW n \in Nat
  PROVE  \A m \in Nat : \A s \in [1 .. m -> [1 .. n -> Nat]] : \E p \in Bijection(1 .. m, 1 .. m) : Sorts(p, s)
<1> DEFINE T == [1 .. n -> Nat]
           CanSort(m) == \A s \in [1 .. m -> T] : \E p \in Bijection(1 .. m, 1 .. m) : Sorts(p, s)
           Bad == {m \in Nat : ~ CanSort(m)}
<1> SUFFICES ASSUME Bad # {} PROVE FALSE OBVIOUS
<1>1. PICK m \in Bad : \A k \in Bad : m <= k
  <2>1. Bad \subseteq Nat OBVIOUS
  <2> HIDE DEF Bad
  <2>2. QED BY <2>1, LeastNumber
<1>2. PICK s \in [1 .. m -> T] : ~ \E p \in Bijection(1 .. m, 1 .. m) : Sorts(p, s) OBVIOUS
<1>3. m \in Nat /\ \A k \in Nat : k < m => CanSort(k)
  <2> HIDE DEF CanSort
  <2>1. QED BY <1>1
<1> HIDE DEF Bad
<1>4. \A i \in 1 .. m : s[i] \in T BY <1>2
<1>5. DOMAIN s = 1 .. m BY <1>2
<1>6. CASE m = 0
  <2> DEFINE p == [i \in 1 .. m |-> i]
  <2>1. p \in Bijection(1 .. m, 1 .. m) BY DEF Bijection, Injection, Surjection, IsInjective
  <2>2. Sorts(p, s) BY <1>5, <1>6 DEF Sorts
  <2>3. QED BY <1>2, <2>1, <2>2
<1>7. CASE m > 0
  <2>1. m - 1 \in Nat /\ m \in Nat \ {0} /\ m - 1 < m BY <1>3, <1>7
  <2>2. CanSort(m - 1) BY <1>3, <2>1
  <2>3. PICK x \in 1 .. m : \A i \in 1 .. m : Upto(s[i], s[x]) BY <1>2, <2>1, Greatest
  <2> DEFINE t == [i \in 1 .. m - 1 |-> IF i = x THEN s[m] ELSE s[i]]
  <2>4. m \in 1 .. m /\ \A i \in 1 .. m - 1 : i \in 1 .. m BY <2>1
  <2>5. t \in [1 .. m - 1 -> T] BY <1>4, <2>4
  <2>6. PICK q \in Bijection(1 .. m - 1, 1 .. m - 1) : Sorts(q, t) BY <2>2, <2>5
  <2>7. /\ q \in [1 .. m - 1 -> 1 .. m - 1]
        /\ \A w \in 1 .. m - 1 : \E v \in 1 .. m - 1 : q[v] = w
        /\ \A v, w \in 1 .. m - 1 : q[v] = q[w] => v = w
    BY <2>6 DEF Bijection, Injection, Surjection, IsInjective
  <2>8. \A i \in 1 .. m - 1 : q[i] \in 1 .. m - 1 BY <2>7
  <2> DEFINE p == [i \in 1 .. m |-> IF i = m THEN x ELSE IF q[i] = x THEN m ELSE q[i]]
  <2>9. p[m] = x BY <2>4
  <2>10. \A i \in 1 .. m - 1 : p[i] = IF q[i] = x THEN m ELSE q[i] BY <2>1, <2>4
  <2>11. \A i \in 1 .. m : i = m \/ i \in 1 .. m - 1 BY <2>1
  <2>12. \A i \in 1 .. m - 1 : p[i] \in 1 .. m /\ i # m BY <2>1, <2>4, <2>8, <2>10
  <2>13. p \in [1 .. m -> 1 .. m]
    <3>1. \A i \in 1 .. m : p[i] \in 1 .. m BY <2>3, <2>9, <2>11, <2>12
    <3>2. QED BY <3>1
  <2> HIDE DEF p
  <2>14. ASSUME NEW w \in 1 .. m PROVE \E v \in 1 .. m : p[v] = w
    <3>1. CASE w = x BY <2>4, <2>9, <3>1
    <3>2. CASE w # x /\ w = m
      <4>1. x \in 1 .. m - 1 BY <2>3, <2>11, <3>2
      <4>2. PICK v \in 1 .. m - 1 : q[v] = x BY <2>7, <4>1
      <4>3. QED BY <2>4, <2>10, <3>2, <4>2
    <3>3. CASE w # x /\ w # m
      <4>1. w \in 1 .. m - 1 BY <2>11, <3>3
      <4>2. PICK v \in 1 .. m - 1 : q[v] = w BY <2>7, <4>1
      <4>3. QED BY <2>4, <2>10, <3>3, <4>2
    <3>4. QED BY <3>1, <3>2, <3>3
  <2>15. ASSUME NEW v \in 1 .. m, NEW w \in 1 .. m, p[v] = p[w] PROVE v = w
    <3>1. m \notin 1 .. m - 1 BY <2>1
    <3>2. \A i \in 1 .. m - 1 : p[i] # x BY <2>8, <2>10, <3>1
    <3>3. CASE v = m \/ w = m BY <2>9, <2>11, <2>15, <3>2, <3>3
    <3>4. CASE v # m /\ w # m
      <4>1. v \in 1 .. m - 1 /\ w \in 1 .. m - 1 BY <2>11, <3>4
      <4>2. q[v] \in 1 .. m - 1 /\ q[w] \in 1 .. m - 1 BY <2>8, <4>1
      <4>3. q[v] = q[w] BY <2>10, <2>15, <3>1, <4>1, <4>2
      <4>4. QED BY <2>7, <4>1, <4>3
    <3>5. QED BY <3>3, <3>4
  <2>16. p \in Bijection(1 .. m, 1 .. m)
    BY <2>13, <2>14, <2>15 DEF Bijection, Injection, Surjection, IsInjective
  <2>17. ASSUME NEW i \in 1 .. m - 1 PROVE s[p[i]] = t[q[i]] BY <2>8, <2>10
  <2>18. DOMAIN t = 1 .. m - 1 BY <2>5
  <2> HIDE DEF t
  <2>19. Sorts(p, s)
    <3> SUFFICES ASSUME NEW i \in 1 .. m, NEW j \in 1 .. m, i < j PROVE Upto(s[p[i]], s[p[j]])
      BY <1>5 DEF Sorts, Upto
    <3>1. i \in 1 .. m - 1 BY <2>1
    <3>2. CASE j = m BY <2>3, <2>9, <2>12, <3>1, <3>2
    <3>3. CASE j # m
      <4>1. j \in 1 .. m - 1 BY <2>11, <3>3
      <4>2. Upto(t[q[i]], t[q[j]]) BY <2>6, <2>18, <3>1, <4>1 DEF Sorts, Upto
      <4>3. QED BY <2>17, <3>1, <4>1, <4>2
    <3>4. QED BY <3>2, <3>3
  <2>20. QED BY <1>2, <2>16, <2>19
<1>8. QED BY <1>3, <1>6, <1>7

\* InOrder gives distinct paths with the same number of names in their order.
LEMMA InOrderSorts ==
  ASSUME NEW n \in Nat, NEW s \in Seq([1 .. n -> Nat]),
         \A i, j \in 1 .. Len(s) : s[i] = s[j] => i = j
  PROVE  /\ InOrder(s) \in Seq([1 .. n -> Nat]) /\ Len(InOrder(s)) = Len(s)
         /\ Range(InOrder(s)) = Range(s)
         /\ \A i, j \in 1 .. Len(s) : i < j => Less(InOrder(s)[i], InOrder(s)[j])
<1> DEFINE T == [1 .. n -> Nat]
           q == CHOOSE p \in Bijection(DOMAIN s, DOMAIN s) : Sorts(p, s)
<1>0. PICK m : m = Len(s) OBVIOUS
<1>1. m \in Nat /\ s \in [1 .. m -> T] /\ DOMAIN s = 1 .. m BY <1>0
<1>2. \E p \in Bijection(1 .. m, 1 .. m) : Sorts(p, s) BY <1>1, Sortable
<1>3. q \in Bijection(1 .. m, 1 .. m) /\ Sorts(q, s) BY <1>1, <1>2
<1>4. InOrder(s) = [i \in DOMAIN s |-> s[q[i]]] BY DEF InOrder
<1> HIDE DEF q
<1>5. /\ q \in [1 .. m -> 1 .. m]
      /\ \A w \in 1 .. m : \E v \in 1 .. m : q[v] = w
      /\ \A v, w \in 1 .. m : q[v] = q[w] => v = w
  BY <1>3 DEF Bijection, Injection, Surjection, IsInjective
<1>6. \A i \in 1 .. m : q[i] \in 1 .. m /\ s[q[i]] \in T BY <1>1, <1>5
<1>7. PICK r : r = InOrder(s) OBVIOUS
<1>8. r = [i \in 1 .. m |-> s[q[i]]] BY <1>1, <1>4, <1>7
<1>9. r \in [1 .. m -> T] /\ \A i \in 1 .. m : r[i] = s[q[i]] BY <1>6, <1>8
<1>10. r \in Seq(T) /\ Len(r) = m
  <2>1. r \in Seq(T)
    <3> HIDE DEF T
    <3>1. [1 .. m -> T] \in {[1 .. k -> T] : k \in Nat} BY <1>1
    <3>2. r \in UNION {[1 .. k -> T] : k \in Nat} BY <1>9, <3>1, Zenon
    <3>3. QED BY <3>2, SeqDef, Zenon
  <2>2. DOMAIN r = 1 .. m /\ DOMAIN r = 1 .. Len(r) /\ Len(r) \in Nat BY <1>9, <2>1, LenProperties
  <2>3. QED BY <1>1, <2>1, <2>2
<1>11. Range(r) = Range(s)
  <2>1. DOMAIN r = 1 .. m BY <1>9
  <2>2. Range(r) = {r[i] : i \in 1 .. m} /\ Range(s) = {s[i] : i \in 1 .. m} BY <1>1, <2>1 DEF Range
  <2>3. \A i \in 1 .. m : \E j \in 1 .. m : r[i] = s[j] BY <1>6, <1>9
  <2>4. ASSUME NEW j \in 1 .. m PROVE \E i \in 1 .. m : r[i] = s[j]
    <3>1. PICK i \in 1 .. m : q[i] = j BY <1>5
    <3>2. QED BY <1>9, <3>1
  <2>5. Range(r) \subseteq Range(s) BY <2>2, <2>3
  <2>6. Range(s) \subseteq Range(r) BY <2>2, <2>4
  <2>7. QED BY <2>5, <2>6
<1>12. ASSUME NEW i \in 1 .. m, NEW j \in 1 .. m, i < j PROVE Less(r[i], r[j])
  <2>1. i # j BY <1>1, <1>12
  <2>2. q[i] \in 1 .. m /\ q[j] \in 1 .. m /\ q[i] # q[j] BY <1>5, <1>6, <2>1
  <2>3. s[q[i]] # s[q[j]] BY <1>0, <2>2
  <2>4. s[q[i]] = s[q[j]] \/ Less(s[q[i]], s[q[j]]) BY <1>1, <1>3, <1>12 DEF Sorts
  <2>5. QED BY <1>9, <2>3, <2>4
<1>13. QED BY <1>0, <1>7, <1>10, <1>11, <1>12

-----------------------------------------------------------------------------
(* The tree stays one, and which calls are found together on the stack.    *)

\* Everything is in a directory, which is in a directory, and so on.
IsTree(t) ==
    \A p \in Paths : t[p] # "none" =>
        \A i \in 1 .. Len(p) - 1 : Prefix(p, i) \in Paths /\ t[Prefix(p, i)] = "dir"

\* What has lasted is still there, and so have the directories it is in.
LastingOK ==
    \A p \in lasting : /\ p \in Paths /\ tree[p] # "none"
                       /\ \A i \in 1 .. Len(p) : Prefix(p, i) \in lasting

\* What a rename moves has nothing below it, and what Remove has open for
\* deletion is a file and stays one, as long as it may be told of its end.
DeletingOK ==
    /\ \A i \in 1 .. Len(stack) : stack[i].op = "rename" => Below(stack[i].path) = {stack[i].path}
    /\ \A i \in 1 .. Len(stack) - 1 : ~(stack[i].op = "remove" /\ stack[i].pc = "close")
    /\ stack # <<>> /\ Top.op = "remove" /\ Top.pc = "close" /\ ~ ctxDone =>
          Top.path \in handles /\ Top.path \in Paths /\ tree[Top.path] = "file"

Listings == {"walk", "glob", "dirFS"}
Changers == {"remove", "removeDir", "removeAll", "mkdir", "mkdirAll", "rename", "copy"}

\* The calls an operation makes.
Family(op) ==
    CASE op = "walk" -> {"walk", "visit", "stat", "readDir"}
      [] op = "glob" -> {"glob", "globDir", "stat", "readDir"}
      [] op = "dirFS" -> {"dirFS", "readDir"}
      [] OTHER -> Changers \cup {"stat", "readDir"}

FamilyOK == \A i \in 1 .. Len(stack) : stack[i].op \in Family(goal.op)

TreeIInv == IsTree(tree) /\ LastingOK /\ DeletingOK /\ FamilyOK

\* Paths are paths.
LEMMA PathTypes ==
  /\ Paths \subseteq Seq(Nat) /\ Root \in Seq(Nat) /\ Root \notin Paths
  /\ \A p \in Paths : Len(p) \in Nat /\ Len(p) > 0 /\ (Len(p) > 1 => Front(p) \in Paths)
BY TreeAssumption DEF Root

\* What is not one is more.
LEMMA PastOne ==
  ASSUME NEW n \in Nat, n > 0
  PROVE  n # 1 <=> n > 1
OBVIOUS

\* Below what is no directory, or has no entries, there is nothing.
LEMMA NothingBelow ==
  ASSUME NEW t, IsTree(t), NEW p \in Paths, NEW q \in Paths, Above(p, q),
         t[p] # "dir" \/ \A c \in Paths : Child(c, p) => t[c] = "none"
  PROVE  t[q] = "none"
<1> SUFFICES ASSUME t[q] # "none" PROVE FALSE OBVIOUS
<1>1. p \in Seq(Nat) /\ q \in Seq(Nat) /\ Len(p) \in Nat /\ Len(p) > 0 /\ Len(q) \in Nat BY PathTypes
<1>2. Len(p) \in 1 .. Len(q) - 1 BY <1>1 DEF Above
<1>3. Prefix(q, Len(p)) = p BY <1>1, PrefixIs DEF Above
<1>4. t[p] = "dir" BY <1>2, <1>3 DEF IsTree
<1>5. PICK c : c = Prefix(q, Len(p) + 1) OBVIOUS
<1>6. Child(c, p) BY <1>1, <1>5, NextName
<1>7. c \in Paths /\ t[c] # "none"
  <2>1. CASE Len(p) + 1 = Len(q)
    <3>1. c = q BY <1>1, <1>5, <2>1 DEF Prefix
    <3>2. QED BY <3>1
  <2>2. CASE Len(p) + 1 # Len(q)
    <3>1. Len(p) + 1 \in 1 .. Len(q) - 1 BY <1>1, <1>2, <2>2
    <3>2. QED BY <1>5, <3>1 DEF IsTree
  <2>3. QED BY <2>1, <2>2
<1>8. QED BY <1>4, <1>6, <1>7

\* A path that changes and has nothing below it leaves a tree a tree.
LEMMA TreeChange ==
  ASSUME NEW t \in [Paths -> {"none", "file", "dir"}], IsTree(t), NEW p \in Paths,
         NEW k \in {"none", "file", "dir"},
         t[p] # "dir" \/ \A c \in Paths : Child(c, p) => t[c] = "none",
         k # "none" => Len(p) = 1 \/ t[Front(p)] = "dir"
  PROVE  /\ IsTree([t EXCEPT ![p] = k])
         /\ \A q \in Paths : q # p /\ t[q] # "none" => \A i \in 1 .. Len(q) : Prefix(q, i) # p
<1>1. p \in Seq(Nat) /\ Len(p) \in Nat /\ Len(p) > 0 BY PathTypes
<1>2. ASSUME NEW q \in Paths, q # p, t[q] # "none", NEW i \in 1 .. Len(q) PROVE Prefix(q, i) # p
  <2> SUFFICES ASSUME Prefix(q, i) = p PROVE FALSE OBVIOUS
  <2>1. q \in Seq(Nat) /\ Len(q) \in Nat /\ i \in 0 .. Len(q) BY PathTypes
  <2>2. Len(p) = i /\ \A j \in 1 .. i : p[j] = q[j] BY <2>1, PrefixNames
  <2>3. IsPrefix(p, q) BY <1>1, <2>1, <2>2, PrefixMeans
  <2>4. Above(p, q) BY <1>1, <1>2, <2>1, <2>3, PrefixOrder
  <2>5. QED BY <1>2, <2>4, NothingBelow
<1>3. PICK u : u = [t EXCEPT ![p] = k] OBVIOUS
<1>4. u[p] = k /\ \A q \in Paths : q # p => u[q] = t[q] BY <1>3
<1>5. ASSUME NEW q \in Paths, u[q] # "none", NEW i \in 1 .. Len(q) - 1
      PROVE  Prefix(q, i) \in Paths /\ u[Prefix(q, i)] = "dir"
  <2>1. q \in Seq(Nat) /\ Len(q) \in Nat /\ i \in 1 .. Len(q) BY PathTypes
  <2>2. CASE q # p
    <3>1. t[q] # "none" BY <1>4, <1>5, <2>2
    <3>2. Prefix(q, i) \in Paths /\ t[Prefix(q, i)] = "dir" BY <1>5, <3>1 DEF IsTree
    <3>3. QED BY <1>2, <1>4, <2>1, <2>2, <3>1, <3>2
  <2>3. CASE q = p
    <3>1. Len(p) > 1 /\ k # "none" BY <1>1, <1>4, <1>5, <2>3
    <3>2. PICK d : d = Front(p) OBVIOUS
    <3>0. Front(p) \in Paths BY <3>1, PathTypes
    <3>10. Len(p) # 1 BY <1>1, <3>1, PastOne
    <3>3. d \in Paths /\ t[d] = "dir" BY <3>0, <3>1, <3>10, <3>2
    <3>4. d \in Seq(Nat) /\ Len(d) = Len(p) - 1 /\ d = Prefix(p, Len(p) - 1)
      BY <1>1, <3>1, <3>2, FrontOfChild DEF Front, Prefix
    <3>5. CASE i = Len(p) - 1
      <4>1. Prefix(q, i) = d /\ d # p BY <1>1, <2>3, <3>4, <3>5
      <4>2. QED BY <1>4, <3>3, <4>1
    <3>6. CASE i # Len(p) - 1
      <4>1. i \in 1 .. Len(d) - 1 BY <1>1, <1>5, <2>3, <3>4, <3>6
      <4>2. Prefix(d, i) = Prefix(p, i) BY <1>1, <3>4, <4>1 DEF Prefix
      <4>3. Prefix(p, i) \in Paths /\ t[Prefix(p, i)] = "dir" BY <3>3, <4>1, <4>2 DEF IsTree
      <4>4. Len(Prefix(p, i)) = i /\ i # Len(p) BY <1>1, <2>1, <2>3, <3>4, <4>1, PrefixNames
      <4>5. Prefix(p, i) # p BY <4>4
      <4>6. QED BY <1>4, <2>3, <4>3, <4>5
    <3>7. QED BY <3>5, <3>6
  <2>4. QED BY <2>2, <2>3
<1>6. IsTree(u) BY <1>5 DEF IsTree
<1>7. QED BY <1>2, <1>3, <1>6

\* Put, where the server allows it.
LEMMA PutTree ==
  ASSUME TreeOK, IsTree(tree), LastingOK, NEW p \in Paths, NEW k \in {"none", "file", "dir"}, NEW len, Put(p, k, len),
         tree[p] # "dir" \/ Children(p) = {},
         k # "none" => HasParent(p) \/ tree[p] # "none"
  PROVE  IsTree(tree)' /\ LastingOK'
<1>1. tree \in [Paths -> {"none", "file", "dir"}] /\ tree' = [tree EXCEPT ![p] = k] /\ lasting' = lasting \ {p}
  BY DEF TreeOK, Put
<1>2. p \in Seq(Nat) /\ Len(p) \in Nat /\ Len(p) > 0 /\ (Len(p) > 1 => Front(p) \in Paths) BY PathTypes
<1>3. tree[p] # "dir" \/ \A c \in Paths : Child(c, p) => tree[c] = "none" BY DEF Children, Child
<1>4. k # "none" => Len(p) = 1 \/ tree[Front(p)] = "dir"
  <2> SUFFICES ASSUME k # "none", Len(p) # 1 PROVE tree[Front(p)] = "dir" OBVIOUS
  <2>0. Len(p) > 1 BY <1>2, PastOne
  <2>5. Front(p) \in Paths BY <1>2, <2>0
  <2>1. Len(p) > 1 /\ Front(p) \in Paths /\ Front(p) # Root BY <2>0, <2>5, PathTypes
  <2>2. CASE HasParent(p) BY <2>1, <2>2 DEF HasParent, Kind
  <2>3. CASE tree[p] # "none"
    <3>1. Len(p) - 1 \in 1 .. Len(p) - 1 BY <1>2, <2>1
    <3>2. tree[Prefix(p, Len(p) - 1)] = "dir" BY <2>3, <3>1 DEF IsTree
    <3>3. QED BY <3>2 DEF Prefix, Front
  <2>4. QED BY <2>2, <2>3
<1>5. /\ IsTree([tree EXCEPT ![p] = k])
      /\ \A q \in Paths : q # p /\ tree[q] # "none" => \A i \in 1 .. Len(q) : Prefix(q, i) # p
  BY <1>1, <1>3, <1>4, TreeChange
<1>6. LastingOK'
  <2> SUFFICES ASSUME NEW q \in lasting'
               PROVE  /\ q \in Paths /\ tree'[q] # "none"
                      /\ \A i \in 1 .. Len(q) : Prefix(q, i) \in lasting'
    BY DEF LastingOK
  <2>1. q \in lasting /\ q # p /\ q \in Paths /\ tree[q] # "none" BY <1>1 DEF LastingOK
  <2>2. tree'[q] = tree[q] BY <1>1, <2>1
  <2>3. QED BY <1>1, <1>5, <2>1, <2>2 DEF LastingOK
<1>7. QED BY <1>1, <1>5, <1>6 DEF IsTree

-----------------------------------------------------------------------------
(* Steps of the operations that change the tree.                           *)

\* A frame that has nothing open for deletion and is no rename.
Plain(f) == f.op \in (Changers \ {"rename"}) \cup {"stat", "readDir"} /\ ~(f.op = "remove" /\ f.pc = "close")

\* A step that leaves such frames.
LEMMA PlainTree ==
  ASSUME StackOK, StackOK', stack # <<>>, TreeIInv, Reshaped, goal' = goal, goal.op \notin Listings,
         IsTree(tree)', LastingOK',
         Len(stack') >= Depth => Plain(stack'[Depth]),
         Len(stack') > Depth => Plain(stack'[Depth + 1])
  PROVE  TreeIInv'
<1>1. Depth \in Nat /\ Depth > 0 /\ Len(stack') \in Nat /\ Depth = Len(stack) BY StackFacts DEF StackOK, Depth
<1>2. Len(stack') \in {Depth - 1, Depth, Depth + 1} /\ \A i \in 1 .. Depth - 1 : stack'[i] = stack[i]
  BY DEF Reshaped
<1>3. ASSUME NEW i \in 1 .. Len(stack') PROVE (i < Depth /\ stack'[i] = stack[i]) \/ Plain(stack'[i])
  <2>1. i < Depth \/ i = Depth \/ i = Depth + 1 BY <1>1, <1>2
  <2>2. QED BY <1>1, <1>2, <2>1
<1>4. Family(goal.op) = Changers \cup {"stat", "readDir"} BY DEF Family, Listings
<1>5. FamilyOK' BY <1>1, <1>3, <1>4 DEF FamilyOK, Plain, TreeIInv
<1>6. \A i \in 1 .. Len(stack') : ~(stack'[i].op = "remove" /\ stack'[i].pc = "close")
  BY <1>1, <1>3 DEF TreeIInv, DeletingOK, Plain
<1>7. \A i \in 1 .. Len(stack') : stack'[i].op = "rename" => Below(stack'[i].path) = {stack'[i].path}
  BY <1>1, <1>3 DEF TreeIInv, DeletingOK, Plain, Changers
<1>8. DeletingOK'
  <2>1. stack' # <<>> => Len(stack') \in 1 .. Len(stack') BY <1>1 DEF StackOK
  <2>2. \A i \in 1 .. Len(stack') - 1 : i \in 1 .. Len(stack') BY <1>1
  <2>3. QED BY <1>6, <1>7, <2>1, <2>2 DEF DeletingOK, Top, Below
<1>9. QED BY <1>5, <1>8 DEF TreeIInv

\* The innermost call goes on, or calls another one, and none of them deletes or
\* renames.
PlainTo ==
    /\ StackOK' /\ Reshaped
    /\ Len(stack') >= Depth => Plain(stack'[Depth])
    /\ Len(stack') > Depth => Plain(stack'[Depth + 1])

\* The ways there.
LEMMA PlainWays ==
  ASSUME StackOK, stack # <<>>
  PROVE  /\ \A f : DOMAIN f = Fields /\ Plain(f) /\ Become(f) => PlainTo
         /\ \A f, g : DOMAIN f = Fields /\ DOMAIN g = Fields /\ Plain(f) /\ Plain(g) /\ Call(f, g) => PlainTo
         /\ \A r : Return(r) => PlainTo
<1>1. Depth \in Nat /\ Depth > 0 BY StackFacts
<1>2. ASSUME NEW f, DOMAIN f = Fields, Plain(f), Become(f) PROVE PlainTo
  <2>1. Kept(f) BY <1>2, BecomeStep
  <2>2. QED BY <1>1, <1>2, <2>1 DEF Kept, PlainTo
<1>3. ASSUME NEW f, NEW g, DOMAIN f = Fields, DOMAIN g = Fields, Plain(f), Plain(g), Call(f, g) PROVE PlainTo
  <2>1. Pushed(f, g) BY <1>3, CallStep
  <2>2. QED BY <1>1, <1>3, <2>1 DEF Pushed, PlainTo
<1>4. ASSUME NEW r, Return(r) PROVE PlainTo
  <2>1. Popped BY <1>4, ReturnStep
  <2>2. QED BY <1>1, <2>1 DEF Popped, PlainTo
<1>5. QED BY <1>2, <1>3, <1>4

\* The calls that do not delete or rename.
LEMMA PlainFrames ==
  /\ \A pc, p : \A op \in {"stat", "readDir", "removeDir", "removeAll", "mkdir"} :
        DOMAIN Frame(op, pc, p) = Fields /\ Plain(Frame(op, pc, p))
  /\ \A p : DOMAIN Frame("remove", "begin", p) = Fields /\ Plain(Frame("remove", "begin", p))
BY DEF Frame, Fields, Plain, Changers

\* The forms the innermost call is given when it goes on.
LEMMA PlainTops ==
  ASSUME StackOK, stack # <<>>, Top.op \in Changers \ {"rename"} \/ Top.op \in {"stat", "readDir"}
  PROVE  /\ \A a : a # "close" \/ Top.op # "remove" =>
              /\ DOMAIN [Top EXCEPT !.pc = a] = Fields /\ Plain([Top EXCEPT !.pc = a])
              /\ \A b : /\ DOMAIN [Top EXCEPT !.pc = a, !.todo = b] = Fields
                        /\ Plain([Top EXCEPT !.pc = a, !.todo = b])
                        /\ DOMAIN [Top EXCEPT !.pc = a, !.n = b] = Fields
                        /\ Plain([Top EXCEPT !.pc = a, !.n = b])
                        /\ DOMAIN [Top EXCEPT !.pc = a, !.dir = b] = Fields
                        /\ Plain([Top EXCEPT !.pc = a, !.dir = b])
                        /\ DOMAIN [Top EXCEPT !.err = b, !.pc = a] = Fields
                        /\ Plain([Top EXCEPT !.err = b, !.pc = a])
              /\ \A b, c : /\ DOMAIN [Top EXCEPT !.pc = a, !.todo = b, !.seen = c] = Fields
                           /\ Plain([Top EXCEPT !.pc = a, !.todo = b, !.seen = c])
         /\ Top.op # "remove" =>
              \A a : /\ DOMAIN [Top EXCEPT !.todo = a] = Fields /\ Plain([Top EXCEPT !.todo = a])
                     /\ DOMAIN [Top EXCEPT !.n = a] = Fields /\ Plain([Top EXCEPT !.n = a])
BY StackFacts DEF Fields, Plain, Changers

\* Such a step leaves the tree alone.
LEMMA PlainStays ==
  ASSUME StackOK, stack # <<>>, TreeIInv, PlainTo, UNCHANGED <<tree, lasting, goal>>, goal.op \notin Listings
  PROVE  TreeIInv'
<1>1. IsTree(tree)' BY DEF TreeIInv, IsTree
<1>2. LastingOK' BY DEF TreeIInv, LastingOK
<1>3. QED BY <1>1, <1>2, PlainTree DEF PlainTo

\* An operation that changes the tree is made of calls that do.
LEMMA ChangerOps ==
  ASSUME StackOK, stack # <<>>, TreeIInv, goal.op \notin Listings
  PROVE  Top.op \in Changers \cup {"stat", "readDir"}
<1>1. Len(stack) \in 1 .. Len(stack) BY StackFacts DEF Depth
<1>2. QED BY <1>1 DEF TreeIInv, FamilyOK, Family, Listings, Top

\* The steps of Remove, RemoveAll, Mkdir and MkdirAll that leave the tree alone.
LEMMA RemovalPlain ==
  ASSUME ShareIInv, TreeIInv, goal.op \notin Listings,
         \/ RemoveStat \/ RemoveKind \/ RemoveDirSleep
         \/ RemoveAllExists \/ RemoveAllIsDir \/ RemoveAllList \/ RemoveAllListed \/ RemoveAllChild
         \/ MkdirClose \/ MkdirAllNext
  PROVE  TreeIInv'
<1> USE DEF noTree, noWalk, noCall, treeVars, history, Answered, At, Idle, Ask, Goto
<1>0. StackOK BY DEF ShareIInv
<1>1. /\ stack # <<>> /\ UNCHANGED <<tree, lasting, goal>>
      /\ Top.op \in {"remove", "removeDir", "removeAll", "mkdir", "mkdirAll"}
  BY DEF RemoveStat, RemoveKind, RemoveDirSleep, RemoveAllExists, RemoveAllIsDir, RemoveAllList,
         RemoveAllListed, RemoveAllChild, MkdirClose, MkdirAllNext
<1>2. SUFFICES PlainTo BY <1>0, <1>1, PlainStays
<1>3. Top.op \in Changers \ {"rename"} BY <1>1 DEF Changers
<1>4. CASE RemoveStat
  <2>1. Call([Top EXCEPT !.pc = "kind"], Frame("stat", "basic", Top.path)) BY <1>4 DEF RemoveStat
  <2>2. QED BY <1>0, <1>1, <1>3, <2>1, PlainWays, PlainFrames, PlainTops
<1>5. CASE RemoveKind
  <2>1. \/ \E r : Return(r)
        \/ Become(Frame("removeDir", "delete", Top.path))
        \/ Become([Top EXCEPT !.pc = "open"])
    BY <1>5 DEF RemoveKind
  <2>2. QED BY <1>0, <1>1, <1>3, <2>1, PlainWays, PlainFrames, PlainTops
<1>6. CASE RemoveDirSleep
  <2>1. \/ \E r : Return(r)
        \/ Become([Top EXCEPT !.pc = "delete"])
    BY <1>6 DEF RemoveDirSleep
  <2>2. QED BY <1>0, <1>1, <1>3, <2>1, PlainWays, PlainTops
<1>7. CASE RemoveAllExists
  <2>1. Call([Top EXCEPT !.pc = "exists"], Frame("stat", "basic", Top.path)) BY <1>7 DEF RemoveAllExists
  <2>2. QED BY <1>0, <1>1, <1>3, <2>1, PlainWays, PlainFrames, PlainTops
<1>8. CASE RemoveAllIsDir
  <2>1. \/ \E r : Return(r)
        \/ Call([Top EXCEPT !.pc = "isDir"], Frame("stat", "basic", Top.path))
    BY <1>8 DEF RemoveAllIsDir
  <2>2. QED BY <1>0, <1>1, <1>3, <2>1, PlainWays, PlainFrames, PlainTops
<1>9. CASE RemoveAllList
  <2>1. \/ \E r : Return(r)
        \/ Become(Frame("remove", "begin", Top.path))
        \/ Call([Top EXCEPT !.pc = "listed"], Frame("readDir", "first", Top.path))
    BY <1>9 DEF RemoveAllList
  <2>2. QED BY <1>0, <1>1, <1>3, <2>1, PlainWays, PlainFrames, PlainTops
<1>10. CASE RemoveAllListed
  <2>1. \/ \E r : Return(r)
        \/ Become([Top EXCEPT !.pc = "children", !.todo = ret.list])
    BY <1>10 DEF RemoveAllListed
  <2>2. QED BY <1>0, <1>1, <1>3, <2>1, PlainWays, PlainTops
<1>11. CASE RemoveAllChild
  <2>1. \/ \E r : Return(r)
        \/ Become(Frame("remove", "begin", Top.path))
        \/ \E a, p : Call([Top EXCEPT !.todo = a], Frame("removeAll", "begin", p))
    BY <1>11 DEF RemoveAllChild
  <2>2. Top.op # "remove" BY <1>11 DEF RemoveAllChild
  <2>3. QED BY <1>0, <1>1, <1>3, <2>1, <2>2, PlainWays, PlainFrames, PlainTops
<1>12. CASE MkdirClose BY <1>0, <1>1, <1>12, PlainWays DEF MkdirClose
<1>13. CASE MkdirAllNext
  <2>1. \/ \E r : Return(r)
        \/ \E a, p : Call([Top EXCEPT !.n = a], Frame("mkdir", "create", p))
    BY <1>13 DEF MkdirAllNext
  <2>2. Top.op # "remove" BY <1>13 DEF MkdirAllNext
  <2>3. QED BY <1>0, <1>1, <1>3, <2>1, <2>2, PlainWays, PlainFrames, PlainTops
<1>14. QED BY <1>4, <1>5, <1>6, <1>7, <1>8, <1>9, <1>10, <1>11, <1>12, <1>13

\* The steps of the copies that leave the tree alone.
LEMMA CopyPlain ==
  ASSUME ShareIInv, TreeIInv, goal.op \notin Listings,
         CopyOpenSrc \/ CopyStatted \/ CopyMove \/ CopyClose \/ CopyDone
  PROVE  TreeIInv'
<1> USE DEF noTree, noWalk, noCall, treeVars, history, Answered, At, Idle, Goto, CopyFails
<1>0. StackOK BY DEF ShareIInv
<1>1. stack # <<>> /\ UNCHANGED <<tree, lasting, goal>> /\ Top.op = "copy"
  BY DEF CopyOpenSrc, CopyStatted, CopyMove, CopyClose, CopyDone
<1>2. SUFFICES PlainTo BY <1>0, <1>1, PlainStays
<1>3. Top.op \in Changers \ {"rename"} /\ Top.op # "remove" BY <1>1 DEF Changers
<1>4. CASE CopyOpenSrc
  <2>1. \/ \E a, e : Become([Top EXCEPT !.err = e, !.pc = a])
        \/ \E a : Become([Top EXCEPT !.pc = a])
        \/ Call([Top EXCEPT !.pc = "statted"], Frame("stat", "basic", Top.path))
    BY <1>4 DEF CopyOpenSrc
  <2>2. QED BY <1>0, <1>1, <1>3, <2>1, PlainWays, PlainFrames, PlainTops
<1>5. CASE CopyStatted
  <2>1. \/ \E a, e : Become([Top EXCEPT !.err = e, !.pc = a])
        \/ \E a : Become([Top EXCEPT !.pc = a])
    BY <1>5 DEF CopyStatted
  <2>2. QED BY <1>0, <1>1, <1>3, <2>1, PlainWays, PlainTops
<1>6. CASE CopyMove
  <2>1. \/ \E a : Become([Top EXCEPT !.n = a])
        \/ \E a : Become([Top EXCEPT !.pc = a])
    BY <1>6 DEF CopyMove
  <2>2. QED BY <1>0, <1>1, <1>3, <2>1, PlainWays, PlainTops
<1>7. CASE CopyClose
  <2>1. \E a : Become([Top EXCEPT !.pc = a]) BY <1>7 DEF CopyClose
  <2>2. QED BY <1>0, <1>1, <1>3, <2>1, PlainWays, PlainTops
<1>8. CASE CopyDone BY <1>0, <1>1, <1>8, PlainWays DEF CopyDone
<1>9. QED BY <1>4, <1>5, <1>6, <1>7, <1>8

\* Stat, ReadDir and requests that fail, inside an operation that changes the tree.
LEMMA RequestPlain ==
  ASSUME ShareIInv, TreeIInv, goal.op \notin Listings,
         StatBasic \/ StatStandard \/ Find \/ RequestRefused \/ RequestDenied
  PROVE  TreeIInv'
<1> USE DEF noTree, noWalk, noCall, treeVars, history, Answered, At, Idle, Goto, CopyFails, Requesting
<1>0. StackOK BY DEF ShareIInv
<1>1. stack # <<>> /\ UNCHANGED <<tree, lasting, goal>>
  BY DEF StatBasic, StatStandard, Find, RequestRefused, RequestDenied
<1>2. SUFFICES PlainTo BY <1>0, <1>1, PlainStays
<1>3. CASE StatBasic \/ StatStandard
  <2>1. \/ \E r : Return(r)
        \/ \E b : Become([Top EXCEPT !.pc = "standard", !.dir = b])
    BY <1>3 DEF StatBasic, StatStandard
  <2>2. Top.op = "stat" BY <1>3 DEF StatBasic, StatStandard
  <2>3. QED BY <1>0, <1>1, <2>1, <2>2, PlainWays, PlainTops
<1>4. CASE Find
  <2>1. \/ \E r : Return(r)
        \/ \E a, b : Become([Top EXCEPT !.pc = "next", !.todo = a, !.seen = b])
    BY <1>4 DEF Find
  <2>2. Top.op = "readDir" BY <1>4 DEF Find
  <2>3. QED BY <1>0, <1>1, <2>1, <2>2, PlainWays, PlainTops
<1>5. CASE RequestRefused \/ RequestDenied
  <2>1. \/ \E r : Return(r)
        \/ Top.op = "copy" /\ \E a, e : Become([Top EXCEPT !.err = e, !.pc = a])
        \/ Top.op = "copy" /\ \E a : Become([Top EXCEPT !.pc = a])
    BY <1>5 DEF RequestRefused, RequestDenied, FailWith
  <2>2. Top.op = "copy" => Top.op \in Changers \ {"rename"} /\ Top.op # "remove" BY DEF Changers
  <2>3. QED BY <1>0, <1>1, <2>1, <2>2, PlainWays, PlainTops
<1>6. QED BY <1>3, <1>4, <1>5

\* Put, wherever the path may be.
LEMMA PutAny ==
  ASSUME TreeOK, IsTree(tree), LastingOK, NEW p, NEW k \in {"none", "file", "dir"}, NEW len, Put(p, k, len),
         p \in Paths => tree[p] # "dir" \/ Children(p) = {},
         p \in Paths /\ k # "none" => HasParent(p) \/ tree[p] # "none"
  PROVE  IsTree(tree)' /\ LastingOK'
<1>1. CASE p \in Paths BY <1>1, PutTree
<1>2. CASE p \notin Paths
  <2>1. tree' = tree BY <1>2 DEF Put, TreeOK
  <2>2. lasting' = lasting BY <1>2 DEF Put, LastingOK
  <2>3. IsTree(tree)' BY <2>1 DEF IsTree
  <2>4. QED BY <2>1, <2>2, <2>3 DEF LastingOK
<1>3. QED BY <1>1, <1>2

\* What the innermost call of a changing operation leaves when it goes on with
\* the tree changed.
LEMMA ChangeTree ==
  ASSUME StackOK, stack # <<>>, TreeIInv, PlainTo, goal' = goal, goal.op \notin Listings,
         IsTree(tree)', LastingOK'
  PROVE  TreeIInv'
BY PlainTree DEF PlainTo

\* Remove deletes only a file.
LEMMA RemoveTree ==
  ASSUME ShareIInv, TreeIInv, goal.op \notin Listings, RemoveOpen \/ RemoveClose
  PROVE  TreeIInv'
<1> USE DEF noWalk, noCall, history, Answered, At, Idle, Goto
<1>0. StackOK /\ TreeOK /\ IsTree(tree) /\ LastingOK /\ DeletingOK /\ FamilyOK BY DEF ShareIInv, TreeIInv
<1>1. stack # <<>> /\ Top.op = "remove" /\ goal' = goal BY DEF RemoveOpen, RemoveClose
<1>2. Depth \in Nat /\ Depth > 0 BY <1>0, <1>1, StackFacts
<1>3. CASE RemoveOpen /\ \E r : Return(r)
  <2>1. PlainTo BY <1>0, <1>1, <1>3, PlainWays
  <2>2. UNCHANGED <<tree, lasting>> BY <1>3 DEF RemoveOpen
  <2>3. QED BY <1>0, <1>1, <2>1, <2>2, PlainStays
<1>4. CASE RemoveOpen /\ OpenForDeleteStatus(Top.path) = "none"
  <2>1. PICK f : f = [Top EXCEPT !.pc = "close"] /\ Become(f) BY <1>4, Zenon DEF RemoveOpen
  <2>2. DOMAIN f = Fields /\ f.op = "remove" /\ f.pc = "close" /\ f.path = Top.path
    BY <1>0, <1>1, <2>1, StackFacts DEF Fields
  <2>3. Kept(f) BY <1>0, <1>1, <2>1, <2>2, BecomeStep
  <2>4. UNCHANGED <<tree, lasting>> /\ handles' = handles \cup {Top.path} BY <1>4 DEF RemoveOpen
  <2>5. Top.path \in Paths /\ tree[Top.path] = "file"
    BY <1>0, <1>4 DEF OpenForDeleteStatus, OpenStatus, Kind, TreeOK
  <2>6. IsTree(tree)' /\ LastingOK' BY <1>0, <2>4 DEF IsTree, LastingOK
  <2>7. stack' # <<>> /\ Top' = f BY <1>2, <2>3 DEF Kept, Top
  <2>8. \A i \in 1 .. Len(stack') : i # Depth => i \in 1 .. Depth - 1 /\ stack'[i] = stack[i] /\ i \in 1 .. Len(stack) - 1 /\ i \in 1 .. Len(stack)
    BY <1>2, <2>3 DEF Kept, Reshaped, Depth
  <2>9. FamilyOK'
    <3>1. stack'[Depth].op = Top.op BY <1>1, <2>2, <2>3 DEF Kept
    <3>2. Top.op \in Family(goal.op) BY <1>0, <1>2 DEF FamilyOK, Top, Depth
    <3>3. QED BY <1>0, <1>1, <2>8, <3>1, <3>2 DEF FamilyOK, Family
  <2>10. DeletingOK'
    <3>1. \A i \in 1 .. Len(stack') : stack'[i].op = "rename" => Below(stack'[i].path) = {stack'[i].path}
      BY <1>0, <2>2, <2>3, <2>8 DEF DeletingOK, Kept
    <3>2. \A i \in 1 .. Len(stack') - 1 : ~(stack'[i].op = "remove" /\ stack'[i].pc = "close")
      <4>1. \A i \in 1 .. Len(stack') - 1 : i \in 1 .. Len(stack') /\ i # Depth BY <1>2, <2>3 DEF Kept
      <4>2. QED BY <1>0, <2>8, <4>1 DEF DeletingOK
    <3>3. QED BY <2>2, <2>4, <2>5, <2>7, <3>1, <3>2 DEF DeletingOK, Below
  <2>11. QED BY <2>6, <2>9, <2>10 DEF TreeIInv
<1>5. CASE RemoveClose
  <2>1. PlainTo BY <1>0, <1>1, <1>5, PlainWays DEF RemoveClose
  <2>2. Top.path \in Paths /\ tree[Top.path] = "file" BY <1>0, <1>5 DEF DeletingOK, RemoveClose
  <2>3. Put(Top.path, "none", 0) BY <1>5 DEF RemoveClose
  <2>4. IsTree(tree)' /\ LastingOK' BY <1>0, <2>2, <2>3, PutTree
  <2>5. QED BY <1>0, <1>1, <2>1, <2>4, ChangeTree
<1>6. QED BY <1>3, <1>4, <1>5 DEF RemoveOpen

\* A directory is removed only when it is empty.
LEMMA RemoveDirTree ==
  ASSUME ShareIInv, TreeIInv, goal.op \notin Listings, RemoveDir
  PROVE  TreeIInv'
<1> USE DEF noWalk, noCall, history, Answered, At, Idle
<1>0. StackOK /\ TreeOK /\ IsTree(tree) /\ LastingOK BY DEF ShareIInv, TreeIInv
<1>1. stack # <<>> /\ Top.op = "removeDir" /\ goal' = goal BY DEF RemoveDir
<1>2. Top.op \in Changers \ {"rename"} BY <1>1 DEF Changers
<1>3. PlainTo
  <2>1. \/ \E r : Return(r)
        \/ \E n : Become([Top EXCEPT !.pc = "sleep", !.n = n])
    BY DEF RemoveDir, Retry, GiveUp
  <2>2. QED BY <1>0, <1>1, <1>2, <2>1, PlainWays, PlainTops
<1>4. CASE UNCHANGED <<tree, lasting>> BY <1>0, <1>1, <1>3, <1>4, PlainStays
<1>5. CASE DeleteDirectoryStatus(Top.path) = "none" /\ Put(Top.path, "none", 0)
  <2>1. Children(Top.path) = {} BY <1>5 DEF DeleteDirectoryStatus
  <2>2. IsTree(tree)' /\ LastingOK' BY <1>0, <1>5, <2>1, PutAny
  <2>3. QED BY <1>0, <1>1, <1>3, <2>2, ChangeTree
<1>6. QED BY <1>4, <1>5 DEF RemoveDir

\* A directory is created only in a directory.
LEMMA MkdirTree ==
  ASSUME ShareIInv, TreeIInv, goal.op \notin Listings, MkdirCreate
  PROVE  TreeIInv'
<1> USE DEF noWalk, noCall, history, Answered, At, Idle, Goto
<1>0. StackOK /\ TreeOK /\ IsTree(tree) /\ LastingOK BY DEF ShareIInv, TreeIInv
<1>1. stack # <<>> /\ Top.op = "mkdir" /\ goal' = goal BY DEF MkdirCreate
<1>2. Top.op \in Changers \ {"rename"} /\ Top.op # "remove" BY <1>1 DEF Changers
<1>3. PlainTo
  <2>1. (\E r : Return(r)) \/ Become([Top EXCEPT !.pc = "close"]) BY DEF MkdirCreate
  <2>2. QED BY <1>0, <1>1, <1>2, <2>1, PlainWays, PlainTops
<1>4. CASE UNCHANGED <<tree, lasting>> BY <1>0, <1>1, <1>3, <1>4, PlainStays
<1>5. CASE CreateDirectoryStatus(Top.path) = "none" /\ Put(Top.path, "dir", 0)
  <2>1. HasParent(Top.path) /\ Kind(Top.path) = "none" BY <1>5 DEF CreateDirectoryStatus
  <2>2. Top.path \in Paths => tree[Top.path] = "none" BY <2>1, PathTypes DEF Kind
  <2>3. IsTree(tree)' /\ LastingOK' BY <1>0, <1>5, <2>1, <2>2, PutAny
  <2>4. QED BY <1>0, <1>1, <1>3, <2>3, ChangeTree
<1>6. QED BY <1>4, <1>5 DEF MkdirCreate

\* A copy creates its destination in a directory, and replaces no directory.
LEMMA CopyTree ==
  ASSUME ShareIInv, TreeIInv, goal.op \notin Listings, CopyOpenDst
  PROVE  TreeIInv'
<1> USE DEF noWalk, noCall, history, Answered, At, Idle, Goto, CopyFails
<1>0. StackOK /\ TreeOK /\ IsTree(tree) /\ LastingOK BY DEF ShareIInv, TreeIInv
<1>1. stack # <<>> /\ Top.op = "copy" /\ goal' = goal BY DEF CopyOpenDst
<1>2. Top.op \in Changers \ {"rename"} /\ Top.op # "remove" BY <1>1 DEF Changers
<1>3. PlainTo
  <2>1. \/ \E a, e : Become([Top EXCEPT !.err = e, !.pc = a])
        \/ Become([Top EXCEPT !.pc = "move"])
    BY DEF CopyOpenDst
  <2>2. QED BY <1>0, <1>1, <1>2, <2>1, PlainWays, PlainTops
<1>4. CASE UNCHANGED <<tree, lasting>> BY <1>0, <1>1, <1>3, <1>4, PlainStays
<1>5. CASE OverwriteStatus(Top.to) = "none" /\ Put(Top.to, "file", 0)
  <2>1. HasParent(Top.to) /\ Kind(Top.to) # "dir" BY <1>5 DEF OverwriteStatus
  <2>2. Top.to \in Paths => tree[Top.to] # "dir" BY <2>1, PathTypes DEF Kind
  <2>3. IsTree(tree)' /\ LastingOK' BY <1>0, <1>5, <2>1, <2>2, PutAny
  <2>4. QED BY <1>0, <1>1, <1>3, <2>3, ChangeTree
<1>6. QED BY <1>4, <1>5 DEF CopyOpenDst

\* What a rename is about.
LEMMA RenamePaths ==
  ASSUME ShareIInv, TreeIInv, stack # <<>>, Top.op = "rename"
  PROVE  Top.path \in Paths /\ Top.to \in Paths /\ Below(Top.path) = {Top.path}
<1>0. StackOK /\ FramesOK /\ DeletingOK BY DEF ShareIInv, TreeIInv
<1>1. Len(stack) \in 1 .. Len(stack) /\ stack[Len(stack)].op = "rename" BY <1>0, StackFacts DEF Top, Depth
<1>2. Top.path \in Paths /\ Top.to \in Paths BY <1>0, <1>1 DEF FramesOK, Top
<1>3. Below(Top.path) = {Top.path} BY <1>0, <1>1, Zenon DEF DeletingOK, Top
<1>4. QED BY <1>2, <1>3

\* What has nothing below it moves into a directory.
LEMMA MoveTree ==
  ASSUME TreeOK, IsTree(tree), LastingOK, NEW p \in Paths, NEW q \in Paths, Below(p) = {p},
         RenameStatus(p, q) = "none", Move(p, q)
  PROVE  IsTree(tree)' /\ LastingOK'
<1>1. /\ tree' = [tree EXCEPT ![p] = "none", ![q] = tree[p]]
      /\ lasting' = lasting \ {p}
  BY DEF Move
<1>3. tree[p] # "none" /\ tree[q] = "none" /\ HasParent(q) /\ p # q
  BY PathTypes DEF RenameStatus, Kind
<1>4. p \in Seq(Nat) /\ q \in Seq(Nat) /\ Len(q) \in Nat /\ Len(q) > 0 BY PathTypes
<1>5. Len(q) = 1 \/ tree[Front(q)] = "dir"
  <2> SUFFICES ASSUME Len(q) # 1 PROVE tree[Front(q)] = "dir" OBVIOUS
  <2>1. Len(q) > 1 BY <1>4, PastOne
  <2>2. Front(q) \in Paths /\ Front(q) # Root BY <2>1, PathTypes
  <2>3. QED BY <1>3, <2>2 DEF HasParent, Kind
<1>6. \A c \in Paths : ~ Child(c, p)
  <2> SUFFICES ASSUME NEW c \in Paths, Child(c, p) PROVE FALSE OBVIOUS
  <2>1. c = p /\ c \in Seq(Nat) /\ Len(c) \in Nat BY PathTypes DEF Child, Below
  <2>2. QED BY <2>1 DEF Child
<1>7. tree \in [Paths -> {"none", "file", "dir"}] /\ tree[p] \in {"none", "file", "dir"}
  BY PathTypes DEF TreeOK
<1>8. PICK t : t = [tree EXCEPT ![q] = tree[p]] OBVIOUS
<1>9. IsTree(t) BY <1>3, <1>5, <1>7, <1>8, TreeChange
<1>10. t \in [Paths -> {"none", "file", "dir"}] BY <1>7, <1>8
<1>11. IsTree([t EXCEPT ![p] = "none"]) BY <1>6, <1>9, <1>10, TreeChange
<1>12. tree' = [t EXCEPT ![p] = "none"] BY <1>1, <1>3, <1>7, <1>8
<1>13. IsTree(tree)' BY <1>11, <1>12 DEF IsTree
<1>14. LastingOK'
  <2> SUFFICES ASSUME NEW r \in lasting'
               PROVE  /\ r \in Paths /\ tree'[r] # "none"
                      /\ \A i \in 1 .. Len(r) : Prefix(r, i) \in lasting'
    BY DEF LastingOK
  <2>1. r \in lasting /\ r # p /\ r \in Paths /\ tree[r] # "none" /\ \A i \in 1 .. Len(r) : Prefix(r, i) \in lasting
    BY <1>1 DEF LastingOK
  <2>2. r # q BY <1>3, <2>1
  <2>3. tree'[r] = tree[r] BY <1>8, <1>12, <2>1, <2>2, <1>7
  <2>4. ASSUME NEW i \in 1 .. Len(r) PROVE Prefix(r, i) # p
    <3> SUFFICES ASSUME Prefix(r, i) = p PROVE FALSE OBVIOUS
    <3>1. r \in Seq(Nat) /\ Len(r) \in Nat /\ i \in 0 .. Len(r) BY <2>1, PathTypes
    <3>2. Len(p) = i /\ \A j \in 1 .. i : p[j] = r[j] BY <3>1, PrefixNames
    <3>3. IsPrefix(p, r) BY <1>4, <3>1, <3>2, PrefixMeans
    <3>4. r \in Below(p) BY <2>1, <3>3 DEF Below
    <3>5. QED BY <2>1, <3>4
  <2>5. QED BY <1>1, <2>1, <2>3, <2>4
<1>15. QED BY <1>13, <1>14

\* A rename moves what has nothing below it into a directory.
LEMMA RenameTree ==
  ASSUME ShareIInv, TreeIInv, goal.op \notin Listings, RenameSend
  PROVE  TreeIInv'
<1> USE DEF noWalk, noCall, history, Answered, At, Idle
<1>0. StackOK /\ TreeOK /\ IsTree(tree) /\ LastingOK BY DEF ShareIInv, TreeIInv
<1>1. stack # <<>> /\ Top.op = "rename" /\ goal' = goal BY DEF RenameSend
<1>3. PlainTo
  <2>1. \E r : Return(r) BY DEF RenameSend
  <2>2. QED BY <1>0, <1>1, <2>1, PlainWays
<1>4. CASE UNCHANGED <<tree, lasting>> BY <1>0, <1>1, <1>3, <1>4, PlainStays
<1>5. CASE RenameStatus(Top.path, Top.to) = "none" /\ Move(Top.path, Top.to)
  <2>1. Top.path \in Paths /\ Top.to \in Paths /\ Below(Top.path) = {Top.path} BY <1>1, RenamePaths
  <2>2. IsTree(tree)' /\ LastingOK' BY <1>0, <1>5, <2>1, MoveTree
  <2>3. QED BY <1>0, <1>1, <1>3, <2>2, ChangeTree
<1>6. QED BY <1>4, <1>5 DEF RenameSend

\* A step of an operation that changes the tree.
LEMMA ChangerTree ==
  ASSUME ShareIInv, TreeIInv, goal.op \notin Listings, Step \/ RequestDenied
  PROVE  TreeIInv'
<1>0. StackOK BY DEF ShareIInv
<1>1. stack # <<>> => Top.op \in Changers \cup {"stat", "readDir"} BY <1>0, ChangerOps
<1>2. CASE \/ WalkStat \/ WalkStatted \/ WalkEnd \/ VisitFn \/ VisitListed \/ VisitEntry
           \/ GlobBegin \/ GlobLiteral \/ GlobDirs \/ GlobGather \/ GlobDirStep
           \/ DirFSLoad \/ DirFSLoaded \/ DirFSPage
  <2>1. stack # <<>> /\ Top.op \in {"walk", "visit", "glob", "globDir", "dirFS"}
    BY <1>2 DEF WalkStat, WalkStatted, WalkEnd, VisitFn, VisitListed, VisitEntry, GlobBegin, GlobLiteral,
                GlobDirs, GlobGather, GlobDirStep, GlobDir, DirFSLoad, DirFSLoaded, DirFSPage, At, Idle
  <2>2. QED BY <1>1, <2>1 DEF Changers
<1>3. CASE StatBasic \/ StatStandard \/ Find \/ RequestRefused \/ RequestDenied BY <1>3, RequestPlain
<1>4. CASE \/ RemoveStat \/ RemoveKind \/ RemoveDirSleep
           \/ RemoveAllExists \/ RemoveAllIsDir \/ RemoveAllList \/ RemoveAllListed \/ RemoveAllChild
           \/ MkdirClose \/ MkdirAllNext
  BY <1>4, RemovalPlain
<1>5. CASE CopyOpenSrc \/ CopyStatted \/ CopyMove \/ CopyClose \/ CopyDone BY <1>5, CopyPlain
<1>6. CASE RemoveOpen \/ RemoveClose BY <1>6, RemoveTree
<1>7. CASE RemoveDir BY <1>7, RemoveDirTree
<1>8. CASE MkdirCreate BY <1>8, MkdirTree
<1>9. CASE CopyOpenDst BY <1>9, CopyTree
<1>10. CASE RenameSend BY <1>10, RenameTree
<1>11. QED BY <1>2, <1>3, <1>4, <1>5, <1>6, <1>7, <1>8, <1>9, <1>10, Zenon DEF Step

\* What changes neither the tree nor the calls.
LEMMA TreeIdle ==
  ASSUME TreeIInv, UNCHANGED <<tree, lasting, handles, stack, goal>>, ctxDone => ctxDone'
  PROVE  TreeIInv'
BY DEF TreeIInv, IsTree, LastingOK, DeletingOK, FamilyOK, Family, Below, Top

\* Another client does not break the tree, and leaves what Remove has open.
LEMMA OthersTree ==
  ASSUME ShareIInv, TreeIInv, Others, UNCHANGED shareVars
  PROVE  TreeIInv'
<1>0. TreeOK /\ IsTree(tree) /\ LastingOK /\ DeletingOK /\ FamilyOK BY DEF ShareIInv, TreeIInv
<1>1. UNCHANGED <<stack, goal, ctxDone>> BY DEF shareVars
<1>2. PICK p \in Paths : OtherCreates(p) \/ OtherRemoves(p) \/ OtherHolds(p) \/ OtherReleases(p) BY DEF Others
<1>3. ASSUME NEW k \in {"none", "file", "dir"}, Put(p, k, 0), handles' = handles,
             tree[p] # "dir" \/ Children(p) = {}, k # "none" => HasParent(p) \/ tree[p] # "none",
             tree[p] = "none" \/ p \notin handles
      PROVE  TreeIInv'
  <2>1. IsTree(tree)' /\ LastingOK' BY <1>0, <1>3, PutTree
  <2>2. FamilyOK' BY <1>0, <1>1 DEF FamilyOK, Family
  <2>3. ASSUME stack # <<>>, Top.op = "remove", Top.pc = "close", ~ ctxDone
        PROVE  Top.path \in handles' /\ Top.path \in Paths /\ tree'[Top.path] = "file"
    <3>1. Top.path \in handles /\ Top.path \in Paths /\ tree[Top.path] = "file" BY <1>0, <2>3 DEF DeletingOK
    <3>2. Top.path # p BY <1>3, <3>1
    <3>3. QED BY <1>0, <1>3, <3>1, <3>2 DEF Put, TreeOK
  <2>4. DeletingOK' BY <1>0, <1>1, <2>3 DEF DeletingOK, Below, Top
  <2>5. QED BY <2>1, <2>2, <2>4 DEF TreeIInv
<1>4. CASE OtherCreates(p)
  <2>1. PICK k \in {"file", "dir"} : Put(p, k, 0) BY <1>4 DEF OtherCreates
  <2>2. QED BY <1>3, <1>4, <2>1 DEF OtherCreates
<1>5. CASE OtherRemoves(p)
  <2>1. PICK k \in {"none", "file", "dir"} : Put(p, k, 0) BY <1>5 DEF OtherRemoves
  <2>2. QED BY <1>3, <1>5, <2>1 DEF OtherRemoves
<1>6. CASE OtherHolds(p) \/ OtherReleases(p)
  BY <1>1, <1>6, TreeIdle DEF OtherHolds, OtherReleases, history
<1>7. QED BY <1>2, <1>4, <1>5, <1>6

\* What the server does unheard leaves a tree a tree.
LEMMA LostTree ==
  ASSUME ShareIInv, TreeIInv, ReplyLost
  PROVE  TreeIInv'
<1> USE DEF At, Idle, history
<1>0. StackOK /\ TreeOK /\ IsTree(tree) /\ LastingOK /\ DeletingOK /\ FamilyOK BY DEF ShareIInv, TreeIInv
<1>1. UNCHANGED <<stack, goal>> /\ ~ ctxDone /\ ctxDone' BY DEF ReplyLost
<1>2. SUFFICES IsTree(tree)' /\ LastingOK'
  <2>1. FamilyOK' BY <1>0, <1>1 DEF FamilyOK, Family
  <2>2. DeletingOK' BY <1>0, <1>1 DEF DeletingOK, Below
  <2>3. QED BY <1>2, <2>1, <2>2 DEF TreeIInv
<1>3. CASE UNCHANGED <<tree, lasting>> BY <1>0, <1>3 DEF IsTree, LastingOK
<1>4. CASE CreateDirectoryStatus(Top.path) = "none" /\ Put(Top.path, "dir", 0)
  <2>1. HasParent(Top.path) /\ Kind(Top.path) = "none" BY <1>4 DEF CreateDirectoryStatus
  <2>2. Top.path \in Paths => tree[Top.path] = "none" BY <2>1, PathTypes DEF Kind
  <2>3. QED BY <1>0, <1>4, <2>1, <2>2, PutAny
<1>5. CASE OverwriteStatus(Top.to) = "none" /\ Put(Top.to, "file", 0)
  <2>1. HasParent(Top.to) /\ Kind(Top.to) # "dir" BY <1>5 DEF OverwriteStatus
  <2>2. Top.to \in Paths => tree[Top.to] # "dir" BY <2>1, PathTypes DEF Kind
  <2>3. QED BY <1>0, <1>5, <2>1, <2>2, PutAny
<1>6. CASE At("remove", "close") /\ Put(Top.path, "none", 0)
  <2>1. Top.path \in Paths /\ tree[Top.path] = "file" BY <1>0, <1>1, <1>6 DEF DeletingOK
  <2>2. QED BY <1>0, <1>6, <2>1, PutTree
<1>7. CASE DeleteDirectoryStatus(Top.path) = "none" /\ Put(Top.path, "none", 0)
  <2>1. Children(Top.path) = {} BY <1>7 DEF DeleteDirectoryStatus
  <2>2. QED BY <1>0, <1>7, <2>1, PutAny
<1>8. CASE At("rename", "send") /\ RenameStatus(Top.path, Top.to) = "none" /\ Move(Top.path, Top.to)
  <2>1. Top.path \in Paths /\ Top.to \in Paths /\ Below(Top.path) = {Top.path} BY <1>8, RenamePaths
  <2>2. QED BY <1>0, <1>8, <2>1, MoveTree
<1>9. OpenedUnheard => UNCHANGED <<tree, lasting>> \/ (CreateDirectoryStatus(Top.path) = "none" /\ Put(Top.path, "dir", 0))
                        \/ (OverwriteStatus(Top.to) = "none" /\ Put(Top.to, "file", 0))
  BY DEF OpenedUnheard
<1>10. DoneUnheard => \/ UNCHANGED <<tree, lasting>>
                      \/ At("remove", "close") /\ Put(Top.path, "none", 0)
                      \/ DeleteDirectoryStatus(Top.path) = "none" /\ Put(Top.path, "none", 0)
                      \/ At("rename", "send") /\ RenameStatus(Top.path, Top.to) = "none" /\ Move(Top.path, Top.to)
  BY DEF DoneUnheard
<1>11. QED BY <1>3, <1>4, <1>5, <1>6, <1>7, <1>8, <1>9, <1>10, Zenon DEF ReplyLost

\* The calls of the public API.
Kinds == Listings \cup Changers

\* A call begins: what is there has lasted so far.
LEMMA StartTree ==
  ASSUME TreeOK, IsTree(tree), NEW op \in Kinds, NEW pc, NEW path, NEW to, Start(op, pc, path, to), pc # "close",
         op = "rename" => Below(path) = {path}
  PROVE  TreeIInv'
<1>1. PICK f : f = [Frame(op, pc, path) EXCEPT !.to = to] /\ stack' = <<f>> BY Zenon DEF Start
<1>2. f.op = op /\ f.pc = pc /\ f.path = path BY <1>1 DEF Frame
<1>3. Len(stack') = 1 /\ stack'[1] = f /\ Top' = f BY <1>1 DEF Top
<1>4. goal'.op = op /\ tree' = tree /\ lasting' = {p \in Paths : tree[p] # "none"} BY DEF Start, StartHistory
<1>5. IsTree(tree)' BY <1>4 DEF IsTree
<1>6. LastingOK'
  <2> SUFFICES ASSUME NEW p \in Paths, tree[p] # "none", NEW i \in 1 .. Len(p)
               PROVE  Prefix(p, i) \in Paths /\ tree[Prefix(p, i)] # "none"
    BY <1>4 DEF LastingOK
  <2>1. p \in Seq(Nat) /\ Len(p) \in Nat BY PathTypes
  <2>2. CASE i = Len(p)
    <3>1. Prefix(p, i) = p BY <2>1, <2>2 DEF Prefix
    <3>2. QED BY <3>1
  <2>3. CASE i # Len(p)
    <3>1. i \in 1 .. Len(p) - 1 BY <2>1, <2>3
    <3>2. QED BY <3>1 DEF IsTree
  <2>4. QED BY <2>2, <2>3
<1>7. FamilyOK' BY <1>2, <1>3, <1>4 DEF FamilyOK, Family, Kinds, Listings, Changers
<1>8. DeletingOK' BY <1>2, <1>3 DEF DeletingOK, Below
<1>9. QED BY <1>5, <1>6, <1>7, <1>8 DEF TreeIInv

\* The calls of the API.
LEMMA CallsTree ==
  ASSUME ShareIInv, TreeIInv, Calls
  PROVE  TreeIInv'
<1>0. TreeOK /\ IsTree(tree) BY DEF ShareIInv, TreeIInv
<1>1. CASE \E p \in Paths : RemoveCall(p) \/ RemoveAllCall(p) \/ MkdirCall(p) \/ MkdirAllCall(p)
  BY <1>0, <1>1, StartTree DEF RemoveCall, RemoveAllCall, MkdirCall, MkdirAllCall, Kinds, Listings, Changers
<1>2. CASE \E p \in Paths : ReadFileCall(p)
  BY <1>0, <1>2, StartTree DEF ReadFileCall, Kinds, Listings, Changers
<1>3. CASE \E p, q \in Paths : RenameCall(p, q)
  BY <1>0, <1>3, StartTree DEF RenameCall, Kinds, Listings, Changers
<1>4. CASE \E p, q \in Paths \cup {Root} : CopyCall(p, q)
  BY <1>0, <1>4, StartTree DEF CopyCall, Kinds, Listings, Changers
<1>5. CASE \E p \in Paths \cup {Root} : WalkCall(p) \/ DirFSCall(p)
  BY <1>0, <1>5, StartTree DEF WalkCall, DirFSCall, Kinds, Listings, Changers
<1>6. CASE \E pattern \in Patterns : GlobCall(pattern)
  BY <1>0, <1>6, StartTree DEF GlobCall, Kinds, Listings, Changers
<1>7. QED BY <1>1, <1>2, <1>3, <1>4, <1>5, <1>6 DEF Calls

\* A tree in which everything has its directory is one.
LEMMA TreeInitially ==
  Init => TreeIInv
<1> SUFFICES ASSUME Init PROVE TreeIInv OBVIOUS
<1>1. stack = <<>> /\ lasting = {} /\ \A p \in Paths : tree[p] # "none" => HasParent(p) BY DEF Init, TreeInit
<1>2. ASSUME NEW p \in Paths, tree[p] # "none", NEW j \in 1 .. Len(p) - 1
      PROVE  Prefix(p, j) \in Paths /\ tree[Prefix(p, j)] = "dir"
  <2>1. p \in Seq(Nat) /\ Len(p) \in Nat /\ Len(p) > 0 BY PathTypes
  <2>2. ASSUME NEW q \in Paths, tree[q] # "none", Len(q) > 1
        PROVE  Front(q) \in Paths /\ tree[Front(q)] = "dir"
    <3>1. Front(q) \in Paths /\ Front(q) # Root BY <2>2, PathTypes
    <3>2. QED BY <1>1, <2>2, <3>1 DEF HasParent, Kind
  <2> DEFINE Bad == {d \in 1 .. Len(p) - 1 : ~(Prefix(p, Len(p) - d) \in Paths /\ tree[Prefix(p, Len(p) - d)] = "dir")}
  <2>3. Bad = {}
    <3> SUFFICES ASSUME Bad # {} PROVE FALSE OBVIOUS
    <3>1. Bad \subseteq Nat BY <2>1
    <3>2. PICK d \in Bad : \A e \in Bad : d <= e
      <4> HIDE DEF Bad
      <4>1. QED BY <3>1, LeastNumber
    <3>3. d \in 1 .. Len(p) - 1 /\ ~(Prefix(p, Len(p) - d) \in Paths /\ tree[Prefix(p, Len(p) - d)] = "dir")
      BY <3>2
    <3>4. PICK q : q = Prefix(p, Len(p) - d + 1) OBVIOUS
    <3>5. q \in Paths /\ tree[q] # "none"
      <4>1. CASE d = 1
        <5>1. Len(p) - d + 1 = Len(p) BY <2>1, <4>1
        <5>2. q = p BY <2>1, <3>4, <5>1 DEF Prefix
        <5>3. QED BY <1>2, <5>2
      <4>2. CASE d # 1
        <5>1. d - 1 \in 1 .. Len(p) - 1 /\ ~(d <= d - 1) /\ Len(p) - (d - 1) = Len(p) - d + 1
          BY <2>1, <3>3, <4>2
        <5>2. d - 1 \notin Bad BY <3>2, <5>1
        <5>3. QED BY <3>4, <5>1, <5>2
      <4>3. QED BY <4>1, <4>2
    <3>6. Len(p) - d + 1 \in 0 .. Len(p) /\ Len(p) - d + 1 > 1 /\ Len(p) - d \in 0 .. Len(p) - d + 1
          /\ Len(p) - d + 1 - 1 = Len(p) - d
      BY <2>1, <3>3
    <3>7. Len(q) = Len(p) - d + 1 BY <2>1, <3>4, <3>6, PrefixNames
    <3>8. Front(q) \in Paths /\ tree[Front(q)] = "dir" BY <2>2, <3>5, <3>6, <3>7
    <3>9. Front(q) = Prefix(p, Len(p) - d) BY <2>1, <3>4, <3>6, <3>7 DEF Front, Prefix
    <3>10. QED BY <3>3, <3>8, <3>9
  <2>4. Len(p) - j \in 1 .. Len(p) - 1 /\ Len(p) - (Len(p) - j) = j BY <2>1
  <2>5. QED BY <2>3, <2>4
<1>3. IsTree(tree) BY <1>2 DEF IsTree
<1>4. Len(stack) = 0 BY <1>1
<1>5. QED BY <1>1, <1>3, <1>4 DEF TreeIInv, LastingOK, DeletingOK, FamilyOK

\* Which operation the innermost call belongs to.
LEMMA ListerOps ==
  ASSUME StackOK, stack # <<>>, TreeIInv
  PROVE  /\ Top.op \in Family(goal.op)
         /\ Top.op \in {"walk", "visit"} => goal.op = "walk"
         /\ Top.op \in {"glob", "globDir"} => goal.op = "glob"
         /\ Top.op = "dirFS" => goal.op = "dirFS"
         /\ Top.op \in Changers => goal.op \notin Listings
<1>1. Len(stack) \in 1 .. Len(stack) BY StackFacts DEF Depth
<1>2. Top.op \in Family(goal.op) BY <1>1 DEF TreeIInv, FamilyOK, Top
<1>3. QED BY <1>2 DEF Family, Changers, Listings

\* A step of a listing leaves the tree alone, and makes only the calls it makes.
LEMMA ListingTree ==
  ASSUME StackOK, stack # <<>>, TreeIInv, goal.op \in Listings, StepTo(Family(goal.op), Family(goal.op)),
         UNCHANGED <<tree, lasting, goal>>
  PROVE  TreeIInv'
<1>1. Depth \in Nat /\ Depth > 0 /\ Len(stack') \in Nat /\ Depth = Len(stack)
  BY StackFacts DEF StackOK, StepTo, Depth
<1>2. StackOK' /\ Len(stack') \in {Depth - 1, Depth, Depth + 1} /\ \A i \in 1 .. Depth - 1 : stack'[i] = stack[i]
  BY DEF Reshaped, StepTo
<1>3. ASSUME NEW i \in 1 .. Len(stack') PROVE stack'[i].op \in Family(goal.op)
  <2>1. i < Depth \/ i = Depth \/ i = Depth + 1 BY <1>1, <1>2
  <2>2. CASE i < Depth
    <3>1. i \in 1 .. Depth - 1 /\ i \in 1 .. Len(stack) BY <1>1, <2>2
    <3>2. QED BY <1>2, <3>1 DEF TreeIInv, FamilyOK
  <2>3. CASE i = Depth BY <1>1, <2>3 DEF StepTo
  <2>4. CASE i = Depth + 1 BY <1>1, <2>4 DEF StepTo
  <2>5. QED BY <2>1, <2>2, <2>3, <2>4
<1>4. FamilyOK' BY <1>3 DEF FamilyOK, Family
<1>5. \A i \in 1 .. Len(stack') : stack'[i].op \notin {"rename", "remove"}
  BY <1>3 DEF Family, Listings
<1>6. DeletingOK'
  <2>1. stack' # <<>> => Len(stack') \in 1 .. Len(stack') BY <1>1, <1>2 DEF StackOK
  <2>2. \A i \in 1 .. Len(stack') - 1 : i \in 1 .. Len(stack') BY <1>1
  <2>3. QED BY <1>5, <2>1, <2>2 DEF DeletingOK, Top
<1>7. IsTree(tree)' /\ LastingOK' BY DEF TreeIInv, IsTree, LastingOK
<1>8. QED BY <1>4, <1>6, <1>7 DEF TreeIInv

\* A step of Walk, Glob or a paged listing.
LEMMA ListerTree ==
  ASSUME ShareIInv, TreeIInv,
         \/ WalkStat \/ WalkStatted \/ WalkEnd \/ VisitFn \/ VisitListed \/ VisitEntry
         \/ GlobBegin \/ GlobLiteral \/ GlobDirs \/ GlobGather \/ GlobDirStep
         \/ DirFSLoad \/ DirFSLoaded \/ DirFSPage
  PROVE  TreeIInv'
<1> USE DEF noTree, noWalk, noCall, treeVars, At, Idle, Ask
<1> DEFINE F == Family(goal.op)
<1>0. StackOK BY DEF ShareIInv
<1>1. CASE WalkStat \/ WalkStatted \/ WalkEnd \/ VisitFn \/ VisitListed \/ VisitEntry
  <2>1. stack # <<>> /\ Top.op \in {"walk", "visit"} /\ UNCHANGED <<tree, lasting, goal>>
    BY <1>1 DEF WalkStat, WalkStatted, WalkEnd, VisitFn, VisitListed, VisitEntry
  <2>2. goal.op = "walk" /\ Top.op \in F BY <1>0, <2>1, ListerOps
  <2>3. "visit" \in F /\ "stat" \in F /\ "readDir" \in F /\ goal.op \in Listings BY <2>2 DEF Family, Listings
  <2>4. SUFFICES StepTo(F, F) BY <1>0, <2>1, <2>3, ListingTree
  <2> HIDE DEF F
  <2>5. \/ \E r : Return(r)
        \/ \E a, p, d : Call([Top EXCEPT !.pc = a], [Frame("visit", "fn", p) EXCEPT !.dir = d])
        \/ \E a, p : Call([Top EXCEPT !.pc = a], Frame("stat", "basic", p))
        \/ \E a, p : Call([Top EXCEPT !.pc = a], Frame("readDir", "first", p))
        \/ \E a, b, p, d : Call([Top EXCEPT !.todo = a, !.n = b], [Frame("visit", "fn", p) EXCEPT !.dir = d])
        \/ \E a, b : Become([Top EXCEPT !.pc = a, !.todo = b])
    BY <1>1 DEF WalkStat, WalkStatted, WalkEnd, VisitFn, VisitListed, VisitEntry
  <2>6. QED BY <1>0, <2>1, <2>2, <2>3, <2>5, CallsTo, ReturnsTo, KeepsTo, FrameFacts, TopFacts, Zenon
<1>2. CASE GlobBegin \/ GlobLiteral \/ GlobDirs \/ GlobGather \/ GlobDirStep
  <2>1. stack # <<>> /\ Top.op \in {"glob", "globDir"} /\ UNCHANGED <<tree, lasting, goal>>
    BY <1>2 DEF GlobBegin, GlobLiteral, GlobDirs, GlobGather, GlobDirStep, GlobDir
  <2>2. goal.op = "glob" /\ Top.op \in F BY <1>0, <2>1, ListerOps
  <2>3. "glob" \in F /\ "globDir" \in F /\ "stat" \in F /\ "readDir" \in F /\ goal.op \in Listings
    BY <2>2 DEF Family, Listings
  <2>4. SUFFICES StepTo(F, F) BY <1>0, <2>1, <2>3, ListingTree
  <2> HIDE DEF F
  <2>5. \/ \E r : Return(r)
        \/ \E a, p : Call([Top EXCEPT !.pc = a], Frame("stat", "basic", p))
        \/ \E a, p : Call([Top EXCEPT !.pc = a], Frame("readDir", "first", p))
        \/ \E p, q : Become([Frame("globDir", "begin", p) EXCEPT !.to = q])
        \/ \E a, p : Call([Top EXCEPT !.pc = a], [Frame("glob", "begin", Root) EXCEPT !.to = p])
        \/ \E a, b : Become([Top EXCEPT !.pc = a, !.paths = b])
        \/ \E a, p, q : Call([Top EXCEPT !.paths = a], [Frame("globDir", "begin", p) EXCEPT !.to = q])
    <3>1. CASE GlobBegin \/ GlobLiteral \/ GlobDirs \/ GlobGather
      BY <3>1 DEF GlobBegin, GlobLiteral, GlobDirs, GlobGather, GlobFrame
    <3>2. CASE GlobDirStep BY <3>2 DEF GlobDirStep, GlobDir
    <3>3. QED BY <1>2, <3>1, <3>2
  <2>6. QED BY <1>0, <2>1, <2>2, <2>3, <2>5, CallsTo, ReturnsTo, KeepsTo, FrameFacts, TopFacts, Zenon
<1>3. CASE DirFSLoad \/ DirFSLoaded \/ DirFSPage
  <2>1. stack # <<>> /\ Top.op = "dirFS" /\ UNCHANGED <<tree, lasting, goal>>
    BY <1>3 DEF DirFSLoad, DirFSLoaded, DirFSPage
  <2>2. goal.op = "dirFS" /\ Top.op \in F BY <1>0, <2>1, ListerOps
  <2>3. "readDir" \in F /\ goal.op \in Listings BY <2>2 DEF Family, Listings
  <2>4. SUFFICES StepTo(F, F) BY <1>0, <2>1, <2>3, ListingTree
  <2> HIDE DEF F
  <2>5. \/ \E r : Return(r)
        \/ \E a, p : Call([Top EXCEPT !.pc = a], Frame("readDir", "first", p))
        \/ \E a, b : Become([Top EXCEPT !.pc = a, !.paths = b])
        \/ \E a : Become([Top EXCEPT !.n = a])
    BY <1>3 DEF DirFSLoad, DirFSLoaded, DirFSPage
  <2>6. QED BY <1>0, <2>1, <2>2, <2>3, <2>5, CallsTo, ReturnsTo, KeepsTo, FrameFacts, TopFacts, Zenon
<1>4. QED BY <1>1, <1>2, <1>3

\* Stat, ReadDir and requests that fail, inside a listing.
LEMMA RequestTree ==
  ASSUME ShareIInv, TreeIInv, goal.op \in Listings,
         StatBasic \/ StatStandard \/ Find \/ RequestRefused \/ RequestDenied
  PROVE  TreeIInv'
<1> USE DEF noTree, noWalk, noCall, treeVars, history, Answered, At, Idle, Requesting
<1> DEFINE F == Family(goal.op)
<1>0. StackOK BY DEF ShareIInv
<1>1. stack # <<>> /\ UNCHANGED <<tree, lasting, goal>>
  BY DEF StatBasic, StatStandard, Find, RequestRefused, RequestDenied
<1>2. Top.op \in F /\ Top.op \notin Changers BY <1>0, <1>1, ListerOps
<1>3. SUFFICES StepTo(F, F) BY <1>0, <1>1, ListingTree
<1> HIDE DEF F
<1>4. CASE StatBasic \/ StatStandard
  <2>1. \/ \E r : Return(r)
        \/ \E b : Become([Top EXCEPT !.pc = "standard", !.dir = b])
    BY <1>4 DEF StatBasic, StatStandard
  <2>2. \A b : IsFrame([Top EXCEPT !.pc = "standard", !.dir = b], F)
    BY <1>0, <1>1, <1>2, StackFacts DEF Fields, IsFrame
  <2>3. QED BY <1>0, <1>1, <2>1, <2>2, ReturnsTo, KeepsTo, Zenon
<1>5. CASE Find
  <2>1. \/ \E r : Return(r)
        \/ \E a, b : Become([Top EXCEPT !.pc = "next", !.todo = a, !.seen = b])
    BY <1>5 DEF Find
  <2>2. \A a, b : IsFrame([Top EXCEPT !.pc = "next", !.todo = a, !.seen = b], F)
    BY <1>0, <1>1, <1>2, StackFacts DEF Fields, IsFrame
  <2>3. QED BY <1>0, <1>1, <2>1, <2>2, ReturnsTo, KeepsTo, Zenon
<1>6. CASE RequestRefused \/ RequestDenied
  <2>1. Top.op # "copy" BY <1>2 DEF Changers
  <2>2. \E r : Return(r) BY <1>6, <2>1 DEF RequestRefused, RequestDenied, FailWith
  <2>3. QED BY <1>0, <1>1, <2>2, ReturnsTo
<1>7. QED BY <1>4, <1>5, <1>6

\* A step of an operation that only lists.
LEMMA ListingSteps ==
  ASSUME ShareIInv, TreeIInv, goal.op \in Listings, Step \/ RequestDenied
  PROVE  /\ stack # <<>>
         /\ \/ StatBasic \/ StatStandard \/ Find \/ RequestRefused \/ RequestDenied
            \/ WalkStat \/ WalkStatted \/ WalkEnd \/ VisitFn \/ VisitListed \/ VisitEntry
            \/ GlobBegin \/ GlobLiteral \/ GlobDirs \/ GlobGather \/ GlobDirStep
            \/ DirFSLoad \/ DirFSLoaded \/ DirFSPage
<1>0. StackOK BY DEF ShareIInv
<1> USE DEF Answered, At, Idle, Ask
<1>1. ASSUME RequestRefused \/ RequestDenied \/ StatBasic \/ StatStandard \/ Find PROVE stack # <<>>
  BY <1>1 DEF RequestRefused, RequestDenied, StatBasic, StatStandard, Find, Requesting
<1>2. ASSUME \/ WalkStat \/ WalkStatted \/ WalkEnd \/ VisitFn \/ VisitListed \/ VisitEntry
             \/ GlobBegin \/ GlobLiteral \/ GlobDirs \/ GlobGather \/ GlobDirStep
             \/ DirFSLoad \/ DirFSLoaded \/ DirFSPage
      PROVE  stack # <<>>
  BY <1>2 DEF WalkStat, WalkStatted, WalkEnd, VisitFn, VisitListed, VisitEntry, GlobBegin, GlobLiteral,
         GlobDirs, GlobGather, GlobDirStep, GlobDir, DirFSLoad, DirFSLoaded, DirFSPage
<1>3. ASSUME \/ RemoveStat \/ RemoveKind \/ RemoveOpen \/ RemoveClose \/ RemoveDir \/ RemoveDirSleep
             \/ RemoveAllExists \/ RemoveAllIsDir \/ RemoveAllList \/ RemoveAllListed \/ RemoveAllChild
      PROVE  stack # <<>> /\ Top.op \in Changers
  BY <1>3 DEF RemoveStat, RemoveKind, RemoveOpen, RemoveClose, RemoveDir, RemoveDirSleep,
         RemoveAllExists, RemoveAllIsDir, RemoveAllList, RemoveAllListed, RemoveAllChild, Changers
<1>4. ASSUME \/ MkdirCreate \/ MkdirClose \/ MkdirAllNext \/ RenameSend
             \/ CopyOpenSrc \/ CopyStatted \/ CopyOpenDst \/ CopyMove \/ CopyClose \/ CopyDone
      PROVE  stack # <<>> /\ Top.op \in Changers
  BY <1>4 DEF MkdirCreate, MkdirClose, MkdirAllNext, RenameSend,
         CopyOpenSrc, CopyStatted, CopyOpenDst, CopyMove, CopyClose, CopyDone, Changers
<1>5. stack # <<>> => Top.op \notin Changers BY <1>0, ListerOps
<1>6. QED BY <1>1, <1>2, <1>3, <1>4, <1>5, Zenon DEF Step

\* The tree under every operation.
LEMMA TreeSteps ==
  ASSUME ShareIInv, TreeIInv, [Next]_vars
  PROVE  TreeIInv'
<1>1. CASE UNCHANGED vars BY <1>1, TreeIdle DEF vars, treeVars, shareVars
<1>2. CASE Calls BY <1>2, CallsTree
<1>3. CASE Step \/ RequestDenied
  <2>1. CASE goal.op \notin Listings BY <1>3, <2>1, ChangerTree
  <2>2. CASE goal.op \in Listings BY <1>3, <2>2, ListingSteps, ListerTree, RequestTree, Zenon
  <2>3. QED BY <2>1, <2>2
<1>4. CASE Others /\ ~ Idle /\ UNCHANGED shareVars BY <1>4, OthersTree
<1>5. CASE EndContext BY <1>5, TreeIdle DEF EndContext, noTree, treeVars
<1>6. CASE ReplyLost BY <1>6, LostTree
<1>7. QED BY <1>1, <1>2, <1>3, <1>4, <1>5, <1>6 DEF Next, Environment

-----------------------------------------------------------------------------
(* What the calls of a listing know: which call waits for which, and what  *)
(* ReadDir and Stat have said.                                             *)

\* What is known of Glob is known as long as no request has failed.
Live == goal.op \in Listings /\ (goal.op = "glob" => faulted = {})

\* f waits for g.
Caller(f, g) ==
    \/ f.op = "walk" /\ f.pc = "statted" /\ g.op = "stat" /\ g.path = f.path
    \/ f.op = "walk" /\ f.pc = "end" /\ g.op = "visit" /\ g.path = f.path
    \/ f.op = "visit" /\ f.pc = "listed" /\ g.op = "readDir" /\ g.path = f.path
    \/ f.op = "visit" /\ f.pc = "entries" /\ g.op = "visit" /\ Child(g.path, f.path)
    \/ f.op = "glob" /\ f.pc = "literal" /\ g.op = "stat" /\ g.path = PathOf(f.to)
    \/ f.op = "glob" /\ f.pc = "dirs" /\ g.op \in {"glob", "globDir"} /\ g.to = Front(f.to)
    \/ f.op = "glob" /\ f.pc = "gather" /\ g.op = "globDir" /\ g.to = f.to
    \/ f.op = "globDir" /\ f.pc = "statted" /\ g.op = "stat" /\ g.path = f.path
    \/ f.op = "globDir" /\ f.pc = "listed" /\ g.op = "readDir" /\ g.path = f.path
    \/ f.op = "dirFS" /\ f.pc = "loaded" /\ g.op = "readDir" /\ g.path = f.path

Asking == {"stat", "readDir"}

CallersOK ==
    /\ stack # <<>> => stack[1].op \notin Asking
    /\ \A i \in 1 .. Len(stack) - 1 : Caller(stack[i], stack[i + 1])

PathsOK == \A i \in 1 .. Len(stack) : stack[i].path \in Seq(Nat)

\* The entries of p have been there, each is listed once, and what has lasted
\* below one was below a directory.
EntriesOK(p, l) ==
    /\ l \in Seq([path : Paths, dir : BOOLEAN])
    /\ \A k \in 1 .. Len(l) : Child(l[k].path, p) /\ l[k].path \in present
    /\ \A k, m \in 1 .. Len(l) : k # m => l[k].path # l[m].path
    /\ \A k \in 1 .. Len(l), q \in lasting : Above(l[k].path, q) => l[k].dir

ListsAll(p, l) == \A q \in lasting : Child(q, p) => \E k \in 1 .. Len(l) : l[k].path = q

Named(l) == {l[k].path : k \in 1 .. Len(l)}

\* ReadDir, between two batches, remembers what it has gathered.
ReadingOK ==
    stack # <<>> /\ Top.op = "readDir" =>
        /\ EntriesOK(Top.path, Top.todo)
        /\ Top.seen = Named(Top.todo)

\* A call that has asked ReadDir is told all that lasted in a directory, and told
\* of no error, unless a request failed, while something lasted in it.
ListSaid ==
    stack # <<>> /\ Top.pc \in {"listed", "loaded"} =>
        /\ ret.err \in {"none", "notFound", "denied", "ctx"}
        /\ ret.err = "none" => EntriesOK(Top.path, ret.list) /\ ListsAll(Top.path, ret.list)
        /\ ret.err # "none" /\ faulted = {} => \A q \in lasting : ~ Above(Top.path, q)

Asked(f) == IF f.op = "glob" THEN PathOf(f.to) ELSE f.path

\* A call that has asked Stat is told what has been there, and of a directory
\* where something lasted.
StatSaid ==
    stack # <<>> /\ Top.pc \in {"statted", "literal"} =>
        /\ ret.err = "none" =>
              /\ Asked(Top) # Root => Asked(Top) \in present
              /\ ret.dir \in BOOLEAN /\ (~ ret.dir => \A q \in lasting : ~ Above(Asked(Top), q))
        /\ ret.err # "none" /\ faulted = {} => Asked(Top) \notin lasting /\ \A q \in lasting : ~ Above(Asked(Top), q)

SaidOK == CallersOK /\ PathsOK /\ ReadingOK /\ ListSaid /\ StatSaid

\* Who waits for whom, read from both ends.
LEMMA CallerMeans ==
  ASSUME NEW f, NEW g, Caller(f, g)
  PROVE  /\ f.op \notin Asking
         /\ f.pc \in {"listed", "loaded"} <=> g.op = "readDir"
         /\ f.pc \in {"statted", "literal"} <=> g.op = "stat"
         /\ g.op = "readDir" => g.path = f.path
         /\ g.op = "stat" => g.path = Asked(f)
BY DEF Caller, Asking, Asked

\* A call that begins.
Fresh(g) ==
    /\ g.op \in {"stat", "readDir", "visit", "glob", "globDir"}
    /\ g.pc \in {"basic", "first", "fn", "begin"}
    /\ g.todo = <<>> /\ g.seen = {} /\ g.path \in Seq(Nat)

\* The innermost call goes on as f, for those that wait for it.
Stands(f) ==
    /\ f.op \notin Asking /\ f.path \in Seq(Nat)
    /\ \A e : Caller(e, Top) => Caller(e, f)

\* The calls around the innermost one, after a step.
LEMMA AroundStep ==
  ASSUME StackOK, StackOK', stack # <<>>, Reshaped, CallersOK, PathsOK,
         Len(stack') >= Depth => stack'[Depth].path \in Seq(Nat) /\ \A e : Caller(e, Top) => Caller(e, stack'[Depth]),
         Depth = 1 /\ Len(stack') >= Depth => stack'[Depth].op \notin Asking,
         Len(stack') > Depth => stack'[Depth + 1].path \in Seq(Nat) /\ Caller(stack'[Depth], stack'[Depth + 1])
  PROVE  CallersOK' /\ PathsOK'
<1>1. Depth \in Nat /\ Depth > 0 /\ Len(stack') \in Nat /\ Depth = Len(stack) /\ Top = stack[Depth]
  BY StackFacts DEF StackOK, Depth, Top
<1>2. Len(stack') \in {Depth - 1, Depth, Depth + 1} /\ \A i \in 1 .. Depth - 1 : stack'[i] = stack[i]
  BY DEF Reshaped
<1>3. ASSUME NEW i \in 1 .. Len(stack') PROVE stack'[i].path \in Seq(Nat)
  <2>1. i < Depth \/ i = Depth \/ i = Depth + 1 BY <1>1, <1>2
  <2>2. CASE i < Depth
    <3>1. i \in 1 .. Depth - 1 /\ i \in 1 .. Len(stack) BY <1>1, <2>2
    <3>2. QED BY <1>2, <3>1 DEF PathsOK
  <2>3. QED BY <1>1, <2>1, <2>2
<1>4. ASSUME NEW i \in 1 .. Len(stack') - 1 PROVE Caller(stack'[i], stack'[i + 1])
  <2>1. i < Depth - 1 \/ i = Depth - 1 \/ i = Depth BY <1>1, <1>2
  <2>2. CASE i < Depth - 1
    <3>1. i \in 1 .. Depth - 1 /\ i + 1 \in 1 .. Depth - 1 /\ i \in 1 .. Len(stack) - 1 BY <1>1, <2>2
    <3>2. QED BY <1>2, <3>1 DEF CallersOK
  <2>3. CASE i = Depth - 1
    <3>1. i \in 1 .. Depth - 1 /\ i + 1 = Depth /\ i \in 1 .. Len(stack) - 1 /\ Len(stack') >= Depth
      BY <1>1, <2>3
    <3>2. Caller(stack[i], Top) BY <1>1, <3>1 DEF CallersOK
    <3>3. QED BY <1>2, <3>1, <3>2
  <2>4. CASE i = Depth
    <3>1. Len(stack') > Depth BY <1>1, <2>4
    <3>2. QED BY <2>4, <3>1
  <2>5. QED BY <2>1, <2>2, <2>3, <2>4
<1>5. stack' # <<>> => stack'[1].op \notin Asking
  <2>1. CASE Depth = 1
    <3>1. stack' # <<>> => Len(stack') >= Depth BY <1>1, <2>1 DEF StackOK
    <3>2. QED BY <2>1, <3>1
  <2>2. CASE Depth # 1
    <3>1. 1 \in 1 .. Depth - 1 BY <1>1, <2>2
    <3>2. QED BY <1>2, <3>1 DEF CallersOK
  <2>3. QED BY <2>1, <2>2
<1>6. PathsOK' BY <1>3 DEF PathsOK
<1>7. CallersOK' BY <1>4, <1>5 DEF CallersOK, Caller, Child, PathOf
<1>8. QED BY <1>6, <1>7

\* The innermost call after a return.
LEMMA ReturnTop ==
  ASSUME StackOK, stack # <<>>, Popped, CallersOK
  PROVE  /\ Depth \in Nat /\ Depth > 0
         /\ stack' = <<>> <=> Depth = 1
         /\ stack' # <<>> => /\ Depth > 1 /\ Depth - 1 \in 1 .. Depth - 1
                             /\ Top' = stack[Depth - 1] /\ Caller(Top', Top)
<1>1. Depth \in Nat /\ Depth > 0 /\ Depth = Len(stack) /\ Top = stack[Depth] BY StackFacts DEF Depth, Top
<1>2. Len(stack') = Depth - 1 /\ (stack' = <<>> <=> Len(stack') = 0) /\ \A i \in 1 .. Depth - 1 : stack'[i] = stack[i]
  <2>1. stack' \in Seq(Range(stack')) BY DEF Popped, StackOK
  <2>2. stack' = <<>> <=> Len(stack') = 0 BY <2>1
  <2>3. QED BY <2>2 DEF Popped, Reshaped
<1>3. ASSUME Depth # 1
      PROVE  Depth > 1 /\ Depth - 1 \in 1 .. Depth - 1 /\ Top' = stack[Depth - 1] /\ Caller(Top', Top)
  <2>1. Depth > 1 /\ Depth - 1 \in 1 .. Depth - 1 /\ Depth - 1 + 1 = Depth BY <1>1, <1>3
  <2>2. Top' = stack[Depth - 1] BY <1>2, <2>1 DEF Top
  <2>3. Caller(stack[Depth - 1], stack[Depth - 1 + 1]) BY <1>1, <2>1 DEF CallersOK
  <2>4. QED BY <1>1, <2>1, <2>2, <2>3
<1>4. QED BY <1>1, <1>2, <1>3

\* The innermost call after a call of another one, or after it has gone on.
LEMMA NewTop ==
  ASSUME StackOK, stack # <<>>
  PROVE  /\ \A f, g : Pushed(f, g) => stack' # <<>> /\ Top' = g
         /\ \A f : Kept(f) => stack' # <<>> /\ Top' = f
BY StackFacts DEF Pushed, Kept, StackOK, Top, Depth

\* A step of a call that is not Stat or ReadDir.
LEMMA SaidStep ==
  ASSUME StackOK, stack # <<>>, SaidOK, Top.op \notin Asking,
         \/ Popped
         \/ \E f : Kept(f) /\ Stands(f) /\ f.pc \notin {"listed", "loaded", "statted", "literal"}
         \/ \E f, g : Pushed(f, g) /\ Stands(f) /\ Caller(f, g) /\ Fresh(g)
  PROVE  SaidOK'
<1>0. CallersOK /\ PathsOK BY DEF SaidOK
<1>1. Depth \in Nat /\ Depth > 0 BY StackFacts
<1>2. CASE Popped
  <2>1. CallersOK' /\ PathsOK' BY <1>0, <1>1, <1>2, AroundStep DEF Popped
  <2>2. stack' # <<>> => Caller(Top', Top) BY <1>0, <1>2, ReturnTop
  <2>3. stack' # <<>> => /\ Top'.op # "readDir"
                         /\ Top'.pc \notin {"listed", "loaded", "statted", "literal"}
    <3> SUFFICES ASSUME Caller(Top', Top)
                 PROVE  Top'.op # "readDir" /\ Top'.pc \notin {"listed", "loaded", "statted", "literal"}
      BY <2>2
    <3>1. QED BY CallerMeans DEF Asking
  <2>4. ReadingOK' /\ ListSaid' /\ StatSaid' BY <2>3 DEF ReadingOK, ListSaid, StatSaid
  <2>5. QED BY <2>1, <2>4 DEF SaidOK
<1>3. ASSUME NEW f, Kept(f), Stands(f), f.pc \notin {"listed", "loaded", "statted", "literal"} PROVE SaidOK'
  <2>1. StackOK' /\ Reshaped /\ Len(stack') = Depth /\ stack'[Depth] = f BY <1>3 DEF Kept
  <2>2. CallersOK' /\ PathsOK' BY <1>0, <1>1, <1>3, <2>1, AroundStep DEF Stands
  <2>3. Top' = f BY <1>3, NewTop
  <2>4. f.op # "readDir" BY <1>3 DEF Stands, Asking
  <2>5. ReadingOK' /\ ListSaid' /\ StatSaid' BY <1>3, <2>3, <2>4 DEF ReadingOK, ListSaid, StatSaid
  <2>6. QED BY <2>2, <2>5 DEF SaidOK
<1>4. ASSUME NEW f, NEW g, Pushed(f, g), Stands(f), Caller(f, g), Fresh(g) PROVE SaidOK'
  <2>1. StackOK' /\ Reshaped /\ Len(stack') = Depth + 1 /\ stack'[Depth] = f /\ stack'[Depth + 1] = g
    BY <1>4 DEF Pushed
  <2>2. CallersOK' /\ PathsOK' BY <1>0, <1>1, <1>4, <2>1, AroundStep DEF Stands, Fresh
  <2>3. Top' = g BY <1>4, NewTop
  <2>4. g.pc \notin {"listed", "loaded", "statted", "literal"} BY <1>4 DEF Fresh
  <2>5. ReadingOK'
    <3>1. PICK l : l = g.todo OBVIOUS
    <3>2. l = <<>> /\ l \in Seq([path : Paths, dir : BOOLEAN]) /\ Len(l) = 0 BY <1>4, <3>1 DEF Fresh
    <3>3. EntriesOK(g.path, l)' BY <3>2 DEF EntriesOK
    <3>4. g.seen = Named(l) BY <1>4, <3>2 DEF Fresh, Named
    <3>5. QED BY <2>3, <3>1, <3>3, <3>4 DEF ReadingOK, Named
  <2>6. ListSaid' /\ StatSaid' BY <2>3, <2>4 DEF ListSaid, StatSaid
  <2>7. QED BY <2>2, <2>5, <2>6 DEF SaidOK
<1>5. QED BY <1>2, <1>3, <1>4

-----------------------------------------------------------------------------
(* What Stat and ReadDir say.                                              *)

\* What is no directory now has nothing that lasted below it.
LEMMA NothingLasts ==
  ASSUME TreeIInv, NEW p \in Seq(Nat), Kind(p) # "dir"
  PROVE  /\ \A q \in lasting : ~ Above(p, q)
         /\ Kind(p) = "none" => p \notin lasting
<1>0. IsTree(tree) /\ LastingOK BY DEF TreeIInv
<1>1. p # Root BY DEF Kind
<1>2. Len(p) \in Nat /\ Len(p) > 0 BY <1>1 DEF Root
<1>3. ASSUME NEW q \in lasting, Above(p, q) PROVE FALSE
  <2>1. q \in Paths /\ tree[q] # "none" BY <1>0 DEF LastingOK
  <2>2. q \in Seq(Nat) /\ Len(q) \in Nat BY <2>1, PathTypes
  <2>3. Prefix(q, Len(p)) = p /\ Len(p) \in 1 .. Len(q) - 1 BY <1>2, <1>3, <2>2, PrefixIs DEF Above
  <2>4. p \in Paths /\ tree[p] = "dir" BY <1>0, <2>1, <2>3 DEF IsTree
  <2>5. QED BY <2>4 DEF Kind
<1>4. Kind(p) = "none" => p \notin lasting BY <1>0, <1>1 DEF LastingOK, Kind
<1>5. QED BY <1>3, <1>4

\* The calls around Stat and ReadDir, when they go on.
LEMMA AskingStands ==
  ASSUME NEW f, Top.op \in Asking, f.op = Top.op, f.path = Top.path
  PROVE  \A e : Caller(e, Top) => Caller(e, f)
BY DEF Caller, Asking

\* Stat, called by a listing.
LEMMA StatTells ==
  ASSUME ShareIInv, TreeIInv, SaidOK, StatBasic \/ StatStandard
  PROVE  SaidOK'
<1> USE DEF noTree, noWalk, noCall, treeVars, Answered, At, Idle
<1>0. StackOK /\ TreeOK /\ CallersOK /\ PathsOK BY DEF ShareIInv, SaidOK
<1>1. stack # <<>> /\ Top.op = "stat" /\ Top.op \in Asking BY DEF StatBasic, StatStandard, Asking
<1>2. UNCHANGED <<tree, lasting, present, faulted>> BY DEF StatBasic, StatStandard
<1>3. Depth \in Nat /\ Depth > 0 /\ Depth = Len(stack) BY <1>0, <1>1, StackFacts DEF Depth
<1>4. Top.path \in Seq(Nat) BY <1>0, <1>3 DEF PathsOK, Top
<1>5. Depth # 1 BY <1>0, <1>1 DEF CallersOK, Top, Depth
<1>6. CASE \E b : Become([Top EXCEPT !.pc = "standard", !.dir = b])
  <2>1. PICK b, f : f = [Top EXCEPT !.pc = "standard", !.dir = b] /\ Become(f) BY <1>6, Zenon
  <2>2. DOMAIN f = Fields /\ f.op = "stat" /\ f.path = Top.path /\ f.pc = "standard"
    BY <1>0, <1>1, <2>1, StackFacts DEF Fields
  <2>3. Kept(f) BY <1>0, <1>1, <2>1, <2>2, BecomeStep
  <2>4. CallersOK' /\ PathsOK'
    BY <1>0, <1>1, <1>3, <1>4, <1>5, <2>2, <2>3, AskingStands, AroundStep DEF Kept
  <2>5. Top' = f BY <1>0, <1>1, <2>3, NewTop
  <2>6. ReadingOK' /\ ListSaid' /\ StatSaid' BY <2>2, <2>5 DEF ReadingOK, ListSaid, StatSaid
  <2>7. QED BY <2>4, <2>6 DEF SaidOK
<1>7. ASSUME NEW r, Return(r),
             r.err = "none" => /\ Top.path # Root => Top.path \in present
                               /\ r.dir \in BOOLEAN /\ (~ r.dir => \A q \in lasting : ~ Above(Top.path, q)),
             r.err # "none" => Top.path \notin lasting /\ \A q \in lasting : ~ Above(Top.path, q)
      PROVE  SaidOK'
  <2>1. Popped /\ ret' = r BY <1>0, <1>1, <1>7, ReturnStep
  <2>2. CallersOK' /\ PathsOK' BY <1>0, <1>1, <1>3, <2>1, AroundStep DEF Popped
  <2>3. stack' # <<>> /\ Caller(Top', Top) BY <1>0, <1>1, <1>5, <2>1, ReturnTop
  <2>4. Top'.op \notin Asking /\ Top'.pc \notin {"listed", "loaded"} /\ Top.path = Asked(Top')
    BY <1>1, <2>3, CallerMeans
  <2>5. ReadingOK' /\ ListSaid' BY <2>4 DEF ReadingOK, ListSaid, Asking
  <2>6. Asked(Top)' = Top.path BY <2>4 DEF Asked, PathOf
  <2>7. StatSaid' BY <1>2, <1>7, <2>1, <2>6 DEF StatSaid
  <2>8. QED BY <2>2, <2>5, <2>7 DEF SaidOK
<1>8. CASE Kind(Top.path) = "none" /\ Return(Error("notFound"))
  <2>1. Error("notFound").err = "notFound" BY DEF Error, Nothing
  <2>2. Top.path \notin lasting /\ \A q \in lasting : ~ Above(Top.path, q) BY <1>4, <1>8, NothingLasts
  <2>3. QED BY <1>7, <1>8, <2>1, <2>2
<1>9. CASE Kind(Top.path) # "none" /\ Return([Nothing EXCEPT !.dir = Top.dir \/ Kind(Top.path) = "dir"])
  <2>1. PICK r : r = [Nothing EXCEPT !.dir = Top.dir \/ Kind(Top.path) = "dir"] /\ Return(r) BY <1>9, Zenon
  <2>2. r.err = "none" /\ r.dir \in BOOLEAN /\ (Kind(Top.path) = "dir" => r.dir) BY <2>1 DEF Nothing
  <2>3. Top.path # Root => Top.path \in present BY <1>0, <1>1, <1>9 DEF TreeOK, Kind
  <2>4. ~ r.dir => \A q \in lasting : ~ Above(Top.path, q) BY <1>4, <2>2, NothingLasts
  <2>5. QED BY <1>7, <2>1, <2>2, <2>3, <2>4
<1>10. QED BY <1>6, <1>8, <1>9 DEF StatBasic, StatStandard

\* A request that fails.
LEMMA FailTells ==
  ASSUME ShareIInv, SaidOK, stack # <<>>, Top.op \in Asking, NEW e \in {"denied", "ctx"}, FailWith(e)
  PROVE  SaidOK'
<1>0. StackOK /\ CallersOK /\ PathsOK BY DEF ShareIInv, SaidOK
<1>1. Return(Error(e)) /\ faulted' # {} BY DEF FailWith, Asking
<1>2. Popped /\ ret' = Error(e) BY <1>0, <1>1, ReturnStep
<1>3. ret'.err = e BY <1>2 DEF Error, Nothing
<1>4. Depth \in Nat /\ Depth > 0 /\ Depth = Len(stack) BY <1>0, StackFacts DEF Depth
<1>5. CallersOK' /\ PathsOK' BY <1>0, <1>2, <1>4, AroundStep DEF Popped
<1>6. Depth # 1 BY <1>0 DEF CallersOK, Top, Depth
<1>7. stack' # <<>> /\ Caller(Top', Top) BY <1>0, <1>2, <1>6, ReturnTop
<1>8. Top'.op \notin Asking BY <1>7, CallerMeans
<1>9. ReadingOK' BY <1>8 DEF ReadingOK, Asking
<1>10. ListSaid' /\ StatSaid' BY <1>1, <1>3 DEF ListSaid, StatSaid
<1>11. QED BY <1>5, <1>9, <1>10 DEF SaidOK

\* One sequence after another.
LEMMA Joined ==
  ASSUME NEW S, NEW l \in Seq(S), NEW d \in Seq(S)
  PROVE  /\ l \o d \in Seq(S) /\ Len(l \o d) = Len(l) + Len(d)
         /\ \A k \in 1 .. Len(l) : (l \o d)[k] = l[k]
         /\ \A k \in Len(l) + 1 .. Len(l) + Len(d) : (l \o d)[k] = d[k - Len(l)] /\ k - Len(l) \in 1 .. Len(d)
OBVIOUS

\* One more batch of entries.
LEMMA BatchEntries ==
  ASSUME TreeOK, TreeIInv, stack # <<>>, NEW p \in Seq(Nat), NEW l, EntriesOK(p, l),
         NEW seen, seen = Named(l), NEW b \in Batches(Children(p) \ seen)
  PROVE  /\ EntriesOK(p, l \o Found(b))
         /\ seen \cup Range(b) = Named(l \o Found(b))
<1>0. tree \in [Paths -> {"none", "file", "dir"}] /\ IsTree(tree) /\ LastingOK
      /\ \A q \in Paths : tree[q] # "none" => q \in present
  BY DEF TreeOK, TreeIInv
<1> DEFINE E == [path : Paths, dir : BOOLEAN]
           d == Found(b)
           s == l \o d
<1>1. PICK n \in 0 .. Batch : b \in [1 .. n -> Children(p) \ seen] BY DEF Batches
<1>2. n \in Nat BY <1>1, ShareAssumption
<1>3. b \in Seq(Children(p) \ seen) /\ Len(b) = n /\ \A i, j \in 1 .. n : b[i] = b[j] => i = j
  BY <1>1, <1>2 DEF Batches
<1>4. \A i \in 1 .. n : b[i] \in Paths /\ Child(b[i], p) /\ tree[b[i]] # "none" /\ b[i] \notin seen
  BY <1>1 DEF Children, Child
<1>5. d \in Seq(E) /\ Len(d) = n /\ \A i \in 1 .. n : d[i] = [path |-> b[i], dir |-> tree[b[i]] = "dir"]
  BY <1>2, <1>3, <1>4 DEF Found
<1>6. l \in Seq(E) /\ Len(l) \in Nat BY DEF EntriesOK
<1>7. /\ s \in Seq(E) /\ Len(s) = Len(l) + n
      /\ \A k \in 1 .. Len(l) : s[k] = l[k]
      /\ \A k \in Len(l) + 1 .. Len(l) + n : s[k] = d[k - Len(l)] /\ k - Len(l) \in 1 .. n
  <2> HIDE DEF E, d
  <2>1. d \in Seq(E) /\ Len(d) = n /\ l \in Seq(E) BY <1>5, <1>6
  <2>2. /\ s \in Seq(E) /\ Len(s) = Len(l) + Len(d)
        /\ \A k \in 1 .. Len(l) : s[k] = l[k]
        /\ \A k \in Len(l) + 1 .. Len(l) + Len(d) : s[k] = d[k - Len(l)] /\ k - Len(l) \in 1 .. Len(d)
    BY <2>1, Joined, Zenon DEF s
  <2>3. QED BY <2>1, <2>2, Zenon
<1> HIDE DEF d, s
<1>8. \A k \in 1 .. Len(s) : k \in 1 .. Len(l) \/ k \in Len(l) + 1 .. Len(l) + n BY <1>2, <1>6, <1>7
<1>9. ASSUME NEW k \in Len(l) + 1 .. Len(l) + n
      PROVE  /\ k - Len(l) \in 1 .. n
             /\ s[k].path = b[k - Len(l)] /\ (tree[s[k].path] = "dir" => s[k].dir)
             /\ s[k].path \in Paths /\ Child(s[k].path, p) /\ tree[s[k].path] # "none" /\ s[k].path \notin seen
  <2>1. k - Len(l) \in 1 .. n /\ s[k] = [path |-> b[k - Len(l)], dir |-> tree[b[k - Len(l)]] = "dir"]
    BY <1>5, <1>7
  <2>2. s[k].path = b[k - Len(l)] /\ s[k].dir = (tree[b[k - Len(l)]] = "dir") BY <2>1
  <2>3. QED BY <1>4, <2>1, <2>2
<1>10. \A k \in 1 .. Len(s) : Child(s[k].path, p) /\ s[k].path \in present
  <2> SUFFICES ASSUME NEW k \in 1 .. Len(s) PROVE Child(s[k].path, p) /\ s[k].path \in present OBVIOUS
  <2>1. CASE k \in 1 .. Len(l) BY <1>7, <2>1 DEF EntriesOK
  <2>2. CASE k \in Len(l) + 1 .. Len(l) + n BY <1>0, <1>9, <2>2
  <2>3. QED BY <1>8, <2>1, <2>2
<1>11. ASSUME NEW k \in 1 .. Len(s), NEW m \in 1 .. Len(s), k # m PROVE s[k].path # s[m].path
  <2>1. CASE k \in 1 .. Len(l) /\ m \in 1 .. Len(l) BY <1>7, <1>11, <2>1 DEF EntriesOK
  <2>2. CASE k \in 1 .. Len(l) /\ m \in Len(l) + 1 .. Len(l) + n
    <3>1. s[k].path \in seen BY <1>7, <2>2 DEF Named
    <3>2. QED BY <1>9, <2>2, <3>1
  <2>3. CASE m \in 1 .. Len(l) /\ k \in Len(l) + 1 .. Len(l) + n
    <3>1. s[m].path \in seen BY <1>7, <2>3 DEF Named
    <3>2. QED BY <1>9, <2>3, <3>1
  <2>4. CASE k \in Len(l) + 1 .. Len(l) + n /\ m \in Len(l) + 1 .. Len(l) + n
    <3>1. k - Len(l) # m - Len(l) BY <1>2, <1>6, <1>11, <2>4
    <3>2. QED BY <1>3, <1>9, <2>4, <3>1
  <2>5. QED BY <1>8, <2>1, <2>2, <2>3, <2>4
<1>12. ASSUME NEW k \in 1 .. Len(s), NEW q \in lasting, Above(s[k].path, q) PROVE s[k].dir
  <2>1. CASE k \in 1 .. Len(l) BY <1>7, <1>12, <2>1 DEF EntriesOK
  <2>2. CASE k \in Len(l) + 1 .. Len(l) + n
    <3>1. s[k].path \in Paths /\ s[k].path \in Seq(Nat) BY <1>9, <2>2, PathTypes
    <3>2. Kind(s[k].path) = "dir" BY <1>12, <3>1, NothingLasts
    <3>3. s[k].path # Root BY <3>1, PathTypes
    <3>4. QED BY <1>9, <2>2, <3>1, <3>2, <3>3 DEF Kind
  <2>3. QED BY <1>8, <2>1, <2>2
<1>13. EntriesOK(p, s) BY <1>7, <1>10, <1>11, <1>12 DEF EntriesOK
<1>14. seen \cup Range(b) = Named(s)
  <2>1. ASSUME NEW x \in seen PROVE \E k \in 1 .. Len(s) : x = s[k].path
    <3>1. PICK k \in 1 .. Len(l) : x = l[k].path BY DEF Named
    <3>2. k \in 1 .. Len(s) BY <1>2, <1>6, <1>7
    <3>3. QED BY <1>7, <3>1, <3>2
  <2>2. ASSUME NEW x \in Range(b) PROVE \E k \in 1 .. Len(s) : x = s[k].path
    <3>1. PICK i \in 1 .. n : x = b[i] BY <1>1 DEF Range
    <3>2. Len(l) + i \in Len(l) + 1 .. Len(l) + n /\ Len(l) + i \in 1 .. Len(s) /\ Len(l) + i - Len(l) = i
      BY <1>2, <1>6, <1>7
    <3>3. QED BY <1>9, <3>1, <3>2
  <2>3. ASSUME NEW k \in 1 .. Len(s) PROVE s[k].path \in seen \cup Range(b)
    <3>1. CASE k \in 1 .. Len(l) BY <1>7, <3>1 DEF Named
    <3>2. CASE k \in Len(l) + 1 .. Len(l) + n
      <4>1. k - Len(l) \in DOMAIN b /\ s[k].path = b[k - Len(l)] BY <1>1, <1>9, <3>2
      <4>2. QED BY <4>1 DEF Range
    <3>3. QED BY <1>8, <3>1, <3>2
  <2>4. QED BY <2>1, <2>2, <2>3 DEF Named
<1>15. QED BY <1>13, <1>14 DEF s, d

\* ReadDir, called by a listing: a batch is added to what it has gathered, and
\* with the last one everything that lasted is there.
LEMMA FindTells ==
  ASSUME ShareIInv, TreeIInv, SaidOK, Find
  PROVE  SaidOK'
<1> USE DEF noTree, noWalk, noCall, treeVars, Answered, At, Idle
<1>0. StackOK /\ TreeOK /\ CallersOK /\ PathsOK /\ ReadingOK /\ IsTree(tree) /\ LastingOK
  BY DEF ShareIInv, TreeIInv, SaidOK
<1>1. stack # <<>> /\ Top.op = "readDir" /\ Top.op \in Asking BY DEF Find, Asking
<1>2. UNCHANGED <<tree, lasting, present, faulted>> BY DEF Find, history
<1>3. Depth \in Nat /\ Depth > 0 /\ Depth = Len(stack) BY <1>0, <1>1, StackFacts DEF Depth
<1>4. Top.path \in Seq(Nat) BY <1>0, <1>3 DEF PathsOK, Top
<1>5. Depth # 1 BY <1>0, <1>1 DEF CallersOK, Top, Depth
<1>6. EntriesOK(Top.path, Top.todo) /\ Top.seen = Named(Top.todo)
  BY <1>0, <1>1 DEF ReadingOK
<1>7. ASSUME NEW r, Return(r), r.err \in {"none", "notFound"},
             r.err = "none" => EntriesOK(Top.path, r.list) /\ ListsAll(Top.path, r.list),
             r.err # "none" => \A q \in lasting : ~ Above(Top.path, q)
      PROVE  SaidOK'
  <2>1. Popped /\ ret' = r BY <1>0, <1>1, <1>7, ReturnStep
  <2>2. CallersOK' /\ PathsOK' BY <1>0, <1>1, <1>3, <2>1, AroundStep DEF Popped
  <2>3. stack' # <<>> /\ Caller(Top', Top) BY <1>0, <1>1, <1>5, <2>1, ReturnTop
  <2>4. Top'.op \notin Asking /\ Top'.pc \notin {"statted", "literal"} /\ Top.path = Top'.path
    BY <1>1, <2>3, CallerMeans
  <2>5. ReadingOK' /\ StatSaid' BY <2>4 DEF ReadingOK, StatSaid, Asking
  <2>6. r.err = "none" => EntriesOK(Top.path, ret.list)' /\ ListsAll(Top.path, ret.list)'
    BY <1>2, <1>7, <2>1, <2>4 DEF EntriesOK, ListsAll
  <2>7. ListSaid' BY <1>2, <1>7, <2>1, <2>4, <2>6 DEF ListSaid
  <2>8. QED BY <2>2, <2>5, <2>7 DEF SaidOK
<1>8. PICK b \in Batches(Children(Top.path) \ Top.seen) :
        \/ /\ ListStatus(Top.path) # "none"
           /\ Return(Error("notFound"))
        \/ /\ ListStatus(Top.path) = "none"
           /\ Become([Top EXCEPT !.pc = "next", !.todo = Gathered(Top, Found(b)), !.seen = Top.seen \cup Range(b)])
        \/ /\ ListStatus(Top.path) = "none" /\ ~ More(Children(Top.path) \ (Top.seen \cup Range(b)))
           /\ Return([Nothing EXCEPT !.list = Gathered(Top, Found(b))])
  BY DEF Find
<1>9. PICK s : s = Top.todo \o Found(b) OBVIOUS
<1>10. EntriesOK(Top.path, s) /\ Top.seen \cup Range(b) = Named(s)
  <2>1. PICK l, seen : l = Top.todo /\ seen = Top.seen OBVIOUS
  <2>2. EntriesOK(Top.path, l) /\ seen = Named(l) BY <1>6, <2>1
  <2>3. b \in Batches(Children(Top.path) \ seen) BY <2>1
  <2>4. EntriesOK(Top.path, l \o Found(b)) /\ seen \cup Range(b) = Named(l \o Found(b))
    BY <1>0, <1>1, <1>4, <2>2, <2>3, BatchEntries
  <2>5. QED BY <1>9, <2>1, <2>4
<1>11. CASE ListStatus(Top.path) # "none" /\ Return(Error("notFound"))
  <2>1. Error("notFound").err = "notFound" BY DEF Error, Nothing
  <2>2. \A q \in lasting : ~ Above(Top.path, q) BY <1>4, <1>11, NothingLasts DEF ListStatus
  <2>3. QED BY <1>7, <1>11, <2>1, <2>2
<1>12. CASE Become([Top EXCEPT !.pc = "next", !.todo = Gathered(Top, Found(b)), !.seen = Top.seen \cup Range(b)])
  <2>1. PICK f : f = [Top EXCEPT !.pc = "next", !.todo = s, !.seen = Top.seen \cup Range(b)] /\ Become(f)
    BY <1>9, <1>12, Zenon DEF Gathered
  <2>2. /\ DOMAIN f = Fields /\ f.op = "readDir" /\ f.path = Top.path /\ f.pc = "next"
        /\ f.todo = s /\ f.seen = Top.seen \cup Range(b)
    BY <1>0, <1>1, <2>1, StackFacts DEF Fields
  <2>3. Kept(f) BY <1>0, <1>1, <2>1, <2>2, BecomeStep
  <2>4. CallersOK' /\ PathsOK'
    BY <1>0, <1>1, <1>3, <1>4, <1>5, <2>2, <2>3, AskingStands, AroundStep DEF Kept
  <2>5. Top' = f BY <1>0, <1>1, <2>3, NewTop
  <2>6. EntriesOK(Top.path, s)' BY <1>2, <1>10, <2>2, <2>5 DEF EntriesOK
  <2>7. ReadingOK' BY <1>10, <2>2, <2>5, <2>6 DEF ReadingOK, Named
  <2>8. ListSaid' /\ StatSaid' BY <2>2, <2>5 DEF ListSaid, StatSaid
  <2>9. QED BY <2>4, <2>7, <2>8 DEF SaidOK
<1>13. CASE /\ ~ More(Children(Top.path) \ (Top.seen \cup Range(b)))
            /\ Return([Nothing EXCEPT !.list = Gathered(Top, Found(b))])
  <2>1. PICK r : r = [Nothing EXCEPT !.list = s] /\ Return(r) BY <1>9, <1>13, Zenon DEF Gathered
  <2>2. r.err = "none" /\ r.list = s BY <2>1 DEF Nothing
  <2>3. ListsAll(Top.path, s)
    <3> SUFFICES ASSUME NEW q \in lasting, Child(q, Top.path) PROVE \E k \in 1 .. Len(s) : s[k].path = q
      BY DEF ListsAll
    <3>1. q \in Children(Top.path) BY <1>0 DEF LastingOK, Children, Child
    <3>2. q \in Top.seen \cup Range(b) BY <1>13, <3>1 DEF More
    <3>3. QED BY <1>10, <3>2 DEF Named
  <2>4. QED BY <1>7, <1>10, <2>1, <2>2, <2>3
<1>14. QED BY <1>8, <1>11, <1>12, <1>13

\* Others leave less that lasted and more that has been there.
LEMMA OthersTell ==
  ASSUME SaidOK, UNCHANGED <<stack, ret>>, faulted \subseteq faulted',
         lasting' \subseteq lasting, present \subseteq present'
  PROVE  SaidOK'
<1>0. CallersOK /\ PathsOK /\ ReadingOK /\ ListSaid /\ StatSaid BY DEF SaidOK
<1>1. \A p, l : EntriesOK(p, l) => EntriesOK(p, l)' BY DEF EntriesOK
<1>2. \A p, l : ListsAll(p, l) => ListsAll(p, l)' BY DEF ListsAll
<1>3. Top' = Top /\ ret' = ret BY DEF Top
<1>4. CallersOK' /\ PathsOK' BY <1>0 DEF CallersOK, PathsOK, Caller, Child, PathOf
<1>5. ReadingOK' BY <1>0, <1>1, <1>3 DEF ReadingOK, Named
<1>6. ListSaid' BY <1>0, <1>1, <1>2, <1>3 DEF ListSaid
<1>7. StatSaid' BY <1>0, <1>3 DEF StatSaid, Asked, PathOf
<1>8. QED BY <1>4, <1>5, <1>6, <1>7 DEF SaidOK

\* A listing begins.
LEMMA StartTells ==
  ASSUME NEW op \in Listings, NEW pc \in {"begin", "load"}, NEW path \in Seq(Nat), NEW to, Start(op, pc, path, to)
  PROVE  SaidOK'
<1>1. PICK f : f = [Frame(op, pc, path) EXCEPT !.to = to] /\ stack' = <<f>> BY Zenon DEF Start
<1>2. f.op = op /\ f.pc = pc /\ f.path = path BY <1>1 DEF Frame
<1>3. Len(stack') = 1 /\ stack'[1] = f /\ Top' = f BY <1>1 DEF Top
<1>4. CallersOK' /\ PathsOK' BY <1>2, <1>3 DEF CallersOK, PathsOK, Asking, Listings
<1>5. ReadingOK' /\ ListSaid' /\ StatSaid' BY <1>2, <1>3 DEF ReadingOK, ListSaid, StatSaid, Listings
<1>6. QED BY <1>4, <1>5 DEF SaidOK

-----------------------------------------------------------------------------
(* Walk.                                                                   *)

\* f has yet to see to p.
Awaits(f, p) ==
    \/ f.pc = "fn" /\ IsPrefix(f.path, p)
    \/ f.pc = "listed" /\ Above(f.path, p)
    \/ f.pc = "entries" /\ \E k \in 1 .. Len(f.todo) : IsPrefix(f.todo[k].path, p)

\* A visit is of a directory once it lists, and awaits nothing that walkFn has
\* been called with.
VisitOK(f) ==
    /\ f.path \in Paths \cup {Root} /\ f.dir \in BOOLEAN /\ f.pc \in {"fn", "listed", "entries"}
    /\ f.pc # "fn" => f.dir
    /\ \A q \in lasting : Above(f.path, q) => f.dir
    /\ f.pc = "entries" => EntriesOK(f.path, f.todo)
    /\ \A v \in Range(visited) : ~ Awaits(f, v)

\* A visit is inside another one, at an entry the outer one no longer awaits.
Around(f, g) == f.pc = "entries" /\ Above(f.path, g.path) /\ ~ Awaits(f, g.path)

VisitsOK == \A i \in 1 .. Len(stack) : stack[i].op = "visit" => VisitOK(stack[i])

AroundOK ==
    \A i, j \in 1 .. Len(stack) : i < j /\ stack[i].op = "visit" /\ stack[j].op = "visit" => Around(stack[i], stack[j])

\* n tells whether the entry being visited is a directory.
DirsOK ==
    \A i \in 1 .. Len(stack) - 1 :
        stack[i].op = "visit" /\ stack[i].pc = "entries" => (stack[i].n = 1 <=> stack[i + 1].dir)

HeadOK ==
    /\ goal.path \in Paths \cup {Root}
    /\ stack # <<>> =>
          /\ stack[1].op = "walk" /\ stack[1].path = goal.path /\ stack[1].pc \in {"begin", "statted", "end"}
          /\ stack[1].pc # "end" => visited = <<>>
          /\ \A i \in 2 .. Len(stack) : stack[i].op # "walk" /\ (stack[i].op = "visit" => stack[1].pc = "end")

\* A file that skips the rest of its directory has it skipped.
VerdictOK ==
    stack # <<>> /\ Top.pc \in {"entries", "end"} =>
        /\ ret.err \in Verdicts
        /\ Top.pc = "entries" /\ Top.n # 1 /\ ret.err = "skipDir" => Top.path \in skipped

Covered(p) == Hidden(p) \/ p \in skipped \/ p \in Range(visited)
Pending(p) == Covered(p) \/ \E i \in 1 .. Len(stack) : stack[i].op = "visit" /\ Awaits(stack[i], p)
Stopped == Top.pc \in {"entries", "end"} /\ ret.err = "stop"

\* What has lasted has been seen to or is awaited, unless walkFn has stopped the
\* walk.
AllOK ==
    /\ stack = <<>> /\ ret.err = "none" => \A p \in lasting : IsPrefix(goal.path, p) => Covered(p)
    /\ stack # <<>> /\ stack[1].pc = "end" /\ ~ Stopped => \A p \in lasting : IsPrefix(goal.path, p) => Pending(p)

WalkOK == goal.op = "walk" => VisitsOK /\ AroundOK /\ DirsOK /\ HeadOK /\ VerdictOK /\ AllOK

\* walkFn is called for a directory before its entries, and once for each path.
OrderOK ==
    /\ visited \in Seq(Seq(Nat))
    /\ \A i \in 1 .. Len(visited) : \A j \in 1 .. i - 1 : ~ IsPrefix(visited[i], visited[j])

\* A path walkFn hears of next.
LEMMA OneMoreVisit ==
  ASSUME OrderOK, NEW p \in Seq(Nat), \A v \in Range(visited) : ~ IsPrefix(p, v), visited' = Append(visited, p)
  PROVE  OrderOK' /\ Range(visited') = Range(visited) \cup {p}
<1>1. Len(visited) \in Nat /\ visited \in Seq(Seq(Nat)) BY DEF OrderOK
<1>2. /\ visited' \in Seq(Seq(Nat)) /\ Len(visited') = Len(visited) + 1 /\ visited'[Len(visited) + 1] = p
      /\ \A i \in 1 .. Len(visited) : visited'[i] = visited[i]
  BY <1>1
<1>3. ASSUME NEW i \in 1 .. Len(visited'), NEW j \in 1 .. i - 1 PROVE ~ IsPrefix(visited'[i], visited'[j])
  <2>1. j \in 1 .. Len(visited) /\ visited'[j] = visited[j] /\ visited[j] \in Range(visited)
    BY <1>1, <1>2 DEF Range
  <2>2. CASE i = Len(visited) + 1 BY <1>2, <2>1, <2>2
  <2>3. CASE i # Len(visited) + 1
    <3>1. i \in 1 .. Len(visited) BY <1>1, <1>2, <2>3
    <3>2. QED BY <1>2, <2>1, <3>1 DEF OrderOK
  <2>4. QED BY <2>2, <2>3
<1>4. Range(visited') = Range(visited) \cup {p}
  <2>1. DOMAIN visited' = 1 .. Len(visited) + 1 /\ DOMAIN visited = 1 .. Len(visited) BY <1>1, <1>2
  <2>2. ASSUME NEW x \in Range(visited') PROVE x \in Range(visited) \cup {p}
    <3>1. PICK i \in 1 .. Len(visited) + 1 : x = visited'[i] BY <2>1 DEF Range
    <3>2. i = Len(visited) + 1 \/ i \in 1 .. Len(visited) BY <1>1
    <3>3. QED BY <1>2, <2>1, <3>1, <3>2 DEF Range
  <2>3. ASSUME NEW x \in Range(visited) PROVE x \in Range(visited')
    <3>1. PICK i \in 1 .. Len(visited) : x = visited[i] BY <2>1 DEF Range
    <3>2. i \in 1 .. Len(visited) + 1 /\ visited'[i] = x BY <1>1, <1>2, <3>1
    <3>3. QED BY <2>1, <3>2 DEF Range
  <2>4. p \in Range(visited')
    <3>1. Len(visited) + 1 \in 1 .. Len(visited) + 1 BY <1>1
    <3>2. QED BY <1>2, <2>1, <3>1 DEF Range
  <2>5. QED BY <2>2, <2>3, <2>4
<1>5. QED BY <1>2, <1>3, <1>4 DEF OrderOK

\* Once seen to, always seen to.
LEMMA StaysCovered ==
  ASSUME skipped \subseteq skipped', Range(visited) \subseteq Range(visited'), NEW p, Covered(p)
  PROVE  Covered(p)'
BY DEF Covered, Hidden

\* What is below a skipped directory is hidden.
LEMMA SkippedHides ==
  ASSUME NEW p \in Seq(Nat), NEW q \in Seq(Nat), IsPrefix(p, q), p \in skipped'
  PROVE  Covered(q)'
<1>1. CASE p = q BY <1>1 DEF Covered
<1>2. CASE p # q
  <2>1. Above(p, q) BY <1>2, PrefixOrder
  <2>2. Len(p) \in 0 .. Len(q) - 1 /\ SubSeq(q, 1, Len(p)) = p BY <2>1, PrefixIs DEF Above, Prefix
  <2>3. QED BY <2>2 DEF Covered, Hidden
<1>3. QED BY <1>1, <1>2

\* The visits after a step.
LEMMA VisitsStep ==
  ASSUME StackOK, StackOK', stack # <<>>, Reshaped, VisitsOK, AroundOK,
         UNCHANGED <<lasting, present>>,
         \A i \in 1 .. Depth - 1 : stack[i].op = "visit" =>
             \A v \in Range(visited') : v \in Range(visited) \/ ~ Awaits(stack[i], v),
         Len(stack') >= Depth /\ stack'[Depth].op = "visit" =>
             /\ \A f : f = stack'[Depth] => VisitOK(f)'
             /\ \A i \in 1 .. Depth - 1 : stack[i].op = "visit" => Around(stack[i], stack'[Depth]),
         Len(stack') > Depth /\ stack'[Depth + 1].op = "visit" =>
             /\ \A f : f = stack'[Depth + 1] => VisitOK(f)'
             /\ \A i \in 1 .. Depth - 1 : stack[i].op = "visit" => Around(stack[i], stack'[Depth + 1])
             /\ stack'[Depth].op = "visit" => Around(stack'[Depth], stack'[Depth + 1])
  PROVE  VisitsOK' /\ AroundOK'
<1>1. Depth \in Nat /\ Depth > 0 /\ Len(stack') \in Nat /\ Depth = Len(stack) BY StackFacts DEF StackOK, Depth
<1>2. Len(stack') \in {Depth - 1, Depth, Depth + 1} /\ \A i \in 1 .. Depth - 1 : stack'[i] = stack[i]
  BY DEF Reshaped
<1>3. \A i \in 1 .. Len(stack') : i \in 1 .. Depth - 1 \/ i = Depth \/ i = Depth + 1 BY <1>1, <1>2
<1>4. \A i \in 1 .. Depth - 1 : i \in 1 .. Len(stack) BY <1>1
<1>5. ASSUME NEW i \in 1 .. Len(stack'), NEW f, f = stack'[i], f.op = "visit" PROVE VisitOK(f)'
  <2>1. CASE i \in 1 .. Depth - 1
    <3>1. f = stack[i] /\ VisitOK(f) BY <1>2, <1>4, <1>5, <2>1 DEF VisitsOK
    <3>2. \A v \in Range(visited') : ~ Awaits(f, v) BY <1>5, <2>1, <3>1 DEF VisitOK
    <3>3. QED BY <3>1, <3>2 DEF VisitOK, EntriesOK, Awaits
  <2>2. CASE i = Depth BY <1>1, <1>5, <2>2
  <2>3. CASE i = Depth + 1 BY <1>1, <1>5, <2>3
  <2>4. QED BY <1>3, <2>1, <2>2, <2>3
<1>6. ASSUME NEW i \in 1 .. Len(stack'), NEW j \in 1 .. Len(stack'), i < j,
             stack'[i].op = "visit", stack'[j].op = "visit"
      PROVE  Around(stack'[i], stack'[j])
  <2>1. CASE i \in 1 .. Depth - 1 /\ j \in 1 .. Depth - 1
    BY <1>2, <1>4, <1>6, <2>1 DEF AroundOK
  <2>2. CASE i \in 1 .. Depth - 1 /\ j = Depth BY <1>1, <1>2, <1>6, <2>2
  <2>3. CASE i \in 1 .. Depth - 1 /\ j = Depth + 1 BY <1>1, <1>2, <1>6, <2>3
  <2>4. CASE i = Depth /\ j = Depth + 1 BY <1>1, <1>6, <2>4
  <2>5. ~(i = Depth /\ j \in 1 .. Depth - 1) /\ ~(i = Depth + 1 /\ j \in 1 .. Depth - 1)
        /\ ~(i = Depth /\ j = Depth) /\ ~(i = Depth + 1 /\ j = Depth) /\ ~(i = Depth + 1 /\ j = Depth + 1)
    BY <1>1, <1>6
  <2>6. QED BY <1>3, <2>1, <2>2, <2>3, <2>4, <2>5
<1>7. VisitsOK' BY <1>5, Zenon DEF VisitsOK
<1>8. AroundOK' BY <1>6 DEF AroundOK, Around, Above, Awaits
<1>9. QED BY <1>7, <1>8

\* The entries being visited, after a step.
LEMMA DirsStep ==
  ASSUME StackOK, StackOK', stack # <<>>, Reshaped, DirsOK, CallersOK,
         Len(stack') >= Depth => Top.op # "visit" \/ stack'[Depth].dir = Top.dir,
         Len(stack') > Depth /\ stack'[Depth].op = "visit" /\ stack'[Depth].pc = "entries" =>
             (stack'[Depth].n = 1 <=> stack'[Depth + 1].dir)
  PROVE  DirsOK'
<1>1. Depth \in Nat /\ Depth > 0 /\ Len(stack') \in Nat /\ Depth = Len(stack) /\ Top = stack[Depth]
  BY StackFacts DEF StackOK, Depth, Top
<1>2. Len(stack') \in {Depth - 1, Depth, Depth + 1} /\ \A i \in 1 .. Depth - 1 : stack'[i] = stack[i]
  BY DEF Reshaped
<1> SUFFICES ASSUME NEW i \in 1 .. Len(stack') - 1, stack'[i].op = "visit", stack'[i].pc = "entries"
             PROVE  stack'[i].n = 1 <=> stack'[i + 1].dir
  BY DEF DirsOK
<1>3. i < Depth - 1 \/ i = Depth - 1 \/ i = Depth BY <1>1, <1>2
<1>4. CASE i < Depth - 1
  <2>1. i \in 1 .. Depth - 1 /\ i + 1 \in 1 .. Depth - 1 /\ i \in 1 .. Len(stack) - 1 BY <1>1, <1>4
  <2>2. QED BY <1>2, <2>1 DEF DirsOK
<1>5. CASE i = Depth - 1
  <2>1. i \in 1 .. Depth - 1 /\ i + 1 = Depth /\ i \in 1 .. Len(stack) - 1 /\ Len(stack') >= Depth
    BY <1>1, <1>5
  <2>2. stack'[i] = stack[i] BY <1>2, <2>1
  <2>3. Caller(stack[i], Top) BY <1>1, <2>1 DEF CallersOK
  <2>4. Top.op = "visit" BY <2>2, <2>3 DEF Caller
  <2>5. QED BY <1>1, <2>1, <2>2, <2>4 DEF DirsOK
<1>6. CASE i = Depth
  <2>1. Len(stack') > Depth BY <1>1, <1>6
  <2>2. QED BY <1>6, <2>1
<1>7. QED BY <1>3, <1>4, <1>5, <1>6

\* What is pending stays so, when the innermost visit hands it on.
LEMMA PendingStep ==
  ASSUME StackOK, StackOK', stack # <<>>, Reshaped, NEW p, Pending(p),
         Covered(p) => Covered(p)',
         Top.op = "visit" /\ Awaits(Top, p) =>
             \/ Covered(p)'
             \/ Len(stack') >= Depth /\ stack'[Depth].op = "visit" /\ Awaits(stack'[Depth], p)
             \/ Len(stack') > Depth /\ stack'[Depth + 1].op = "visit" /\ Awaits(stack'[Depth + 1], p)
  PROVE  Pending(p)'
<1>1. Depth \in Nat /\ Depth > 0 /\ Len(stack') \in Nat /\ Depth = Len(stack) /\ Top = stack[Depth]
  BY StackFacts DEF StackOK, Depth, Top
<1>2. Len(stack') \in {Depth - 1, Depth, Depth + 1} /\ \A i \in 1 .. Depth - 1 : stack'[i] = stack[i]
  BY DEF Reshaped
<1>3. ASSUME \E i \in 1 .. Len(stack') : stack'[i].op = "visit" /\ Awaits(stack'[i], p) PROVE Pending(p)'
  BY <1>3 DEF Pending, Awaits, Above
<1>4. CASE Covered(p) BY <1>4 DEF Pending
<1>5. ASSUME NEW i \in 1 .. Len(stack), stack[i].op = "visit", Awaits(stack[i], p) PROVE Pending(p)'
  <2>1. CASE i = Depth
    <3>1. CASE Covered(p)' BY <3>1 DEF Pending
    <3>2. CASE Len(stack') >= Depth /\ stack'[Depth].op = "visit" /\ Awaits(stack'[Depth], p)
      <4>1. Depth \in 1 .. Len(stack') BY <1>1, <3>2
      <4>2. QED BY <1>3, <3>2, <4>1
    <3>3. CASE Len(stack') > Depth /\ stack'[Depth + 1].op = "visit" /\ Awaits(stack'[Depth + 1], p)
      <4>1. Depth + 1 \in 1 .. Len(stack') BY <1>1, <3>3
      <4>2. QED BY <1>3, <3>3, <4>1
    <3>4. QED BY <1>1, <1>5, <2>1, <3>1, <3>2, <3>3
  <2>2. CASE i # Depth
    <3>1. i \in 1 .. Depth - 1 /\ i \in 1 .. Len(stack') BY <1>1, <1>2, <2>2
    <3>2. QED BY <1>2, <1>3, <1>5, <3>1
  <2>3. QED BY <2>1, <2>2
<1>6. QED BY <1>4, <1>5 DEF Pending

\* The outermost call of a walk, after a step of another one.
LEMMA HeadStep ==
  ASSUME StackOK, StackOK', stack # <<>>, Reshaped, HeadOK, Top.op # "walk", goal' = goal,
         visited' = visited \/ Top.op = "visit",
         Len(stack') >= Depth => stack'[Depth].op # "walk" /\ (stack'[Depth].op = "visit" => Top.op = "visit"),
         Len(stack') > Depth => stack'[Depth + 1].op # "walk" /\ (stack'[Depth + 1].op = "visit" => Top.op = "visit")
  PROVE  /\ HeadOK' /\ Depth > 1 /\ stack' # <<>> /\ stack'[1] = stack[1]
         /\ Top.op = "visit" => stack[1].pc = "end"
<1>1. Depth \in Nat /\ Depth > 0 /\ Len(stack') \in Nat /\ Depth = Len(stack) /\ Top = stack[Depth]
  BY StackFacts DEF StackOK, Depth, Top
<1>2. Len(stack') \in {Depth - 1, Depth, Depth + 1} /\ \A i \in 1 .. Depth - 1 : stack'[i] = stack[i]
  BY DEF Reshaped
<1>3. Depth # 1 BY <1>1 DEF HeadOK
<1>4. Depth > 1 /\ 1 \in 1 .. Depth - 1 /\ Depth \in 2 .. Len(stack) /\ Len(stack') > 0 BY <1>1, <1>2, <1>3
<1>5. stack' # <<>> /\ stack'[1] = stack[1] BY <1>2, <1>4 DEF StackOK
<1>6. Top.op = "visit" => stack[1].pc = "end" BY <1>1, <1>4 DEF HeadOK
<1>7. ASSUME NEW i \in 2 .. Len(stack') PROVE stack'[i].op # "walk" /\ (stack'[i].op = "visit" => stack[1].pc = "end")
  <2>1. i < Depth \/ i = Depth \/ i = Depth + 1 BY <1>1, <1>2
  <2>2. CASE i < Depth
    <3>1. i \in 1 .. Depth - 1 /\ i \in 2 .. Len(stack) BY <1>1, <2>2
    <3>2. QED BY <1>2, <3>1 DEF HeadOK
  <2>3. CASE i = Depth
    <3>1. Len(stack') >= Depth BY <1>1, <2>3
    <3>2. QED BY <1>6, <2>3, <3>1
  <2>4. CASE i = Depth + 1
    <3>1. Len(stack') > Depth BY <1>1, <2>4
    <3>2. QED BY <1>6, <2>4, <3>1
  <2>5. QED BY <2>1, <2>2, <2>3, <2>4
<1>8. stack[1].pc # "end" => visited' = <<>> BY <1>6 DEF HeadOK
<1>9. HeadOK' BY <1>5, <1>7, <1>8 DEF HeadOK
<1>10. QED BY <1>4, <1>5, <1>6, <1>9

\* A visit returns.
LEMMA WalkPop ==
  ASSUME StackOK, stack # <<>>, TreeIInv, CallersOK, PathsOK, goal.op = "walk", WalkOK, Top.op = "visit", Popped,
         UNCHANGED <<lasting, present, goal>>, skipped \subseteq skipped',
         Range(visited) \subseteq Range(visited'), Range(visited') \subseteq Range(visited) \cup {Top.path},
         ret'.err \in Verdicts,
         ret'.err = "skipDir" /\ ~ Top.dir /\ Top.path # Root => Front(Top.path) \in skipped',
         ret'.err # "stop" => ~ Stopped /\ \A p \in lasting : Awaits(Top, p) => Covered(p)'
  PROVE  WalkOK'
<1>0. VisitsOK /\ AroundOK /\ DirsOK /\ HeadOK /\ VerdictOK /\ AllOK BY DEF WalkOK
<1>1. /\ Depth \in Nat /\ Depth > 0 /\ StackOK' /\ Reshaped /\ Len(stack') = Depth - 1
      /\ Depth = Len(stack) /\ Top = stack[Depth]
  BY StackFacts DEF Popped, Depth, Top
<1>2. HeadOK' /\ Depth > 1 /\ stack' # <<>> /\ stack'[1] = stack[1] /\ stack[1].pc = "end"
  BY <1>0, <1>1, HeadStep
<1>3. Depth - 1 \in 1 .. Depth - 1 /\ Top' = stack[Depth - 1] /\ Caller(Top', Top) BY <1>2, ReturnTop
<1>4. ASSUME NEW i \in 1 .. Depth - 1, stack[i].op = "visit", NEW v \in Range(visited')
      PROVE  v \in Range(visited) \/ ~ Awaits(stack[i], v)
  <2>1. Around(stack[i], Top) BY <1>0, <1>1, <1>4 DEF AroundOK
  <2>2. QED BY <1>4, <2>1 DEF Around
<1>5. VisitsOK' /\ AroundOK' BY <1>0, <1>1, <1>4, VisitsStep
<1>6. DirsOK' BY <1>0, <1>1, DirsStep
<1>7. VerdictOK'
  <2> SUFFICES ASSUME Top'.pc = "entries", Top'.n # 1, ret'.err = "skipDir" PROVE Top'.path \in skipped'
    BY DEF VerdictOK, Verdicts
  <2>1. Top'.op = "visit" /\ Child(Top.path, Top'.path) BY <1>3 DEF Caller
  <2>2. Depth - 1 \in 1 .. Len(stack) - 1 /\ Depth - 1 + 1 = Depth BY <1>1, <1>3
  <2>3. ~ Top.dir BY <1>0, <1>1, <1>3, <2>1, <2>2 DEF DirsOK
  <2>4. Top.path \in Seq(Nat) /\ Top'.path \in Seq(Nat) BY <1>1, <1>3, <2>2 DEF PathsOK
  <2>5. Front(Top.path) = Top'.path BY <2>1, <2>4, FrontOfChild
  <2>6. Top.path # Root BY <2>1, <2>4 DEF Child, Root
  <2>7. QED BY <2>3, <2>5, <2>6
<1>8. AllOK'
  <2> SUFFICES ASSUME ~ Stopped', NEW p \in lasting, IsPrefix(goal.path, p) PROVE Pending(p)'
    BY <1>2 DEF AllOK
  <2>1. Top'.pc \in {"entries", "end"} BY <1>3 DEF Caller
  <2>2. ret'.err # "stop" BY <2>1 DEF Stopped
  <2>3. Pending(p) BY <1>0, <1>2, <2>2 DEF AllOK
  <2>4. Covered(p) => Covered(p)' BY StaysCovered
  <2>5. QED BY <1>1, <2>2, <2>3, <2>4, PendingStep
<1>9. QED BY <1>2, <1>5, <1>6, <1>7, <1>8 DEF WalkOK

\* The calls of a walk, as its steps need them.
LEMMA VisitTop ==
  ASSUME ShareIInv, TreeIInv, SaidOK, WalkOK, stack # <<>>, Top.op = "visit"
  PROVE  /\ goal.op = "walk" /\ StackOK /\ CallersOK /\ PathsOK /\ VisitOK(Top)
         /\ Depth \in Nat /\ Depth > 0 /\ Top.path \in Seq(Nat)
         /\ \A p \in lasting : p \in Seq(Nat)
<1>1. StackOK /\ CallersOK /\ PathsOK BY DEF ShareIInv, SaidOK
<1>2. goal.op = "walk" BY <1>1, ListerOps
<1>3. Depth \in Nat /\ Depth > 0 /\ Depth = Len(stack) /\ Top = stack[Depth]
  BY <1>1, StackFacts DEF Depth, Top
<1>4. Depth \in 1 .. Len(stack) BY <1>3
<1>5. VisitOK(Top) BY <1>2, <1>3, <1>4 DEF WalkOK, VisitsOK
<1>6. Top.path \in Seq(Nat) BY <1>3, <1>4, <1>1 DEF PathsOK
<1>7. \A p \in lasting : p \in Seq(Nat) BY PathTypes DEF TreeIInv, LastingOK
<1>8. QED BY <1>1, <1>2, <1>3, <1>5, <1>6, <1>7

\* walkFn is called.
LEMMA VisitFnWalks ==
  ASSUME ShareIInv, TreeIInv, SaidOK, WalkOK, OrderOK, VisitFn
  PROVE  WalkOK' /\ OrderOK'
<1> USE DEF noTree, noWalk, noCall, treeVars, At, Idle
<1>0. stack # <<>> /\ Top.op = "visit" /\ Top.pc = "fn" /\ visited' = Append(visited, Top.path)
      /\ UNCHANGED <<lasting, present, goal>>
  BY DEF VisitFn
<1>1. /\ goal.op = "walk" /\ StackOK /\ CallersOK /\ PathsOK /\ VisitOK(Top)
      /\ Depth \in Nat /\ Depth > 0 /\ Top.path \in Seq(Nat)
      /\ \A p \in lasting : p \in Seq(Nat)
  BY <1>0, VisitTop
<1>2. VisitsOK /\ AroundOK /\ DirsOK /\ HeadOK /\ VerdictOK /\ AllOK BY <1>1 DEF WalkOK
<1>3. \A v \in Range(visited) : ~ IsPrefix(Top.path, v) BY <1>0, <1>1 DEF VisitOK, Awaits
<1>4. OrderOK' /\ Range(visited') = Range(visited) \cup {Top.path} BY <1>0, <1>1, <1>3, OneMoreVisit
<1>5. ~ Stopped BY <1>0 DEF Stopped
<1>6. skipped \subseteq skipped' BY DEF VisitFn
<1>7. \A p \in lasting : Awaits(Top, p) => p = Top.path \/ Above(Top.path, p)
  BY <1>0, <1>1, PrefixOrder DEF Awaits
<1>8. \A p : p = Top.path => Covered(p)' BY <1>4 DEF Covered
<1>9. CASE Top.dir /\ Call([Top EXCEPT !.pc = "listed"], Frame("readDir", "first", Top.path)) /\ UNCHANGED <<ret, skipped>>
  <2>1. PICK f, g : f = [Top EXCEPT !.pc = "listed"] /\ g = Frame("readDir", "first", Top.path) /\ Call(f, g)
    BY <1>9, Zenon
  <2>2. /\ DOMAIN f = Fields /\ DOMAIN g = Fields /\ f.op = "visit" /\ f.pc = "listed" /\ f.path = Top.path
        /\ f.dir = Top.dir /\ g.op = "readDir" /\ g.pc = "first"
    BY <1>0, <1>1, <2>1, StackFacts DEF Frame, Fields
  <2>3. Pushed(f, g) BY <1>0, <1>1, <2>1, <2>2, CallStep
  <2>4. /\ StackOK' /\ Reshaped /\ Len(stack') = Depth + 1 /\ stack'[Depth] = f /\ stack'[Depth + 1] = g /\ Top' = g
    BY <1>0, <1>1, <2>3, NewTop DEF Pushed
  <2>5. VisitOK(f)'
    <3>1. \A v \in Range(visited') : ~ Above(Top.path, v)
      <4>1. ~ Above(Top.path, Top.path) BY <1>1 DEF Above
      <4>2. QED BY <1>3, <1>4, <4>1 DEF Above
    <3>2. QED BY <1>0, <1>1, <1>9, <2>2, <3>1 DEF VisitOK, Awaits
  <2>6. ASSUME NEW i \in 1 .. Depth - 1, stack[i].op = "visit"
        PROVE  Around(stack[i], Top) /\ Around(stack[i], f)
    <3>1. i \in 1 .. Len(stack) /\ i < Depth /\ Depth \in 1 .. Len(stack) /\ Top = stack[Depth]
      BY <1>1 DEF Depth, Top
    <3>2. Around(stack[i], Top) BY <1>0, <1>2, <2>6, <3>1 DEF AroundOK
    <3>3. QED BY <2>2, <3>2 DEF Around
  <2>7. \A i \in 1 .. Depth - 1 : stack[i].op = "visit" =>
             \A v \in Range(visited') : v \in Range(visited) \/ ~ Awaits(stack[i], v)
    BY <1>4, <2>6 DEF Around
  <2>8. VisitsOK' /\ AroundOK'
    BY <1>0, <1>1, <1>2, <2>2, <2>4, <2>5, <2>6, <2>7, VisitsStep
  <2>9. DirsOK' BY <1>0, <1>1, <1>2, <2>2, <2>4, DirsStep
  <2>10. HeadOK' /\ stack' # <<>> /\ stack'[1] = stack[1] /\ stack[1].pc = "end"
    BY <1>0, <1>1, <1>2, <2>2, <2>4, HeadStep
  <2>11. VerdictOK' BY <2>2, <2>4 DEF VerdictOK
  <2>12. ASSUME NEW p \in lasting, IsPrefix(goal.path, p) PROVE Pending(p)'
    <3>1. Pending(p) BY <1>0, <1>2, <1>5, <2>10, <2>12 DEF AllOK
    <3>2. Covered(p) => Covered(p)' BY <1>4, <1>6, StaysCovered
    <3>3. Awaits(Top, p) => Covered(p)' \/ Awaits(f, p) BY <1>7, <1>8, <2>2 DEF Awaits
    <3>4. QED BY <1>0, <1>1, <2>2, <2>4, <3>1, <3>2, <3>3, PendingStep
  <2>13. AllOK' BY <1>0, <2>10, <2>12 DEF AllOK
  <2>14. QED BY <1>4, <2>8, <2>9, <2>10, <2>11, <2>13 DEF WalkOK
<1>10. CASE ~ Top.dir /\ Return(Nothing) /\ UNCHANGED skipped
  <2>1. Popped /\ ret'.err = "none" BY <1>0, <1>1, <1>10, ReturnStep DEF Nothing
  <2>2. \A p \in lasting : Awaits(Top, p) => Covered(p)' BY <1>1, <1>7, <1>8, <1>10 DEF VisitOK
  <2>3. QED BY <1>0, <1>1, <1>4, <1>5, <1>6, <2>1, <2>2, WalkPop DEF Verdicts
<1>11. ASSUME NEW v \in Verdicts, v # "none", Return(IF Top.dir /\ v = "skipDir" THEN Nothing ELSE Error(v)),
              skipped' = skipped \cup {IF Top.dir \/ Top.path = Root THEN Top.path ELSE Front(Top.path)}
       PROVE  WalkOK'
  <2>1. Popped /\ ret'.err = (IF Top.dir /\ v = "skipDir" THEN "none" ELSE v)
    BY <1>0, <1>1, <1>11, ReturnStep DEF Nothing, Error
  <2>2. ASSUME NEW p \in lasting, IsPrefix(Top.path, p) PROVE Covered(p)'
    <3>1. CASE Top.dir \/ Top.path = Root BY <1>1, <1>11, <2>2, <3>1, SkippedHides
    <3>2. CASE ~(Top.dir \/ Top.path = Root)
      <4>1. PICK d : d = Front(Top.path) OBVIOUS
      <4>2. d \in Seq(Nat) /\ Child(Top.path, d) BY <1>1, <3>2, <4>1, FrontOfChild DEF Root
      <4>3. IsPrefix(d, p) BY <1>1, <2>2, <4>2, PrefixOrder DEF Child
      <4>4. d \in skipped' BY <1>11, <3>2, <4>1
      <4>5. QED BY <1>1, <4>2, <4>3, <4>4, SkippedHides
    <3>3. QED BY <3>1, <3>2
  <2>3. \A p \in lasting : Awaits(Top, p) => Covered(p)' BY <1>0, <2>2 DEF Awaits
  <2>4. ~ Top.dir /\ Top.path # Root => Front(Top.path) \in skipped' BY <1>11
  <2>5. ret'.err \in Verdicts BY <1>11, <2>1 DEF Verdicts
  <2>6. QED BY <1>0, <1>1, <1>4, <1>5, <1>6, <2>1, <2>3, <2>4, <2>5, WalkPop
<1>12. QED BY <1>4, <1>9, <1>10, <1>11 DEF VisitFn

\* The entries of a listing.
LEMMA EntryFacts ==
  ASSUME NEW p, NEW l, EntriesOK(p, l), NEW k \in 1 .. Len(l)
  PROVE  /\ Child(l[k].path, p) /\ l[k].path \in Paths /\ l[k].path \in Seq(Nat) /\ l[k].dir \in BOOLEAN
         /\ Len(l) \in Nat
<1>1. l \in Seq([path : Paths, dir : BOOLEAN]) BY DEF EntriesOK
<1>2. l[k] \in [path : Paths, dir : BOOLEAN] BY <1>1, ElementOfSeq
<1>3. QED BY <1>1, <1>2, PathTypes DEF EntriesOK

\* A listing stays one.
LEMMA EntriesStay ==
  ASSUME NEW p, NEW l, EntriesOK(p, l), UNCHANGED <<lasting, present>>
  PROVE  EntriesOK(p, l)'
BY DEF EntriesOK

\* A directory has been read.
LEMMA VisitListedWalks ==
  ASSUME ShareIInv, TreeIInv, SaidOK, WalkOK, OrderOK, VisitListed
  PROVE  WalkOK'
<1> USE DEF noTree, noWalk, noCall, treeVars, At, Idle
<1>0. stack # <<>> /\ Top.op = "visit" /\ Top.pc = "listed" /\ UNCHANGED <<lasting, present, goal, visited>>
  BY DEF VisitListed
<1>1. /\ goal.op = "walk" /\ StackOK /\ CallersOK /\ PathsOK /\ VisitOK(Top)
      /\ Depth \in Nat /\ Depth > 0 /\ Top.path \in Seq(Nat)
      /\ \A p \in lasting : p \in Seq(Nat)
  BY <1>0, VisitTop
<1>2. VisitsOK /\ AroundOK /\ DirsOK /\ HeadOK /\ VerdictOK /\ AllOK BY <1>1 DEF WalkOK
<1>3. ~ Stopped /\ Top.dir BY <1>0, <1>1 DEF Stopped, VisitOK
<1>4. skipped \subseteq skipped' BY DEF VisitListed
<1>5. \A p \in lasting : Awaits(Top, p) => Above(Top.path, p) BY <1>0 DEF Awaits
<1>6. CASE ret.err # "none"
  <2>1. PICK v \in Verdicts : Return(Error(v)) BY <1>6 DEF VisitListed
  <2>2. Popped /\ ret'.err = v BY <1>0, <1>1, <2>1, ReturnStep DEF Error, Nothing
  <2>3. Top.path \in skipped' BY <1>6 DEF VisitListed
  <2>4. \A p \in lasting : Awaits(Top, p) => Covered(p)' BY <1>1, <1>5, <2>3, SkippedHides DEF Above
  <2>5. QED BY <1>0, <1>1, <1>3, <1>4, <2>2, <2>4, WalkPop
<1>7. CASE ret.err = "none"
  <2>1. PICK f : f = [Top EXCEPT !.pc = "entries", !.todo = ret.list] /\ Become(f)
    BY <1>7, Zenon DEF VisitListed
  <2>2. /\ DOMAIN f = Fields /\ f.op = "visit" /\ f.pc = "entries" /\ f.path = Top.path /\ f.dir = Top.dir
        /\ f.todo = ret.list
    BY <1>0, <1>1, <2>1, StackFacts DEF Fields
  <2>3. Kept(f) BY <1>0, <1>1, <2>1, <2>2, BecomeStep
  <2>4. StackOK' /\ Reshaped /\ Len(stack') = Depth /\ stack'[Depth] = f /\ Top' = f
    BY <1>0, <1>1, <2>3, NewTop DEF Kept
  <2>5. PICK l, d : l = ret.list /\ d = Top.path /\ EntriesOK(d, l) /\ ListsAll(d, l)
    BY <1>0, <1>7 DEF SaidOK, ListSaid
  <2>6. \A k \in 1 .. Len(l) : Child(l[k].path, d) /\ l[k].path \in Seq(Nat) BY <2>5, EntryFacts
  <2>7. VisitOK(f)'
    <3>1. ASSUME NEW v \in Range(visited), NEW k \in 1 .. Len(l), IsPrefix(l[k].path, v) PROVE FALSE
      <4>1. ~ Above(d, v) BY <1>0, <1>1, <2>5 DEF VisitOK, Awaits
      <4>2. v \in Seq(Nat) BY DEF OrderOK, Range
      <4>3. Above(d, v)
        <5>1. Len(l[k].path) <= Len(v) /\ Len(l[k].path) = Len(d) + 1 /\ IsPrefix(d, l[k].path)
          BY <2>6, <3>1, <4>2, PrefixMeans DEF Child
        <5>2. IsPrefix(d, v)
          <6>1. PICK c : c = l[k].path OBVIOUS
          <6>2. c \in Seq(Nat) /\ d \in Seq(Nat) /\ IsPrefix(d, c) /\ IsPrefix(c, v)
            BY <1>1, <2>5, <2>6, <3>1, <5>1, <6>1
          <6>3. QED BY <4>2, <6>2, PrefixOrder
        <5>3. QED BY <1>1, <2>5, <4>2, <5>1, <5>2 DEF Above
      <4>4. QED BY <4>1, <4>3
    <3>2. EntriesOK(d, l)' BY <1>0, <2>5, EntriesStay
    <3>3. f.path = d /\ f.todo = l BY <2>2, <2>5
    <3>4. QED BY <1>0, <1>1, <1>3, <2>2, <2>5, <3>1, <3>2, <3>3 DEF VisitOK, Awaits
  <2>8. \A i \in 1 .. Depth - 1 : stack[i].op = "visit" => Around(stack[i], f)
    <3> SUFFICES ASSUME NEW i \in 1 .. Depth - 1, stack[i].op = "visit" PROVE Around(stack[i], f) OBVIOUS
    <3>1. i \in 1 .. Len(stack) /\ i < Depth /\ Depth \in 1 .. Len(stack) /\ Top = stack[Depth]
      BY <1>1 DEF Depth, Top
    <3>2. Around(stack[i], Top) BY <1>0, <1>2, <3>1 DEF AroundOK
    <3>3. QED BY <2>2, <3>2 DEF Around
  <2>9. VisitsOK' /\ AroundOK' BY <1>0, <1>1, <1>2, <2>2, <2>4, <2>7, <2>8, VisitsStep
  <2>10. DirsOK' BY <1>0, <1>1, <1>2, <2>2, <2>4, DirsStep
  <2>11. HeadOK' /\ stack' # <<>> /\ stack'[1] = stack[1] /\ stack[1].pc = "end"
    BY <1>0, <1>1, <1>2, <2>2, <2>4, HeadStep
  <2>12. VerdictOK'
    <3>1. ret'.err = "none" BY <1>7 DEF VisitListed, Nothing
    <3>2. QED BY <3>1 DEF VerdictOK, Verdicts
  <2>13. ASSUME NEW p \in lasting, IsPrefix(goal.path, p) PROVE Pending(p)'
    <3>1. Pending(p) BY <1>0, <1>2, <1>3, <2>11, <2>13 DEF AllOK
    <3>2. Covered(p) => Covered(p)' BY <1>0, <1>4, StaysCovered
    <3>3. ASSUME Awaits(Top, p) PROVE Awaits(f, p)
      <4>1. Above(d, p) /\ d \in Seq(Nat) /\ p \in Seq(Nat) BY <1>1, <1>5, <2>5, <3>3
      <4>2. PICK c : c = Prefix(p, Len(d) + 1) OBVIOUS
      <4>3. c \in lasting /\ Child(c, d) /\ IsPrefix(c, p) BY <4>1, <4>2, NextName DEF TreeIInv, LastingOK
      <4>4. PICK k \in 1 .. Len(l) : l[k].path = c BY <2>5, <4>3 DEF ListsAll
      <4>5. QED BY <2>2, <2>5, <4>3, <4>4 DEF Awaits
    <3>4. QED BY <1>0, <1>1, <2>2, <2>4, <3>1, <3>2, <3>3, PendingStep
  <2>14. AllOK' BY <1>0, <2>11, <2>13 DEF AllOK
  <2>15. QED BY <2>9, <2>10, <2>11, <2>12, <2>14 DEF WalkOK
<1>8. QED BY <1>6, <1>7

\* t is what comes after the first of l.
Drops(l, t) ==
    /\ 1 \in 1 .. Len(l) /\ Head(l) = l[1]
    /\ \A k \in 1 .. Len(t) : k + 1 \in 1 .. Len(l) /\ k + 1 # 1 /\ t[k] = l[k + 1]
    /\ \A k \in 1 .. Len(l) : k # 1 => k - 1 \in 1 .. Len(t) /\ t[k - 1] = l[k]

\* The tail of a sequence.
LEMMA TailDrops ==
  ASSUME NEW E, NEW l \in Seq(E), l # <<>>
  PROVE  Tail(l) \in Seq(E) /\ Drops(l, Tail(l))
BY DEF Drops

\* The tail of a listing.
LEMMA EntriesTail ==
  ASSUME NEW p, NEW l, EntriesOK(p, l), l # <<>>, NEW t, t = Tail(l)
  PROVE  EntriesOK(p, t) /\ Drops(l, t)
<1> DEFINE E == [path : Paths, dir : BOOLEAN]
<1>1. l \in Seq(E) BY DEF EntriesOK
<1> HIDE DEF E
<1>2. t \in Seq(E) /\ Drops(l, t) BY <1>1, TailDrops
<1>3. Len(t) \in Nat BY <1>2
<1>4. \A k, m \in 1 .. Len(t) : k # m => t[k].path # t[m].path
  <2> SUFFICES ASSUME NEW k \in 1 .. Len(t), NEW m \in 1 .. Len(t), k # m PROVE t[k].path # t[m].path OBVIOUS
  <2>1. k + 1 # m + 1 OBVIOUS
  <2>2. QED BY <1>2, <2>1 DEF EntriesOK, Drops
<1>5. t \in Seq([path : Paths, dir : BOOLEAN]) BY <1>2 DEF E
<1>6. \A k \in 1 .. Len(t) : /\ Child(t[k].path, p) /\ t[k].path \in present
                             /\ \A q \in lasting : Above(t[k].path, q) => t[k].dir
  BY <1>2 DEF EntriesOK, Drops
<1>7. EntriesOK(p, t) BY <1>4, <1>5, <1>6 DEF EntriesOK
<1>8. QED BY <1>2, <1>7

\* An entry that the outer visits no longer await.
LEMMA AroundDeeper ==
  ASSUME NEW f, NEW g, NEW h, f.path \in Seq(Nat), g.path \in Seq(Nat), h.path \in Seq(Nat),
         Around(f, g), Child(h.path, g.path), EntriesOK(f.path, f.todo)
  PROVE  Around(f, h)
<1>1. PICK a, b, c : a = f.path /\ b = g.path /\ c = h.path OBVIOUS
<1>2. a \in Seq(Nat) /\ b \in Seq(Nat) /\ c \in Seq(Nat) /\ Above(a, b) /\ Child(c, b) BY <1>1 DEF Around
<1>3. Above(a, c) BY <1>2, PrefixOrder, PrefixMeans DEF Above, Child
<1>4. ASSUME NEW k \in 1 .. Len(f.todo), IsPrefix(f.todo[k].path, c) PROVE FALSE
  <2>1. PICK t : t = f.todo[k].path OBVIOUS
  <2>2. t \in Seq(Nat) /\ Child(t, a) BY <1>1, <2>1, EntryFacts
  <2>3. IsPrefix(t, c) /\ IsPrefix(b, c) /\ Len(t) <= Len(b) BY <1>2, <1>4, <2>1, <2>2 DEF Child, Above
  <2>4. IsPrefix(t, b) BY <1>2, <2>2, <2>3, PrefixOrder
  <2>5. QED BY <1>1, <2>1, <2>4 DEF Around, Awaits
<1>5. ~ Awaits(f, c) BY <1>4 DEF Awaits, Around
<1>6. QED BY <1>1, <1>3, <1>5 DEF Around

\* Walk goes on with the next entry of a directory, or is done with it.
LEMMA VisitEntryWalks ==
  ASSUME ShareIInv, TreeIInv, SaidOK, WalkOK, VisitEntry
  PROVE  WalkOK'
<1> USE DEF noTree, noWalk, noCall, treeVars, At, Idle
<1>0. stack # <<>> /\ Top.op = "visit" /\ Top.pc = "entries" /\ UNCHANGED <<lasting, present, goal, visited, skipped>>
  BY DEF VisitEntry
<1>1. /\ goal.op = "walk" /\ StackOK /\ CallersOK /\ PathsOK /\ VisitOK(Top)
      /\ Depth \in Nat /\ Depth > 0 /\ Top.path \in Seq(Nat)
      /\ \A p \in lasting : p \in Seq(Nat)
  BY <1>0, VisitTop
<1>2. VisitsOK /\ AroundOK /\ DirsOK /\ HeadOK /\ VerdictOK /\ AllOK BY <1>1 DEF WalkOK
<1>3. Top.dir /\ ret.err \in Verdicts /\ (Top.n # 1 /\ ret.err = "skipDir" => Top.path \in skipped)
  BY <1>0, <1>1, <1>2 DEF VisitOK, VerdictOK
<1>4. PICK l, d : l = Top.todo /\ d = Top.path /\ EntriesOK(d, l) BY <1>0, <1>1 DEF VisitOK
<1>5. \A k \in 1 .. Len(l) : Child(l[k].path, d) /\ l[k].path \in Seq(Nat) BY <1>4, EntryFacts
<1>6. CASE PassesOn(Top.n = 1, ret.err) /\ Return(ret)
  <2>1. Popped /\ ret' = ret BY <1>0, <1>1, <1>6, ReturnStep
  <2>2. ret.err # "none" /\ (Top.n # 1 \/ ret.err # "skipDir") BY <1>6 DEF PassesOn
  <2>3. ASSUME ret.err # "stop", NEW p \in lasting, Awaits(Top, p) PROVE Covered(p)'
    <3>1. d \in skipped' BY <1>0, <1>3, <1>4, <2>2, <2>3 DEF Verdicts
    <3>2. PICK k \in 1 .. Len(l) : IsPrefix(l[k].path, p) BY <1>0, <1>4, <2>3 DEF Awaits
    <3>3. PICK c : c = l[k].path OBVIOUS
    <3>4. c \in Seq(Nat) /\ d \in Seq(Nat) /\ p \in Seq(Nat) /\ IsPrefix(d, c) /\ IsPrefix(c, p)
      BY <1>1, <1>4, <1>5, <3>2, <3>3 DEF Child
    <3>5. IsPrefix(d, p) BY <3>4, PrefixOrder
    <3>6. QED BY <3>1, <3>4, <3>5, SkippedHides
  <2>4. ret.err # "stop" => ~ Stopped BY DEF Stopped
  <2>5. QED BY <1>0, <1>1, <1>3, <2>1, <2>3, <2>4, WalkPop
<1>7. CASE ~ PassesOn(Top.n = 1, ret.err) /\ Top.todo = <<>> /\ Return(Nothing)
  <2>1. Popped /\ ret'.err = "none" BY <1>0, <1>1, <1>7, ReturnStep DEF Nothing
  <2>2. ~ Stopped BY <1>7 DEF Stopped, PassesOn
  <2>3. \A p : ~ Awaits(Top, p) BY <1>0, <1>7 DEF Awaits
  <2>4. QED BY <1>0, <1>1, <1>3, <2>1, <2>2, <2>3, WalkPop DEF Verdicts
<1>8. CASE /\ ~ PassesOn(Top.n = 1, ret.err) /\ Top.todo # <<>>
           /\ Call([Top EXCEPT !.todo = Tail(@), !.n = IF Head(Top.todo).dir THEN 1 ELSE 0],
                   [Frame("visit", "fn", Head(Top.todo).path) EXCEPT !.dir = Head(Top.todo).dir])
           /\ ret' = Nothing
  <2>0. PICK t, e : t = Tail(l) /\ e = l[1] OBVIOUS
  <2>1. EntriesOK(d, t) /\ Drops(l, t)
    <3>1. l # <<>> BY <1>4, <1>8
    <3>2. QED BY <1>4, <2>0, <3>1, EntriesTail
  <2>2. PICK f, g : /\ f = [Top EXCEPT !.todo = t, !.n = IF e.dir THEN 1 ELSE 0]
                    /\ g = [Frame("visit", "fn", e.path) EXCEPT !.dir = e.dir] /\ Call(f, g)
    BY <1>4, <1>8, <2>0, <2>1 DEF Drops
  <2>3. /\ DOMAIN f = Fields /\ DOMAIN g = Fields /\ f.op = "visit" /\ f.pc = "entries" /\ f.path = d /\ f.dir = Top.dir
        /\ f.todo = t /\ f.n = (IF e.dir THEN 1 ELSE 0) /\ g.op = "visit" /\ g.pc = "fn" /\ g.path = e.path /\ g.dir = e.dir
    BY <1>0, <1>1, <1>4, <2>2, StackFacts DEF Frame, Fields
  <2>4. Pushed(f, g) BY <1>0, <1>1, <2>2, <2>3, CallStep
  <2>5. StackOK' /\ Reshaped /\ Len(stack') = Depth + 1 /\ stack'[Depth] = f /\ stack'[Depth + 1] = g /\ Top' = g
    BY <1>0, <1>1, <2>4, NewTop DEF Pushed
  <2>6. e.path \in Paths /\ e.path \in Seq(Nat) /\ e.dir \in BOOLEAN /\ Child(e.path, d)
        /\ \A q \in lasting : Above(e.path, q) => e.dir
    <3>1. e.path \in Paths /\ e.path \in Seq(Nat) /\ e.dir \in BOOLEAN /\ Child(e.path, d)
      BY <1>4, <2>0, <2>1, EntryFacts DEF Drops
    <3>2. \A q \in lasting : Above(e.path, q) => e.dir BY <1>4, <2>0, <2>1 DEF EntriesOK, Drops
    <3>3. QED BY <3>1, <3>2
  <2>7. \A v \in Range(visited), k \in 1 .. Len(l) : ~ IsPrefix(l[k].path, v)
    BY <1>0, <1>1, <1>4 DEF VisitOK, Awaits
  <2>8. VisitOK(f)'
    <3>1. EntriesOK(d, t)' BY <1>0, <2>1, EntriesStay
    <3>2. \A v \in Range(visited) : ~ Awaits(f, v) BY <2>1, <2>3, <2>7 DEF Awaits, Drops
    <3>3. QED BY <1>0, <1>1, <1>3, <1>4, <2>3, <3>1, <3>2 DEF VisitOK, Awaits
  <2>9. VisitOK(g)' BY <1>0, <2>0, <2>1, <2>3, <2>6, <2>7 DEF VisitOK, Awaits, Drops
  <2>10. ASSUME NEW i \in 1 .. Depth - 1, stack[i].op = "visit" PROVE Around(stack[i], f) /\ Around(stack[i], g)
    <3>1. i \in 1 .. Len(stack) /\ i < Depth /\ Depth \in 1 .. Len(stack) /\ Top = stack[Depth]
      BY <1>1 DEF Depth, Top
    <3>2. Around(stack[i], Top) /\ VisitOK(stack[i]) BY <1>0, <1>2, <2>10, <3>1 DEF AroundOK, VisitsOK
    <3>3. Around(stack[i], f) BY <1>4, <2>3, <3>2 DEF Around
    <3>4. EntriesOK(stack[i].path, stack[i].todo) BY <3>2 DEF VisitOK, Around
    <3>5. stack[i].path \in Seq(Nat) BY <1>1, <3>1 DEF PathsOK
    <3>6. QED BY <1>1, <1>4, <2>3, <2>6, <3>3, <3>4, <3>5, AroundDeeper
  <2>11. Around(f, g)
    <3>1. Above(d, e.path) BY <1>1, <1>4, <2>6 DEF Above, Child
    <3>2. ASSUME NEW k \in 1 .. Len(t), IsPrefix(t[k].path, e.path) PROVE FALSE
      <4>1. PICK a, b : a = t[k].path /\ b = e.path OBVIOUS
      <4>2. a # b BY <1>4, <2>0, <2>1, <4>1 DEF EntriesOK, Drops
      <4>3. a \in Seq(Nat) /\ b \in Seq(Nat) /\ Child(a, d) /\ Child(b, d) BY <2>1, <2>6, <4>1, EntryFacts
      <4>4. QED BY <3>2, <4>1, <4>2, <4>3, PrefixOrder DEF Child
    <3>3. QED BY <2>3, <3>1, <3>2 DEF Around, Awaits
  <2>12. VisitsOK' /\ AroundOK'
    BY <1>0, <1>1, <1>2, <2>3, <2>5, <2>8, <2>9, <2>10, <2>11, VisitsStep
  <2>13. DirsOK'
    <3>1. f.n = 1 <=> g.dir BY <2>3, <2>6
    <3>2. QED BY <1>0, <1>1, <1>2, <2>3, <2>5, <3>1, DirsStep
  <2>14. HeadOK' /\ stack' # <<>> /\ stack'[1] = stack[1] /\ stack[1].pc = "end"
    BY <1>0, <1>1, <1>2, <2>3, <2>5, HeadStep
  <2>15. VerdictOK' BY <2>3, <2>5 DEF VerdictOK
  <2>16. ASSUME NEW p \in lasting, IsPrefix(goal.path, p) PROVE Pending(p)'
    <3>0. ~ Stopped BY <1>8 DEF Stopped, PassesOn
    <3>1. Pending(p) BY <1>0, <1>2, <2>14, <2>16, <3>0 DEF AllOK
    <3>2. Covered(p) => Covered(p)' BY <1>0, StaysCovered
    <3>3. ASSUME Awaits(Top, p) PROVE Awaits(f, p) \/ Awaits(g, p)
      <4>1. PICK k \in 1 .. Len(l) : IsPrefix(l[k].path, p) BY <1>0, <1>4, <3>3 DEF Awaits
      <4>2. CASE k = 1 BY <2>0, <2>3, <4>1, <4>2 DEF Awaits
      <4>3. CASE k # 1 BY <2>1, <2>3, <4>1, <4>3 DEF Awaits, Drops
      <4>4. QED BY <4>2, <4>3
    <3>4. QED BY <1>0, <1>1, <2>3, <2>5, <3>1, <3>2, <3>3, PendingStep
  <2>17. AllOK' BY <1>0, <2>14, <2>16 DEF AllOK
  <2>18. QED BY <2>12, <2>13, <2>14, <2>15, <2>17 DEF WalkOK
<1>9. QED BY <1>6, <1>7, <1>8 DEF VisitEntry

\* A call that keeps its name, path and pattern is the same for its caller.
LEMMA SameStands ==
  ASSUME NEW f, Top.op \notin Asking, Top.path \in Seq(Nat), f.op = Top.op, f.path = Top.path, f.to = Top.to
  PROVE  Stands(f)
BY DEF Stands, Caller

\* Walk, for its calls of Stat and ReadDir.
LEMMA WalkTells ==
  ASSUME ShareIInv, TreeIInv, SaidOK, WalkOK,
         WalkStat \/ WalkStatted \/ WalkEnd \/ VisitFn \/ VisitListed \/ VisitEntry
  PROVE  SaidOK'
<1> USE DEF noTree, noWalk, noCall, treeVars, At, Idle
<1>0. StackOK /\ CallersOK /\ PathsOK BY DEF ShareIInv, SaidOK
<1>1. stack # <<>> /\ Top.op \in {"walk", "visit"} /\ Top.op \notin Asking
  BY DEF WalkStat, WalkStatted, WalkEnd, VisitFn, VisitListed, VisitEntry, Asking
<1>2. Depth \in Nat /\ Depth > 0 /\ Depth = Len(stack) /\ Depth \in 1 .. Len(stack) /\ Top = stack[Depth] /\ DOMAIN Top = Fields
  BY <1>0, <1>1, StackFacts DEF Depth, Top
<1>3. Top.path \in Seq(Nat) BY <1>0, <1>2 DEF PathsOK
<1>4. ASSUME NEW r, Return(r) PROVE SaidOK' BY <1>0, <1>1, <1>4, ReturnStep, SaidStep
<1>5. ASSUME NEW f, NEW g, DOMAIN f = Fields, DOMAIN g = Fields, Call(f, g),
             f.op = Top.op, f.path = Top.path, f.to = Top.to, Caller(f, g), Fresh(g)
      PROVE  SaidOK'
  <2>1. Pushed(f, g) BY <1>0, <1>1, <1>5, CallStep
  <2>2. Stands(f) BY <1>1, <1>3, <1>5, SameStands
  <2>3. QED BY <1>0, <1>1, <1>5, <2>1, <2>2, SaidStep
<1>6. ASSUME NEW pc, NEW dir, Top.op = "walk", pc = "end",
             Call([Top EXCEPT !.pc = pc], [Frame("visit", "fn", Top.path) EXCEPT !.dir = dir])
      PROVE  SaidOK'
  <2>1. PICK f, g : f = [Top EXCEPT !.pc = pc] /\ g = [Frame("visit", "fn", Top.path) EXCEPT !.dir = dir] /\ Call(f, g)
    BY <1>6
  <2>2. /\ DOMAIN f = Fields /\ DOMAIN g = Fields /\ f.op = Top.op /\ f.path = Top.path /\ f.to = Top.to /\ f.pc = pc
        /\ g.op = "visit" /\ g.pc = "fn" /\ g.path = Top.path /\ g.todo = <<>> /\ g.seen = {}
    BY <1>2, <2>1 DEF Frame, Fields
  <2>3. Caller(f, g) /\ Fresh(g) BY <1>3, <1>6, <2>2 DEF Caller, Fresh
  <2>4. QED BY <1>5, <2>1, <2>2, <2>3
<1>7. ASSUME NEW pc, NEW op, NEW begin,
             \/ Top.op = "walk" /\ pc = "statted" /\ op = "stat" /\ begin = "basic"
             \/ Top.op = "visit" /\ pc = "listed" /\ op = "readDir" /\ begin = "first",
             Call([Top EXCEPT !.pc = pc], Frame(op, begin, Top.path))
      PROVE  SaidOK'
  <2>1. PICK f, g : f = [Top EXCEPT !.pc = pc] /\ g = Frame(op, begin, Top.path) /\ Call(f, g)
    BY <1>7
  <2>2. /\ DOMAIN f = Fields /\ DOMAIN g = Fields /\ f.op = Top.op /\ f.path = Top.path /\ f.to = Top.to /\ f.pc = pc
        /\ g.op = op /\ g.pc = begin /\ g.path = Top.path /\ g.todo = <<>> /\ g.seen = {}
    BY <1>2, <2>1 DEF Frame, Fields
  <2>3. Caller(f, g) /\ Fresh(g) BY <1>3, <1>7, <2>2 DEF Caller, Fresh
  <2>4. QED BY <1>5, <2>1, <2>2, <2>3
<1>8. CASE WalkStat
  <2>1. Top.op = "walk" /\ UNCHANGED ret BY <1>8 DEF WalkStat
  <2>2. CASE Top.path = Root
    <3>1. Call([Top EXCEPT !.pc = "end"], [Frame("visit", "fn", Top.path) EXCEPT !.dir = TRUE])
      BY <1>8, <2>2 DEF WalkStat
    <3>2. QED BY <1>6, <2>1, <3>1
  <2>3. CASE Top.path # Root
    <3>1. Call([Top EXCEPT !.pc = "statted"], Frame("stat", "basic", Top.path)) BY <1>8, <2>3 DEF WalkStat
    <3>2. QED BY <1>7, <2>1, <3>1
  <2>4. QED BY <2>2, <2>3
<1>9. CASE WalkStatted
  <2>1. Top.op = "walk" BY <1>9 DEF WalkStatted
  <2>2. \/ \E r : Return(r)
        \/ Call([Top EXCEPT !.pc = "end"], [Frame("visit", "fn", Top.path) EXCEPT !.dir = ret.dir])
    BY <1>9 DEF WalkStatted
  <2>3. QED BY <1>4, <1>6, <2>1, <2>2
<1>10. CASE WalkEnd BY <1>4, <1>10 DEF WalkEnd
<1>11. CASE VisitFn
  <2>1. Top.op = "visit" BY <1>11 DEF VisitFn
  <2>2. \/ \E r : Return(r)
        \/ Call([Top EXCEPT !.pc = "listed"], Frame("readDir", "first", Top.path))
    BY <1>11 DEF VisitFn
  <2>3. QED BY <1>4, <1>7, <2>1, <2>2
<1>12. CASE VisitListed
  <2>1. \/ \E r : Return(r)
        \/ Become([Top EXCEPT !.pc = "entries", !.todo = ret.list])
    BY <1>12 DEF VisitListed
  <2>2. ASSUME NEW f, f = [Top EXCEPT !.pc = "entries", !.todo = ret.list], Become(f) PROVE SaidOK'
    <3>1. /\ DOMAIN f = Fields /\ f.op = Top.op /\ f.path = Top.path /\ f.to = Top.to /\ f.pc = "entries"
      BY <1>2, <2>2 DEF Fields
    <3>2. Kept(f) BY <1>0, <1>1, <2>2, <3>1, BecomeStep
    <3>3. Stands(f) BY <1>1, <1>3, <3>1, SameStands
    <3>4. QED BY <1>0, <1>1, <3>1, <3>2, <3>3, SaidStep
  <2>3. QED BY <1>4, <2>1, <2>2
<1>13. CASE VisitEntry
  <2>1. Top.op = "visit" /\ Top.pc = "entries" BY <1>13 DEF VisitEntry
  <2>2. VisitOK(Top) BY <1>1, <2>1, VisitTop
  <2>3. \/ \E r : Return(r)
        \/ /\ Top.todo # <<>>
           /\ Call([Top EXCEPT !.todo = Tail(@), !.n = IF Head(Top.todo).dir THEN 1 ELSE 0],
                   [Frame("visit", "fn", Head(Top.todo).path) EXCEPT !.dir = Head(Top.todo).dir])
    BY <1>13 DEF VisitEntry
  <2>4. ASSUME Top.todo # <<>>,
               Call([Top EXCEPT !.todo = Tail(@), !.n = IF Head(Top.todo).dir THEN 1 ELSE 0],
                    [Frame("visit", "fn", Head(Top.todo).path) EXCEPT !.dir = Head(Top.todo).dir])
        PROVE  SaidOK'
    <3>1. PICK f, g : /\ f = [Top EXCEPT !.todo = Tail(Top.todo), !.n = IF Head(Top.todo).dir THEN 1 ELSE 0]
                      /\ g = [Frame("visit", "fn", Head(Top.todo).path) EXCEPT !.dir = Head(Top.todo).dir]
                      /\ Call(f, g)
      BY <2>4
    <3>2. /\ DOMAIN f = Fields /\ DOMAIN g = Fields /\ f.op = "visit" /\ f.pc = "entries" /\ f.path = Top.path /\ f.to = Top.to
          /\ g.op = "visit" /\ g.pc = "fn" /\ g.path = Head(Top.todo).path /\ g.todo = <<>> /\ g.seen = {}
      BY <1>2, <2>1, <3>1 DEF Frame, Fields
    <3>3. PICK l, p : l = Top.todo /\ p = Top.path /\ EntriesOK(p, l) BY <2>1, <2>2 DEF VisitOK
    <3>4. 1 \in 1 .. Len(l) /\ Head(l) = l[1] BY <2>4, <3>3, EntriesTail DEF Drops
    <3>5. Child(l[1].path, p) /\ l[1].path \in Seq(Nat) BY <3>3, <3>4, EntryFacts
    <3>6. Caller(f, g) /\ Fresh(g) BY <3>2, <3>3, <3>4, <3>5 DEF Caller, Fresh
    <3>7. QED BY <1>5, <2>1, <3>1, <3>2, <3>6
  <2>5. QED BY <1>4, <2>3, <2>4
<1>14. QED BY <1>8, <1>9, <1>10, <1>11, <1>12, <1>13

\* The outermost call is the only one.
LEMMA WalkAlone ==
  ASSUME ShareIInv, TreeIInv, SaidOK, WalkOK, stack # <<>>, Top.op = "walk"
  PROVE  /\ goal.op = "walk" /\ Depth = 1 /\ Top = stack[1] /\ Top.path = goal.path /\ DOMAIN Top = Fields
         /\ StackOK /\ VisitsOK /\ HeadOK /\ VerdictOK /\ AllOK /\ CallersOK
         /\ goal.path \in Paths \cup {Root} /\ goal.path \in Seq(Nat)
         /\ \A p \in lasting : p \in Seq(Nat)
<1>1. StackOK /\ CallersOK BY DEF ShareIInv, SaidOK
<1>2. goal.op = "walk" BY <1>1, ListerOps
<1>3. VisitsOK /\ HeadOK /\ VerdictOK /\ AllOK BY <1>2 DEF WalkOK
<1>4. Depth \in Nat /\ Depth > 0 /\ Depth = Len(stack) /\ Top = stack[Depth] /\ DOMAIN Top = Fields
  BY <1>1, StackFacts DEF Depth, Top
<1>5. Depth = 1
  <2> SUFFICES ASSUME Depth # 1 PROVE FALSE OBVIOUS
  <2>1. Depth \in 2 .. Len(stack) BY <1>4
  <2>2. QED BY <1>3, <1>4, <2>1 DEF HeadOK
<1>6. Top.path = goal.path /\ goal.path \in Paths \cup {Root} BY <1>3, <1>4, <1>5 DEF HeadOK
<1>7. \A p \in lasting : p \in Seq(Nat) BY PathTypes DEF TreeIInv, LastingOK
<1>8. QED BY <1>1, <1>2, <1>3, <1>4, <1>5, <1>6, <1>7, PathTypes

\* The visit of the root of a walk begins.
LEMMA WalkBegins ==
  ASSUME ShareIInv, TreeIInv, SaidOK, WalkOK, stack # <<>>, Top.op = "walk", Top.pc # "end",
         NEW dir \in BOOLEAN, \A q \in lasting : Above(Top.path, q) => dir,
         Call([Top EXCEPT !.pc = "end"], [Frame("visit", "fn", Top.path) EXCEPT !.dir = dir]),
         UNCHANGED <<lasting, present, goal, visited, skipped>>
  PROVE  WalkOK'
<1>1. /\ goal.op = "walk" /\ Depth = 1 /\ Top = stack[1] /\ Top.path = goal.path /\ DOMAIN Top = Fields
      /\ StackOK /\ VisitsOK /\ HeadOK /\ VerdictOK /\ AllOK /\ CallersOK
      /\ goal.path \in Paths \cup {Root} /\ goal.path \in Seq(Nat)
      /\ \A p \in lasting : p \in Seq(Nat)
  BY WalkAlone
<1>2. PICK f, g : f = [Top EXCEPT !.pc = "end"] /\ g = [Frame("visit", "fn", Top.path) EXCEPT !.dir = dir] /\ Call(f, g)
  OBVIOUS
<1>3. /\ DOMAIN f = Fields /\ DOMAIN g = Fields /\ f.op = "walk" /\ f.pc = "end" /\ f.path = goal.path
      /\ g.op = "visit" /\ g.pc = "fn" /\ g.path = goal.path /\ g.dir = dir
  BY <1>1, <1>2 DEF Frame, Fields
<1>4. Pushed(f, g) BY <1>1, <1>2, <1>3, CallStep
<1>5. StackOK' /\ Len(stack') = 2 /\ stack'[1] = f /\ stack'[2] = g /\ Top' = g /\ stack' # <<>>
  BY <1>1, <1>4, NewTop DEF Pushed
<1>6. visited' = <<>> BY <1>1 DEF HeadOK
<1>7. Range(visited') = {} BY <1>6 DEF Range
<1>8. VisitOK(g)' BY <1>1, <1>3, <1>7 DEF VisitOK
<1>9. VisitsOK'
  <2> SUFFICES ASSUME NEW i \in 1 .. Len(stack'), stack'[i].op = "visit" PROVE stack'[i] = g
    BY <1>8 DEF VisitsOK
  <2>1. i = 1 \/ i = 2 BY <1>5
  <2>2. QED BY <1>3, <1>5, <2>1
<1>10. AroundOK'
  <2> SUFFICES ASSUME NEW i \in 1 .. Len(stack'), NEW j \in 1 .. Len(stack'), i < j, stack'[i].op = "visit" PROVE FALSE
    BY DEF AroundOK
  <2>1. i = 1 BY <1>5
  <2>2. QED BY <1>3, <1>5, <2>1
<1>11. DirsOK'
  <2> SUFFICES ASSUME NEW i \in 1 .. Len(stack') - 1, stack'[i].op = "visit" PROVE FALSE BY DEF DirsOK
  <2>1. i = 1 BY <1>5
  <2>2. QED BY <1>3, <1>5, <2>1
<1>12. HeadOK'
  <2>1. ASSUME NEW i \in 2 .. Len(stack') PROVE stack'[i].op # "walk"
    <3>1. i = 2 BY <1>5
    <3>2. QED BY <1>3, <1>5, <3>1
  <2>2. QED BY <1>1, <1>3, <1>5, <2>1 DEF HeadOK
<1>13. VerdictOK' BY <1>3, <1>5 DEF VerdictOK
<1>14. AllOK'
  <2>1. ASSUME NEW p \in lasting, IsPrefix(goal.path, p) PROVE Pending(p)'
    <3>1. Awaits(g, p) /\ 2 \in 1 .. Len(stack') BY <1>3, <1>5, <2>1 DEF Awaits
    <3>2. QED BY <1>3, <1>5, <3>1 DEF Pending, Awaits, Above
  <2>2. QED BY <1>5, <2>1 DEF AllOK
<1>15. QED BY <1>9, <1>10, <1>11, <1>12, <1>13, <1>14 DEF WalkOK

\* A walk that ends.
LEMMA WalkReturns ==
  ASSUME ShareIInv, TreeIInv, SaidOK, WalkOK, stack # <<>>, Top.op = "walk", NEW r, Return(r), goal' = goal,
         r.err = "none" => \A p \in lasting' : IsPrefix(goal.path, p) => Covered(p)'
  PROVE  WalkOK'
<1>1. /\ goal.op = "walk" /\ Depth = 1 /\ StackOK /\ CallersOK /\ HeadOK BY WalkAlone
<1>2. Popped /\ ret' = r BY <1>1, ReturnStep
<1>3. stack' = <<>> BY <1>1, <1>2, ReturnTop
<1>4. Len(stack') = 0 BY <1>3
<1>5. VisitsOK' /\ AroundOK' /\ DirsOK' /\ VerdictOK' BY <1>3, <1>4 DEF VisitsOK, AroundOK, DirsOK, VerdictOK
<1>6. HeadOK' BY <1>1, <1>3 DEF HeadOK
<1>7. AllOK' BY <1>2, <1>3 DEF AllOK
<1>8. QED BY <1>5, <1>6, <1>7 DEF WalkOK

\* Walk looks at its root, and ends.
LEMMA WalkWalks ==
  ASSUME ShareIInv, TreeIInv, SaidOK, WalkOK, WalkStat \/ WalkStatted \/ WalkEnd
  PROVE  WalkOK' /\ visited' = visited
<1> USE DEF noTree, noWalk, noCall, treeVars, At, Idle
<1>0. stack # <<>> /\ Top.op = "walk" /\ UNCHANGED <<lasting, present, goal, visited>>
  BY DEF WalkStat, WalkStatted, WalkEnd
<1>1. /\ goal.op = "walk" /\ Depth = 1 /\ Top = stack[1] /\ Top.path = goal.path /\ DOMAIN Top = Fields
      /\ StackOK /\ VisitsOK /\ HeadOK /\ VerdictOK /\ AllOK /\ CallersOK
      /\ goal.path \in Paths \cup {Root} /\ goal.path \in Seq(Nat)
      /\ \A p \in lasting : p \in Seq(Nat)
  BY <1>0, WalkAlone
<1>2. CASE WalkStat
  <2>1. UNCHANGED skipped /\ Top.pc # "end" BY <1>2 DEF WalkStat
  <2>2. CASE Top.path = Root
    <3>1. Call([Top EXCEPT !.pc = "end"], [Frame("visit", "fn", Top.path) EXCEPT !.dir = TRUE])
      BY <1>2, <2>2 DEF WalkStat
    <3>2. QED BY <1>0, <2>1, <3>1, WalkBegins
  <2>3. CASE Top.path # Root
    <3>1. Call([Top EXCEPT !.pc = "statted"], Frame("stat", "basic", Top.path)) BY <1>2, <2>3 DEF WalkStat
    <3>2. PICK f, g : f = [Top EXCEPT !.pc = "statted"] /\ g = Frame("stat", "basic", Top.path) /\ Call(f, g)
      BY <3>1
    <3>3. /\ DOMAIN f = Fields /\ DOMAIN g = Fields /\ f.op = "walk" /\ f.pc = "statted" /\ f.path = goal.path
          /\ g.op = "stat" /\ g.pc = "basic"
      BY <1>0, <1>1, <3>2 DEF Frame, Fields
    <3>4. Pushed(f, g) BY <1>0, <1>1, <3>2, <3>3, CallStep
    <3>5. StackOK' /\ Len(stack') = 2 /\ stack'[1] = f /\ stack'[2] = g /\ Top' = g /\ stack' # <<>>
      BY <1>0, <1>1, <3>4, NewTop DEF Pushed
    <3>6. \A i \in 1 .. Len(stack') : stack'[i].op # "visit"
      <4> SUFFICES ASSUME NEW i \in 1 .. Len(stack') PROVE stack'[i].op # "visit" OBVIOUS
      <4>1. i = 1 \/ i = 2 BY <3>5
      <4>2. QED BY <3>3, <3>5, <4>1
    <3>7. VisitsOK' /\ AroundOK' BY <3>6 DEF VisitsOK, AroundOK
    <3>8. DirsOK'
      <4> SUFFICES ASSUME NEW i \in 1 .. Len(stack') - 1 PROVE stack'[i].op # "visit" BY DEF DirsOK
      <4>1. i \in 1 .. Len(stack') BY <3>5
      <4>2. QED BY <3>6, <4>1
    <3>9. HeadOK'
      <4>1. ASSUME NEW i \in 2 .. Len(stack') PROVE stack'[i].op # "walk" /\ stack'[i].op # "visit"
        <5>1. i = 2 BY <3>5
        <5>2. QED BY <3>3, <3>5, <5>1
      <4>2. visited' = <<>> BY <1>0, <1>1, <2>1 DEF HeadOK
      <4>3. QED BY <1>0, <1>1, <3>3, <3>5, <4>1, <4>2 DEF HeadOK
    <3>10. VerdictOK' /\ AllOK' BY <3>3, <3>5 DEF VerdictOK, AllOK
    <3>11. QED BY <1>0, <3>7, <3>8, <3>9, <3>10 DEF WalkOK
  <2>4. QED BY <2>2, <2>3
<1>3. CASE WalkStatted
  <2>1. Top.pc = "statted" BY <1>3 DEF WalkStatted
  <2>2. CASE ret.err # "none"
    <3>1. PICK r : Return(r) BY <1>3, <2>2 DEF WalkStatted
    <3>2. goal.path \in skipped' BY <1>1, <1>3, <2>2 DEF WalkStatted
    <3>3. \A p \in lasting' : IsPrefix(goal.path, p) => Covered(p)' BY <1>0, <1>1, <3>2, SkippedHides
    <3>4. QED BY <1>0, <3>1, <3>3, WalkReturns
  <2>3. CASE ret.err = "none"
    <3>1. /\ Call([Top EXCEPT !.pc = "end"], [Frame("visit", "fn", Top.path) EXCEPT !.dir = ret.dir])
          /\ UNCHANGED skipped
      BY <1>3, <2>3 DEF WalkStatted
    <3>2. ret.dir \in BOOLEAN /\ \A q \in lasting : Above(Top.path, q) => ret.dir
      BY <1>0, <2>1, <2>3 DEF SaidOK, StatSaid, Asked
    <3>3. QED BY <1>0, <2>1, <3>1, <3>2, WalkBegins
  <2>4. QED BY <1>0, <2>2, <2>3
<1>4. CASE WalkEnd
  <2>1. Top.pc = "end" /\ UNCHANGED skipped BY <1>4 DEF WalkEnd
  <2>2. PICK r : r = (IF ret.err = "skipDir" THEN Nothing ELSE ret) /\ Return(r) BY <1>4 DEF WalkEnd
  <2>3. ret.err \in Verdicts BY <1>0, <1>1, <2>1 DEF VerdictOK
  <2>4. ASSUME r.err = "none", NEW p \in lasting, IsPrefix(goal.path, p) PROVE Covered(p)'
    <3>1. ~ Stopped BY <2>2, <2>4 DEF Stopped
    <3>2. Pending(p) BY <1>0, <1>1, <2>1, <2>4, <3>1 DEF AllOK
    <3>3. ASSUME NEW i \in 1 .. Len(stack) PROVE stack[i].op # "visit"
      <4>1. i = 1 BY <1>1 DEF Depth
      <4>2. QED BY <1>0, <1>1, <4>1
    <3>4. Covered(p) BY <3>2, <3>3 DEF Pending
    <3>5. QED BY <1>0, <2>1, <3>4, StaysCovered
  <2>5. QED BY <1>0, <2>2, <2>4, WalkReturns
<1>5. QED BY <1>0, <1>2, <1>3, <1>4

\* A call of Stat or ReadDir goes on or returns, and touches nothing else.
Asks ==
    /\ Top.op \in Asking /\ Top.pc \in {"basic", "standard", "first", "next"}
    /\ UNCHANGED <<lasting, present, goal, visited, skipped, matches>>
    /\ \/ Popped
       \/ \E f : Kept(f) /\ f.op = Top.op /\ f.pc \in {"standard", "next"}

\* The requests of a listing.
LEMMA ListingAsks ==
  ASSUME ShareIInv, TreeIInv, goal.op \in Listings,
         StatBasic \/ StatStandard \/ Find \/ RequestRefused \/ RequestDenied
  PROVE  /\ stack # <<>> /\ Asks
         /\ \/ (StatBasic \/ StatStandard \/ Find) /\ faulted' = faulted
            \/ \E e \in {"denied", "ctx"} : FailWith(e)
<1> USE DEF noTree, noWalk, noCall, treeVars, history, Answered, At, Idle, Requesting
<1>0. StackOK BY DEF ShareIInv
<1>1. stack # <<>> /\ UNCHANGED <<lasting, present, goal, visited, skipped, matches>>
  BY DEF StatBasic, StatStandard, Find, RequestRefused, RequestDenied
<1>2. DOMAIN Top = Fields BY <1>0, <1>1, StackFacts
<1>3. CASE StatBasic \/ StatStandard
  <2>1. \/ \E r : Return(r)
        \/ \E b : Become([Top EXCEPT !.pc = "standard", !.dir = b])
    BY <1>3 DEF StatBasic, StatStandard
  <2>2. Top.op \in Asking /\ Top.pc \in {"basic", "standard"} /\ faulted' = faulted
    BY <1>3 DEF StatBasic, StatStandard, Asking
  <2>3. ASSUME NEW f, NEW b, f = [Top EXCEPT !.pc = "standard", !.dir = b], Become(f)
        PROVE  Kept(f) /\ f.op = Top.op /\ f.pc = "standard"
    <3>1. DOMAIN f = Fields /\ f.op = Top.op /\ f.pc = "standard" BY <1>2, <2>3 DEF Fields
    <3>2. QED BY <1>0, <1>1, <2>3, <3>1, BecomeStep
  <2>4. Asks BY <1>0, <1>1, <2>1, <2>2, <2>3, ReturnStep DEF Asks
  <2>5. QED BY <1>1, <1>3, <2>2, <2>4
<1>4. CASE Find
  <2>1. \/ \E r : Return(r)
        \/ \E a, b : Become([Top EXCEPT !.pc = "next", !.todo = a, !.seen = b])
    BY <1>4 DEF Find
  <2>2. Top.op \in Asking /\ Top.pc \in {"first", "next"} /\ faulted' = faulted
    BY <1>4 DEF Find, Asking
  <2>3. ASSUME NEW f, NEW a, NEW b, f = [Top EXCEPT !.pc = "next", !.todo = a, !.seen = b], Become(f)
        PROVE  Kept(f) /\ f.op = Top.op /\ f.pc = "next"
    <3>1. DOMAIN f = Fields /\ f.op = Top.op /\ f.pc = "next" BY <1>2, <2>3 DEF Fields
    <3>2. QED BY <1>0, <1>1, <2>3, <3>1, BecomeStep
  <2>4. Asks BY <1>0, <1>1, <2>1, <2>2, <2>3, ReturnStep DEF Asks
  <2>5. QED BY <1>1, <1>4, <2>2, <2>4
<1>5. CASE RequestRefused \/ RequestDenied
  <2>1. Top.op \in Family(goal.op) /\ Top.op \notin Changers BY <1>0, <1>1, ListerOps
  <2>2. <<Top.op, Top.pc>> \in Requests BY <1>5 DEF RequestRefused, RequestDenied
  <2>3. Top.op \in Asking /\ Top.pc \in {"basic", "standard", "first", "next"}
    BY <2>1, <2>2 DEF Requests, Changers, Asking
  <2>4. PICK e \in {"denied", "ctx"} : FailWith(e) BY <1>5 DEF RequestRefused, RequestDenied
  <2>5. Return(Error(e)) BY <2>3, <2>4 DEF FailWith, Asking
  <2>6. Asks BY <1>0, <1>1, <2>3, <2>5, ReturnStep DEF Asks
  <2>7. QED BY <1>1, <2>4, <2>6
<1>6. QED BY <1>3, <1>4, <1>5

\* What Stat and ReadDir say.
LEMMA RequestTells ==
  ASSUME ShareIInv, TreeIInv, SaidOK, goal.op \in Listings,
         StatBasic \/ StatStandard \/ Find \/ RequestRefused \/ RequestDenied
  PROVE  SaidOK'
<1>1. /\ stack # <<>> /\ Asks
      /\ \/ (StatBasic \/ StatStandard \/ Find) /\ faulted' = faulted
         \/ \E e \in {"denied", "ctx"} : FailWith(e)
  BY ListingAsks
<1>2. QED BY <1>1, StatTells, FindTells, FailTells DEF Asks

\* A walk waits for Stat or ReadDir.
LEMMA WalkAsks ==
  ASSUME ShareIInv, CallersOK, WalkOK, goal.op = "walk", stack # <<>>, Asks
  PROVE  WalkOK'
<1>0. VisitsOK /\ AroundOK /\ DirsOK /\ HeadOK /\ VerdictOK /\ AllOK /\ StackOK BY DEF WalkOK, ShareIInv
<1>1. Top.op \notin {"walk", "visit"} /\ ~ Stopped /\ UNCHANGED <<lasting, present, goal, visited, skipped>>
  BY DEF Asks, Asking, Stopped
<1>2. Depth \in Nat /\ Depth > 0 BY <1>0, StackFacts
<1>3. /\ StackOK' /\ Reshaped /\ Len(stack') \in {Depth - 1, Depth}
      /\ Len(stack') = Depth => stack'[Depth].op = Top.op
  BY DEF Asks, Popped, Kept
<1>4. ~(Len(stack') > Depth) /\ (Len(stack') >= Depth => Len(stack') = Depth) BY <1>2, <1>3
<1>5. VisitsOK' /\ AroundOK' BY <1>0, <1>1, <1>3, <1>4, VisitsStep
<1>6. DirsOK' BY <1>0, <1>1, <1>3, <1>4, DirsStep
<1>7. HeadOK' /\ Depth > 1 /\ stack' # <<>> /\ stack'[1] = stack[1] BY <1>0, <1>1, <1>3, <1>4, HeadStep
<1>8. Top'.pc \notin {"entries", "end"}
  <2>1. CASE Popped
    <3>1. Caller(Top', Top) BY <1>0, <1>7, <2>1, ReturnTop
    <3>2. QED BY <3>1 DEF Caller, Asks, Asking
  <2>2. ASSUME NEW f, Kept(f), f.pc \in {"standard", "next"} PROVE Top'.pc \notin {"entries", "end"}
    BY <1>0, <2>2, NewTop
  <2>3. QED BY <2>1, <2>2 DEF Asks
<1>9. VerdictOK' BY <1>8 DEF VerdictOK
<1>10. AllOK'
  <2> SUFFICES ASSUME stack[1].pc = "end", NEW p \in lasting, IsPrefix(goal.path, p) PROVE Pending(p)'
    BY <1>1, <1>7 DEF AllOK
  <2>1. Pending(p) BY <1>0, <1>1 DEF AllOK
  <2>2. Covered(p) => Covered(p)' BY <1>1, StaysCovered
  <2>3. QED BY <1>0, <1>1, <1>3, <2>1, <2>2, PendingStep
<1>11. QED BY <1>5, <1>6, <1>7, <1>9, <1>10 DEF WalkOK

\* Others take away, or the context ends.
LEMMA OthersWalk ==
  ASSUME WalkOK, UNCHANGED <<stack, ret, goal, visited, skipped>>, lasting' \subseteq lasting, present \subseteq present'
  PROVE  WalkOK'
<1> SUFFICES ASSUME goal.op = "walk" PROVE WalkOK' BY DEF WalkOK
<1>0. VisitsOK /\ AroundOK /\ DirsOK /\ HeadOK /\ VerdictOK /\ AllOK BY DEF WalkOK
<1>1. \A p, l : EntriesOK(p, l) => EntriesOK(p, l)' BY DEF EntriesOK
<1>2. \A f : VisitOK(f) => VisitOK(f)' BY <1>1 DEF VisitOK, Awaits
<1>3. VisitsOK' BY <1>0, <1>2 DEF VisitsOK
<1>4. AroundOK' BY <1>0 DEF AroundOK, Around, Awaits, Above
<1>5. DirsOK' /\ HeadOK' BY <1>0 DEF DirsOK, HeadOK
<1>6. VerdictOK' BY <1>0 DEF VerdictOK, Top
<1>7. AllOK' BY <1>0 DEF AllOK, Pending, Covered, Hidden, Awaits, Above, Stopped, Top
<1>8. QED BY <1>3, <1>4, <1>5, <1>6, <1>7 DEF WalkOK

\* A walk begins.
LEMMA WalkStarts ==
  ASSUME NEW p \in Paths \cup {Root}, WalkCall(p)
  PROVE  WalkOK'
<1>1. PICK f : f = [Frame("walk", "begin", p) EXCEPT !.to = p] /\ stack' = <<f>> BY Zenon DEF WalkCall, Start
<1>2. f.op = "walk" /\ f.pc = "begin" /\ f.path = p BY <1>1 DEF Frame
<1>3. Len(stack') = 1 /\ stack'[1] = f /\ Top' = f /\ stack' # <<>> BY <1>1 DEF Top
<1>4. visited' = <<>> /\ goal'.path = p BY DEF WalkCall, Start
<1>5. VisitsOK' /\ AroundOK' /\ DirsOK' BY <1>2, <1>3 DEF VisitsOK, AroundOK, DirsOK
<1>6. HeadOK' BY <1>2, <1>3, <1>4 DEF HeadOK
<1>7. VerdictOK' /\ AllOK' BY <1>2, <1>3 DEF VerdictOK, AllOK
<1>8. QED BY <1>5, <1>6, <1>7 DEF WalkOK

-----------------------------------------------------------------------------
(* Glob.                                                                   *)

\* What matches a pattern, name by name.
LEMMA MatchingNames ==
  ASSUME NEW to \in Seq(SUBSET Nat), to # <<>>
  PROVE  /\ Len(to) \in Nat /\ Len(to) > 0
         /\ Front(to) \in Seq(SUBSET Nat) /\ Len(Front(to)) = Len(to) - 1
         /\ \A i \in 1 .. Len(to) - 1 : Front(to)[i] = to[i]
         /\ \A p \in Seq(Nat) : Matching(p, to) <=> Len(p) = Len(to) /\ \A i \in 1 .. Len(to) : p[i] \in to[i]
<1>1. Len(to) \in Nat /\ Len(to) > 0 OBVIOUS
<1>2. Front(to) \in Seq(SUBSET Nat) /\ Len(Front(to)) = Len(to) - 1 /\ \A i \in 1 .. Len(to) - 1 : Front(to)[i] = to[i]
  BY ReturnStack
<1>3. \A p \in Seq(Nat) : DOMAIN p = 1 .. Len(p) OBVIOUS
<1>4. QED BY <1>1, <1>2, <1>3 DEF Matching

\* The directory of what matches a pattern matches the directory of the pattern.
LEMMA MatchingFront ==
  ASSUME NEW to \in Seq(SUBSET Nat), to # <<>>, NEW q \in Seq(Nat), Matching(q, to)
  PROVE  /\ q # <<>> /\ Front(q) \in Seq(Nat) /\ Matching(Front(q), Front(to)) /\ Child(q, Front(q))
         /\ q \in [1 .. Len(to) -> Nat] /\ q[Len(q)] \in to[Len(to)] /\ Len(q) = Len(to)
<1>1. /\ Len(to) \in Nat /\ Len(to) > 0 /\ Len(Front(to)) = Len(to) - 1
      /\ \A i \in 1 .. Len(to) - 1 : Front(to)[i] = to[i]
      /\ Len(q) = Len(to) /\ \A i \in 1 .. Len(to) : q[i] \in to[i]
  BY MatchingNames
<1>2. q # <<>> BY <1>1
<1>3. /\ Front(q) \in Seq(Nat) /\ Len(Front(q)) = Len(q) - 1 /\ Child(q, Front(q))
      /\ \A k \in 1 .. Len(q) - 1 : Front(q)[k] = q[k]
  BY <1>2, FrontOfChild
<1>4. Matching(Front(q), Front(to))
  <2>1. DOMAIN Front(q) = 1 .. Len(to) - 1 BY <1>1, <1>3
  <2>2. \A i \in 1 .. Len(to) - 1 : i \in 1 .. Len(to) BY <1>1
  <2>3. QED BY <1>1, <1>3, <2>1, <2>2 DEF Matching
<1>5. q \in [1 .. Len(to) -> Nat] BY <1>1
<1>6. q[Len(q)] \in to[Len(to)] BY <1>1
<1>7. QED BY <1>1, <1>2, <1>3, <1>4, <1>5, <1>6

\* An entry of a directory that matches, with a name that does.
LEMMA MatchingEntry ==
  ASSUME NEW to \in Seq(SUBSET Nat), to # <<>>, NEW d \in Seq(Nat), Matching(d, Front(to)),
         NEW c \in Seq(Nat), Child(c, d), c[Len(c)] \in to[Len(to)]
  PROVE  Matching(c, to) /\ Front(c) = d
<1>1. /\ Len(to) \in Nat /\ Len(to) > 0 /\ Len(Front(to)) = Len(to) - 1
      /\ \A i \in 1 .. Len(to) - 1 : Front(to)[i] = to[i]
  BY MatchingNames
<1>2. Len(d) = Len(to) - 1 /\ DOMAIN d = 1 .. Len(to) - 1 BY <1>1 DEF Matching
<1>3. \A i \in 1 .. Len(to) - 1 : d[i] \in to[i] BY <1>1, <1>2 DEF Matching
<1>4. Len(c) = Len(to) /\ \A i \in 1 .. Len(to) - 1 : d[i] = c[i]
  <2>1. IsPrefix(d, c) /\ Len(c) = Len(d) + 1 BY DEF Child
  <2>2. \A i \in 1 .. Len(d) : d[i] = c[i] BY <2>1, PrefixMeans
  <2>3. QED BY <1>1, <1>2, <2>1, <2>2
<1>5. ASSUME NEW i \in 1 .. Len(to) PROVE c[i] \in to[i]
  <2>1. i = Len(to) \/ i \in 1 .. Len(to) - 1 BY <1>1
  <2>2. QED BY <1>3, <1>4, <2>1
<1>6. QED BY <1>4, <1>5, MatchingNames, FrontOfChild

\* A literal matches one path.
LEMMA LiteralPath ==
  ASSUME NEW to \in Seq(SUBSET Nat), Literal(to)
  PROVE  /\ PathOf(to) \in Seq(Nat) /\ Len(PathOf(to)) = Len(to) /\ Matching(PathOf(to), to)
         /\ \A q \in Seq(Nat) : Matching(q, to) => q = PathOf(to)
<1>1. PICK p : p = PathOf(to) OBVIOUS
<1>2. Len(to) \in Nat /\ DOMAIN to = 1 .. Len(to) OBVIOUS
<1>3. ASSUME NEW i \in 1 .. Len(to) PROVE p[i] \in Nat /\ to[i] = {p[i]}
  <2>1. PICK x \in to[i] : to[i] = {x} BY <1>2 DEF Literal
  <2>2. p[i] = CHOOSE y \in to[i] : TRUE BY <1>1, <1>2 DEF PathOf
  <2>3. p[i] = x BY <2>1, <2>2
  <2>4. to[i] \in SUBSET Nat BY <1>2
  <2>5. QED BY <2>1, <2>3, <2>4
<1>4. DOMAIN p = 1 .. Len(to) /\ p = [i \in 1 .. Len(to) |-> p[i]] BY <1>1, <1>2 DEF PathOf
<1>5. p \in Seq(Nat) /\ Len(p) = Len(to) BY <1>2, <1>3, <1>4
<1>6. Matching(p, to) BY <1>3, <1>4, <1>5 DEF Matching
<1>7. ASSUME NEW q \in Seq(Nat), Matching(q, to) PROVE q = p
  <2>1. Len(q) = Len(to) /\ DOMAIN q = 1 .. Len(to) BY <1>7 DEF Matching
  <2>2. \A i \in 1 .. Len(to) : q[i] = p[i] BY <1>3, <1>7, <2>1 DEF Matching
  <2>3. QED BY <1>5, <2>1, <2>2, SeqEqual
<1>8. QED BY <1>1, <1>5, <1>6, <1>7

\* A set of numbers up to n, one after the other.
LEMMA Enumerated ==
  ASSUME NEW n \in Nat, NEW S, S \subseteq 1 .. n
  PROVE  /\ SetToSeq(S) \in Seq(S) /\ Range(SetToSeq(S)) = S
         /\ \A i, j \in 1 .. Len(SetToSeq(S)) : SetToSeq(S)[i] = SetToSeq(S)[j] => i = j
<1>1. IsFiniteSet(1 .. n) BY FS_Interval
<1>2. IsFiniteSet(S) BY <1>1, FS_Subset
<1>3. PICK c : c = Cardinality(S) OBVIOUS
<1>4. c \in Nat /\ ExistsBijection(1 .. c, S) BY <1>2, <1>3, FS_CardinalityType
<1>5. \E f \in [1 .. c -> S] : IsInjective(f) BY <1>4 DEF ExistsBijection, Bijection, Injection
<1>6. PICK s : s = SetToSeq(S) OBVIOUS
<1>7. s \in [1 .. c -> S] /\ IsInjective(s) BY <1>3, <1>5, <1>6 DEF SetToSeq
<1>8. s \in Seq(S) /\ Len(s) = c BY <1>4, <1>7
<1>9. IsFiniteSet(1 .. c) /\ Cardinality(1 .. c) = c BY <1>4, FS_Interval
<1>10. s \in Injection(1 .. c, S) BY <1>7 DEF Injection
<1>11. s \in Surjection(1 .. c, S) BY <1>2, <1>3, <1>9, <1>10, FS_Injection
<1>12. Range(s) = S BY <1>7, <1>11 DEF Surjection, Range
<1>13. \A i, j \in 1 .. Len(s) : s[i] = s[j] => i = j BY <1>7, <1>8 DEF IsInjective
<1>14. QED BY <1>6, <1>8, <1>12, <1>13

\* m is what has been gathered of a pattern, but for the entries of the paths R.
Gathers(to, R, m) ==
    /\ m \in Seq(Seq(Nat))
    /\ \A i \in 1 .. Len(m) : m[i] \in present /\ Matching(m[i], to) /\ Front(m[i]) \notin R
    /\ \A i, j \in 1 .. Len(m) : i < j => Less(m[i], m[j])
    /\ \A q \in lasting : Matching(q, to) => Front(q) \in R \/ q \in Range(m)

\* The directories that Glob still has to look into after the one a call is for.
Rest(i) == IF i > 1 /\ stack[i - 1].pc = "gather" THEN Range(stack[i - 1].paths) ELSE {}

PatternOK(f) ==
    /\ f.op \in {"glob", "globDir"} => f.to \in Seq(SUBSET Nat) /\ f.to # <<>>
    /\ f.op = "glob" /\ f.pc = "literal" => Literal(f.to)
    /\ f.op = "glob" /\ f.pc = "dirs" => Front(f.to) # <<>>
    /\ f.op = "glob" /\ f.pc = "gather" =>
          /\ f.paths \in Seq(Seq(Nat))
          /\ \A k \in 1 .. Len(f.paths) : Matching(f.paths[k], Front(f.to))
          /\ \A k, m \in 1 .. Len(f.paths) : k # m => f.paths[k] # f.paths[m]
    /\ f.op = "globDir" => Matching(f.path, Front(f.to))

PatternsOK == \A i \in 1 .. Len(stack) : PatternOK(stack[i])

GatheringOK ==
    \A i \in 1 .. Len(stack) : stack[i].op = "globDir" =>
        stack[i].path \notin Rest(i) /\ Gathers(stack[i].to, Rest(i) \cup {stack[i].path}, matches)

GatheredOK ==
    /\ stack = <<>> => Gathers(goal.to, {}, ret.paths)
    /\ stack # <<>> =>
          /\ stack[1].to = goal.to
          /\ Top.op = "glob" /\ Top.pc = "begin" => matches = <<>>
          /\ Top.op = "glob" /\ Top.pc = "dirs" => Gathers(Front(Top.to), {}, ret.paths)
          /\ Top.op = "glob" /\ Top.pc = "gather" => Gathers(Top.to, Range(Top.paths), matches)

GlobOK == goal.op = "glob" /\ faulted = {} => PatternsOK /\ GatheringOK /\ GatheredOK

\* l is a listing of p, in order.
Lists(p, l) ==
    /\ l \in Seq(Seq(Nat))
    /\ \A i, j \in 1 .. Len(l) : i < j => Less(l[i], l[j])
    /\ \A q \in lasting : Child(q, p) => q \in Range(l)
    /\ Range(l) \subseteq present

DirOK ==
    goal.op = "dirFS" =>
        /\ goal.path \in Paths \cup {Root}
        /\ stack = <<>> /\ ret.err = "eof" => Lists(goal.path, matches)
        /\ stack # <<>> =>
              /\ stack[1].path = goal.path /\ stack[1].op = "dirFS"
              /\ stack[1].pc \in {"load", "loaded", "page"}
              /\ stack[1].pc # "page" => matches = <<>> /\ stack[1].n = 0
              /\ stack[1].pc = "page" =>
                    /\ Lists(goal.path, stack[1].paths)
                    /\ stack[1].n \in 0 .. Len(stack[1].paths)
                    /\ matches = SubSeq(stack[1].paths, 1, stack[1].n)

\* What has lasted is a path, and its directory has lasted.
LEMMA LastingFronts ==
  ASSUME TreeIInv, NEW q \in lasting
  PROVE  q \in Seq(Nat) /\ q # <<>> /\ (Len(q) # 1 => Front(q) \in lasting)
<1>1. q \in Paths /\ \A i \in 1 .. Len(q) : Prefix(q, i) \in lasting BY DEF TreeIInv, LastingOK
<1>2. q \in Seq(Nat) /\ Len(q) \in Nat /\ Len(q) > 0 BY <1>1, PathTypes
<1>3. Front(q) = Prefix(q, Len(q) - 1) BY DEF Front, Prefix
<1>4. Len(q) # 1 => Len(q) - 1 \in 1 .. Len(q)
  <2>1. PICK n : n = Len(q) OBVIOUS
  <2>2. n \in Nat /\ n > 0 BY <1>2, <2>1
  <2>3. n # 1 => n - 1 \in 1 .. n BY <2>2
  <2>4. QED BY <2>1, <2>3
<1>5. QED BY <1>1, <1>2, <1>3, <1>4

\* A path does not come before itself.
LEMMA LessDiffers ==
  ASSUME NEW p \in Seq(Nat), NEW q \in Seq(Nat), Less(p, q)
  PROVE  p # q
BY DEF Less

\* In order means once each.
LEMMA OrderedOnce ==
  ASSUME NEW m \in Seq(Seq(Nat)), \A i, j \in 1 .. Len(m) : i < j => Less(m[i], m[j])
  PROVE  \A i, j \in 1 .. Len(m) : m[i] = m[j] => i = j
<1> SUFFICES ASSUME NEW i \in 1 .. Len(m), NEW j \in 1 .. Len(m), m[i] = m[j], i # j PROVE FALSE OBVIOUS
<1>1. m[i] \in Seq(Nat) /\ m[j] \in Seq(Nat) OBVIOUS
<1>2. i < j \/ j < i OBVIOUS
<1>3. QED BY <1>1, <1>2, LessDiffers

\* s has the entries of l whose name is in e, once each.
Selects(l, e, s) ==
    /\ s \in Seq(Seq(Nat))
    /\ \A i \in 1 .. Len(s) : \E k \in 1 .. Len(l) : s[i] = l[k].path /\ l[k].path[Len(l[k].path)] \in e
    /\ \A k \in 1 .. Len(l) : l[k].path[Len(l[k].path)] \in e => \E i \in 1 .. Len(s) : s[i] = l[k].path
    /\ \A i, j \in 1 .. Len(s) : s[i] = s[j] => i = j

\* The entries that match.
LEMMA MatchedEntries ==
  ASSUME NEW d, NEW l, EntriesOK(d, l), NEW e, NEW s, s = Matched(l, e)
  PROVE  Selects(l, e, s)
<1>1. Len(l) \in Nat /\ DOMAIN l = 1 .. Len(l) BY DEF EntriesOK
<1>2. PICK S : S = {i \in 1 .. Len(l) : l[i].path[Len(l[i].path)] \in e} OBVIOUS
<1>3. PICK at : at = SetToSeq(S) OBVIOUS
<1>4. at \in Seq(S) /\ Range(at) = S /\ \A i, j \in 1 .. Len(at) : at[i] = at[j] => i = j
  <2>1. S \subseteq 1 .. Len(l) BY <1>2
  <2>2. QED BY <1>1, <1>3, <2>1, Enumerated
<1>5. Len(at) \in Nat /\ DOMAIN at = 1 .. Len(at) /\ \A i \in 1 .. Len(at) : at[i] \in S BY <1>4
<1>6. s = [k \in 1 .. Len(at) |-> l[at[k]].path] BY <1>1, <1>2, <1>3, <1>5 DEF Matched
<1>7. ASSUME NEW i \in 1 .. Len(at)
      PROVE  at[i] \in 1 .. Len(l) /\ s[i] = l[at[i]].path /\ s[i] \in Seq(Nat) /\ s[i][Len(s[i])] \in e
  <2>1. at[i] \in 1 .. Len(l) /\ l[at[i]].path[Len(l[at[i]].path)] \in e BY <1>2, <1>5
  <2>2. s[i] = l[at[i]].path BY <1>6
  <2>3. l[at[i]].path \in Seq(Nat) BY <2>1, EntryFacts
  <2>4. QED BY <2>1, <2>2, <2>3
<1>8. s \in Seq(Seq(Nat)) /\ Len(s) = Len(at) BY <1>5, <1>6, <1>7
<1>9. \A i \in 1 .. Len(s) : \E k \in 1 .. Len(l) : s[i] = l[k].path /\ l[k].path[Len(l[k].path)] \in e
  BY <1>7, <1>8
<1>10. ASSUME NEW k \in 1 .. Len(l), l[k].path[Len(l[k].path)] \in e PROVE \E i \in 1 .. Len(s) : s[i] = l[k].path
  <2>1. k \in Range(at) BY <1>2, <1>4, <1>10
  <2>2. PICK i \in 1 .. Len(at) : at[i] = k BY <1>5, <2>1 DEF Range
  <2>3. QED BY <1>7, <1>8, <2>2
<1>11. ASSUME NEW i \in 1 .. Len(s), NEW j \in 1 .. Len(s), s[i] = s[j] PROVE i = j
  <2>1. at[i] = at[j] BY <1>7, <1>8, <1>11 DEF EntriesOK
  <2>2. QED BY <1>4, <1>8, <2>1
<1>12. QED BY <1>8, <1>9, <1>10, <1>11 DEF Selects

\* A directory in which nothing lasted needs no looking into.
LEMMA GatheredEmpty ==
  ASSUME TreeIInv, NEW to \in Seq(SUBSET Nat), to # <<>>, NEW d, NEW R, NEW m, Gathers(to, R \cup {d}, m),
         \A q \in lasting : ~ Above(d, q)
  PROVE  Gathers(to, R, m)
<1>1. ASSUME NEW q \in lasting, Matching(q, to), Front(q) = d PROVE FALSE
  <2>1. q \in Seq(Nat) BY LastingFronts
  <2>2. Child(q, d) /\ d \in Seq(Nat) BY <1>1, <2>1, MatchingFront
  <2>3. Above(d, q) BY <2>1, <2>2 DEF Child, Above
  <2>4. QED BY <2>3
<1>2. QED BY <1>1 DEF Gathers

\* A sequence is one over any set that has its elements.
LEMMA SeqOver ==
  ASSUME NEW S, NEW T, NEW u \in Seq(S), \A i \in 1 .. Len(u) : u[i] \in T
  PROVE  u \in Seq(T)
OBVIOUS

\* The entries of a directory that match join the matches.
LEMMA GatheredMore ==
  ASSUME TreeIInv, NEW to \in Seq(SUBSET Nat), to # <<>>, NEW d \in Seq(Nat), Matching(d, Front(to)),
         NEW R, d \notin R, NEW m, Gathers(to, R \cup {d}, m),
         NEW l, EntriesOK(d, l), ListsAll(d, l), NEW n, n = InOrder(m \o Matched(l, to[Len(to)]))
  PROVE  Gathers(to, R, n)
<1> DEFINE T == [1 .. Len(to) -> Nat]
           C(s, i) == s[i] \in present /\ s[i] \in Seq(Nat) /\ Matching(s[i], to)
<1>0. PICK e, s, u : e = to[Len(to)] /\ s = Matched(l, e) /\ u = m \o s OBVIOUS
<1>1. Selects(l, e, s) BY <1>0, MatchedEntries
<1>2. /\ m \in Seq(Seq(Nat))
      /\ \A i \in 1 .. Len(m) : C(m, i) /\ Front(m[i]) \notin R /\ Front(m[i]) # d
  BY DEF Gathers
<1>3. \A i, j \in 1 .. Len(m) : m[i] = m[j] => i = j BY <1>2, OrderedOnce DEF Gathers
<1>4. ASSUME NEW i \in 1 .. Len(s) PROVE C(s, i) /\ Front(s[i]) = d
  <2>1. PICK k \in 1 .. Len(l) : s[i] = l[k].path /\ l[k].path[Len(l[k].path)] \in e BY <1>1 DEF Selects
  <2>2. PICK c : c = l[k].path OBVIOUS
  <2>3. c \in Seq(Nat) /\ Child(c, d) /\ c \in present BY <2>2, EntryFacts DEF EntriesOK
  <2>4. c[Len(c)] \in to[Len(to)] BY <1>0, <2>1, <2>2
  <2>5. Matching(c, to) /\ Front(c) = d BY <2>3, <2>4, MatchingEntry
  <2>6. QED BY <2>1, <2>2, <2>3, <2>5
<1>5. /\ u \in Seq(Seq(Nat)) /\ Len(u) = Len(m) + Len(s) /\ Len(m) \in Nat /\ Len(s) \in Nat
      /\ \A k \in 1 .. Len(m) : u[k] = m[k]
      /\ \A k \in Len(m) + 1 .. Len(m) + Len(s) : u[k] = s[k - Len(m)] /\ k - Len(m) \in 1 .. Len(s)
  BY <1>0, <1>1, <1>2, Joined DEF Selects
<1>6. \A i \in 1 .. Len(u) : i \in 1 .. Len(m) \/ i \in Len(m) + 1 .. Len(m) + Len(s) BY <1>5
<1>7. ASSUME NEW i \in 1 .. Len(u) PROVE C(u, i) /\ Front(u[i]) \notin R
  BY <1>2, <1>4, <1>5, <1>6
<1>8. ASSUME NEW i \in 1 .. Len(u), NEW j \in 1 .. Len(u), u[i] = u[j] PROVE i = j
  <2>1. CASE i \in 1 .. Len(m) /\ j \in 1 .. Len(m) BY <1>3, <1>5, <1>8, <2>1
  <2>2. CASE i \in Len(m) + 1 .. Len(m) + Len(s) /\ j \in Len(m) + 1 .. Len(m) + Len(s)
    <3>1. PICK a, b : a = i - Len(m) /\ b = j - Len(m) OBVIOUS
    <3>2. a \in 1 .. Len(s) /\ b \in 1 .. Len(s) /\ s[a] = s[b] BY <1>5, <1>8, <2>2, <3>1
    <3>3. a = b BY <1>1, <3>2 DEF Selects
    <3>4. QED BY <1>5, <3>1, <3>3
  <2>3. CASE i \in 1 .. Len(m) /\ j \in Len(m) + 1 .. Len(m) + Len(s) BY <1>2, <1>4, <1>5, <1>8, <2>3
  <2>4. CASE j \in 1 .. Len(m) /\ i \in Len(m) + 1 .. Len(m) + Len(s) BY <1>2, <1>4, <1>5, <1>8, <2>4
  <2>5. QED BY <1>6, <2>1, <2>2, <2>3, <2>4
<1>9. \A i \in 1 .. Len(u) : u[i] \in T BY <1>7, MatchingFront
<1>10. u \in Seq(T) BY <1>5, <1>9, SeqOver
<1>11. Len(to) \in Nat BY MatchingNames
<1>12. n = InOrder(u) BY <1>0
<1>13. /\ n \in Seq(T) /\ Len(n) = Len(u) /\ Range(n) = Range(u)
       /\ \A i, j \in 1 .. Len(u) : i < j => Less(n[i], n[j])
  BY <1>8, <1>10, <1>11, <1>12, InOrderSorts
<1>14. DOMAIN n = 1 .. Len(n) /\ DOMAIN u = 1 .. Len(u) BY <1>10, <1>13
<1>15. ASSUME NEW i \in 1 .. Len(n) PROVE C(n, i) /\ Front(n[i]) \notin R
  <2>1. n[i] \in Range(u) BY <1>13, <1>14 DEF Range
  <2>2. PICK j \in 1 .. Len(u) : n[i] = u[j] BY <1>14, <2>1 DEF Range
  <2>3. QED BY <1>7, <2>2
<1>16. n \in Seq(Seq(Nat))
  <2>1. \A i \in 1 .. Len(n) : n[i] \in Seq(Nat) BY <1>15
  <2>2. QED BY <1>13, <2>1, SeqOver
<1>17. ASSUME NEW q \in lasting, Matching(q, to), Front(q) \notin R PROVE q \in Range(n)
  <2>1. q \in Seq(Nat) BY LastingFronts
  <2>2. CASE Front(q) # d
    <3>1. q \in Range(m) BY <1>17, <2>2 DEF Gathers
    <3>2. PICK i \in 1 .. Len(m) : m[i] = q BY <1>2, <3>1 DEF Range
    <3>3. i \in 1 .. Len(u) /\ u[i] = q BY <1>5, <3>2
    <3>4. QED BY <1>13, <1>14, <3>3 DEF Range
  <2>3. CASE Front(q) = d
    <3>1. Child(q, d) /\ q[Len(q)] \in e BY <1>0, <1>17, <2>1, <2>3, MatchingFront
    <3>2. PICK k \in 1 .. Len(l) : l[k].path = q BY <3>1 DEF ListsAll
    <3>3. PICK i \in 1 .. Len(s) : s[i] = q BY <1>1, <3>1, <3>2 DEF Selects
    <3>4. PICK j : j = Len(m) + i OBVIOUS
    <3>5. j \in Len(m) + 1 .. Len(m) + Len(s) /\ j - Len(m) = i /\ j \in 1 .. Len(u) BY <1>5, <3>4
    <3>6. u[j] = q BY <1>5, <3>3, <3>5
    <3>7. QED BY <1>13, <1>14, <3>5, <3>6 DEF Range
  <2>4. QED BY <2>2, <2>3
<1>18. \A i, j \in 1 .. Len(n) : i < j => Less(n[i], n[j]) BY <1>13
<1>19. QED BY <1>15, <1>16, <1>17, <1>18 DEF Gathers

GlobIn == PatternsOK /\ GatheringOK /\ GatheredOK

\* What has been gathered stays so while the tree is the same.
LEMMA GathersStay ==
  ASSUME UNCHANGED <<lasting, present>>
  PROVE  \A to, R, m : Gathers(to, R, m) <=> Gathers(to, R, m)'
BY DEF Gathers

\* The patterns of the calls after a step.
LEMMA PatternsStep ==
  ASSUME StackOK, StackOK', stack # <<>>, Reshaped, PatternsOK,
         Len(stack') >= Depth => PatternOK(stack'[Depth]),
         Len(stack') > Depth => PatternOK(stack'[Depth + 1])
  PROVE  PatternsOK'
<1>1. Depth \in Nat /\ Depth > 0 /\ Len(stack') \in Nat /\ Depth = Len(stack) BY StackFacts DEF StackOK, Depth
<1>2. Len(stack') \in {Depth - 1, Depth, Depth + 1} /\ \A i \in 1 .. Depth - 1 : stack'[i] = stack[i]
  BY DEF Reshaped
<1>3. ASSUME NEW i \in 1 .. Len(stack'), NEW f, f = stack'[i] PROVE PatternOK(f)
  <2>1. i < Depth \/ i = Depth \/ i = Depth + 1 BY <1>1, <1>2
  <2>2. CASE i < Depth
    <3>1. i \in 1 .. Depth - 1 /\ i \in 1 .. Len(stack) BY <1>1, <2>2
    <3>2. QED BY <1>2, <1>3, <3>1 DEF PatternsOK
  <2>3. CASE i = Depth BY <1>1, <1>3, <2>3
  <2>4. CASE i = Depth + 1 BY <1>1, <1>3, <2>4
  <2>5. QED BY <2>1, <2>2, <2>3, <2>4
<1>4. QED BY <1>3 DEF PatternsOK, PatternOK

\* The directories still to look into, after f.
RestAfter(f) == IF f.pc = "gather" THEN Range(f.paths) ELSE {}

\* The directories being looked into, after a step.
LEMMA GatheringStep ==
  ASSUME StackOK, StackOK', stack # <<>>, Reshaped, GatheringOK, UNCHANGED <<lasting, present>>,
         matches' = matches \/ \A i \in 1 .. Depth - 1 : stack[i].op # "globDir",
         Len(stack') >= Depth /\ stack'[Depth].op = "globDir" =>
             /\ stack'[Depth].path \notin Rest(Depth)
             /\ Gathers(stack'[Depth].to, Rest(Depth) \cup {stack'[Depth].path}, matches'),
         Len(stack') > Depth /\ stack'[Depth + 1].op = "globDir" =>
             /\ stack'[Depth + 1].path \notin RestAfter(stack'[Depth])
             /\ Gathers(stack'[Depth + 1].to, RestAfter(stack'[Depth]) \cup {stack'[Depth + 1].path}, matches')
  PROVE  GatheringOK'
<1>1. Depth \in Nat /\ Depth > 0 /\ Len(stack') \in Nat /\ Depth = Len(stack) BY StackFacts DEF StackOK, Depth
<1>2. Len(stack') \in {Depth - 1, Depth, Depth + 1} /\ \A i \in 1 .. Depth - 1 : stack'[i] = stack[i]
  BY DEF Reshaped
<1>3. ASSUME NEW i \in 1 .. Len(stack'), NEW f, f = stack'[i], f.op = "globDir", NEW R, R = Rest(i)'
      PROVE  f.path \notin R /\ Gathers(f.to, R \cup {f.path}, matches')
  <2>1. i < Depth \/ i = Depth \/ i = Depth + 1 BY <1>1, <1>2
  <2>2. i <= Depth => R = Rest(i)
    <3> SUFFICES ASSUME i <= Depth, i > 1 PROVE stack'[i - 1] = stack[i - 1] BY <1>3 DEF Rest
    <3>1. i - 1 \in 1 .. Depth - 1 BY <1>1
    <3>2. QED BY <1>2, <3>1
  <2>3. CASE i < Depth
    <3>1. i \in 1 .. Depth - 1 /\ i \in 1 .. Len(stack) /\ i <= Depth BY <1>1, <2>3
    <3>2. f = stack[i] /\ matches' = matches BY <1>2, <1>3, <3>1
    <3>3. QED BY <1>3, <2>2, <3>1, <3>2 DEF GatheringOK
  <2>4. CASE i = Depth
    <3>1. Len(stack') >= Depth /\ i <= Depth BY <1>1, <2>4
    <3>2. QED BY <1>3, <2>2, <2>4, <3>1
  <2>5. CASE i = Depth + 1
    <3>1. Len(stack') > Depth /\ i > 1 /\ i - 1 = Depth BY <1>1, <2>5
    <3>2. R = RestAfter(stack'[Depth]) BY <1>3, <3>1 DEF Rest, RestAfter
    <3>3. QED BY <1>3, <2>5, <3>1, <3>2
  <2>6. QED BY <2>1, <2>3, <2>4, <2>5
<1>4. ASSUME NEW i \in 1 .. Len(stack'), NEW f, f = stack'[i], f.op = "globDir", NEW R, R = Rest(i)'
      PROVE  f.path \notin R /\ \A m : m = matches' => Gathers(f.to, R \cup {f.path}, m)'
  BY <1>3, <1>4, GathersStay
<1>5. QED BY <1>4 DEF GatheringOK

\* Who calls Glob and who calls globDir.
LEMMA GlobCallers ==
  ASSUME StackOK, stack # <<>>, CallersOK, Top.op \in {"glob", "globDir"}
  PROVE  /\ Depth \in Nat /\ Depth > 0 /\ Top = stack[Depth] /\ Depth = Len(stack) /\ DOMAIN Top = Fields
         /\ \A i \in 1 .. Depth - 1 : stack[i].op # "globDir"
         /\ Depth = 1 => Rest(Depth) = {}
         /\ Depth > 1 => /\ Caller(stack[Depth - 1], Top) /\ Rest(Depth) = RestAfter(stack[Depth - 1])
                         /\ Top.op = "glob" => Rest(Depth) = {}
<1>1. Depth \in Nat /\ Depth > 0 /\ Top = stack[Depth] /\ Depth = Len(stack) /\ DOMAIN Top = Fields
  BY StackFacts DEF Depth, Top
<1>2. ASSUME NEW i \in 1 .. Depth - 1, stack[i].op = "globDir" PROVE FALSE
  <2>1. Caller(stack[i], stack[i + 1]) BY <1>1, <1>2 DEF CallersOK
  <2>2. stack[i + 1].op \in Asking BY <1>2, <2>1 DEF Caller, Asking
  <2>3. i + 1 # Depth BY <1>1, <2>2 DEF Asking
  <2>4. i + 1 \in 1 .. Depth - 1 BY <1>1, <2>3
  <2>5. Caller(stack[i + 1], stack[i + 1 + 1]) BY <1>1, <2>4 DEF CallersOK
  <2>6. QED BY <2>2, <2>5, CallerMeans
<1>3. Depth = 1 => Rest(Depth) = {} BY DEF Rest
<1>4. ASSUME Depth > 1
      PROVE  /\ Caller(stack[Depth - 1], Top) /\ Rest(Depth) = RestAfter(stack[Depth - 1])
             /\ Top.op = "glob" => Rest(Depth) = {}
  <2>1. Depth - 1 \in 1 .. Len(stack) - 1 /\ Depth - 1 + 1 = Depth BY <1>1, <1>4
  <2>2. Caller(stack[Depth - 1], Top) BY <1>1, <2>1 DEF CallersOK
  <2>3. Rest(Depth) = RestAfter(stack[Depth - 1]) BY <1>4 DEF Rest, RestAfter
  <2>4. Top.op = "glob" => stack[Depth - 1].pc # "gather" BY <2>2 DEF Caller
  <2>5. QED BY <2>2, <2>3, <2>4 DEF RestAfter
<1>5. QED BY <1>1, <1>2, <1>3, <1>4

\* Glob or globDir returns.
LEMMA GlobReturns ==
  ASSUME StackOK, stack # <<>>, CallersOK, GlobIn, Top.op \in {"glob", "globDir"}, NEW r, Return(r),
         UNCHANGED <<lasting, present, goal>>, Gathers(Top.to, Rest(Depth), r.paths),
         Top.op = "globDir" => r.paths = matches'
  PROVE  GlobIn'
<1>0. PatternsOK /\ GatheringOK /\ GatheredOK BY DEF GlobIn
<1>1. /\ Depth \in Nat /\ Depth > 0 /\ Top = stack[Depth] /\ Depth = Len(stack)
      /\ \A i \in 1 .. Depth - 1 : stack[i].op # "globDir"
      /\ Depth = 1 => Rest(Depth) = {}
      /\ Depth > 1 => /\ Caller(stack[Depth - 1], Top) /\ Rest(Depth) = RestAfter(stack[Depth - 1])
                      /\ Top.op = "glob" => Rest(Depth) = {}
  BY GlobCallers
<1>2. Popped /\ ret' = r BY ReturnStep
<1>3. StackOK' /\ Reshaped /\ Len(stack') = Depth - 1 BY <1>2 DEF Popped
<1>4. ~(Len(stack') >= Depth) /\ ~(Len(stack') > Depth) BY <1>1, <1>3
<1>5. PatternsOK' BY <1>0, <1>3, <1>4, PatternsStep
<1>6. GatheringOK' BY <1>0, <1>1, <1>3, <1>4, GatheringStep
<1>7. /\ stack' = <<>> <=> Depth = 1
      /\ stack' # <<>> => Depth > 1 /\ Depth - 1 \in 1 .. Depth - 1 /\ Top' = stack[Depth - 1] /\ Caller(Top', Top)
  BY <1>2, ReturnTop
<1>8. CASE stack' = <<>>
  <2>1. Top.to = goal.to /\ Rest(Depth) = {} BY <1>0, <1>1, <1>7, <1>8 DEF GatheredOK
  <2>2. PICK to, m : to = goal.to /\ m = r.paths /\ Gathers(to, {}, m) BY <2>1
  <2>3. Gathers(to, {}, m)' BY <2>2, GathersStay
  <2>4. QED BY <1>2, <1>5, <1>6, <1>8, <2>2, <2>3 DEF GlobIn, GatheredOK
<1>9. CASE stack' # <<>>
  <2>1. /\ Top' = stack[Depth - 1] /\ Caller(Top', Top) /\ Rest(Depth) = RestAfter(Top')
        /\ stack'[1] = stack[1]
    <3>1. 1 \in 1 .. Depth - 1 BY <1>1, <1>7, <1>9
    <3>2. QED BY <1>1, <1>3, <1>7, <1>9, <3>1 DEF Reshaped
  <2>2. PICK f : f = Top' OBVIOUS
  <2>3. f.pc # "begin" BY <2>1, <2>2 DEF Caller
  <2>4. ASSUME f.pc = "dirs" PROVE Gathers(Front(f.to), {}, r.paths)
    <3>1. Top.to = Front(f.to) /\ Rest(Depth) = {} BY <2>1, <2>2, <2>4 DEF Caller, RestAfter
    <3>2. QED BY <3>1
  <2>5. ASSUME f.pc = "gather" PROVE Gathers(f.to, Range(f.paths), matches')
    <3>1. Top.op = "globDir" /\ Top.to = f.to /\ Rest(Depth) = Range(f.paths)
      BY <2>1, <2>2, <2>5 DEF Caller, RestAfter
    <3>2. QED BY <3>1
  <2>6. PICK a, b : a = r.paths /\ b = matches' OBVIOUS
  <2>7. f.pc = "dirs" => Gathers(Front(f.to), {}, a)' BY <2>4, <2>6, GathersStay
  <2>8. f.pc = "gather" => Gathers(f.to, Range(f.paths), b)' BY <2>5, <2>6, GathersStay
  <2>9. stack'[1].to = goal'.to BY <1>0, <2>1 DEF GatheredOK
  <2>10. GatheredOK' BY <1>2, <1>9, <2>2, <2>3, <2>6, <2>7, <2>8, <2>9 DEF GatheredOK
  <2>11. QED BY <1>5, <1>6, <2>10 DEF GlobIn
<1>10. QED BY <1>8, <1>9

\* Glob or globDir makes a call.
LEMMA GlobCallsStep ==
  ASSUME StackOK, stack # <<>>, CallersOK, GlobIn, Top.op \in {"glob", "globDir"}, NEW f, NEW g, Pushed(f, g),
         UNCHANGED <<lasting, present, goal, matches>>, f.op = Top.op, f.path = Top.path, f.to = Top.to,
         PatternOK(f), PatternOK(g),
         g.op = "glob" => g.pc = "begin" /\ matches = <<>>,
         g.op = "globDir" => g.path \notin RestAfter(f) /\ Gathers(g.to, RestAfter(f) \cup {g.path}, matches)
  PROVE  GlobIn'
<1>0. PatternsOK /\ GatheringOK /\ GatheredOK BY DEF GlobIn
<1>1. Depth \in Nat /\ Depth > 0 /\ Top = stack[Depth] /\ Depth = Len(stack) BY GlobCallers
<1>2. StackOK' /\ Reshaped /\ Len(stack') = Depth + 1 /\ stack'[Depth] = f /\ stack'[Depth + 1] = g
  BY DEF Pushed
<1>3. stack' # <<>> /\ Top' = g BY NewTop
<1>4. PatternsOK' BY <1>0, <1>1, <1>2, PatternsStep
<1>5. f.op = "globDir" => f.path \notin Rest(Depth) /\ Gathers(f.to, Rest(Depth) \cup {f.path}, matches)
  <2>1. Depth \in 1 .. Len(stack) BY <1>1
  <2>2. QED BY <1>0, <1>1, <2>1 DEF GatheringOK
<1>6. GatheringOK' BY <1>0, <1>1, <1>2, <1>5, GatheringStep
<1>7. stack'[1].to = goal.to
  <2>1. CASE Depth = 1 BY <1>0, <1>1, <1>2, <2>1 DEF GatheredOK
  <2>2. CASE Depth # 1
    <3>1. 1 \in 1 .. Depth - 1 BY <1>1, <2>2
    <3>2. QED BY <1>0, <1>2, <3>1 DEF Reshaped, GatheredOK
  <2>3. QED BY <2>1, <2>2
<1>8. GatheredOK' BY <1>3, <1>7 DEF GatheredOK
<1>9. QED BY <1>4, <1>6, <1>8 DEF GlobIn

\* Glob or globDir goes on.
LEMMA GlobKeepsStep ==
  ASSUME StackOK, stack # <<>>, CallersOK, GlobIn, Top.op = "glob", NEW f, Kept(f),
         UNCHANGED <<lasting, present, goal>>, f.to = Top.to, PatternOK(f),
         f.op = "globDir" => f.path \notin Rest(Depth) /\ Gathers(f.to, Rest(Depth) \cup {f.path}, matches'),
         f.op = "glob" => f.pc = "gather" /\ Gathers(f.to, Range(f.paths), matches')
  PROVE  GlobIn'
<1>0. PatternsOK /\ GatheringOK /\ GatheredOK BY DEF GlobIn
<1>1. /\ Depth \in Nat /\ Depth > 0 /\ Top = stack[Depth] /\ Depth = Len(stack)
      /\ \A i \in 1 .. Depth - 1 : stack[i].op # "globDir"
  BY GlobCallers
<1>2. StackOK' /\ Reshaped /\ Len(stack') = Depth /\ stack'[Depth] = f BY DEF Kept
<1>3. stack' # <<>> /\ Top' = f BY NewTop
<1>4. PatternsOK' BY <1>0, <1>1, <1>2, PatternsStep
<1>5. GatheringOK' BY <1>0, <1>1, <1>2, GatheringStep
<1>6. stack'[1].to = goal.to
  <2>1. CASE Depth = 1 BY <1>0, <1>1, <1>2, <2>1 DEF GatheredOK
  <2>2. CASE Depth # 1
    <3>1. 1 \in 1 .. Depth - 1 BY <1>1, <2>2
    <3>2. QED BY <1>0, <1>2, <3>1 DEF Reshaped, GatheredOK
  <2>3. QED BY <2>1, <2>2
<1>7. PICK m : m = matches' OBVIOUS
<1>8. f.op = "glob" => Gathers(f.to, Range(f.paths), m)' BY <1>7, GathersStay
<1>9. GatheredOK' BY <1>3, <1>6, <1>7, <1>8 DEF GatheredOK
<1>10. QED BY <1>4, <1>5, <1>9 DEF GlobIn

\* Nothing has been gathered yet.
LEMMA GathersNone ==
  ASSUME NEW to, NEW R, \A q \in lasting : Matching(q, to) => Front(q) \in R
  PROVE  Gathers(to, R, <<>>)
<1>1. <<>> \in Seq(Seq(Nat)) /\ Len(<<>>) = 0 OBVIOUS
<1>2. QED BY <1>1 DEF Gathers

\* Glob splits its pattern.
LEMMA GlobBeginGathers ==
  ASSUME ShareIInv, TreeIInv, SaidOK, GlobIn, GlobBegin
  PROVE  GlobIn'
<1> USE DEF noTree, noWalk, noCall, treeVars, At, Idle
<1>0. StackOK /\ CallersOK /\ PatternsOK /\ GatheredOK BY DEF ShareIInv, SaidOK, GlobIn
<1>1. stack # <<>> /\ Top.op = "glob" /\ Top.pc = "begin" /\ UNCHANGED <<lasting, present, goal, matches>>
  BY DEF GlobBegin
<1>2. /\ Depth \in Nat /\ Depth > 0 /\ Top = stack[Depth] /\ Depth = Len(stack) /\ DOMAIN Top = Fields
      /\ Depth = 1 => Rest(Depth) = {}
      /\ Depth > 1 => Rest(Depth) = {}
  BY <1>0, <1>1, GlobCallers
<1>3. Rest(Depth) = {} BY <1>2
<1>4. Depth \in 1 .. Len(stack) BY <1>2
<1>5. PICK to : to = Top.to /\ to \in Seq(SUBSET Nat) /\ to # <<>>
  BY <1>0, <1>1, <1>2, <1>4 DEF PatternsOK, PatternOK
<1>6. matches = <<>> BY <1>0, <1>1 DEF GatheredOK
<1>7. PICK dir : dir = Front(to) OBVIOUS
<1>8. dir \in Seq(SUBSET Nat) BY <1>5, <1>7, MatchingNames
<1>9. CASE Literal(to) /\ Call([Top EXCEPT !.pc = "literal"], Frame("stat", "basic", PathOf(to)))
  <2>1. PICK f, g : f = [Top EXCEPT !.pc = "literal"] /\ g = Frame("stat", "basic", PathOf(to)) /\ Call(f, g)
    BY <1>9
  <2>2. /\ DOMAIN f = Fields /\ DOMAIN g = Fields /\ f.op = "glob" /\ f.pc = "literal" /\ f.path = Top.path /\ f.to = to
        /\ g.op = "stat"
    BY <1>1, <1>2, <1>5, <2>1 DEF Frame, Fields
  <2>3. Pushed(f, g) BY <1>0, <1>1, <2>1, <2>2, CallStep
  <2>4. PatternOK(f) /\ PatternOK(g) BY <1>5, <1>9, <2>2 DEF PatternOK
  <2>5. QED BY <1>0, <1>1, <1>5, <2>2, <2>3, <2>4, GlobCallsStep
<1>10. CASE Literal(dir) /\ Become([Frame("globDir", "begin", PathOf(dir)) EXCEPT !.to = to])
  <2>1. PICK f, p : p = PathOf(dir) /\ f = [Frame("globDir", "begin", p) EXCEPT !.to = to] /\ Become(f)
    BY <1>10
  <2>2. DOMAIN f = Fields /\ f.op = "globDir" /\ f.pc = "begin" /\ f.path = p /\ f.to = to
    BY <2>1 DEF Frame, Fields
  <2>3. Kept(f) BY <1>0, <1>1, <2>1, <2>2, BecomeStep
  <2>4. Matching(p, dir) /\ \A q \in Seq(Nat) : Matching(q, dir) => q = p BY <1>8, <1>10, <2>1, LiteralPath
  <2>5. PatternOK(f) BY <1>5, <1>7, <2>2, <2>4 DEF PatternOK
  <2>6. ASSUME NEW q \in lasting, Matching(q, to) PROVE Front(q) \in {p}
    <3>1. q \in Seq(Nat) BY LastingFronts
    <3>2. Front(q) \in Seq(Nat) /\ Matching(Front(q), dir) BY <1>5, <1>7, <2>6, <3>1, MatchingFront
    <3>3. QED BY <2>4, <3>2
  <2>7. Gathers(to, {p}, <<>>) BY <2>6, GathersNone
  <2>8. matches' = <<>> /\ Rest(Depth) \cup {f.path} = {p} BY <1>1, <1>3, <1>6, <2>2
  <2>9. QED BY <1>0, <1>1, <1>3, <1>5, <2>2, <2>3, <2>5, <2>7, <2>8, GlobKeepsStep
<1>11. CASE ~ Literal(dir) /\ Call([Top EXCEPT !.pc = "dirs"], GlobFrame(dir))
  <2>1. PICK f, g : f = [Top EXCEPT !.pc = "dirs"] /\ g = [Frame("glob", "begin", Root) EXCEPT !.to = dir] /\ Call(f, g)
    BY <1>11 DEF GlobFrame
  <2>2. /\ DOMAIN f = Fields /\ DOMAIN g = Fields /\ f.op = "glob" /\ f.pc = "dirs" /\ f.path = Top.path /\ f.to = to
        /\ g.op = "glob" /\ g.pc = "begin" /\ g.to = dir
    BY <1>1, <1>2, <1>5, <2>1 DEF Frame, Fields
  <2>3. Pushed(f, g) BY <1>0, <1>1, <2>1, <2>2, CallStep
  <2>4. dir # <<>> BY <1>11 DEF Literal
  <2>5. PatternOK(f) /\ PatternOK(g) BY <1>5, <1>7, <1>8, <2>2, <2>4 DEF PatternOK
  <2>6. QED BY <1>0, <1>1, <1>5, <1>6, <2>2, <2>3, <2>5, GlobCallsStep
<1>12. QED BY <1>5, <1>7, <1>9, <1>10, <1>11 DEF GlobBegin

\* A call of Glob, as its steps need it.
LEMMA GlobTop ==
  ASSUME ShareIInv, SaidOK, GlobIn, stack # <<>>, Top.op \in {"glob", "globDir"}
  PROVE  /\ StackOK /\ CallersOK /\ PathsOK /\ PatternsOK /\ GatheringOK /\ GatheredOK
         /\ Depth \in Nat /\ Depth > 0 /\ DOMAIN Top = Fields /\ PatternOK(Top) /\ Top.path \in Seq(Nat)
         /\ Top.to \in Seq(SUBSET Nat) /\ Top.to # <<>>
         /\ Top.op = "glob" => Rest(Depth) = {}
         /\ Top.op = "globDir" => Top.path \notin Rest(Depth) /\ Gathers(Top.to, Rest(Depth) \cup {Top.path}, matches)
<1>1. StackOK /\ CallersOK /\ PathsOK /\ PatternsOK /\ GatheringOK /\ GatheredOK
  BY DEF ShareIInv, SaidOK, GlobIn
<1>2. /\ Depth \in Nat /\ Depth > 0 /\ Top = stack[Depth] /\ Depth = Len(stack) /\ DOMAIN Top = Fields
      /\ Depth = 1 => Rest(Depth) = {}
      /\ Depth > 1 => (Top.op = "glob" => Rest(Depth) = {})
  BY <1>1, GlobCallers
<1>3. Depth \in 1 .. Len(stack) BY <1>2
<1>4. PatternOK(Top) /\ Top.path \in Seq(Nat) BY <1>1, <1>2, <1>3 DEF PatternsOK, PathsOK
<1>5. Depth # 1 <=> Depth > 1 BY <1>2, PastOne
<1>6. Top.op = "globDir" => Top.path \notin Rest(Depth) /\ Gathers(Top.to, Rest(Depth) \cup {Top.path}, matches)
  BY <1>1, <1>2, <1>3 DEF GatheringOK
<1>7. QED BY <1>1, <1>2, <1>4, <1>5, <1>6 DEF PatternOK

\* A literal pattern is there or not.
LEMMA GlobLiteralGathers ==
  ASSUME ShareIInv, TreeIInv, SaidOK, GlobIn, faulted = {}, GlobLiteral
  PROVE  GlobIn'
<1> USE DEF noTree, noWalk, noCall, treeVars, At, Idle
<1>0. stack # <<>> /\ Top.op = "glob" /\ Top.pc = "literal" /\ UNCHANGED <<lasting, present, goal, matches>>
  BY DEF GlobLiteral
<1>1. /\ StackOK /\ CallersOK /\ PatternOK(Top) /\ Rest(Depth) = {}
      /\ Top.to \in Seq(SUBSET Nat) /\ Top.to # <<>>
  BY <1>0, GlobTop
<1>2. PICK to, p : to = Top.to /\ p = PathOf(to) OBVIOUS
<1>3. to \in Seq(SUBSET Nat) /\ to # <<>> /\ Literal(to) BY <1>0, <1>1, <1>2 DEF PatternOK
<1>4. /\ p \in Seq(Nat) /\ Len(p) = Len(to) /\ Matching(p, to)
      /\ \A q \in Seq(Nat) : Matching(q, to) => q = p
  BY <1>2, <1>3, LiteralPath
<1>5. PICK r, m : r = [Nothing EXCEPT !.paths = m] /\ m = (IF ret.err = "none" THEN <<p>> ELSE <<>>) /\ Return(r)
  BY <1>2 DEF GlobLiteral
<1>6. r.paths = m BY <1>5 DEF Nothing
<1>7. Asked(Top) = p BY <1>0, <1>2 DEF Asked
<1>8. StatSaid BY DEF SaidOK
<1>9. CASE ret.err = "none"
  <2>1. p # Root BY <1>3, <1>4 DEF Root
  <2>2. p \in present BY <1>0, <1>7, <1>8, <1>9, <2>1 DEF StatSaid
  <2>3. m = <<p>> /\ m \in Seq(Seq(Nat)) /\ Len(m) = 1 /\ m[1] = p BY <1>4, <1>5, <1>9
  <2>4. p \in Range(m) BY <2>3 DEF Range
  <2>5. \A q \in lasting : Matching(q, to) => q \in Range(m) BY <1>4, <2>4, LastingFronts
  <2>6. Gathers(to, {}, m) BY <1>4, <2>2, <2>3, <2>5 DEF Gathers
  <2>7. QED BY <1>0, <1>1, <1>2, <1>5, <1>6, <2>6, GlobReturns
<1>10. CASE ret.err # "none"
  <2>1. p \notin lasting BY <1>0, <1>7, <1>8, <1>10 DEF StatSaid
  <2>2. \A q \in lasting : ~ Matching(q, to) BY <1>4, <2>1, LastingFronts
  <2>3. Gathers(to, {}, <<>>) BY <2>2, GathersNone
  <2>4. m = <<>> BY <1>5, <1>10
  <2>5. QED BY <1>0, <1>1, <1>2, <1>5, <1>6, <2>3, <2>4, GlobReturns
<1>11. QED BY <1>9, <1>10

\* The directories of a pattern are known.
LEMMA GlobDirsGathers ==
  ASSUME ShareIInv, TreeIInv, SaidOK, GlobIn, GlobDirs
  PROVE  GlobIn'
<1> USE DEF noTree, noWalk, noCall, treeVars, At, Idle
<1>0. stack # <<>> /\ Top.op = "glob" /\ Top.pc = "dirs" /\ UNCHANGED <<lasting, present, goal>> /\ matches' = <<>>
  BY DEF GlobDirs
<1>1. /\ StackOK /\ CallersOK /\ GatheredOK /\ PatternOK(Top) /\ DOMAIN Top = Fields
      /\ Top.to \in Seq(SUBSET Nat) /\ Top.to # <<>>
  BY <1>0, GlobTop
<1>2. PICK to, dir, m : to = Top.to /\ dir = Front(to) /\ m = ret.paths OBVIOUS
<1>3. to \in Seq(SUBSET Nat) /\ to # <<>> /\ dir # <<>> BY <1>0, <1>1, <1>2 DEF PatternOK
<1>4. Gathers(dir, {}, m) BY <1>0, <1>1, <1>2 DEF GatheredOK
<1>5. Len(to) \in Nat /\ Len(to) # 1
  <2>1. Len(dir) = Len(to) - 1 /\ Len(to) \in Nat /\ dir \in Seq(SUBSET Nat) BY <1>2, <1>3, MatchingNames
  <2>2. QED BY <1>3, <2>1
<1>6. PICK f : f = [Top EXCEPT !.pc = "gather", !.paths = m] /\ Become(f) BY <1>2 DEF GlobDirs
<1>7. /\ DOMAIN f = Fields /\ f.op = "glob" /\ f.pc = "gather" /\ f.to = to /\ f.paths = m
  BY <1>0, <1>1, <1>2, <1>6 DEF Fields
<1>8. Kept(f) BY <1>0, <1>1, <1>6, <1>7, BecomeStep
<1>9. /\ m \in Seq(Seq(Nat)) /\ \A i \in 1 .. Len(m) : Matching(m[i], dir)
      /\ \A i, j \in 1 .. Len(m) : m[i] = m[j] => i = j
  BY <1>4, OrderedOnce DEF Gathers
<1>10. PatternOK(f) BY <1>2, <1>3, <1>7, <1>9 DEF PatternOK
<1>11. ASSUME NEW q \in lasting, Matching(q, to) PROVE Front(q) \in Range(m)
  <2>1. q \in Seq(Nat) /\ (Len(q) # 1 => Front(q) \in lasting) BY LastingFronts
  <2>2. Len(q) = Len(to) /\ Matching(Front(q), dir) BY <1>2, <1>3, <1>11, <2>1, MatchingFront
  <2>3. Front(q) \in lasting BY <1>5, <2>1, <2>2
  <2>4. QED BY <1>4, <2>2, <2>3 DEF Gathers
<1>12. Gathers(to, Range(m), <<>>) BY <1>11, GathersNone
<1>13. QED BY <1>0, <1>1, <1>2, <1>7, <1>8, <1>10, <1>12, GlobKeepsStep

\* Glob goes on with the next directory, or has looked into all.
LEMMA GlobGatherGathers ==
  ASSUME ShareIInv, TreeIInv, SaidOK, GlobIn, GlobGather
  PROVE  GlobIn'
<1> USE DEF noTree, noWalk, noCall, treeVars, At, Idle
<1>0. stack # <<>> /\ Top.op = "glob" /\ Top.pc = "gather" /\ UNCHANGED <<lasting, present, goal, matches>>
  BY DEF GlobGather
<1>1. /\ StackOK /\ CallersOK /\ GatheredOK /\ PatternOK(Top) /\ DOMAIN Top = Fields /\ Rest(Depth) = {}
      /\ Top.to \in Seq(SUBSET Nat) /\ Top.to # <<>>
  BY <1>0, GlobTop
<1>2. PICK to, l : to = Top.to /\ l = Top.paths OBVIOUS
<1>3. /\ to \in Seq(SUBSET Nat) /\ to # <<>> /\ l \in Seq(Seq(Nat))
      /\ \A k \in 1 .. Len(l) : Matching(l[k], Front(to))
      /\ \A k, m \in 1 .. Len(l) : k # m => l[k] # l[m]
  BY <1>0, <1>1, <1>2 DEF PatternOK
<1>4. Gathers(to, Range(l), matches) BY <1>0, <1>1, <1>2 DEF GatheredOK
<1>5. CASE l = <<>>
  <2>1. Range(l) = {} BY <1>5 DEF Range
  <2>2. PICK r : r = [Nothing EXCEPT !.paths = matches] /\ Return(r) BY <1>2, <1>5 DEF GlobGather
  <2>3. r.paths = matches BY <2>2 DEF Nothing
  <2>4. QED BY <1>0, <1>1, <1>2, <1>4, <2>1, <2>2, <2>3, GlobReturns
<1>6. CASE l # <<>>
  <2>0. PICK t, h : t = Tail(l) /\ h = Head(l) OBVIOUS
  <2>1. PICK f, g : /\ f = [Top EXCEPT !.paths = t] /\ g = [Frame("globDir", "begin", h) EXCEPT !.to = to]
                    /\ Call(f, g)
    BY <1>2, <1>6, <2>0 DEF GlobGather
  <2>2. /\ DOMAIN f = Fields /\ DOMAIN g = Fields /\ f.op = "glob" /\ f.pc = "gather" /\ f.path = Top.path /\ f.to = to
        /\ f.paths = t /\ g.op = "globDir" /\ g.pc = "begin" /\ g.path = h /\ g.to = to
    BY <1>0, <1>1, <1>2, <2>1 DEF Frame, Fields
  <2>3. Pushed(f, g) BY <1>0, <1>1, <2>1, <2>2, CallStep
  <2>4. t \in Seq(Seq(Nat)) /\ Drops(l, t) BY <1>3, <1>6, <2>0, TailDrops
  <2>5. 1 \in 1 .. Len(l) /\ h = l[1] /\ Len(l) \in Nat /\ Len(t) \in Nat BY <1>3, <2>0, <2>4 DEF Drops
  <2>6. PatternOK(g) BY <1>3, <2>2, <2>5 DEF PatternOK
  <2>7. PatternOK(f)
    <3>1. \A k \in 1 .. Len(t) : Matching(t[k], Front(to)) BY <1>3, <2>4 DEF Drops
    <3>2. ASSUME NEW k \in 1 .. Len(t), NEW m \in 1 .. Len(t), k # m PROVE t[k] # t[m]
      <4>1. k + 1 # m + 1 BY <3>2
      <4>2. QED BY <1>3, <2>4, <4>1 DEF Drops
    <3>3. QED BY <1>3, <2>2, <2>4, <3>1, <3>2 DEF PatternOK
  <2>8. RestAfter(f) = Range(t) BY <2>2 DEF RestAfter
  <2>9. DOMAIN l = 1 .. Len(l) /\ DOMAIN t = 1 .. Len(t) BY <1>3, <2>4
  <2>10. h \notin Range(t)
    <3> SUFFICES ASSUME NEW k \in 1 .. Len(t), t[k] = h PROVE FALSE BY <2>9 DEF Range
    <3>1. QED BY <1>3, <2>4, <2>5 DEF Drops
  <2>11. Range(l) = Range(t) \cup {h}
    <3>1. ASSUME NEW x \in Range(l) PROVE x \in Range(t) \cup {h}
      <4>1. PICK k \in 1 .. Len(l) : l[k] = x BY <2>9 DEF Range
      <4>2. QED BY <2>4, <2>5, <2>9, <4>1 DEF Drops, Range
    <3>2. ASSUME NEW x \in Range(t) PROVE x \in Range(l)
      <4>1. PICK k \in 1 .. Len(t) : t[k] = x BY <2>9 DEF Range
      <4>2. QED BY <2>4, <2>9, <4>1 DEF Drops, Range
    <3>3. h \in Range(l) BY <2>5, <2>9 DEF Range
    <3>4. QED BY <3>1, <3>2, <3>3
  <2>12. Gathers(to, Range(t) \cup {h}, matches) BY <1>4, <2>11
  <2>13. QED BY <1>0, <1>1, <1>2, <2>2, <2>3, <2>6, <2>7, <2>8, <2>10, <2>12, GlobCallsStep
<1>7. QED BY <1>5, <1>6

\* globDir looks at a directory.
LEMMA GlobDirGathers ==
  ASSUME ShareIInv, TreeIInv, SaidOK, GlobIn, faulted = {}, GlobDirStep
  PROVE  GlobIn'
<1> USE DEF noTree, noWalk, noCall, treeVars, At, Idle
<1>0. stack # <<>> /\ Top.op = "globDir" /\ UNCHANGED <<lasting, present, goal>>
  BY DEF GlobDirStep, GlobDir
<1>1. /\ StackOK /\ CallersOK /\ PatternOK(Top) /\ DOMAIN Top = Fields /\ Top.path \in Seq(Nat)
      /\ Top.to \in Seq(SUBSET Nat) /\ Top.to # <<>> /\ Top.path \notin Rest(Depth)
      /\ Gathers(Top.to, Rest(Depth) \cup {Top.path}, matches)
  BY <1>0, GlobTop
<1>2. PICK to, d, R, old : to = Top.to /\ d = Top.path /\ R = Rest(Depth) /\ old = matches OBVIOUS
<1>3. /\ to \in Seq(SUBSET Nat) /\ to # <<>> /\ d \in Seq(Nat) /\ Matching(d, Front(to)) /\ d \notin R
      /\ Gathers(to, R \cup {d}, old)
  BY <1>0, <1>1, <1>2 DEF PatternOK
<1>4. ASSUME NEW pc, NEW op, NEW begin, NEW p, op \in Asking, matches' = matches,
             Call([Top EXCEPT !.pc = pc], Frame(op, begin, p))
      PROVE  GlobIn'
  <2>1. PICK f, g : f = [Top EXCEPT !.pc = pc] /\ g = Frame(op, begin, p) /\ Call(f, g) BY <1>4
  <2>2. /\ DOMAIN f = Fields /\ DOMAIN g = Fields /\ f.op = "globDir" /\ f.path = Top.path /\ f.to = Top.to
        /\ g.op = op
    BY <1>0, <1>1, <2>1 DEF Frame, Fields
  <2>3. Pushed(f, g) BY <1>0, <1>1, <2>1, <2>2, CallStep
  <2>4. g.op \notin {"glob", "globDir"} BY <1>4, <2>2 DEF Asking
  <2>5. PatternOK(f) /\ PatternOK(g) BY <1>2, <1>3, <2>2, <2>4 DEF PatternOK
  <2>6. QED BY <1>0, <1>1, <1>4, <2>2, <2>3, <2>4, <2>5, GlobCallsStep
<1>5. ASSUME NEW m, m = matches', Gathers(to, R, m), Return([Nothing EXCEPT !.paths = m]) PROVE GlobIn'
  <2>1. PICK r : r = [Nothing EXCEPT !.paths = m] /\ Return(r) BY <1>5
  <2>2. r.paths = m BY <2>1 DEF Nothing
  <2>3. QED BY <1>0, <1>1, <1>2, <1>5, <2>1, <2>2, GlobReturns
<1>6. CASE Top.pc = "begin"
  <2>1. matches' = matches BY <1>6 DEF GlobDirStep, GlobDir
  <2>2. CASE Top.path = Root
    <3>1. Call([Top EXCEPT !.pc = "listed"], Frame("readDir", "first", Root))
      BY <1>6, <2>2 DEF GlobDirStep, GlobDir
    <3>2. QED BY <1>4, <2>1, <3>1 DEF Asking
  <2>3. CASE Top.path # Root
    <3>1. Call([Top EXCEPT !.pc = "statted"], Frame("stat", "basic", Top.path))
      BY <1>6, <2>3 DEF GlobDirStep, GlobDir
    <3>2. QED BY <1>4, <2>1, <3>1 DEF Asking
  <2>4. QED BY <2>2, <2>3
<1>7. CASE Top.pc = "statted"
  <2>1. matches' = matches BY <1>7 DEF GlobDirStep, GlobDir
  <2>2. CASE ret.err # "none" \/ ~ ret.dir
    <3>1. Asked(Top) = d BY <1>0, <1>2 DEF Asked
    <3>2. StatSaid BY DEF SaidOK
    <3>3. \A q \in lasting : ~ Above(d, q) BY <1>0, <1>7, <2>2, <3>1, <3>2 DEF StatSaid
    <3>4. Gathers(to, R, old) BY <1>3, <3>3, GatheredEmpty
    <3>5. Return([Nothing EXCEPT !.paths = old]) BY <1>2, <1>7, <2>2 DEF GlobDirStep, GlobDir
    <3>6. QED BY <1>2, <1>5, <2>1, <3>4, <3>5
  <2>3. CASE ret.err = "none" /\ ret.dir
    <3>1. Call([Top EXCEPT !.pc = "listed"], Frame("readDir", "first", Top.path))
      BY <1>7, <2>3 DEF GlobDirStep, GlobDir
    <3>2. QED BY <1>4, <2>1, <3>1 DEF Asking
  <2>4. ret.err = "none" => ret.dir \in BOOLEAN BY <1>0, <1>7 DEF SaidOK, StatSaid
  <2>5. QED BY <2>2, <2>3, <2>4
<1>8. CASE Top.pc = "listed"
  <2>0. ListSaid BY DEF SaidOK
  <2>1. CASE ret.err # "none"
    <3>1. \A q \in lasting : ~ Above(d, q) BY <1>0, <1>2, <1>8, <2>0, <2>1 DEF ListSaid
    <3>2. Gathers(to, R, old) BY <1>3, <3>1, GatheredEmpty
    <3>3. matches' = old /\ Return([Nothing EXCEPT !.paths = old])
      BY <1>2, <1>8, <2>1 DEF GlobDirStep, GlobDir
    <3>4. QED BY <1>5, <3>2, <3>3
  <2>2. CASE ret.err = "none"
    <3>1. PICK l, n : l = ret.list /\ n = InOrder(old \o Matched(l, to[Len(to)])) OBVIOUS
    <3>2. EntriesOK(d, l) /\ ListsAll(d, l) BY <1>0, <1>2, <1>8, <2>0, <2>2, <3>1 DEF ListSaid
    <3>3. Gathers(to, R, n) BY <1>3, <3>1, <3>2, GatheredMore
    <3>4. matches' = n /\ Return([Nothing EXCEPT !.paths = n])
      BY <1>2, <1>8, <2>2, <3>1 DEF GlobDirStep, GlobDir
    <3>5. QED BY <1>5, <3>3, <3>4
  <2>3. QED BY <2>1, <2>2
<1>9. QED BY <1>6, <1>7, <1>8 DEF GlobDirStep, GlobDir

\* Glob, for its calls of Stat and ReadDir.
LEMMA GlobTells ==
  ASSUME ShareIInv, TreeIInv, SaidOK, GlobIn,
         GlobBegin \/ GlobLiteral \/ GlobDirs \/ GlobGather \/ GlobDirStep
  PROVE  SaidOK'
<1> USE DEF noTree, noWalk, noCall, treeVars, At, Idle
<1>0. stack # <<>> /\ Top.op \in {"glob", "globDir"} /\ Top.op \notin Asking
  BY DEF GlobBegin, GlobLiteral, GlobDirs, GlobGather, GlobDirStep, GlobDir, Asking
<1>1. /\ StackOK /\ CallersOK /\ PatternOK(Top) /\ DOMAIN Top = Fields /\ Top.path \in Seq(Nat)
      /\ Top.to \in Seq(SUBSET Nat) /\ Top.to # <<>>
  BY <1>0, GlobTop
<1>2. PICK to, dir : to = Top.to /\ dir = Front(to) OBVIOUS
<1>3. to \in Seq(SUBSET Nat) /\ to # <<>> /\ dir \in Seq(SUBSET Nat) BY <1>1, <1>2, MatchingNames
<1>4. ASSUME NEW r, Return(r) PROVE SaidOK' BY <1>0, <1>1, <1>4, ReturnStep, SaidStep
<1>5. ASSUME NEW f, NEW g, DOMAIN f = Fields, DOMAIN g = Fields, Call(f, g),
             f.op = Top.op, f.path = Top.path, f.to = Top.to, Caller(f, g), Fresh(g)
      PROVE  SaidOK'
  <2>1. Pushed(f, g) BY <1>0, <1>1, <1>5, CallStep
  <2>2. Stands(f) BY <1>0, <1>1, <1>5, SameStands
  <2>3. QED BY <1>0, <1>1, <1>5, <2>1, <2>2, SaidStep
<1>6. ASSUME NEW pc, NEW op, NEW begin, NEW p \in Seq(Nat), op \in Asking, begin \in {"basic", "first"},
             \A f, g : f.op = Top.op /\ f.pc = pc /\ f.path = Top.path /\ f.to = to /\ g.op = op /\ g.path = p => Caller(f, g),
             Call([Top EXCEPT !.pc = pc], Frame(op, begin, p))
      PROVE  SaidOK'
  <2>1. PICK f, g : f = [Top EXCEPT !.pc = pc] /\ g = Frame(op, begin, p) /\ Call(f, g) BY <1>6
  <2>2. /\ DOMAIN f = Fields /\ DOMAIN g = Fields /\ f.op = Top.op /\ f.path = Top.path /\ f.to = Top.to /\ f.pc = pc
        /\ g.op = op /\ g.pc = begin /\ g.path = p /\ g.todo = <<>> /\ g.seen = {}
    BY <1>1, <2>1 DEF Frame, Fields
  <2>3. Fresh(g) BY <1>6, <2>2 DEF Fresh, Asking
  <2>4. Caller(f, g) BY <1>2, <1>6, <2>2
  <2>5. QED BY <1>5, <2>1, <2>2, <2>3, <2>4
<1>7. CASE GlobBegin
  <2>0. Top.op = "glob" /\ Top.pc = "begin" BY <1>7 DEF GlobBegin
  <2>1. CASE Literal(to) /\ Call([Top EXCEPT !.pc = "literal"], Frame("stat", "basic", PathOf(to)))
    <3>1. PICK p : p = PathOf(to) /\ p \in Seq(Nat) BY <1>3, <2>1, LiteralPath
    <3>2. \A f, g : f.op = Top.op /\ f.pc = "literal" /\ f.path = Top.path /\ f.to = to /\ g.op = "stat" /\ g.path = p => Caller(f, g)
      BY <2>0, <3>1 DEF Caller
    <3>3. QED BY <1>6, <2>1, <3>1, <3>2 DEF Asking
  <2>2. CASE Literal(dir) /\ Become([Frame("globDir", "begin", PathOf(dir)) EXCEPT !.to = to])
    <3>1. PICK f, p : p = PathOf(dir) /\ f = [Frame("globDir", "begin", p) EXCEPT !.to = to] /\ Become(f)
      BY <2>2
    <3>2. DOMAIN f = Fields /\ f.op = "globDir" /\ f.pc = "begin" /\ f.path = p /\ f.to = Top.to
      BY <1>2, <3>1 DEF Frame, Fields
    <3>3. Kept(f) BY <1>0, <1>1, <3>1, <3>2, BecomeStep
    <3>4. p \in Seq(Nat) BY <1>3, <2>2, <3>1, LiteralPath
    <3>5. Stands(f) BY <2>0, <3>2, <3>4 DEF Stands, Caller, Asking
    <3>6. QED BY <1>0, <1>1, <3>2, <3>3, <3>5, SaidStep
  <2>3. CASE Call([Top EXCEPT !.pc = "dirs"], GlobFrame(dir))
    <3>1. PICK f, g : f = [Top EXCEPT !.pc = "dirs"] /\ g = [Frame("glob", "begin", Root) EXCEPT !.to = dir] /\ Call(f, g)
      BY <2>3 DEF GlobFrame
    <3>2. /\ DOMAIN f = Fields /\ DOMAIN g = Fields /\ f.op = "glob" /\ f.pc = "dirs" /\ f.path = Top.path /\ f.to = Top.to
          /\ g.op = "glob" /\ g.pc = "begin" /\ g.to = dir /\ g.path = Root /\ g.todo = <<>> /\ g.seen = {}
      BY <1>1, <2>0, <3>1 DEF Frame, Fields
    <3>3. Caller(f, g) /\ Fresh(g) BY <1>2, <3>2, PathTypes DEF Caller, Fresh
    <3>4. QED BY <1>5, <2>0, <3>1, <3>2, <3>3
  <2>4. QED BY <1>2, <1>7, <2>1, <2>2, <2>3 DEF GlobBegin
<1>8. CASE GlobLiteral BY <1>4, <1>8 DEF GlobLiteral
<1>9. CASE GlobDirs
  <2>1. PICK f, m : f = [Top EXCEPT !.pc = "gather", !.paths = m] /\ Become(f) BY <1>9 DEF GlobDirs
  <2>2. DOMAIN f = Fields /\ f.op = Top.op /\ f.path = Top.path /\ f.to = Top.to /\ f.pc = "gather"
    BY <1>1, <2>1 DEF Fields
  <2>3. Kept(f) BY <1>0, <1>1, <2>1, <2>2, BecomeStep
  <2>4. Stands(f) BY <1>0, <1>1, <2>2, SameStands
  <2>5. QED BY <1>0, <1>1, <2>2, <2>3, <2>4, SaidStep
<1>10. CASE GlobGather
  <2>0. Top.op = "glob" /\ Top.pc = "gather" BY <1>10 DEF GlobGather
  <2>1. CASE Top.paths = <<>> BY <1>4, <1>10, <2>1 DEF GlobGather
  <2>2. CASE Top.paths # <<>>
    <3>0. PICK l, t, h : l = Top.paths /\ t = Tail(l) /\ h = Head(l) OBVIOUS
    <3>1. PICK f, g : /\ f = [Top EXCEPT !.paths = t] /\ g = [Frame("globDir", "begin", h) EXCEPT !.to = to]
                      /\ Call(f, g)
      BY <1>2, <1>10, <2>2, <3>0 DEF GlobGather
    <3>2. /\ DOMAIN f = Fields /\ DOMAIN g = Fields /\ f.op = "glob" /\ f.pc = "gather" /\ f.path = Top.path /\ f.to = Top.to
          /\ g.op = "globDir" /\ g.pc = "begin" /\ g.path = h /\ g.to = to /\ g.todo = <<>> /\ g.seen = {}
      BY <1>1, <2>0, <3>1 DEF Frame, Fields
    <3>3. l \in Seq(Seq(Nat)) /\ l # <<>> BY <1>1, <2>0, <2>2, <3>0 DEF PatternOK
    <3>4. h \in Seq(Nat) BY <3>0, <3>3
    <3>5. Caller(f, g) /\ Fresh(g) BY <1>2, <3>2, <3>4 DEF Caller, Fresh
    <3>6. QED BY <1>5, <2>0, <3>1, <3>2, <3>5
  <2>3. QED BY <2>1, <2>2
<1>11. CASE GlobDirStep
  <2>0. Top.op = "globDir" BY <1>11 DEF GlobDirStep, GlobDir
  <2>1. \A f, g : f.op = Top.op /\ f.pc = "listed" /\ f.path = Top.path /\ f.to = to /\ g.op = "readDir" /\ g.path = Top.path => Caller(f, g)
    BY <2>0 DEF Caller
  <2>2. \A f, g : f.op = Top.op /\ f.pc = "statted" /\ f.path = Top.path /\ f.to = to /\ g.op = "stat" /\ g.path = Top.path => Caller(f, g)
    BY <2>0 DEF Caller
  <2>3. \/ \E r : Return(r)
        \/ Call([Top EXCEPT !.pc = "listed"], Frame("readDir", "first", Top.path))
        \/ Call([Top EXCEPT !.pc = "statted"], Frame("stat", "basic", Top.path))
    <3>1. CASE Top.pc = "begin"
      <4>1. CASE Top.path = Root BY <1>11, <3>1, <4>1 DEF GlobDirStep, GlobDir
      <4>2. CASE Top.path # Root BY <1>11, <3>1, <4>2 DEF GlobDirStep, GlobDir
      <4>3. QED BY <4>1, <4>2
    <3>2. CASE Top.pc = "statted" BY <1>11, <3>2 DEF GlobDirStep, GlobDir
    <3>3. CASE Top.pc = "listed" BY <1>11, <3>3 DEF GlobDirStep, GlobDir
    <3>4. QED BY <1>11, <3>1, <3>2, <3>3 DEF GlobDirStep, GlobDir
  <2>4. ASSUME Call([Top EXCEPT !.pc = "listed"], Frame("readDir", "first", Top.path)) PROVE SaidOK'
    BY <1>1, <1>6, <2>1, <2>4 DEF Asking
  <2>5. ASSUME Call([Top EXCEPT !.pc = "statted"], Frame("stat", "basic", Top.path)) PROVE SaidOK'
    BY <1>1, <1>6, <2>2, <2>5 DEF Asking
  <2>6. QED BY <1>4, <2>3, <2>4, <2>5
<1>12. QED BY <1>7, <1>8, <1>9, <1>10, <1>11

\* Glob waits for Stat or ReadDir.
LEMMA GlobAsks ==
  ASSUME ShareIInv, CallersOK, GlobIn, stack # <<>>, Asks
  PROVE  GlobIn'
<1>0. StackOK /\ PatternsOK /\ GatheringOK /\ GatheredOK BY DEF ShareIInv, GlobIn
<1>1. Top.op \in Asking /\ UNCHANGED <<lasting, present, goal, matches>> BY DEF Asks
<1>2. Depth \in Nat /\ Depth > 0 /\ Depth = Len(stack) /\ Top = stack[Depth]
  BY <1>0, StackFacts DEF Depth, Top
<1>3. Depth # 1 BY <1>1, <1>2 DEF CallersOK
<1>4. /\ StackOK' /\ Reshaped /\ Len(stack') \in {Depth - 1, Depth}
      /\ Len(stack') = Depth => stack'[Depth].op \in Asking
  BY <1>1 DEF Asks, Popped, Kept
<1>5. ~(Len(stack') > Depth) /\ (Len(stack') >= Depth => Len(stack') = Depth) BY <1>2, <1>4
<1>6. PatternsOK'
  <2>1. Len(stack') >= Depth => PatternOK(stack'[Depth]) BY <1>4, <1>5 DEF PatternOK, Asking
  <2>2. QED BY <1>0, <1>4, <1>5, <2>1, PatternsStep
<1>7. GatheringOK'
  <2>1. Len(stack') >= Depth => stack'[Depth].op # "globDir" BY <1>4, <1>5 DEF Asking
  <2>2. QED BY <1>0, <1>1, <1>4, <1>5, <2>1, GatheringStep
<1>8. stack' # <<>> /\ stack'[1] = stack[1]
  <2>1. 1 \in 1 .. Depth - 1 BY <1>2, <1>3
  <2>2. Len(stack') # 0 BY <1>2, <1>3, <1>4
  <2>3. QED BY <1>4, <2>1, <2>2 DEF Reshaped
<1>9. Top'.op # "glob" \/ Top'.pc = "literal"
  <2>1. CASE Popped
    <3>1. Caller(Top', Top) BY <1>0, <1>8, <2>1, ReturnTop
    <3>2. QED BY <1>1, <3>1 DEF Caller, Asking
  <2>2. ASSUME NEW f, Kept(f), f.op = Top.op PROVE Top'.op # "glob"
    BY <1>0, <1>1, <2>2, NewTop DEF Asking
  <2>3. QED BY <2>1, <2>2 DEF Asks
<1>10. GatheredOK' BY <1>0, <1>1, <1>8, <1>9 DEF GatheredOK
<1>11. QED BY <1>6, <1>7, <1>10 DEF GlobIn

\* Less has lasted and more has been there.
LEMMA GathersLess ==
  ASSUME lasting' \subseteq lasting, present \subseteq present', NEW to, NEW R, NEW m, Gathers(to, R, m)
  PROVE  Gathers(to, R, m)'
BY DEF Gathers

\* Others take away, or the context ends.
LEMMA OthersGlob ==
  ASSUME GlobIn, UNCHANGED <<stack, ret, goal, matches>>, lasting' \subseteq lasting, present \subseteq present'
  PROVE  GlobIn'
<1>0. PatternsOK /\ GatheringOK /\ GatheredOK BY DEF GlobIn
<1>1. PatternsOK' BY <1>0 DEF PatternsOK, PatternOK
<1>2. Top' = Top /\ \A i : Rest(i)' = Rest(i) BY DEF Top, Rest
<1>3. PICK m, r : m = matches /\ r = ret.paths OBVIOUS
<1>4. GatheringOK'
  <2> SUFFICES ASSUME NEW i \in 1 .. Len(stack), stack[i].op = "globDir", NEW R, R = Rest(i), NEW f, f = stack[i]
               PROVE  f.path \notin R /\ Gathers(f.to, R \cup {f.path}, m)'
    BY <1>2, <1>3 DEF GatheringOK
  <2>1. f.path \notin R /\ Gathers(f.to, R \cup {f.path}, m) BY <1>0, <1>3 DEF GatheringOK
  <2>2. QED BY <2>1, GathersLess
<1>5. GatheredOK'
  <2>1. PICK to, f : to = goal.to /\ f = Top OBVIOUS
  <2>2. stack = <<>> => Gathers(to, {}, r)' BY <1>0, <1>3, <2>1, GathersLess DEF GatheredOK
  <2>3. stack # <<>> /\ f.op = "glob" /\ f.pc = "dirs" => Gathers(Front(f.to), {}, r)'
    BY <1>0, <1>3, <2>1, GathersLess DEF GatheredOK
  <2>4. stack # <<>> /\ f.op = "glob" /\ f.pc = "gather" => Gathers(f.to, Range(f.paths), m)'
    BY <1>0, <1>3, <2>1, GathersLess DEF GatheredOK
  <2>5. QED BY <1>0, <1>2, <1>3, <2>1, <2>2, <2>3, <2>4 DEF GatheredOK
<1>6. QED BY <1>1, <1>4, <1>5 DEF GlobIn

\* Glob begins.
LEMMA GlobStarts ==
  ASSUME NEW pattern \in Patterns, GlobCall(pattern)
  PROVE  GlobIn'
<1>0. pattern \in Seq(SUBSET Nat) /\ pattern # <<>> BY PatternAssumption
<1>1. PICK f : f = [Frame("glob", "begin", Root) EXCEPT !.to = pattern] /\ stack' = <<f>>
  BY Zenon DEF GlobCall, Start
<1>2. f.op = "glob" /\ f.pc = "begin" /\ f.to = pattern BY <1>1 DEF Frame
<1>3. Len(stack') = 1 /\ stack'[1] = f /\ Top' = f /\ stack' # <<>> BY <1>1 DEF Top
<1>4. matches' = <<>> /\ goal'.to = pattern BY DEF GlobCall, Start
<1>5. PatternsOK' BY <1>0, <1>2, <1>3 DEF PatternsOK, PatternOK
<1>6. GatheringOK' BY <1>2, <1>3 DEF GatheringOK
<1>7. GatheredOK' BY <1>2, <1>3, <1>4 DEF GatheredOK
<1>8. QED BY <1>5, <1>6, <1>7 DEF GlobIn

-----------------------------------------------------------------------------
(* A paged listing.                                                        *)

\* What comes after the first n of l, page by page.
Follows(l, n, rest) ==
    \A k \in 0 .. Len(rest) : SubSeq(l, 1, n) \o SubSeq(rest, 1, k) = SubSeq(l, 1, n + k)

\* What has been returned, with a page of the rest.
LEMMA PageAdds ==
  ASSUME NEW S, NEW l \in Seq(S), NEW n \in 0 .. Len(l), NEW rest, rest = SubSeq(l, n + 1, Len(l))
  PROVE  rest \in Seq(S) /\ Len(rest) = Len(l) - n /\ Follows(l, n, rest)
<1>1. rest \in Seq(S) /\ Len(rest) = Len(l) - n /\ \A k \in 1 .. Len(rest) : rest[k] = l[n + k] OBVIOUS
<1>2. ASSUME NEW k \in 0 .. Len(rest) PROVE SubSeq(l, 1, n) \o SubSeq(rest, 1, k) = SubSeq(l, 1, n + k)
  <2>1. PICK a, b, c : a = SubSeq(l, 1, n) /\ b = SubSeq(rest, 1, k) /\ c = SubSeq(l, 1, n + k) OBVIOUS
  <2>2. a \in Seq(S) /\ Len(a) = n /\ \A i \in 1 .. n : a[i] = l[i] BY <2>1
  <2>3. b \in Seq(S) /\ Len(b) = k /\ \A i \in 1 .. k : b[i] = rest[i] BY <1>1, <2>1
  <2>4. c \in Seq(S) /\ Len(c) = n + k /\ \A i \in 1 .. n + k : c[i] = l[i] BY <1>1, <2>1
  <2>5. PICK d : d = a \o b OBVIOUS
  <2>6. /\ d \in Seq(S) /\ Len(d) = n + k
        /\ \A i \in 1 .. n : d[i] = a[i]
        /\ \A i \in n + 1 .. n + k : d[i] = b[i - n] /\ i - n \in 1 .. k
    <3>1. /\ d \in Seq(S) /\ Len(d) = Len(a) + Len(b)
          /\ \A i \in 1 .. Len(a) : d[i] = a[i]
          /\ \A i \in Len(a) + 1 .. Len(a) + Len(b) : d[i] = b[i - Len(a)] /\ i - Len(a) \in 1 .. Len(b)
      <4>1. a \in Seq(S) /\ b \in Seq(S) BY <2>2, <2>3
      <4>2. /\ a \o b \in Seq(S) /\ Len(a \o b) = Len(a) + Len(b)
            /\ \A i \in 1 .. Len(a) : (a \o b)[i] = a[i]
            /\ \A i \in Len(a) + 1 .. Len(a) + Len(b) : (a \o b)[i] = b[i - Len(a)] /\ i - Len(a) \in 1 .. Len(b)
        BY <4>1, Joined, Zenon
      <4>3. QED BY <2>5, <4>2
    <3>2. QED BY <2>2, <2>3, <3>1, Zenon
  <2>7. ASSUME NEW i \in 1 .. n + k PROVE d[i] = c[i]
    <3>1. CASE i \in 1 .. n BY <2>2, <2>4, <2>6, <3>1
    <3>2. CASE i \in n + 1 .. n + k
      <4>1. i - n \in 1 .. Len(rest) /\ n + (i - n) = i BY <1>1, <2>6, <3>2
      <4>2. QED BY <1>1, <2>3, <2>4, <2>6, <3>2, <4>1
    <3>3. i \in 1 .. n \/ i \in n + 1 .. n + k OBVIOUS
    <3>4. QED BY <3>1, <3>2, <3>3
  <2>8. d = c BY <2>4, <2>6, <2>7
  <2>9. QED BY <2>1, <2>5, <2>8
<1>3. QED BY <1>1, <1>2 DEF Follows

\* A page is not empty while there is a rest.
LEMMA PageLength ==
  ASSUME NEW m \in Nat, m # 0
  PROVE  Min({PageSize, m}) \in 1 .. m
<1>1. PageSize \in Nat /\ PageSize > 0 BY ShareAssumption
<1>2. \E x \in {PageSize, m} : \A y \in {PageSize, m} : x <= y BY <1>1
<1>3. Min({PageSize, m}) \in {PageSize, m} /\ \A y \in {PageSize, m} : Min({PageSize, m}) <= y
  BY <1>2 DEF Min
<1>4. QED BY <1>1, <1>3

\* The names of a listing, in order.
LEMMA SortedListing ==
  ASSUME NEW p \in Seq(Nat), NEW l, EntriesOK(p, l), ListsAll(p, l), NEW s, s = InOrder([i \in DOMAIN l |-> l[i].path])
  PROVE  Lists(p, s)
<1>1. PICK n : n = Len(p) + 1 OBVIOUS
<1>2. n \in Nat BY <1>1
<1>3. Len(l) \in Nat /\ DOMAIN l = 1 .. Len(l) BY DEF EntriesOK
<1>4. PICK u : u = [i \in DOMAIN l |-> l[i].path] OBVIOUS
<1>5. ASSUME NEW i \in 1 .. Len(l) PROVE u[i] = l[i].path /\ u[i] \in [1 .. n -> Nat]
  <2>1. PICK c : c = l[i].path OBVIOUS
  <2>2. c \in Seq(Nat) /\ Child(c, p) BY <2>1, EntryFacts
  <2>3. Len(c) = n BY <1>1, <2>2 DEF Child
  <2>4. c \in [1 .. n -> Nat] BY <2>2, <2>3
  <2>5. QED BY <1>3, <1>4, <2>1, <2>4
<1>6. u \in Seq([1 .. n -> Nat]) /\ Len(u) = Len(l) /\ DOMAIN u = 1 .. Len(u)
  <2>1. u \in [1 .. Len(l) -> [1 .. n -> Nat]] BY <1>3, <1>4, <1>5
  <2>2. QED BY <1>3, <2>1
<1>7. \A i, j \in 1 .. Len(u) : u[i] = u[j] => i = j BY <1>5, <1>6 DEF EntriesOK
<1>8. /\ s \in Seq([1 .. n -> Nat]) /\ Len(s) = Len(u) /\ Range(s) = Range(u)
      /\ \A i, j \in 1 .. Len(u) : i < j => Less(s[i], s[j])
  BY <1>2, <1>4, <1>6, <1>7, InOrderSorts
<1>9. s \in Seq(Seq(Nat))
  <2>1. \A i \in 1 .. Len(s) : s[i] \in Seq(Nat) BY <1>2, <1>8
  <2>2. QED BY <1>8, <2>1, SeqOver
<1>10. ASSUME NEW q \in lasting, Child(q, p) PROVE q \in Range(s)
  <2>1. PICK k \in 1 .. Len(l) : l[k].path = q BY <1>10 DEF ListsAll
  <2>2. QED BY <1>5, <1>6, <1>8, <2>1 DEF Range
<1>11. ASSUME NEW q \in Range(s) PROVE q \in present
  <2>1. PICK k \in 1 .. Len(l) : u[k] = q BY <1>6, <1>8 DEF Range
  <2>2. QED BY <1>5, <2>1 DEF EntriesOK
<1>12. QED BY <1>8, <1>9, <1>10, <1>11 DEF Lists

\* Less has lasted and more has been there.
LEMMA ListsLess ==
  ASSUME lasting' \subseteq lasting, present \subseteq present', NEW p, NEW l, Lists(p, l)
  PROVE  Lists(p, l)'
BY DEF Lists

\* A paged listing is the outermost call.
LEMMA DirTop ==
  ASSUME ShareIInv, TreeIInv, SaidOK, DirOK, stack # <<>>, Top.op = "dirFS"
  PROVE  /\ StackOK /\ goal.op = "dirFS" /\ Depth = 1 /\ Top = stack[1] /\ DOMAIN Top = Fields
         /\ goal.path \in Seq(Nat) /\ Top.path = goal.path
         /\ Top.pc # "page" => matches = <<>> /\ Top.n = 0
         /\ Top.pc = "page" => /\ Lists(goal.path, Top.paths) /\ Top.n \in 0 .. Len(Top.paths)
                               /\ matches = SubSeq(Top.paths, 1, Top.n)
<1>1. StackOK /\ CallersOK BY DEF ShareIInv, SaidOK
<1>2. Depth \in Nat /\ Depth > 0 /\ Depth = Len(stack) /\ Top = stack[Depth] /\ DOMAIN Top = Fields
  BY <1>1, StackFacts DEF Depth, Top
<1>3. goal.op = "dirFS" BY <1>1, ListerOps
<1>4. Depth = 1
  <2> SUFFICES ASSUME Depth # 1 PROVE FALSE OBVIOUS
  <2>1. Depth - 1 \in 1 .. Len(stack) - 1 /\ Depth - 1 + 1 = Depth BY <1>2
  <2>2. Caller(stack[Depth - 1], Top) BY <1>1, <1>2, <2>1 DEF CallersOK
  <2>3. QED BY <2>2 DEF Caller
<1>5. QED BY <1>1, <1>2, <1>3, <1>4, PathTypes DEF DirOK

\* A paged listing asks for its entries.
LEMMA DirLoads ==
  ASSUME ShareIInv, TreeIInv, SaidOK, DirOK, DirFSLoad
  PROVE  DirOK' /\ SaidOK'
<1> USE DEF noTree, noWalk, noCall, treeVars, At, Idle, Ask
<1>0. stack # <<>> /\ Top.op = "dirFS" /\ Top.pc = "load" /\ UNCHANGED <<lasting, present, goal, matches>>
  BY DEF DirFSLoad
<1>1. /\ StackOK /\ goal.op = "dirFS" /\ Depth = 1 /\ DOMAIN Top = Fields
      /\ goal.path \in Seq(Nat) /\ Top.path = goal.path /\ matches = <<>> /\ Top.n = 0
  BY <1>0, DirTop
<1>2. PICK f, g : f = [Top EXCEPT !.pc = "loaded"] /\ g = Frame("readDir", "first", Top.path) /\ Call(f, g)
  BY DEF DirFSLoad
<1>3. /\ DOMAIN f = Fields /\ DOMAIN g = Fields /\ f.op = "dirFS" /\ f.pc = "loaded" /\ f.path = Top.path /\ f.to = Top.to
      /\ f.n = 0 /\ g.op = "readDir" /\ g.pc = "first" /\ g.path = Top.path /\ g.todo = <<>> /\ g.seen = {}
  BY <1>0, <1>1, <1>2 DEF Frame, Fields
<1>4. Pushed(f, g) BY <1>0, <1>1, <1>2, <1>3, CallStep
<1>5. stack' # <<>> /\ stack'[1] = f BY <1>0, <1>1, <1>4, NewTop DEF Pushed
<1>6. DirOK' BY <1>0, <1>1, <1>3, <1>5 DEF DirOK
<1>7. Top.op \notin Asking BY <1>0 DEF Asking
<1>8. Stands(f) BY <1>0, <1>1, <1>3, <1>7, SameStands
<1>9. Caller(f, g) /\ Fresh(g) BY <1>1, <1>3 DEF Caller, Fresh
<1>10. SaidOK' BY <1>0, <1>1, <1>4, <1>7, <1>8, <1>9, SaidStep
<1>11. QED BY <1>6, <1>10

\* The entries have been listed.
LEMMA DirLoaded ==
  ASSUME ShareIInv, TreeIInv, SaidOK, DirOK, DirFSLoaded
  PROVE  DirOK' /\ SaidOK'
<1> USE DEF noTree, noWalk, noCall, treeVars, At, Idle
<1>0. stack # <<>> /\ Top.op = "dirFS" /\ Top.pc = "loaded" /\ UNCHANGED <<lasting, present, goal, matches>>
  BY DEF DirFSLoaded
<1>1. /\ StackOK /\ goal.op = "dirFS" /\ Depth = 1 /\ DOMAIN Top = Fields
      /\ goal.path \in Seq(Nat) /\ Top.path = goal.path /\ matches = <<>> /\ Top.n = 0
  BY <1>0, DirTop
<1>2. Top.op \notin Asking BY <1>0 DEF Asking
<1>3. ListSaid BY DEF SaidOK
<1>4. CASE ret.err # "none"
  <2>1. Return(ret) BY <1>4 DEF DirFSLoaded
  <2>2. Popped /\ ret' = ret BY <1>0, <1>1, <2>1, ReturnStep
  <2>3. ret.err # "eof" BY <1>0, <1>3 DEF ListSaid
  <2>4. stack' = <<>>
    <3>1. CallersOK BY DEF SaidOK
    <3>2. QED BY <1>0, <1>1, <2>2, <3>1, ReturnTop
  <2>5. DirOK' BY <1>0, <2>2, <2>3, <2>4 DEF DirOK
  <2>6. SaidOK' BY <1>0, <1>1, <1>2, <2>2, SaidStep
  <2>7. QED BY <2>5, <2>6
<1>5. CASE ret.err = "none"
  <2>1. PICK p, l, s : p = Top.path /\ l = ret.list /\ s = InOrder([i \in DOMAIN l |-> l[i].path]) OBVIOUS
  <2>2. EntriesOK(p, l) /\ ListsAll(p, l) /\ p \in Seq(Nat) BY <1>0, <1>1, <1>3, <1>5, <2>1 DEF ListSaid
  <2>3. Lists(p, s) BY <2>1, <2>2, SortedListing
  <2>4. PICK f : f = [Top EXCEPT !.pc = "page", !.paths = s] /\ Become(f) BY <1>5, <2>1 DEF DirFSLoaded
  <2>5. /\ DOMAIN f = Fields /\ f.op = "dirFS" /\ f.pc = "page" /\ f.path = Top.path /\ f.to = Top.to
        /\ f.n = 0 /\ f.paths = s
    BY <1>0, <1>1, <2>4 DEF Fields
  <2>6. Kept(f) BY <1>0, <1>1, <2>4, <2>5, BecomeStep
  <2>7. stack' # <<>> /\ stack'[1] = f BY <1>0, <1>1, <2>6, NewTop DEF Kept
  <2>8. Lists(p, s)' BY <1>0, <2>3, ListsLess
  <2>9. s \in Seq(Seq(Nat)) /\ 0 \in 0 .. Len(s) /\ SubSeq(s, 1, 0) = <<>> BY <2>3 DEF Lists
  <2>10. goal' = goal /\ matches' = <<>> BY <1>0, <1>1
  <2>11. goal.path \in Paths \cup {Root} BY <1>1 DEF DirOK
  <2>12. DirOK' BY <1>1, <2>1, <2>5, <2>7, <2>8, <2>9, <2>10, <2>11 DEF DirOK
  <2>13. Stands(f) BY <1>0, <1>1, <1>2, <2>5, SameStands
  <2>14. SaidOK' BY <1>0, <1>1, <1>2, <2>5, <2>6, <2>13, SaidStep
  <2>15. QED BY <2>12, <2>14
<1>6. QED BY <1>4, <1>5

\* One page more, or the end.
LEMMA DirPages ==
  ASSUME ShareIInv, TreeIInv, SaidOK, DirOK, DirFSPage
  PROVE  DirOK' /\ SaidOK'
<1> USE DEF noTree, noWalk, noCall, treeVars, At, Idle
<1>0. stack # <<>> /\ Top.op = "dirFS" /\ Top.pc = "page" /\ UNCHANGED <<lasting, present, goal>>
  BY DEF DirFSPage
<1>1. /\ StackOK /\ goal.op = "dirFS" /\ Depth = 1 /\ DOMAIN Top = Fields
      /\ goal.path \in Seq(Nat) /\ Top.path = goal.path
      /\ Lists(goal.path, Top.paths) /\ Top.n \in 0 .. Len(Top.paths) /\ matches = SubSeq(Top.paths, 1, Top.n)
  BY <1>0, DirTop
<1>2. Top.op \notin Asking BY <1>0 DEF Asking
<1>3. PICK l, n, p : l = Top.paths /\ n = Top.n /\ p = goal.path OBVIOUS
<1>4. PICK rest : rest = SubSeq(l, n + 1, Len(l)) OBVIOUS
<1>5. /\ Lists(p, l) /\ l \in Seq(Seq(Nat)) /\ n \in 0 .. Len(l) /\ matches = SubSeq(l, 1, n)
      /\ goal.path \in Paths \cup {Root}
  BY <1>1, <1>3 DEF Lists, DirOK
<1>6. rest \in Seq(Seq(Nat)) /\ Len(rest) = Len(l) - n /\ Follows(l, n, rest) BY <1>4, <1>5, PageAdds
<1>7. Lists(p, l)' BY <1>0, <1>5, ListsLess
<1>8. CASE rest = <<>>
  <2>1. Return(Error("eof")) /\ UNCHANGED matches BY <1>3, <1>4, <1>8 DEF DirFSPage, Entries
  <2>2. Popped BY <1>0, <1>1, <2>1, ReturnStep
  <2>3. stack' = <<>>
    <3>1. CallersOK BY DEF SaidOK
    <3>2. QED BY <1>0, <1>1, <2>2, <3>1, ReturnTop
  <2>4. n = Len(l) BY <1>5, <1>6, <1>8
  <2>5. matches' = l BY <1>5, <2>1, <2>4
  <2>6. DirOK' BY <1>0, <1>3, <1>5, <1>7, <2>3, <2>5 DEF DirOK
  <2>7. SaidOK' BY <1>0, <1>1, <1>2, <2>2, SaidStep
  <2>8. QED BY <2>6, <2>7
<1>9. CASE rest # <<>>
  <2>1. PICK k : k = Min({PageSize, Len(rest)}) OBVIOUS
  <2>2. Len(rest) \in Nat /\ Len(rest) # 0 BY <1>6, <1>9
  <2>3. k \in 1 .. Len(rest) BY <2>1, <2>2, PageLength
  <2>4. PICK f : f = [Top EXCEPT !.n = n + k] /\ Become(f)
    BY <1>3, <1>4, <1>9, <2>1 DEF DirFSPage, Entries
  <2>5. matches' = matches \o SubSeq(rest, 1, k) BY <1>3, <1>4, <1>9, <2>1 DEF DirFSPage, Entries
  <2>6. /\ DOMAIN f = Fields /\ f.op = "dirFS" /\ f.pc = "page" /\ f.path = Top.path /\ f.to = Top.to
        /\ f.n = n + k /\ f.paths = l
    BY <1>0, <1>1, <1>3, <2>4 DEF Fields
  <2>7. Kept(f) BY <1>0, <1>1, <2>4, <2>6, BecomeStep
  <2>8. stack' # <<>> /\ stack'[1] = f BY <1>0, <1>1, <2>7, NewTop DEF Kept
  <2>9. matches' = SubSeq(l, 1, n + k) /\ n + k \in 0 .. Len(l)
    <3>1. k \in 0 .. Len(rest) BY <2>2, <2>3
    <3>2. n + k \in 0 .. Len(l) BY <1>5, <1>6, <2>2, <3>1
    <3>3. QED BY <1>5, <1>6, <2>5, <3>1, <3>2 DEF Follows
  <2>10. DirOK' BY <1>0, <1>1, <1>3, <1>5, <1>7, <2>6, <2>8, <2>9 DEF DirOK
  <2>11. Stands(f) BY <1>0, <1>1, <1>2, <2>6, SameStands
  <2>12. SaidOK' BY <1>0, <1>1, <1>2, <2>6, <2>7, <2>11, SaidStep
  <2>13. QED BY <2>10, <2>12
<1>10. QED BY <1>8, <1>9

\* A paged listing waits for ReadDir.
LEMMA DirAsks ==
  ASSUME ShareIInv, CallersOK, DirOK, stack # <<>>, Asks
  PROVE  DirOK'
<1>0. StackOK BY DEF ShareIInv
<1>1. Top.op \in Asking /\ UNCHANGED <<lasting, present, goal, matches>> BY DEF Asks
<1>2. Depth \in Nat /\ Depth > 0 /\ Depth = Len(stack) /\ Top = stack[Depth]
  BY <1>0, StackFacts DEF Depth, Top
<1>3. Depth # 1 BY <1>1, <1>2 DEF CallersOK
<1>4. Reshaped /\ Len(stack') \in {Depth - 1, Depth} BY DEF Asks, Popped, Kept
<1>5. stack' # <<>> /\ stack'[1] = stack[1]
  <2>1. 1 \in 1 .. Depth - 1 BY <1>2, <1>3
  <2>2. Len(stack') # 0 BY <1>2, <1>3, <1>4
  <2>3. QED BY <1>4, <2>1, <2>2 DEF Reshaped
<1>6. \A p, l : Lists(p, l) => Lists(p, l)' BY <1>1, ListsLess
<1>7. QED BY <1>1, <1>5, <1>6 DEF DirOK

\* Others take away, or the context ends.
LEMMA OthersDir ==
  ASSUME DirOK, UNCHANGED <<stack, ret, goal, matches>>, lasting' \subseteq lasting, present \subseteq present'
  PROVE  DirOK'
<1>1. \A p, l : Lists(p, l) => Lists(p, l)' BY ListsLess
<1>2. QED BY <1>1 DEF DirOK

\* A paged listing begins.
LEMMA DirStarts ==
  ASSUME NEW p \in Paths \cup {Root}, DirFSCall(p)
  PROVE  DirOK'
<1>1. PICK f : f = [Frame("dirFS", "load", p) EXCEPT !.to = p] /\ stack' = <<f>> BY Zenon DEF DirFSCall, Start
<1>2. f.op = "dirFS" /\ f.pc = "load" /\ f.path = p /\ f.n = 0 BY <1>1 DEF Frame
<1>3. Len(stack') = 1 /\ stack'[1] = f /\ stack' # <<>> BY <1>1
<1>4. matches' = <<>> /\ goal'.path = p BY DEF DirFSCall, Start
<1>5. QED BY <1>2, <1>3, <1>4 DEF DirOK

-----------------------------------------------------------------------------
(* The three listings together.                                            *)

ListIInv == OrderOK /\ (Live => SaidOK) /\ WalkOK /\ GlobOK /\ DirOK

\* Glob has gathered what it should, as long as no request has failed.
LEMMA GlobMeans ==
  /\ GlobOK <=> (goal.op = "glob" /\ faulted = {} => GlobIn)
  /\ GlobOK' <=> (goal'.op = "glob" /\ faulted' = {} => GlobIn')
BY DEF GlobOK, GlobIn

\* Others take away, or the context ends.
LEMMA OthersList ==
  ASSUME ListIInv, UNCHANGED <<stack, ret, goal, visited, skipped, matches>>, faulted \subseteq faulted',
         lasting' \subseteq lasting, present \subseteq present'
  PROVE  ListIInv'
<1>1. OrderOK' BY DEF ListIInv, OrderOK
<1>2. (Live => SaidOK)' BY OthersTell DEF ListIInv, Live
<1>3. WalkOK' BY OthersWalk DEF ListIInv
<1>4. GlobOK' BY GlobMeans, OthersGlob DEF ListIInv
<1>5. DirOK' BY OthersDir DEF ListIInv
<1>6. QED BY <1>1, <1>2, <1>3, <1>4, <1>5 DEF ListIInv

\* An operation that lists nothing leaves nothing to be said of listings.
LEMMA NoListing ==
  ASSUME OrderOK', goal'.op \notin Listings
  PROVE  ListIInv'
BY DEF ListIInv, Live, WalkOK, GlobOK, DirOK, Listings

\* The calls of the API.
LEMMA CallsList ==
  ASSUME Calls
  PROVE  ListIInv'
<1>1. visited' = <<>>
  BY DEF Calls, RemoveCall, RemoveAllCall, MkdirCall, MkdirAllCall, ReadFileCall, RenameCall,
                            CopyCall, WalkCall, DirFSCall, GlobCall, Start
<1>2. OrderOK' BY <1>1 DEF OrderOK
<1>3. CASE \E p \in Paths : \/ RemoveCall(p) \/ RemoveAllCall(p) \/ MkdirCall(p) \/ MkdirAllCall(p) \/ ReadFileCall(p)
  <2>1. goal'.op \notin Listings
    BY <1>3 DEF RemoveCall, RemoveAllCall, MkdirCall, MkdirAllCall, ReadFileCall, Start, Listings
  <2>2. QED BY <1>2, <2>1, NoListing
<1>4. CASE \/ \E p, q \in Paths : RenameCall(p, q)
           \/ \E p, q \in Paths \cup {Root} : CopyCall(p, q)
  <2>1. goal'.op \notin Listings BY <1>4 DEF RenameCall, CopyCall, Start, Listings
  <2>2. QED BY <1>2, <2>1, NoListing
<1>5. ASSUME NEW p \in Paths \cup {Root}, WalkCall(p) PROVE ListIInv'
  <2>1. goal'.op = "walk" BY <1>5 DEF WalkCall, Start
  <2>2. p \in Seq(Nat) BY PathTypes
  <2>3. SaidOK' BY <1>5, <2>2, StartTells DEF WalkCall, Listings
  <2>4. WalkOK' BY <1>5, WalkStarts
  <2>5. GlobOK' /\ DirOK' BY <2>1 DEF GlobOK, DirOK
  <2>6. QED BY <1>2, <2>3, <2>4, <2>5 DEF ListIInv
<1>6. ASSUME NEW p \in Paths \cup {Root}, DirFSCall(p) PROVE ListIInv'
  <2>1. goal'.op = "dirFS" BY <1>6 DEF DirFSCall, Start
  <2>2. p \in Seq(Nat) BY PathTypes
  <2>3. SaidOK' BY <1>6, <2>2, StartTells DEF DirFSCall, Listings
  <2>4. DirOK' BY <1>6, DirStarts
  <2>5. GlobOK' /\ WalkOK' BY <2>1 DEF GlobOK, WalkOK
  <2>6. QED BY <1>2, <2>3, <2>4, <2>5 DEF ListIInv
<1>7. ASSUME NEW pattern \in Patterns, GlobCall(pattern) PROVE ListIInv'
  <2>1. goal'.op = "glob" BY <1>7 DEF GlobCall, Start
  <2>2. SaidOK' BY <1>7, StartTells, PathTypes DEF GlobCall, Listings
  <2>3. GlobOK' BY <1>7, GlobStarts, GlobMeans
  <2>4. WalkOK' /\ DirOK' BY <2>1 DEF WalkOK, DirOK
  <2>5. QED BY <1>2, <2>2, <2>3, <2>4 DEF ListIInv
<1>8. QED BY <1>3, <1>4, <1>5, <1>6, <1>7 DEF Calls

\* A step of an operation that lists nothing.
LEMMA ChangerKeeps ==
  ASSUME ShareIInv, TreeIInv, goal.op \notin Listings, Step \/ RequestDenied
  PROVE  UNCHANGED <<goal, visited>>
<1> USE DEF noTree, noWalk, noCall, treeVars, Answered, At, Idle, Ask
<1>0. StackOK BY DEF ShareIInv
<1>1. CASE RequestRefused \/ RequestDenied \/ StatBasic \/ StatStandard \/ Find
  BY <1>1 DEF RequestRefused, RequestDenied, StatBasic, StatStandard, Find
<1>2. CASE \/ RemoveStat \/ RemoveKind \/ RemoveOpen \/ RemoveClose \/ RemoveDir \/ RemoveDirSleep
           \/ RemoveAllExists \/ RemoveAllIsDir \/ RemoveAllList \/ RemoveAllListed \/ RemoveAllChild
  BY <1>2 DEF RemoveStat, RemoveKind, RemoveOpen, RemoveClose, RemoveDir, RemoveDirSleep,
         RemoveAllExists, RemoveAllIsDir, RemoveAllList, RemoveAllListed, RemoveAllChild
<1>3. CASE \/ MkdirCreate \/ MkdirClose \/ MkdirAllNext \/ RenameSend
           \/ CopyOpenSrc \/ CopyStatted \/ CopyOpenDst \/ CopyMove \/ CopyClose \/ CopyDone
  BY <1>3 DEF MkdirCreate, MkdirClose, MkdirAllNext, RenameSend,
         CopyOpenSrc, CopyStatted, CopyOpenDst, CopyMove, CopyClose, CopyDone
<1>4. CASE \/ WalkStat \/ WalkStatted \/ WalkEnd \/ VisitFn \/ VisitListed \/ VisitEntry
           \/ GlobBegin \/ GlobLiteral \/ GlobDirs \/ GlobGather \/ GlobDirStep
           \/ DirFSLoad \/ DirFSLoaded \/ DirFSPage
  <2>1. stack # <<>> /\ Top.op \in {"walk", "visit", "glob", "globDir", "dirFS"}
    BY <1>4 DEF WalkStat, WalkStatted, WalkEnd, VisitFn, VisitListed, VisitEntry, GlobBegin, GlobLiteral,
           GlobDirs, GlobGather, GlobDirStep, GlobDir, DirFSLoad, DirFSLoaded, DirFSPage
  <2>2. Top.op \in Changers \cup {"stat", "readDir"} BY <1>0, <2>1, ChangerOps
  <2>3. QED BY <2>1, <2>2 DEF Changers
<1>5. QED BY <1>1, <1>2, <1>3, <1>4, Zenon DEF Step

\* Stat, ReadDir and requests that fail, inside a listing.
LEMMA RequestList ==
  ASSUME ShareIInv, TreeIInv, ListIInv, goal.op \in Listings,
         StatBasic \/ StatStandard \/ Find \/ RequestRefused \/ RequestDenied
  PROVE  ListIInv'
<1>0. OrderOK /\ (Live => SaidOK) /\ WalkOK /\ GlobOK /\ DirOK BY DEF ListIInv
<1>1. /\ stack # <<>> /\ Asks
      /\ \/ (StatBasic \/ StatStandard \/ Find) /\ faulted' = faulted
         \/ \E e \in {"denied", "ctx"} : FailWith(e)
  BY ListingAsks
<1>2. faulted \subseteq faulted' BY <1>1 DEF FailWith
<1>3. UNCHANGED <<goal, visited>> BY <1>1 DEF Asks
<1>4. OrderOK' BY <1>0, <1>3 DEF OrderOK
<1>5. Live' => Live /\ SaidOK /\ SaidOK'
  <2>1. Live' => Live BY <1>2, <1>3 DEF Live
  <2>2. QED BY <1>0, <2>1, RequestTells
<1>6. WalkOK'
  <2> SUFFICES ASSUME goal.op = "walk" PROVE WalkOK' BY <1>3 DEF WalkOK
  <2>1. SaidOK BY <1>0 DEF Live
  <2>2. QED BY <1>0, <1>1, <2>1, WalkAsks DEF SaidOK
<1>7. GlobOK'
  <2> SUFFICES ASSUME goal.op = "glob", faulted' = {} PROVE GlobIn' BY <1>3, GlobMeans
  <2>1. faulted = {} BY <1>2
  <2>2. SaidOK /\ GlobIn BY <1>0, <2>1, GlobMeans DEF Live
  <2>3. QED BY <1>1, <2>2, GlobAsks DEF SaidOK
<1>8. DirOK'
  <2> SUFFICES ASSUME goal.op = "dirFS" PROVE DirOK' BY <1>3 DEF DirOK
  <2>1. SaidOK BY <1>0 DEF Live
  <2>2. QED BY <1>0, <1>1, <2>1, DirAsks DEF SaidOK
<1>9. QED BY <1>4, <1>5, <1>6, <1>7, <1>8 DEF ListIInv

\* A step of Walk, Glob or a paged listing.
LEMMA ListerList ==
  ASSUME ShareIInv, TreeIInv, ListIInv,
         \/ WalkStat \/ WalkStatted \/ WalkEnd \/ VisitFn \/ VisitListed \/ VisitEntry
         \/ GlobBegin \/ GlobLiteral \/ GlobDirs \/ GlobGather \/ GlobDirStep
         \/ DirFSLoad \/ DirFSLoaded \/ DirFSPage
  PROVE  ListIInv'
<1> USE DEF noTree, noWalk, noCall, treeVars, At, Idle, Ask
<1>0. StackOK /\ OrderOK /\ (Live => SaidOK) /\ WalkOK /\ GlobOK /\ DirOK BY DEF ShareIInv, ListIInv
<1>1. CASE WalkStat \/ WalkStatted \/ WalkEnd \/ VisitFn \/ VisitListed \/ VisitEntry
  <2>1. stack # <<>> /\ Top.op \in {"walk", "visit"} /\ goal' = goal
    BY <1>1 DEF WalkStat, WalkStatted, WalkEnd, VisitFn, VisitListed, VisitEntry
  <2>2. goal.op = "walk" BY <1>0, <2>1, ListerOps
  <2>3. SaidOK BY <1>0, <2>2 DEF Live, Listings
  <2>4. SaidOK' BY <1>0, <1>1, <2>3, WalkTells
  <2>5. visited' = visited \/ VisitFn BY <1>1 DEF WalkStat, WalkStatted, WalkEnd, VisitListed, VisitEntry
  <2>6. WalkOK' BY <1>0, <1>1, <2>3, WalkWalks, VisitFnWalks, VisitListedWalks, VisitEntryWalks
  <2>7. OrderOK'
    <3>1. CASE visited' = visited BY <1>0, <3>1 DEF OrderOK
    <3>2. CASE VisitFn BY <1>0, <2>3, <3>2, VisitFnWalks
    <3>3. QED BY <2>5, <3>1, <3>2
  <2>8. GlobOK' /\ DirOK' BY <2>1, <2>2 DEF GlobOK, DirOK
  <2>9. QED BY <2>4, <2>6, <2>7, <2>8 DEF ListIInv
<1>2. CASE GlobBegin \/ GlobLiteral \/ GlobDirs \/ GlobGather \/ GlobDirStep
  <2>1. stack # <<>> /\ Top.op \in {"glob", "globDir"} /\ UNCHANGED <<goal, visited, faulted>>
    BY <1>2 DEF GlobBegin, GlobLiteral, GlobDirs, GlobGather, GlobDirStep, GlobDir
  <2>2. goal.op = "glob" BY <1>0, <2>1, ListerOps
  <2>3. OrderOK' BY <1>0, <2>1 DEF OrderOK
  <2>4. WalkOK' /\ DirOK' BY <2>1, <2>2 DEF WalkOK, DirOK
  <2>5. ASSUME faulted = {} PROVE SaidOK' /\ GlobIn'
    <3>1. SaidOK /\ GlobIn BY <1>0, <2>2, <2>5, GlobMeans DEF Live, Listings
    <3>2. SaidOK' BY <1>2, <3>1, GlobTells
    <3>3. GlobIn'
      BY <1>2, <2>5, <3>1, GlobBeginGathers, GlobLiteralGathers, GlobDirsGathers, GlobGatherGathers, GlobDirGathers
    <3>4. QED BY <3>2, <3>3
  <2>6. (Live => SaidOK)' BY <2>1, <2>2, <2>5 DEF Live
  <2>7. GlobOK' BY <2>1, <2>5, GlobMeans
  <2>8. QED BY <2>3, <2>4, <2>6, <2>7 DEF ListIInv
<1>3. CASE DirFSLoad \/ DirFSLoaded \/ DirFSPage
  <2>1. stack # <<>> /\ Top.op = "dirFS" /\ UNCHANGED <<goal, visited>>
    BY <1>3 DEF DirFSLoad, DirFSLoaded, DirFSPage
  <2>2. goal.op = "dirFS" BY <1>0, <2>1, ListerOps
  <2>3. SaidOK BY <1>0, <2>2 DEF Live, Listings
  <2>4. DirOK' /\ SaidOK' BY <1>0, <1>3, <2>3, DirLoads, DirLoaded, DirPages
  <2>5. OrderOK' BY <1>0, <2>1 DEF OrderOK
  <2>6. WalkOK' /\ GlobOK' BY <2>1, <2>2 DEF WalkOK, GlobOK
  <2>7. QED BY <2>4, <2>5, <2>6 DEF ListIInv
<1>4. QED BY <1>1, <1>2, <1>3

\* Others take away from what lasted, and add to what has been there.
LEMMA OthersTake ==
  ASSUME Others
  PROVE  lasting' \subseteq lasting /\ present \subseteq present'
<1>1. PICK p \in Paths : OtherCreates(p) \/ OtherRemoves(p) \/ OtherHolds(p) \/ OtherReleases(p) BY DEF Others
<1>2. QED BY <1>1 DEF OtherCreates, OtherRemoves, OtherHolds, OtherReleases, Put, history

\* What the server does unheard is no news to a listing.
LEMMA LostList ==
  ASSUME ShareIInv, TreeIInv, ListIInv, ReplyLost
  PROVE  ListIInv'
<1> USE DEF At, Idle, history, noWalk
<1>0. StackOK BY DEF ShareIInv
<1>1. UNCHANGED <<stack, ret, goal, visited, skipped, matches>> BY DEF ReplyLost
<1>2. faulted \subseteq faulted' BY DEF ReplyLost, OpenedUnheard, DoneUnheard, Opened, Closed
<1>3. CASE goal.op \notin Listings
  <2>1. OrderOK' BY <1>1 DEF ListIInv, OrderOK
  <2>2. QED BY <1>1, <1>3, <2>1, NoListing
<1>4. CASE goal.op \in Listings
  <2>1. stack # <<>> => Top.op \notin Changers BY <1>0, <1>4, ListerOps
  <2>2. stack # <<>> => Top.op \notin {"remove", "removeDir", "mkdir", "copy", "rename"} BY <2>1 DEF Changers
  <2>3. UNCHANGED <<lasting, present>> BY <2>2 DEF ReplyLost, OpenedUnheard, DoneUnheard
  <2>4. QED BY <1>1, <1>2, <2>3, OthersList
<1>5. QED BY <1>3, <1>4

\* Listings under every operation.
LEMMA ListSteps ==
  ASSUME ShareIInv, TreeIInv, ListIInv, [Next]_vars
  PROVE  ListIInv'
<1>1. CASE UNCHANGED vars BY <1>1, OthersList DEF vars, treeVars, shareVars
<1>2. CASE Calls BY <1>2, CallsList
<1>3. CASE Step \/ RequestDenied
  <2>1. CASE goal.op \notin Listings
    <3>1. UNCHANGED <<goal, visited>> BY <1>3, <2>1, ChangerKeeps
    <3>2. OrderOK' BY <3>1 DEF ListIInv, OrderOK
    <3>3. QED BY <2>1, <3>1, <3>2, NoListing
  <2>2. CASE goal.op \in Listings BY <1>3, <2>2, ListingSteps, ListerList, RequestList, Zenon
  <2>3. QED BY <2>1, <2>2
<1>4. CASE Others /\ ~ Idle /\ UNCHANGED shareVars BY <1>4, OthersTake, OthersList DEF shareVars
<1>5. CASE EndContext BY <1>5, OthersList DEF EndContext, noTree, noWalk, treeVars
<1>6. CASE ReplyLost BY <1>6, LostList
<1>7. QED BY <1>1, <1>2, <1>3, <1>4, <1>5, <1>6 DEF Next, Environment

\* The invariant of the tree and of the listings, under every operation.
THEOREM ListInvariant == Spec => [](ShareIInv /\ TreeIInv /\ ListIInv)
<1>1. Init => TreeIInv /\ ListIInv
  <2> SUFFICES ASSUME Init PROVE TreeIInv /\ ListIInv OBVIOUS
  <2>1. goal.op = "none" /\ visited = <<>> BY DEF Init, NoGoal
  <2>2. OrderOK BY <2>1 DEF OrderOK
  <2>3. ListIInv BY <2>1, <2>2 DEF ListIInv, Live, WalkOK, GlobOK, DirOK, Listings
  <2>4. QED BY <2>3, TreeInitially
<1>2. ShareIInv /\ TreeIInv /\ ListIInv /\ [Next]_vars => (TreeIInv /\ ListIInv)' BY TreeSteps, ListSteps
<1>3. QED BY <1>1, <1>2, ShareInvariant, PTL DEF Spec

\* Walk calls walkFn once for each path, for a directory before its entries, and
\* a walk that returns nil has been to all that lasted and was not skipped.
THEOREM WalkIsComplete == Spec => []WalkComplete
<1>1. ASSUME ListIInv PROVE WalkComplete
  <2>0. OrderOK /\ WalkOK BY <1>1 DEF ListIInv
  <2>1. DOMAIN visited = 1 .. Len(visited) BY <2>0 DEF OrderOK
  <2>2. \A i \in DOMAIN visited : \A j \in 1 .. i - 1 : ~ IsPrefix(visited[i], visited[j])
    BY <2>0, <2>1 DEF OrderOK
  <2>3. ASSUME Finished("walk"), ret.err = "none", NEW p \in Below(goal.path) \cap lasting
        PROVE  Hidden(p) \/ p \in skipped \/ p \in Range(visited)
    <3>1. AllOK /\ stack = <<>> BY <2>0, <2>3 DEF WalkOK, Finished, Idle
    <3>2. IsPrefix(goal.path, p) /\ p \in lasting BY <2>3 DEF Below
    <3>3. Covered(p) BY <2>3, <3>1, <3>2 DEF AllOK
    <3>4. QED BY <3>3 DEF Covered
  <2>4. QED BY <2>2, <2>3 DEF WalkComplete
<1>2. QED BY <1>1, ListInvariant, PTL

\* What is in order is sorted.
LEMMA OrderedSorted ==
  ASSUME NEW m \in Seq(Seq(Nat)), \A i, j \in 1 .. Len(m) : i < j => Less(m[i], m[j])
  PROVE  Sorted(m)
<1> SUFFICES ASSUME NEW i \in 1 .. Len(m) - 1 PROVE Less(m[i], m[i + 1]) BY DEF Sorted
<1>1. i \in 1 .. Len(m) /\ i + 1 \in 1 .. Len(m) /\ i < i + 1 OBVIOUS
<1>2. QED BY <1>1

\* Glob without a failed request, and a paged listing up to io.EOF, give all that
\* lasted and nothing that was never there, in order and once each.
THEOREM ListingsAreComplete == Spec => []ListingsComplete
<1>1. ASSUME ListIInv PROVE ListingsComplete
  <2>0. GlobOK /\ DirOK BY <1>1 DEF ListIInv
  <2>1. ASSUME Finished("glob"), faulted = {}
        PROVE  /\ Sorted(ret.paths)
               /\ {p \in lasting : Matching(p, goal.to)} \subseteq Range(ret.paths)
               /\ Range(ret.paths) \subseteq {p \in present : Matching(p, goal.to)}
    <3>1. PICK to, m : to = goal.to /\ m = ret.paths /\ Gathers(to, {}, m)
      BY <2>0, <2>1 DEF GlobOK, GatheredOK, Finished, Idle
    <3>2. m \in Seq(Seq(Nat)) /\ DOMAIN m = 1 .. Len(m) BY <3>1 DEF Gathers
    <3>3. Sorted(m) BY <3>1, <3>2, OrderedSorted DEF Gathers
    <3>4. {p \in lasting : Matching(p, to)} \subseteq Range(m) BY <3>1 DEF Gathers
    <3>5. Range(m) \subseteq {p \in present : Matching(p, to)} BY <3>1, <3>2 DEF Gathers, Range
    <3>6. QED BY <3>1, <3>3, <3>4, <3>5
  <2>2. ASSUME Finished("dirFS"), ret.err = "eof"
        PROVE  /\ Sorted(matches)
               /\ {p \in lasting : Len(p) = Len(goal.path) + 1 /\ IsPrefix(goal.path, p)} \subseteq Range(matches)
               /\ Range(matches) \subseteq present
    <3>1. Lists(goal.path, matches) BY <2>0, <2>2 DEF DirOK, Finished, Idle
    <3>2. Sorted(matches) BY <3>1, OrderedSorted DEF Lists
    <3>3. QED BY <3>1, <3>2 DEF Lists, Child
  <2>3. QED BY <2>1, <2>2 DEF ListingsComplete
<1>2. QED BY <1>1, ListInvariant, PTL
=============================================================================
