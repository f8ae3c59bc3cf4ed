---------------------------- MODULE FilterProofs ----------------------------
(***************************************************************************)
(* What Kept returns, for every sequence: by induction on the length of    *)
(* the prefix it has looked at.  The induction theorems of the library     *)
(* take an operator, so induction is stated here of a set of numbers, from *)
(* the order of the finite subsets, which the library has no operator for. *)
(***************************************************************************)
EXTENDS Filter, SequencesExt, FiniteSetTheorems, SequenceTheorems, TLAPS

\* Every non-empty set of numbers has a least element: of the initial
\* intervals of its numbers, one contains no other.
LEMMA LeastNumber ==
    ASSUME NEW T \in SUBSET Nat, T # {}
    PROVE  \E x \in T : \A y \in T : x <= y
PROOF
    <1> PICK m \in T : TRUE OBVIOUS
    <1> DEFINE Upto(k) == 0 .. k
               Small == {k \in T : k <= m}
               Sets == {Upto(k) : k \in Small}
    <1>1. IsFiniteSet(0 .. m) BY FS_Interval
    <1>2. FiniteSubsetsOf(0 .. m) = SUBSET (0 .. m) BY <1>1, FS_FiniteSubsetsOfFinite
    <1>3. IsWellFoundedOn(StrictSubsetOrdering(0 .. m), SUBSET (0 .. m))
      BY <1>2, FS_StrictSubsetOrderingWellFounded
    <1>4. Sets \subseteq SUBSET (0 .. m) /\ Sets # {} OBVIOUS
    <1>5. PICK X \in Sets : \A Y \in Sets : ~ (<<Y, X>> \in StrictSubsetOrdering(0 .. m))
      <2> HIDE DEF Sets
      <2> QED BY <1>3, <1>4, WFMin
    <1>6. PICK x \in Small : X = Upto(x) BY <1>5
    <1>7. ASSUME NEW y \in T, y < x PROVE FALSE
      <2>1. y \in Small BY <1>6, <1>7
      <2>2. Upto(y) \subseteq Upto(x) /\ Upto(y) # Upto(x)
        <3>1. x \in Upto(x) /\ x \notin Upto(y) BY <1>6, <1>7
        <3>2. Upto(y) \subseteq Upto(x) BY <1>6, <1>7
        <3> QED BY <3>1, <3>2
      <2>3. Upto(y) \in Sets /\ Upto(x) \in Sets BY <1>6, <2>1
      <2>4. <<Upto(y), Upto(x)>> \in StrictSubsetOrdering(0 .. m)
        <3> Upto(y) \in SUBSET (0 .. m) /\ Upto(x) \in SUBSET (0 .. m) BY <2>3, <1>4
        <3> HIDE DEF Upto
        <3> QED BY <2>2 DEF StrictSubsetOrdering
      <2> QED BY <1>5, <1>6, <2>3, <2>4
    <1> QED BY <1>6, <1>7

\* Induction over the numbers, of a set.
LEMMA NumberInduction ==
    ASSUME NEW A, 0 \in A, \A n \in Nat : n \in A => n + 1 \in A
    PROVE  Nat \subseteq A
PROOF
    <1> SUFFICES ASSUME NEW m \in Nat, m \notin A PROVE FALSE OBVIOUS
    <1> DEFINE T == {n \in Nat : n \notin A}
    <1>1. PICK x \in T : \A y \in T : x <= y
      <2> T \in SUBSET Nat /\ T # {} OBVIOUS
      <2> HIDE DEF T
      <2> QED BY LeastNumber
    <1>2. x # 0 /\ x - 1 \in Nat /\ x - 1 \notin T BY <1>1
    <1>3. x - 1 \in A BY <1>2
    <1>4. (x - 1) + 1 \in A BY <1>2, <1>3
    <1> QED BY <1>1, <1>4

-----------------------------------------------------------------------------
\* what a prefix of s holds of T is next[n], given what the one before holds
Step(f, s, T, n) ==
    IF n = 0 THEN <<>>
    ELSE IF s[n] \in T THEN Append(f[n - 1], s[n]) ELSE f[n - 1]

\* The recursive function that Kept ends with exists: its equation has a
\* solution on every prefix.
LEMMA KeptDefined ==
    ASSUME NEW S, NEW s \in Seq(S), NEW T
    PROVE  \E f : /\ f = [n \in 0 .. Len(s) |-> Step(f, s, T, n)]
                  /\ Kept(s, T) = f[Len(s)]
PROOF
    <1> DEFINE Solves(f, k) == f = [n \in 0 .. k |-> Step(f, s, T, n)]
               A == {k \in Nat : \E f : Solves(f, k)}
    <1>1. 0 \in A
      <2> DEFINE f0 == [n \in 0 .. 0 |-> <<>>]
      <2>1. f0 = [n \in 0 .. 0 |-> Step(f0, s, T, n)] BY DEF Step
      <2> QED BY <2>1
    <1>2. ASSUME NEW k \in Nat, k \in A PROVE k + 1 \in A
      <2>1. PICK f : Solves(f, k) BY <1>2
      <2> DEFINE g == [n \in 0 .. k + 1 |-> IF n <= k THEN f[n] ELSE Step(f, s, T, n)]
      <2>a. \A n \in 0 .. k : f[n] = Step(f, s, T, n)
        <3> DEFINE t(n) == Step(f, s, T, n)
        <3> f = [n \in 0 .. k |-> t(n)] BY <2>1
        <3> HIDE DEF t
        <3>1. \A n \in 0 .. k : f[n] = t(n) OBVIOUS
        <3> QED BY <3>1 DEF t
      <2>b. \A n \in 0 .. k + 1 : g[n] = IF n <= k THEN f[n] ELSE Step(f, s, T, n)
        <3> DEFINE t(n) == Step(f, s, T, n)
        <3> HIDE DEF t
        <3>1. \A n \in 0 .. k + 1 : [m \in 0 .. k + 1 |-> IF m <= k THEN f[m] ELSE t(m)][n]
                = IF n <= k THEN f[n] ELSE t(n) OBVIOUS
        <3> QED BY <3>1 DEF t
      <2>2. \A n \in 0 .. k : g[n] = f[n] /\ f[n] = Step(f, s, T, n)
        <3> HIDE DEF g
        <3> QED BY <2>a, <2>b
      <2>3. ASSUME NEW n \in 0 .. k + 1 PROVE g[n] = Step(g, s, T, n)
        <3>1. CASE n = 0
          <4> HIDE DEF g
          <4> QED BY <2>2, <3>1 DEF Step
        <3>2. CASE n # 0
          <4>1. n - 1 \in 0 .. k /\ g[n - 1] = f[n - 1] BY <2>2, <3>2
          <4> HIDE DEF g
          <4>2. g[n] = Step(f, s, T, n) BY <2>2, <2>b
          <4> QED BY <3>2, <4>1, <4>2 DEF Step
        <3> QED BY <3>1, <3>2
      <2>4. g = [n \in 0 .. k + 1 |-> g[n]] OBVIOUS
      <2>5. Solves(g, k + 1)
        <3> HIDE DEF g
        <3> QED BY <2>3, <2>4
      <2>6. \E h : Solves(h, k + 1) BY <2>5
      <2> QED
        <3> HIDE DEF Solves
        <3> QED BY <2>6
    <1>3. Len(s) \in A
      <2> HIDE DEF A
      <2> QED BY <1>1, <1>2, NumberInduction
    <1>4. PICK f : Solves(f, Len(s)) BY <1>3
    <1> DEFINE kept == CHOOSE g : g = [n \in 0 .. Len(s) |->
                           IF n = 0 THEN <<>>
                           ELSE IF s[n] \in T THEN Append(g[n - 1], s[n]) ELSE g[n - 1]]
    <1>5. kept = [n \in 0 .. Len(s) |->
                      IF n = 0 THEN <<>>
                      ELSE IF s[n] \in T THEN Append(kept[n - 1], s[n]) ELSE kept[n - 1]]
      BY <1>4 DEF Step
    <1>6. Kept(s, T) = kept[Len(s)] BY DEF Kept
    <1> QED
      <2> HIDE DEF kept
      <2> QED BY <1>5, <1>6 DEF Step

\* q is what the first n elements of s hold of T: nothing else, nothing
\* less, in their order, and none further back.
Holds(q, s, T, n) ==
    /\ Len(q) <= n
    /\ \A p \in 1 .. Len(q) : \E i \in 1 .. n : p <= i /\ q[p] = s[i] /\ s[i] \in T
    /\ \A i \in 1 .. n : s[i] \in T => \E p \in 1 .. Len(q) : q[p] = s[i]
    /\ \A p, r \in 1 .. Len(q) : p < r =>
          \E i, j \in 1 .. n : i < j /\ q[p] = s[i] /\ q[r] = s[j]

LEMMA HoldsStep ==
    ASSUME NEW S, NEW s \in Seq(S), NEW T, NEW q \in Seq(S),
           NEW n \in Nat, n + 1 <= Len(s), Holds(q, s, T, n)
    PROVE  LET e == s[n + 1]
               o == IF e \in T THEN Append(q, e) ELSE q
           IN  o \in Seq(S) /\ Holds(o, s, T, n + 1)
PROOF
    <1> DEFINE e == s[n + 1]
    <1>1. e \in S /\ Len(q) \in Nat BY ElementOfSeq
    <1>w. \A i \in 1 .. n : i \in 1 .. n + 1 OBVIOUS
    <1>2. CASE e \notin T
      <2>1. Holds(q, s, T, n + 1)
        <3>0. Len(q) <= n + 1 BY <1>1 DEF Holds
        <3>1. \A p \in 1 .. Len(q) : \E i \in 1 .. n + 1 : p <= i /\ q[p] = s[i] /\ s[i] \in T
          <4> SUFFICES ASSUME NEW p \in 1 .. Len(q)
                       PROVE  \E i \in 1 .. n + 1 : p <= i /\ q[p] = s[i] /\ s[i] \in T
            OBVIOUS
          <4>1. PICK i \in 1 .. n : p <= i /\ q[p] = s[i] /\ s[i] \in T BY DEF Holds
          <4> QED BY ONLY <1>w, <4>1
        <3>2. \A i \in 1 .. n + 1 : s[i] \in T => \E p \in 1 .. Len(q) : q[p] = s[i]
          BY <1>2 DEF Holds
        <3>3. \A p, r \in 1 .. Len(q) : p < r =>
                 \E i, j \in 1 .. n + 1 : i < j /\ q[p] = s[i] /\ q[r] = s[j]
          <4> SUFFICES ASSUME NEW p \in 1 .. Len(q), NEW r \in 1 .. Len(q), p < r
                       PROVE  \E i, j \in 1 .. n + 1 : i < j /\ q[p] = s[i] /\ q[r] = s[j]
            OBVIOUS
          <4>1. PICK i \in 1 .. n, j \in 1 .. n : i < j /\ q[p] = s[i] /\ q[r] = s[j]
            BY DEF Holds
          <4> QED BY ONLY <1>w, <4>1
        <3> QED BY <3>0, <3>1, <3>2, <3>3 DEF Holds
      <2> QED BY <2>1, <1>2
    <1>3. CASE e \in T
      <2> DEFINE o == Append(q, e)
      <2>1. /\ o \in Seq(S) /\ Len(o) = Len(q) + 1
            /\ \A p \in 1 .. Len(q) : o[p] = q[p]
            /\ o[Len(q) + 1] = e
        BY <1>1, AppendProperties
      <2> HIDE DEF o
      <2>0. Len(q) <= n /\ Len(o) <= n + 1 BY <1>1, <2>1 DEF Holds
      <2>2. \A p \in 1 .. Len(o) : \E i \in 1 .. n + 1 : p <= i /\ o[p] = s[i] /\ s[i] \in T
        <3> SUFFICES ASSUME NEW p \in 1 .. Len(o)
                     PROVE  \E i \in 1 .. n + 1 : p <= i /\ o[p] = s[i] /\ s[i] \in T
          OBVIOUS
        <3>1. CASE p \in 1 .. Len(q)
          <4>1. PICK i \in 1 .. n : p <= i /\ q[p] = s[i] /\ s[i] \in T BY <3>1 DEF Holds
          <4> QED BY <4>1, <3>1, <2>1
        <3>2. CASE p = Len(q) + 1
          <4>1. p <= n + 1 /\ o[p] = s[n + 1] /\ n + 1 \in 1 .. n + 1
            BY <2>0, <2>1, <1>1, <3>2
          <4> QED BY <4>1, <1>3
        <3> QED BY <3>1, <3>2, <2>1, <1>1
      <2>3. \A i \in 1 .. n + 1 : s[i] \in T => \E p \in 1 .. Len(o) : o[p] = s[i]
        <3> SUFFICES ASSUME NEW i \in 1 .. n + 1, s[i] \in T
                     PROVE  \E p \in 1 .. Len(o) : o[p] = s[i]
          OBVIOUS
        <3>1. CASE i \in 1 .. n
          <4>1. PICK p \in 1 .. Len(q) : q[p] = s[i] BY <3>1 DEF Holds
          <4>2. p \in 1 .. Len(o) /\ o[p] = s[i] BY <4>1, <2>1, <1>1
          <4> QED BY <4>2
        <3>2. CASE i = n + 1
          <4>1. Len(o) \in 1 .. Len(o) /\ o[Len(o)] = s[i] BY <2>1, <1>1, <3>2
          <4> QED BY <4>1
        <3> QED BY <3>1, <3>2
      <2>4. \A p, r \in 1 .. Len(o) : p < r =>
               \E i, j \in 1 .. n + 1 : i < j /\ o[p] = s[i] /\ o[r] = s[j]
        <3> SUFFICES ASSUME NEW p \in 1 .. Len(o), NEW r \in 1 .. Len(o), p < r
                     PROVE  \E i, j \in 1 .. n + 1 : i < j /\ o[p] = s[i] /\ o[r] = s[j]
          OBVIOUS
        <3>1. p \in 1 .. Len(q) /\ o[p] = q[p] BY <2>1, <1>1
        <3>2. CASE r \in 1 .. Len(q)
          <4>1. PICK i \in 1 .. n, j \in 1 .. n : i < j /\ q[p] = s[i] /\ q[r] = s[j]
            BY <3>1, <3>2 DEF Holds
          <4> QED BY <4>1, <3>1, <3>2, <2>1
        <3>3. CASE r = Len(q) + 1
          <4>1. PICK i \in 1 .. n : q[p] = s[i] BY <3>1 DEF Holds
          <4>2. i < n + 1 /\ o[p] = s[i] /\ o[r] = s[n + 1] BY <4>1, <3>1, <3>3, <2>1
          <4> QED BY <4>2
        <3>4. r \in 1 .. Len(q) \/ r = Len(q) + 1
          <4>1. r \in 1 .. Len(q) + 1 BY <2>1
          <4> QED BY <4>1, <1>1
        <3> QED BY <3>2, <3>3, <3>4
      <2>5. Holds(o, s, T, n + 1) BY <2>0, <2>2, <2>3, <2>4 DEF Holds
      <2> QED BY <2>1, <2>5, <1>3 DEF o
    <1> QED BY <1>2, <1>3

\* What Kept returns: the elements of s in T, in their order.
THEOREM KeptHolds ==
    ASSUME NEW S, NEW s \in Seq(S), NEW T
    PROVE  Kept(s, T) \in Seq(S) /\ Holds(Kept(s, T), s, T, Len(s))
PROOF
    <1>1. PICK f : /\ f = [n \in 0 .. Len(s) |-> Step(f, s, T, n)]
                   /\ Kept(s, T) = f[Len(s)]
      BY KeptDefined
    <1>2. Len(s) \in Nat BY LenProperties
    <1>3. \A n \in 0 .. Len(s) : f[n] = Step(f, s, T, n)
      <2> DEFINE t(n) == Step(f, s, T, n)
      <2> f = [n \in 0 .. Len(s) |-> t(n)] BY <1>1
      <2> HIDE DEF t
      <2>1. \A n \in 0 .. Len(s) : f[n] = t(n) OBVIOUS
      <2> QED BY <2>1 DEF t
    <1> DEFINE A == {n \in Nat : n <= Len(s) => f[n] \in Seq(S) /\ Holds(f[n], s, T, n)}
    <1>4. 0 \in A
      <2>1. f[0] = <<>> BY <1>2, <1>3 DEF Step
      <2>2. <<>> \in Seq(S) /\ Len(<<>>) = 0 BY EmptySeq
      <2>3. Holds(<<>>, s, T, 0) BY <2>2 DEF Holds
      <2> QED BY <2>1, <2>2, <2>3
    <1>5. ASSUME NEW n \in Nat, n \in A PROVE n + 1 \in A
      <2> SUFFICES ASSUME n + 1 <= Len(s)
                   PROVE  f[n + 1] \in Seq(S) /\ Holds(f[n + 1], s, T, n + 1)
        OBVIOUS
      <2>1. f[n] \in Seq(S) /\ Holds(f[n], s, T, n) BY <1>5, <1>2
      <2>2. f[n + 1] = IF s[n + 1] \in T THEN Append(f[n], s[n + 1]) ELSE f[n]
        <3>1. n + 1 \in 0 .. Len(s) /\ n + 1 # 0 /\ (n + 1) - 1 = n BY <1>2
        <3> QED BY <3>1, <1>3 DEF Step
      <2> QED BY <2>1, <2>2, HoldsStep
    <1>6. Len(s) \in A
      <2> HIDE DEF A
      <2> QED BY <1>2, <1>4, <1>5, NumberInduction
    <1> QED BY <1>1, <1>2, <1>6

-----------------------------------------------------------------------------
(* Lists that hold nothing twice                                           *)

Once(s) == \A i, k \in 1 .. Len(s) : s[i] = s[k] => i = k

LEMMA ElementsAt ==
    ASSUME NEW S, NEW s \in Seq(S)
    PROVE  /\ \A e : e \in ToSet(s) <=> \E i \in 1 .. Len(s) : s[i] = e
           /\ ToSet(s) \subseteq S
PROOF
    <1>1. DOMAIN s = 1 .. Len(s) BY LenProperties
    <1>2. \A e : e \in ToSet(s) <=> \E i \in 1 .. Len(s) : s[i] = e BY <1>1 DEF ToSet
    <1>3. \A i \in 1 .. Len(s) : s[i] \in S BY ElementOfSeq
    <1> QED BY <1>2, <1>3

LEMMA KeptOnce ==
    ASSUME NEW S, NEW s \in Seq(S), NEW T, Once(s)
    PROVE  /\ Kept(s, T) \in Seq(S) /\ Once(Kept(s, T))
           /\ ToSet(Kept(s, T)) = ToSet(s) \cap T
PROOF
    <1> DEFINE q == Kept(s, T)
    <1>1. q \in Seq(S) /\ Holds(q, s, T, Len(s)) BY KeptHolds
    <1> HIDE DEF q
    <1>2. ASSUME NEW p \in 1 .. Len(q), NEW r \in 1 .. Len(q), p < r PROVE q[p] # q[r]
      <2>1. PICK i \in 1 .. Len(s), j \in 1 .. Len(s) : i < j /\ q[p] = s[i] /\ q[r] = s[j]
        BY <1>1, <1>2 DEF Holds
      <2> QED BY <2>1 DEF Once
    <1>3. Once(q)
      <2> SUFFICES ASSUME NEW p \in 1 .. Len(q), NEW r \in 1 .. Len(q), q[p] = q[r], p # r
                   PROVE  FALSE
        BY DEF Once
      <2>1. p < r \/ r < p BY <1>1, LenProperties
      <2> QED BY <2>1, <1>2
    <1>4. ASSUME NEW e PROVE e \in ToSet(q) <=> e \in ToSet(s) \cap T
      <2>1. /\ e \in ToSet(q) <=> \E p \in 1 .. Len(q) : q[p] = e
            /\ e \in ToSet(s) <=> \E i \in 1 .. Len(s) : s[i] = e
        BY <1>1, ElementsAt
      <2>2. ASSUME NEW p \in 1 .. Len(q), q[p] = e PROVE e \in ToSet(s) \cap T
        <3>1. PICK i \in 1 .. Len(s) : q[p] = s[i] /\ s[i] \in T BY <1>1 DEF Holds
        <3> QED BY <2>1, <2>2, <3>1
      <2>3. ASSUME NEW i \in 1 .. Len(s), s[i] = e, e \in T PROVE e \in ToSet(q)
        <3>1. PICK p \in 1 .. Len(q) : q[p] = s[i] BY <1>1, <2>3 DEF Holds
        <3> QED BY <2>1, <2>3, <3>1
      <2> QED BY <2>1, <2>2, <2>3
    <1> QED BY <1>1, <1>3, <1>4 DEF q

LEMMA AppendOnce ==
    ASSUME NEW S, NEW s \in Seq(S), NEW e \in S, e \notin ToSet(s), Once(s)
    PROVE  /\ Append(s, e) \in Seq(S) /\ Append(s, e) # <<>> /\ Once(Append(s, e))
           /\ ToSet(Append(s, e)) = ToSet(s) \cup {e}
PROOF
    <1> DEFINE a == Append(s, e)
    <1>1. /\ a \in Seq(S) /\ a # <<>> /\ Len(a) = Len(s) + 1 /\ Len(s) \in Nat
          /\ \A i \in 1 .. Len(s) : a[i] = s[i]
          /\ a[Len(s) + 1] = e
      BY AppendProperties, LenProperties
    <1> HIDE DEF a
    <1>2. \A i \in 1 .. Len(s) : s[i] # e BY ElementsAt
    <1>3. Once(a)
      <2> SUFFICES ASSUME NEW i \in 1 .. Len(s) + 1, NEW k \in 1 .. Len(s) + 1, a[i] = a[k]
                   PROVE  i = k
        BY <1>1 DEF Once
      <2>1. CASE i \in 1 .. Len(s) /\ k \in 1 .. Len(s) BY <1>1, <2>1 DEF Once
      <2>2. CASE i \in 1 .. Len(s) /\ k \notin 1 .. Len(s)
        <3>1. k = Len(s) + 1 BY <1>1, <2>2
        <3> QED BY <1>1, <1>2, <2>2, <3>1
      <2>3. CASE i \notin 1 .. Len(s) /\ k \in 1 .. Len(s)
        <3>1. i = Len(s) + 1 BY <1>1, <2>3
        <3> QED BY <1>1, <1>2, <2>3, <3>1
      <2>4. CASE i \notin 1 .. Len(s) /\ k \notin 1 .. Len(s) BY <1>1, <2>4
      <2> QED BY <2>1, <2>2, <2>3, <2>4
    <1>4. ASSUME NEW x PROVE x \in ToSet(a) <=> x \in ToSet(s) \cup {e}
      <2>1. /\ x \in ToSet(a) <=> \E i \in 1 .. Len(s) + 1 : a[i] = x
            /\ x \in ToSet(s) <=> \E i \in 1 .. Len(s) : s[i] = x
        BY <1>1, ElementsAt
      <2>2. ASSUME NEW i \in 1 .. Len(s) + 1, a[i] = x PROVE x \in ToSet(s) \cup {e}
        <3>1. i \in 1 .. Len(s) \/ i = Len(s) + 1 BY <1>1
        <3> QED BY <1>1, <2>1, <2>2, <3>1
      <2>3. ASSUME NEW i \in 1 .. Len(s), s[i] = x PROVE x \in ToSet(a)
        <3>1. i \in 1 .. Len(s) + 1 /\ a[i] = x BY <1>1, <2>3
        <3> QED BY <2>1, <3>1
      <2>4. x = e => x \in ToSet(a)
        <3>1. Len(s) + 1 \in 1 .. Len(s) + 1 BY <1>1
        <3> QED BY <1>1, <2>1, <3>1
      <2> QED BY <2>1, <2>2, <2>3, <2>4
    <1> QED BY <1>1, <1>3, <1>4 DEF a

LEMMA TailOnce ==
    ASSUME NEW S, NEW s \in Seq(S), s # <<>>, Once(s)
    PROVE  /\ Head(s) \in ToSet(s) /\ Head(s) = s[1]
           /\ Tail(s) \in Seq(S) /\ Once(Tail(s))
           /\ ToSet(Tail(s)) = ToSet(s) \ {Head(s)}
PROOF
    <1> DEFINE t == Tail(s)
    <1>1. /\ t \in Seq(S) /\ Len(t) = Len(s) - 1 /\ Len(s) \in Nat /\ Len(s) # 0
          /\ \A i \in 1 .. Len(t) : t[i] = s[i + 1]
          /\ Head(s) = s[1]
      BY HeadTailProperties, LenProperties, EmptySeq
    <1> HIDE DEF t
    <1>2. \A i \in 1 .. Len(t) : i + 1 \in 1 .. Len(s) /\ t[i] = s[i + 1] BY <1>1
    <1>3. Once(t)
      <2> SUFFICES ASSUME NEW i \in 1 .. Len(t), NEW k \in 1 .. Len(t), t[i] = t[k]
                   PROVE  i = k
        BY DEF Once
      <2>1. i + 1 = k + 1 BY <1>2 DEF Once
      <2> QED BY <2>1
    <1>4. 1 \in 1 .. Len(s) BY <1>1
    <1>5. Head(s) \in ToSet(s) BY <1>1, <1>4, ElementsAt
    <1>6. ASSUME NEW x PROVE x \in ToSet(t) <=> x \in ToSet(s) \ {Head(s)}
      <2>1. /\ x \in ToSet(t) <=> \E i \in 1 .. Len(t) : t[i] = x
            /\ x \in ToSet(s) <=> \E i \in 1 .. Len(s) : s[i] = x
        BY <1>1, ElementsAt
      <2>2. ASSUME NEW i \in 1 .. Len(t), t[i] = x PROVE x \in ToSet(s) \ {Head(s)}
        <3>1. i + 1 \in 1 .. Len(s) /\ s[i + 1] = x /\ i + 1 # 1 BY <1>2, <2>2
        <3>2. s[i + 1] # s[1] BY <1>4, <3>1 DEF Once
        <3> QED BY <1>1, <2>1, <3>1, <3>2
      <2>3. ASSUME NEW i \in 1 .. Len(s), s[i] = x, x # Head(s) PROVE x \in ToSet(t)
        <3>1. i # 1 BY <1>1, <2>3
        <3>2. i - 1 \in 1 .. Len(t) /\ (i - 1) + 1 = i BY <1>1, <3>1
        <3>3. t[i - 1] = x BY <1>2, <2>3, <3>2
        <3> QED BY <2>1, <3>2, <3>3
      <2> QED BY <2>1, <2>2, <2>3
    <1> QED BY <1>1, <1>3, <1>5, <1>6 DEF t

-----------------------------------------------------------------------------
(* Lists of lists, one after the other                                     *)

Joined(f, s, n) == IF n = 1 THEN s[n] ELSE f[n - 1] \o s[n]

\* The recursive function that FlattenSeq ends with exists.
LEMMA FlattenDefined ==
    ASSUME NEW S, NEW s \in Seq(Seq(S)), Len(s) # 0
    PROVE  \E f : /\ f = [n \in 1 .. Len(s) |-> Joined(f, s, n)]
                  /\ FlattenSeq(s) = f[Len(s)]
PROOF
    <1> DEFINE Solves(f, k) == f = [n \in 1 .. k |-> Joined(f, s, n)]
               A == {k \in Nat : \E f : Solves(f, k)}
    <1>1. 0 \in A
      <2> DEFINE f0 == [n \in 1 .. 0 |-> <<>>]
      <2>1. f0 = [n \in 1 .. 0 |-> Joined(f0, s, n)] OBVIOUS
      <2> QED BY <2>1
    <1>2. ASSUME NEW k \in Nat, k \in A PROVE k + 1 \in A
      <2>1. PICK f : Solves(f, k) BY <1>2
      <2> DEFINE g == [n \in 1 .. k + 1 |-> IF n <= k THEN f[n] ELSE Joined(f, s, n)]
      <2>2. \A n \in 1 .. k : f[n] = Joined(f, s, n)
        <3> DEFINE t(n) == Joined(f, s, n)
        <3> f = [n \in 1 .. k |-> t(n)] BY <2>1
        <3> HIDE DEF t
        <3>1. \A n \in 1 .. k : f[n] = t(n) OBVIOUS
        <3> QED BY <3>1 DEF t
      <2>3. \A n \in 1 .. k + 1 : g[n] = IF n <= k THEN f[n] ELSE Joined(f, s, n)
        <3> DEFINE t(n) == Joined(f, s, n)
        <3> HIDE DEF t
        <3>1. \A n \in 1 .. k + 1 : [m \in 1 .. k + 1 |-> IF m <= k THEN f[m] ELSE t(m)][n]
                = IF n <= k THEN f[n] ELSE t(n) OBVIOUS
        <3> QED BY <3>1 DEF t
      <2>4. g = [n \in 1 .. k + 1 |-> g[n]] OBVIOUS
      <2> HIDE DEF g
      <2>5. ASSUME NEW n \in 1 .. k + 1 PROVE g[n] = Joined(g, s, n)
        <3>1. g[n] = Joined(f, s, n) BY <2>2, <2>3
        <3>2. CASE n = 1 BY <3>1, <3>2 DEF Joined
        <3>3. CASE n # 1
          <4>1. n - 1 \in 1 .. k BY <3>3
          <4>2. g[n - 1] = f[n - 1] BY <2>3, <4>1
          <4> QED BY <3>1, <3>3, <4>2 DEF Joined
        <3> QED BY <3>2, <3>3
      <2>6. Solves(g, k + 1) BY <2>4, <2>5
      <2>7. \E h : Solves(h, k + 1) BY <2>6
      <2> QED
        <3> HIDE DEF Solves
        <3> QED BY <2>7
    <1>3. Len(s) \in A
      <2>1. Len(s) \in Nat BY LenProperties
      <2> HIDE DEF A
      <2> QED BY <1>1, <1>2, <2>1, NumberInduction
    <1>4. PICK f : Solves(f, Len(s)) BY <1>3
    <1> DEFINE flatten == CHOOSE g : g = [i \in 1 .. Len(s) |->
                              IF i = 1 THEN s[i] ELSE g[i - 1] \o s[i]]
    <1>5. flatten = [i \in 1 .. Len(s) |-> IF i = 1 THEN s[i] ELSE flatten[i - 1] \o s[i]]
      BY <1>4 DEF Joined
    <1>6. FlattenSeq(s) = flatten[Len(s)] BY DEF FlattenSeq
    <1> QED
      <2> HIDE DEF flatten
      <2> QED BY <1>5, <1>6 DEF Joined

\* q is the first n lists of s, one after the other.
Flattens(q, s, n) ==
    /\ \A i \in 1 .. Len(q) : \E k \in 1 .. n : \E p \in 1 .. Len(s[k]) : q[i] = s[k][p]
    /\ \A k \in 1 .. n : \A p \in 1 .. Len(s[k]) : \E i \in 1 .. Len(q) : q[i] = s[k][p]
    /\ \A i, j \in 1 .. Len(q) : i < j =>
         \E k, m \in 1 .. n : \E p \in 1 .. Len(s[k]), r \in 1 .. Len(s[m]) :
            q[i] = s[k][p] /\ q[j] = s[m][r] /\ (k < m \/ (k = m /\ p < r))

LEMMA FlattensOne ==
    ASSUME NEW S, NEW s \in Seq(Seq(S)), Len(s) # 0
    PROVE  s[1] \in Seq(S) /\ Flattens(s[1], s, 1)
PROOF
    <1>1. 1 \in 1 .. Len(s) BY LenProperties
    <1>2. s[1] \in Seq(S) BY <1>1, ElementOfSeq
    <1> QED BY <1>2 DEF Flattens

LEMMA FlattensStep ==
    ASSUME NEW S, NEW s \in Seq(Seq(S)), NEW n \in Nat \ {0}, n + 1 <= Len(s),
           NEW q \in Seq(S), Flattens(q, s, n)
    PROVE  q \o s[n + 1] \in Seq(S) /\ Flattens(q \o s[n + 1], s, n + 1)
PROOF
    <1> DEFINE c == s[n + 1]
               o == q \o c
    <1>1. n + 1 \in 1 .. Len(s) BY LenProperties
    <1>2. c \in Seq(S) BY <1>1, ElementOfSeq
    <1>3. Len(q) \in Nat /\ Len(c) \in Nat BY <1>2, LenProperties
    <1>4. /\ o \in Seq(S) /\ Len(o) = Len(q) + Len(c)
          /\ \A i \in 1 .. Len(q) + Len(c) : o[i] = IF i <= Len(q) THEN q[i] ELSE c[i - Len(q)]
      BY <1>2, ConcatProperties
    <1>a. c = s[n + 1] OBVIOUS
    <1> HIDE DEF o, c
    <1>5. \A i \in 1 .. Len(q) : i \in 1 .. Len(o) /\ o[i] = q[i] BY <1>3, <1>4
    <1>6. \A p \in 1 .. Len(c) : Len(q) + p \in 1 .. Len(o) /\ o[Len(q) + p] = c[p]
      <2> TAKE p \in 1 .. Len(c)
      <2>1. Len(q) + p \in 1 .. Len(q) + Len(c) /\ ~(Len(q) + p <= Len(q)) /\ Len(q) + p - Len(q) = p
        BY <1>3
      <2> QED BY <1>4, <2>1
    <1>7. \A i \in 1 .. Len(o) : i \in 1 .. Len(q) \/ \E p \in 1 .. Len(c) : i = Len(q) + p
      <2> TAKE i \in 1 .. Len(o)
      <2>1. i \in 1 .. Len(q) \/ i - Len(q) \in 1 .. Len(c) BY <1>3, <1>4
      <2>2. i = Len(q) + (i - Len(q)) BY <1>3
      <2> QED BY <2>1, <2>2
    <1>8. \A i \in 1 .. Len(q) : \E k \in 1 .. n : \E p \in 1 .. Len(s[k]) : q[i] = s[k][p]
      BY DEF Flattens
    <1>9. \A k \in 1 .. n : k \in 1 .. n + 1 /\ k < n + 1 OBVIOUS
    <1>b. n + 1 \in 1 .. n + 1 /\ \A k \in 1 .. n + 1 : k \in 1 .. n \/ k = n + 1 OBVIOUS
    <1>10. ASSUME NEW i \in 1 .. Len(o)
           PROVE  \E k \in 1 .. n + 1 : \E p \in 1 .. Len(s[k]) : o[i] = s[k][p]
      <2>1. CASE i \in 1 .. Len(q)
        <3>1. PICK k \in 1 .. n : \E p \in 1 .. Len(s[k]) : q[i] = s[k][p] BY <1>8, <2>1
        <3>2. \E p \in 1 .. Len(s[k]) : o[i] = s[k][p] BY <1>5, <2>1, <3>1
        <3> QED BY <1>9, <3>2
      <2>2. CASE \E p \in 1 .. Len(c) : i = Len(q) + p
        <3>1. \E p \in 1 .. Len(s[n + 1]) : o[i] = s[n + 1][p] BY <1>6, <1>a, <2>2
        <3> QED BY <1>b, <3>1
      <2> QED BY <1>7, <2>1, <2>2
    <1>11. ASSUME NEW k \in 1 .. n + 1, NEW p \in 1 .. Len(s[k])
           PROVE  \E i \in 1 .. Len(o) : o[i] = s[k][p]
      <2>1. CASE k \in 1 .. n
        <3>1. PICK i \in 1 .. Len(q) : q[i] = s[k][p] BY <2>1 DEF Flattens
        <3> QED BY <1>5, <3>1
      <2>2. CASE k = n + 1
        <3>1. p \in 1 .. Len(c) BY <1>a, <2>2
        <3>2. Len(q) + p \in 1 .. Len(o) /\ o[Len(q) + p] = s[k][p] BY <1>6, <1>a, <2>2, <3>1
        <3> QED BY <3>2
      <2> QED BY <1>b, <2>1, <2>2
    <1>c. \A i, j \in 1 .. Len(q) : i < j =>
             \E k, m \in 1 .. n : \E p \in 1 .. Len(s[k]), r \in 1 .. Len(s[m]) :
                q[i] = s[k][p] /\ q[j] = s[m][r] /\ (k < m \/ (k = m /\ p < r))
      BY DEF Flattens
    <1>12. ASSUME NEW i \in 1 .. Len(o), NEW j \in 1 .. Len(o), i < j
           PROVE  \E k, m \in 1 .. n + 1 : \E p \in 1 .. Len(s[k]), r \in 1 .. Len(s[m]) :
                     o[i] = s[k][p] /\ o[j] = s[m][r] /\ (k < m \/ (k = m /\ p < r))
      <2>1. CASE j \in 1 .. Len(q)
        <3>1. i \in 1 .. Len(q) BY <1>3, <1>12, <2>1
        <3>2. PICK k \in 1 .. n, m \in 1 .. n :
                 \E p \in 1 .. Len(s[k]), r \in 1 .. Len(s[m]) :
                    q[i] = s[k][p] /\ q[j] = s[m][r] /\ (k < m \/ (k = m /\ p < r))
          BY ONLY <1>c, <1>12, <2>1, <3>1
        <3>3. \E p \in 1 .. Len(s[k]), r \in 1 .. Len(s[m]) :
                 o[i] = s[k][p] /\ o[j] = s[m][r] /\ (k < m \/ (k = m /\ p < r))
          BY <1>5, <2>1, <3>1, <3>2
        <3> QED BY <1>9, <3>3
      <2>2. ASSUME NEW r \in 1 .. Len(c), j = Len(q) + r, i \in 1 .. Len(q)
            PROVE  \E k, m \in 1 .. n + 1 : \E p \in 1 .. Len(s[k]), u \in 1 .. Len(s[m]) :
                     o[i] = s[k][p] /\ o[j] = s[m][u] /\ (k < m \/ (k = m /\ p < u))
        <3>1. PICK k \in 1 .. n : \E p \in 1 .. Len(s[k]) : q[i] = s[k][p] BY <1>8, <2>2
        <3>2. PICK p \in 1 .. Len(s[k]) : q[i] = s[k][p] BY <3>1
        <3>3. o[i] = s[k][p] /\ o[j] = s[n + 1][r] /\ k < n + 1 /\ r \in 1 .. Len(s[n + 1])
          BY <1>5, <1>6, <1>9, <1>a, <2>2, <3>2
        <3>4. k \in 1 .. n + 1 /\ n + 1 \in 1 .. n + 1 BY <1>9, <1>b
        <3> QED BY <3>3, <3>4
      <2>3. ASSUME NEW r \in 1 .. Len(c), j = Len(q) + r, NEW p \in 1 .. Len(c), i = Len(q) + p
            PROVE  \E k, m \in 1 .. n + 1 : \E v \in 1 .. Len(s[k]), u \in 1 .. Len(s[m]) :
                     o[i] = s[k][v] /\ o[j] = s[m][u] /\ (k < m \/ (k = m /\ v < u))
        <3>1. p < r BY <1>3, <1>12, <2>3
        <3>2. /\ o[i] = s[n + 1][p] /\ o[j] = s[n + 1][r]
              /\ p \in 1 .. Len(s[n + 1]) /\ r \in 1 .. Len(s[n + 1])
          BY <1>6, <1>a, <2>3
        <3> QED BY <1>b, <3>1, <3>2
      <2> QED BY <1>7, <2>1, <2>2, <2>3
    <1>13. Flattens(o, s, n + 1) BY <1>10, <1>11, <1>12 DEF Flattens
    <1> QED BY <1>4, <1>13 DEF o, c

LEMMA FlattenSeqFlattens ==
    ASSUME NEW S, NEW s \in Seq(Seq(S))
    PROVE  FlattenSeq(s) \in Seq(S) /\ Flattens(FlattenSeq(s), s, Len(s))
PROOF
    <1>0. Len(s) \in Nat BY LenProperties
    <1>1. CASE Len(s) = 0
      <2>1. FlattenSeq(s) = s /\ s = <<>> BY <1>1, EmptySeq DEF FlattenSeq
      <2>2. <<>> \in Seq(S) /\ Len(<<>>) = 0 BY EmptySeq
      <2> QED BY <2>1, <2>2, <1>1 DEF Flattens
    <1>2. CASE Len(s) # 0
      <2>1. PICK f : /\ f = [n \in 1 .. Len(s) |-> Joined(f, s, n)]
                     /\ FlattenSeq(s) = f[Len(s)]
        BY <1>2, FlattenDefined
      <2>2. \A n \in 1 .. Len(s) : f[n] = Joined(f, s, n)
        <3> DEFINE t(n) == Joined(f, s, n)
        <3> f = [n \in 1 .. Len(s) |-> t(n)] BY <2>1
        <3> HIDE DEF t
        <3>1. \A n \in 1 .. Len(s) : f[n] = t(n) OBVIOUS
        <3> QED BY <3>1 DEF t
      <2> DEFINE A == {n \in Nat : n \in 1 .. Len(s) => f[n] \in Seq(S) /\ Flattens(f[n], s, n)}
      <2>3. 0 \in A BY <1>0
      <2>4. ASSUME NEW n \in Nat, n \in A PROVE n + 1 \in A
        <3> SUFFICES ASSUME n + 1 <= Len(s)
                     PROVE  f[n + 1] \in Seq(S) /\ Flattens(f[n + 1], s, n + 1)
          BY <1>0
        <3>0. n + 1 \in 1 .. Len(s) BY <1>0
        <3>1. f[n + 1] = Joined(f, s, n + 1) BY <2>2, <3>0
        <3>2. CASE n = 0
          <4>1. f[1] = s[1] BY <3>1, <3>2 DEF Joined
          <4>2. s[1] \in Seq(S) /\ Flattens(s[1], s, 1) BY <1>2, FlattensOne
          <4>3. n + 1 = 1 BY <3>2
          <4> QED BY <4>1, <4>2, <4>3
        <3>3. CASE n # 0
          <4>1. n \in 1 .. Len(s) /\ n + 1 # 1 /\ n + 1 - 1 = n BY <1>0, <3>3
          <4>2. f[n] \in Seq(S) /\ Flattens(f[n], s, n) BY <2>4, <4>1
          <4>3. f[n + 1] = f[n] \o s[n + 1]
            <5>1. Joined(f, s, n + 1) = f[(n + 1) - 1] \o s[n + 1] BY <4>1 DEF Joined
            <5>2. (n + 1) - 1 = n OBVIOUS
            <5> QED BY <3>1, <5>1, <5>2, Zenon
          <4> QED BY <3>3, <4>2, <4>3, FlattensStep
        <3> QED BY <3>2, <3>3
      <2>5. Len(s) \in A
        <3> HIDE DEF A
        <3> QED BY <1>0, <2>3, <2>4, NumberInduction
      <2>6. Len(s) \in 1 .. Len(s) BY <1>0, <1>2
      <2> QED BY <2>1, <2>5, <2>6
    <1> QED BY <1>1, <1>2
=============================================================================
