--------------------------- MODULE Chunkers_proofs ---------------------------
(***************************************************************************)
(* Proofs about TextChunks and CodeSymbols, for every text, syntax tree    *)
(* and identifier.  They are loops over sequences, so the proofs go by     *)
(* induction over the places of a sequence: a set of numbers that has 0    *)
(* and with every number the next one has them all (Induct).               *)
(***************************************************************************)
EXTENDS TextChunks, CodeSymbols, FiniteSetTheorems, WellFoundedInduction, TLAPS

-----------------------------------------------------------------------------
(* Induction and recursion *)

LEMMA LeastOfNat ==
  ASSUME NEW S, S \subseteq Nat, S # {}
  PROVE  \E x \in S : \A y \in S : x <= y
<1>1. PICK x \in S : \A y \in S : <<y, x>> \notin OpToRel(<, Nat)
  BY NatLessThanWellFounded, WFMin
<1>2. \A y \in S : ~(y < x)
  BY <1>1 DEF OpToRel
<1> QED BY <1>2

LEMMA Induct ==
  ASSUME NEW n \in Nat, NEW P, 0 \in P, \A i \in 1..n : i - 1 \in P => i \in P
  PROVE  \A i \in 0..n : i \in P
<1> DEFINE Bad == {i \in 0..n : i \notin P}
<1>1. ASSUME Bad # {}
      PROVE  FALSE
  <2>1. Bad \subseteq Nat
    OBVIOUS
  <2>2. PICK k \in Bad : \A j \in Bad : k <= j
    BY <1>1, <2>1, LeastOfNat
  <2>3. k \in 1..n /\ k - 1 \in 0..n /\ ~(k <= k - 1)
    BY <2>2
  <2>4. k - 1 \notin Bad
    BY <2>2, <2>3
  <2> QED BY <2>2, <2>3, <2>4
<1> QED BY <1>1

\* n steps, each from any state of S to another one, and a run of them.
Steps(step, n, S) == \A i \in 1..n : \A x \in S : step[i][x] \in S
RunOf(f, a, step, n, S) ==
  f \in [0..n -> S] /\ f[0] = a /\ \A i \in 1..n : f[i] = step[i][f[i - 1]]

\* From every state there is a run: a recursive function exists.
LEMMA Recursion ==
  ASSUME NEW n \in Nat, NEW S, NEW a \in S, NEW step, Steps(step, n, S)
  PROVE  \E f : RunOf(f, a, step, n, S)
<1> USE DEF RunOf, Steps
<1> DEFINE Upto(k) == \E f \in [0..k -> S] : f[0] = a /\ \A i \in 1..k : f[i] = step[i][f[i - 1]]
           P == {k \in 0..n : Upto(k)}
<1>1. 0 \in P
  <2> DEFINE f == [i \in 0..0 |-> a]
  <2>1. f \in [0..0 -> S] /\ f[0] = a /\ 1..0 = {}
    OBVIOUS
  <2> HIDE DEF f
  <2> QED BY <2>1
<1>2. ASSUME NEW k \in 1..n, k - 1 \in P
      PROVE  k \in P
  <2>1. PICK f \in [0..(k - 1) -> S] : f[0] = a /\ \A i \in 1..(k - 1) : f[i] = step[i][f[i - 1]]
    BY <1>2
  <2>2. k - 1 \in 0..(k - 1) /\ f[k - 1] \in S /\ k \in 0..n
    BY <2>1
  <2> DEFINE g == [i \in 0..k |-> IF i = k THEN step[k][f[k - 1]] ELSE f[i]]
  <2>3. step[k][f[k - 1]] \in S
    BY <2>2
  <2>4. \A i \in 0..k : i # k => i \in 0..(k - 1)
    OBVIOUS
  <2>5. g \in [0..k -> S]
    BY <2>1, <2>3, <2>4
  <2>6. g[0] = a
    BY <2>1
  <2>7. ASSUME NEW i \in 1..k
        PROVE  g[i] = step[i][g[i - 1]]
    <3>1. i - 1 \in 0..(k - 1) /\ i - 1 # k /\ i - 1 \in 0..k /\ i \in 0..k
      OBVIOUS
    <3>2. g[i - 1] = f[i - 1]
      BY <3>1
    <3>3. CASE i = k
      BY <3>1, <3>2, <3>3
    <3>4. CASE i # k
      <4>1. g[i] = f[i] /\ i \in 1..(k - 1)
        BY <3>1, <3>4
      <4> QED BY <2>1, <3>2, <4>1
    <3> QED BY <3>3, <3>4
  <2> HIDE DEF g
  <2> QED BY <2>2, <2>5, <2>6, <2>7
<1> HIDE DEF P
<1>3. n \in P
  BY <1>1, <1>2, Induct
<1> QED BY <1>3 DEF P

-----------------------------------------------------------------------------
(* Picking places *)

\* How Ascending counts.
Picks(f, K, n) ==
  /\ f \in [0..n -> Seq(Nat)]
  /\ f[0] = <<>>
  /\ \A i \in 1..n : f[i] = IF i \in K THEN Append(f[i - 1], i) ELSE f[i - 1]

LEMMA AscendingCounts ==
  ASSUME NEW K, NEW n \in Nat
  PROVE  \E f : Picks(f, K, n) /\ Ascending(K, n) = f[n]
<1> DEFINE Eq(f) == f = [i \in 0..n |-> IF i = 0 THEN <<>>
                                        ELSE IF i \in K THEN Append(f[i - 1], i) ELSE f[i - 1]]
           S == Seq(Nat)
           step == [i \in 1..n |-> [x \in S |-> IF i \in K THEN Append(x, i) ELSE x]]
           g == CHOOSE f : Eq(f)
<1>1. \A i \in 1..n : \A x \in S : step[i][x] = (IF i \in K THEN Append(x, i) ELSE x) /\ step[i][x] \in S
  OBVIOUS
<1>2. <<>> \in S
  OBVIOUS
<1> HIDE DEF S, step
<1>3. PICK f : RunOf(f, <<>>, step, n, S)
  <2>1. Steps(step, n, S)
    BY <1>1 DEF Steps
  <2> QED BY <1>2, <2>1, Recursion
<1>4. Eq(f)
  <2>1. ASSUME NEW i \in 0..n
        PROVE  f[i] = IF i = 0 THEN <<>> ELSE IF i \in K THEN Append(f[i - 1], i) ELSE f[i - 1]
    <3>1. i # 0 => i \in 1..n /\ i - 1 \in 0..n
      OBVIOUS
    <3>2. i # 0 => f[i - 1] \in S
      BY <3>1, <1>3 DEF RunOf
    <3> QED BY <3>1, <3>2, <1>1, <1>3 DEF RunOf
  <2> QED BY <2>1, <1>3 DEF RunOf
<1>5. Eq(g)
  BY <1>4
<1>6. Ascending(K, n) = g[n]
  BY DEF Ascending
<1> HIDE DEF g
<1>7. g[0] = <<>> /\ \A i \in 1..n : g[i] = IF i \in K THEN Append(g[i - 1], i) ELSE g[i - 1]
  <2>1. \A i \in 0..n : g[i] = IF i = 0 THEN <<>>
                              ELSE IF i \in K THEN Append(g[i - 1], i) ELSE g[i - 1]
    BY <1>5
  <2>2. g[0] = <<>>
    BY <2>1
  <2>3. ASSUME NEW i \in 1..n
        PROVE  g[i] = IF i \in K THEN Append(g[i - 1], i) ELSE g[i - 1]
    <3>1. i \in 0..n /\ i # 0
      OBVIOUS
    <3> QED BY <2>1, <3>1
  <2> QED BY <2>2, <2>3
<1> DEFINE P == {i \in 0..n : g[i] \in Seq(Nat)}
<1>8. 0 \in P /\ \A i \in 1..n : i - 1 \in P => i \in P
  <2>1. 0 \in P
    <3>1. g[0] = <<>>
      BY <1>7
    <3>2. <<>> \in Seq(Nat)
      OBVIOUS
    <3>3. 0 \in 0..n
      OBVIOUS
    <3> QED BY <3>1, <3>2, <3>3
  <2>2. ASSUME NEW i \in 1..n, i - 1 \in P
        PROVE  i \in P
    <3>1. g[i - 1] \in Seq(Nat) /\ i \in 0..n /\ i \in Nat
      BY <2>2
    <3>2. g[i] = IF i \in K THEN Append(g[i - 1], i) ELSE g[i - 1]
      BY <1>7
    <3>3. Append(g[i - 1], i) \in Seq(Nat)
      BY <3>1
    <3>4. g[i] \in Seq(Nat)
      BY <3>1, <3>2, <3>3
    <3> QED BY <3>1, <3>4
  <2> QED BY <2>1, <2>2
<1> HIDE DEF P
<1>9. \A i \in 0..n : i \in P
  BY <1>8, Induct
<1>10. g \in [0..n -> Seq(Nat)]
  <2>1. \A i \in 0..n : g[i] \in Seq(Nat)
    BY <1>9 DEF P
  <2>2. g = [i \in 0..n |-> g[i]]
    BY <1>5
  <2> HIDE DEF Eq
  <2> QED BY <2>1, <2>2
<1> QED BY <1>6, <1>7, <1>10 DEF Picks

Rising(s) == \A j, k \in DOMAIN s : j < k => s[j] < s[k]

LEMMA PicksAre ==
  ASSUME NEW K, NEW n \in Nat, NEW f, Picks(f, K, n), NEW m \in 0..n
  PROVE  /\ f[m] \in Seq(1..m) /\ Rising(f[m])
         /\ ToSet(f[m]) = {i \in 1..m : i \in K}
<1> DEFINE P == {i \in 0..n : /\ f[i] \in Seq(1..i) /\ Rising(f[i])
                              /\ ToSet(f[i]) = {j \in 1..i : j \in K}}
<1>1. 0 \in P
  BY DEF Picks, Rising, ToSet
<1>2. ASSUME NEW i \in 1..n, i - 1 \in P
      PROVE  i \in P
  <2> DEFINE s == f[i - 1]
  <2>1. /\ s \in Seq(1..(i - 1)) /\ Rising(s) /\ ToSet(s) = {j \in 1..(i - 1) : j \in K}
        /\ s \in Seq(1..i)
    BY <1>2
  <2>2. f[i] = IF i \in K THEN Append(s, i) ELSE s
    BY DEF Picks
  <2>3. i \in 0..n /\ \A j : j \in 1..i <=> j \in 1..(i - 1) \/ j = i
    OBVIOUS
  <2> HIDE DEF s
  <2>4. CASE i \notin K
    <3>1. {j \in 1..i : j \in K} = {j \in 1..(i - 1) : j \in K}
      BY <2>3, <2>4
    <3> QED BY <2>1, <2>2, <2>3, <2>4, <3>1
  <2>5. CASE i \in K
    <3> DEFINE t == Append(s, i)
    <3>1. /\ t \in Seq(1..i) /\ Len(t) = Len(s) + 1 /\ Len(s) \in Nat
          /\ DOMAIN t = 1..Len(t) /\ DOMAIN s = 1..Len(s)
          /\ \A j \in DOMAIN t : t[j] = IF j = Len(t) THEN i ELSE s[j]
      BY <2>1
    <3> HIDE DEF t
    <3>2. \A j \in DOMAIN s : s[j] < i
      BY <2>1
    <3>3. Rising(t)
      <4> SUFFICES ASSUME NEW j \in DOMAIN t, NEW k \in DOMAIN t, j < k
                   PROVE  t[j] < t[k]
        BY DEF Rising
      <4>1. j \in DOMAIN s /\ t[j] = s[j] /\ (k # Len(t) => k \in DOMAIN s)
        BY <3>1
      <4>2. k # Len(t) => s[j] < s[k]
        BY <2>1, <4>1 DEF Rising
      <4> QED BY <3>1, <3>2, <4>1, <4>2
    <3>4. ToSet(t) = ToSet(s) \cup {i}
      BY <3>1 DEF ToSet
    <3>5. {j \in 1..i : j \in K} = {j \in 1..(i - 1) : j \in K} \cup {i}
      BY <2>3, <2>5
    <3> QED BY <2>1, <2>2, <2>3, <2>5, <3>1, <3>3, <3>4, <3>5 DEF t
  <2> QED BY <2>4, <2>5
<1> HIDE DEF P
<1>3. m \in P
  BY <1>1, <1>2, Induct
<1> QED BY <1>3 DEF P

\* The places of K, each once and in order.
LEMMA AscendingIs ==
  ASSUME NEW n \in Nat, NEW K \in SUBSET (1..n)
  PROVE  /\ Ascending(K, n) \in Seq(K) /\ Rising(Ascending(K, n))
         /\ ToSet(Ascending(K, n)) = K
<1>1. PICK f : Picks(f, K, n) /\ Ascending(K, n) = f[n]
  BY AscendingCounts
<1>2. /\ f[n] \in Seq(1..n) /\ Rising(f[n])
      /\ ToSet(f[n]) = {i \in 1..n : i \in K}
  BY <1>1, PicksAre
<1>3. ToSet(f[n]) = K
  BY <1>2
<1>4. f[n] \in Seq(K)
  BY <1>2, <1>3 DEF ToSet
<1> QED BY <1>1, <1>2, <1>3, <1>4

-----------------------------------------------------------------------------
(* Lists of lists *)

\* How FlattenSeq puts lists together.
Flattens(f, ss, S) ==
  /\ f \in [0..Len(ss) -> Seq(S)]
  /\ f[0] = <<>>
  /\ \A i \in 1..Len(ss) : f[i] = f[i - 1] \o ss[i]

LEMMA FlattenCounts ==
  ASSUME NEW S, NEW ss \in Seq(Seq(S))
  PROVE  \E f : Flattens(f, ss, S) /\ FlattenSeq(ss) = f[Len(ss)]
<1> DEFINE T == Seq(S)
           step == [i \in 1..Len(ss) |-> [x \in T |-> x \o ss[i]]]
           Eq(f) == f = [i \in 1..Len(ss) |-> IF i = 1 THEN ss[i] ELSE f[i - 1] \o ss[i]]
           g == CHOOSE f : Eq(f)
<1>1. \A i \in 1..Len(ss) : \A x \in T : step[i][x] = x \o ss[i] /\ step[i][x] \in T
  OBVIOUS
<1>2. <<>> \in T /\ Len(ss) \in Nat /\ \A i \in 1..Len(ss) : ss[i] \in T
  OBVIOUS
<1>3. \A x \in T : <<>> \o x = x
  OBVIOUS
<1> HIDE DEF T, step
<1>4. PICK f : RunOf(f, <<>>, step, Len(ss), T)
  <2>1. Steps(step, Len(ss), T)
    BY <1>1 DEF Steps
  <2> QED BY <1>2, <2>1, Recursion
<1>5. /\ f \in [0..Len(ss) -> T] /\ f[0] = <<>>
      /\ \A i \in 1..Len(ss) : f[i] = f[i - 1] \o ss[i]
  <2>1. f \in [0..Len(ss) -> T] /\ f[0] = <<>> /\ \A i \in 1..Len(ss) : f[i] = step[i][f[i - 1]]
    BY <1>4 DEF RunOf
  <2>2. ASSUME NEW i \in 1..Len(ss)
        PROVE  f[i] = f[i - 1] \o ss[i]
    <3>1. i - 1 \in 0..Len(ss)
      BY <1>2
    <3>2. f[i - 1] \in T
      BY <2>1, <3>1
    <3> QED BY <1>1, <2>1, <3>2
  <2> QED BY <2>1, <2>2
<1>6. Flattens(f, ss, S)
  BY <1>5 DEF Flattens, T
<1>7. Eq([i \in 1..Len(ss) |-> f[i]])
  <2> DEFINE h == [i \in 1..Len(ss) |-> f[i]]
  <2>1. ASSUME NEW i \in 1..Len(ss)
        PROVE  h[i] = IF i = 1 THEN ss[i] ELSE h[i - 1] \o ss[i]
    <3>1. CASE i = 1
      <4>1. f[1] = f[0] \o ss[1] /\ ss[1] \in T
        BY <1>2, <1>5, <3>1
      <4> QED BY <1>3, <1>5, <3>1, <4>1
    <3>2. CASE i # 1
      <4>1. i - 1 \in 1..Len(ss)
        BY <1>2, <3>2
      <4> QED BY <1>5, <3>2, <4>1
    <3> QED BY <3>1, <3>2
  <2>2. h = [i \in 1..Len(ss) |-> h[i]]
    OBVIOUS
  <2> HIDE DEF h
  <2>3. Eq(h)
    BY <2>1, <2>2
  <2> QED BY <2>3 DEF h
<1>8. Eq(g)
  BY <1>7
<1> DEFINE P == {i \in 0..Len(ss) : i # 0 => g[i] = f[i]}
<1>9. ASSUME NEW i \in 1..Len(ss), i - 1 \in P
      PROVE  i \in P
  <2>1. g[i] = IF i = 1 THEN ss[i] ELSE g[i - 1] \o ss[i]
    BY <1>8
  <2>2. i \in 0..Len(ss)
    BY <1>2
  <2> HIDE DEF g
  <2>3. CASE i = 1
    <3>1. f[1] = <<>> \o ss[1] /\ ss[1] \in T
      BY <1>2, <1>5, <2>3
    <3> QED BY <1>3, <2>1, <2>2, <2>3, <3>1
  <2>4. CASE i # 1
    <3>1. i - 1 # 0
      BY <2>4, <1>2
    <3>2. g[i - 1] = f[i - 1]
      BY <1>9, <3>1
    <3> QED BY <1>5, <2>1, <2>2, <2>4, <3>2
  <2> QED BY <2>3, <2>4
<1>10. 0 \in P
  BY <1>2
<1>11. CASE Len(ss) = 0
  <2>1. FlattenSeq(ss) = ss /\ ss = <<>>
    BY <1>11 DEF FlattenSeq
  <2> QED BY <1>5, <1>6, <1>11, <2>1
<1>12. CASE Len(ss) # 0
  <2>1. FlattenSeq(ss) = g[Len(ss)]
    BY <1>12 DEF FlattenSeq
  <2> HIDE DEF P, g
  <2>2. Len(ss) \in P
    <3>1. Len(ss) \in 0..Len(ss)
      BY <1>2
    <3> QED BY <3>1, <1>2, <1>9, <1>10, Induct
  <2> QED BY <1>6, <1>12, <2>1, <2>2 DEF P
<1> QED BY <1>11, <1>12

LEMMA FlattenType ==
  ASSUME NEW S, NEW ss \in Seq(Seq(S))
  PROVE  FlattenSeq(ss) \in Seq(S)
<1>1. PICK f : Flattens(f, ss, S) /\ FlattenSeq(ss) = f[Len(ss)]
  BY FlattenCounts
<1>2. Len(ss) \in 0..Len(ss)
  OBVIOUS
<1> QED BY <1>1, <1>2 DEF Flattens

LEMMA FlattenNone == FlattenSeq(<<>>) = <<>>
BY DEF FlattenSeq

LEMMA FlattenAppend ==
  ASSUME NEW S, NEW ss \in Seq(Seq(S)), NEW s \in Seq(S)
  PROVE  FlattenSeq(Append(ss, s)) = FlattenSeq(ss) \o s
<1> DEFINE more == Append(ss, s)
<1>1. /\ more \in Seq(Seq(S)) /\ Len(more) = Len(ss) + 1 /\ Len(ss) \in Nat
      /\ more[Len(ss) + 1] = s /\ \A i \in 1..Len(ss) : more[i] = ss[i]
  OBVIOUS
<1> HIDE DEF more
<1>2. PICK f : Flattens(f, ss, S) /\ FlattenSeq(ss) = f[Len(ss)]
  BY FlattenCounts
<1>3. PICK g : Flattens(g, more, S) /\ FlattenSeq(more) = g[Len(more)]
  BY <1>1, FlattenCounts
<1> DEFINE P == {i \in 0..Len(ss) : g[i] = f[i]}
<1>4. 0 \in P
  BY <1>1, <1>2, <1>3 DEF Flattens
<1>5. ASSUME NEW i \in 1..Len(ss), i - 1 \in P
      PROVE  i \in P
  <2>1. i \in 1..Len(more) /\ i \in 0..Len(ss)
    BY <1>1
  <2>2. g[i] = g[i - 1] \o more[i] /\ f[i] = f[i - 1] \o ss[i]
    BY <1>2, <1>3, <2>1 DEF Flattens
  <2>3. g[i - 1] = f[i - 1]
    BY <1>5
  <2> QED BY <1>1, <2>1, <2>2, <2>3
<1> HIDE DEF P
<1>6. Len(ss) \in P
  <2>1. Len(ss) \in Nat /\ Len(ss) \in 0..Len(ss)
    BY <1>1
  <2> QED BY <2>1, <1>4, <1>5, Induct
<1>7. g[Len(ss)] = f[Len(ss)]
  BY <1>6 DEF P
<1>8. Len(more) \in 1..Len(more) /\ Len(more) - 1 = Len(ss)
  BY <1>1
<1>9. g[Len(more)] = g[Len(ss)] \o s
  BY <1>1, <1>3, <1>8 DEF Flattens
<1> QED BY <1>2, <1>3, <1>7, <1>9 DEF more

LEMMA ConcatElements ==
  ASSUME NEW S, NEW s \in Seq(S), NEW t \in Seq(S)
  PROVE  /\ Len(s \o t) = Len(s) + Len(t) /\ s \o t \in Seq(S)
         /\ DOMAIN (s \o t) = 1..(Len(s) + Len(t))
         /\ \A k \in 1..Len(s) : (s \o t)[k] = s[k]
         /\ \A k \in 1..Len(t) : (s \o t)[Len(s) + k] = t[k]
         /\ \A k \in DOMAIN (s \o t) : k > Len(s) => /\ k - Len(s) \in 1..Len(t)
                                                    /\ (s \o t)[k] = t[k - Len(s)]
         /\ ToSet(s \o t) = ToSet(s) \cup ToSet(t)
<1> DEFINE u == s \o t
<1>1. /\ Len(u) = Len(s) + Len(t) /\ u \in Seq(S) /\ Len(s) \in Nat /\ Len(t) \in Nat
      /\ DOMAIN u = 1..(Len(s) + Len(t)) /\ DOMAIN s = 1..Len(s) /\ DOMAIN t = 1..Len(t)
  OBVIOUS
<1>2. \A k \in 1..Len(s) : u[k] = s[k] /\ k \in DOMAIN u
  OBVIOUS
<1>3. \A k \in 1..Len(t) : u[Len(s) + k] = t[k] /\ Len(s) + k \in DOMAIN u
  OBVIOUS
<1>4. \A k \in DOMAIN u : k > Len(s) => k - Len(s) \in 1..Len(t) /\ u[k] = t[k - Len(s)]
  OBVIOUS
<1> HIDE DEF u
<1>5. \A k \in DOMAIN u : k \in 1..Len(s) \/ k > Len(s)
  BY <1>1
<1>6. ToSet(u) = ToSet(s) \cup ToSet(t)
  BY <1>1, <1>2, <1>3, <1>4, <1>5 DEF ToSet
<1> QED BY <1>1, <1>2, <1>3, <1>4, <1>6 DEF u

LEMMA FlattenRange ==
  ASSUME NEW S, NEW ss \in Seq(Seq(S))
  PROVE  ToSet(FlattenSeq(ss)) = UNION {ToSet(ss[i]) : i \in DOMAIN ss}
<1>1. PICK f : Flattens(f, ss, S) /\ FlattenSeq(ss) = f[Len(ss)]
  BY FlattenCounts
<1> DEFINE P == {m \in 0..Len(ss) : ToSet(f[m]) = UNION {ToSet(ss[i]) : i \in 1..m}}
<1>2. 0 \in P
  BY <1>1 DEF Flattens, ToSet
<1>3. ASSUME NEW m \in 1..Len(ss), m - 1 \in P
      PROVE  m \in P
  <2>1. m - 1 \in 0..Len(ss) /\ m \in 0..Len(ss) /\ ss[m] \in Seq(S)
    OBVIOUS
  <2>2. f[m - 1] \in Seq(S) /\ f[m] = f[m - 1] \o ss[m]
    BY <1>1, <2>1 DEF Flattens
  <2>3. ToSet(f[m]) = ToSet(f[m - 1]) \cup ToSet(ss[m])
    BY <2>1, <2>2, ConcatElements
  <2>4. ToSet(f[m - 1]) = UNION {ToSet(ss[i]) : i \in 1..(m - 1)}
    BY <1>3
  <2>5. \A i : i \in 1..m <=> i \in 1..(m - 1) \/ i = m
    OBVIOUS
  <2> QED BY <2>1, <2>3, <2>4, <2>5
<1> HIDE DEF P
<1>4. Len(ss) \in P
  <2>1. Len(ss) \in Nat /\ Len(ss) \in 0..Len(ss)
    OBVIOUS
  <2> QED BY <1>2, <1>3, <2>1, Induct
<1>5. DOMAIN ss = 1..Len(ss)
  OBVIOUS
<1> QED BY <1>1, <1>4, <1>5 DEF P

-----------------------------------------------------------------------------
(* The pieces of a text *)

Texts == Seq(Seq(Segment))
Piece == [line : Nat, short : BOOLEAN]

\* What BaseChunks makes of one line.
PiecesOf(lines, i) ==
  LET pieces == Ascending({j \in DOMAIN lines[i] : lines[i][j] # "blank"}, Len(lines[i]))
  IN  [k \in DOMAIN pieces |-> [line |-> i, short |-> lines[i][pieces[k]] = "short"]]

HasText(line) == \E s \in ToSet(line) : s # "blank"

LEMMA PiecesAre ==
  ASSUME NEW lines \in Texts, NEW i \in DOMAIN lines
  PROVE  /\ PiecesOf(lines, i) \in Seq(Piece)
         /\ \A k \in DOMAIN PiecesOf(lines, i) : PiecesOf(lines, i)[k].line = i
         /\ HasText(lines[i]) => PiecesOf(lines, i) # <<>>
<1> DEFINE K == {j \in DOMAIN lines[i] : lines[i][j] # "blank"}
           s == Ascending(K, Len(lines[i]))
<1>1. i \in Nat /\ lines[i] \in Seq(Segment)
  BY DEF Texts
<1>2. Len(lines[i]) \in Nat /\ K \in SUBSET (1..Len(lines[i])) /\ DOMAIN lines[i] = 1..Len(lines[i])
  BY <1>1
<1> HIDE DEF K
<1>3. s \in Seq(K) /\ ToSet(s) = K
  BY <1>2, AscendingIs
<1>4. PiecesOf(lines, i) = [k \in DOMAIN s |-> [line |-> i, short |-> lines[i][s[k]] = "short"]]
  BY DEF PiecesOf, K
<1> HIDE DEF s
<1>5. ASSUME NEW k
      PROVE  [line |-> i, short |-> lines[i][s[k]] = "short"] \in Piece
  <2>1. (lines[i][s[k]] = "short") \in BOOLEAN
    BY Zenon
  <2> HIDE DEF K
  <2> QED BY <1>1, <2>1, Zenon DEF Piece
<1>6. DOMAIN s = 1..Len(s) /\ Len(s) \in Nat
  BY <1>3
<1>7. PiecesOf(lines, i) \in [1..Len(s) -> Piece]
  BY <1>4, <1>5, <1>6
<1>8. PiecesOf(lines, i) \in Seq(Piece)
  BY <1>6, <1>7
<1>9. \A k \in DOMAIN PiecesOf(lines, i) : PiecesOf(lines, i)[k].line = i
  BY <1>4
<1>10. ASSUME HasText(lines[i])
       PROVE  PiecesOf(lines, i) # <<>>
  <2>1. PICK j \in DOMAIN lines[i] : lines[i][j] # "blank"
    BY <1>10 DEF HasText, ToSet
  <2>2. j \in K
    BY <2>1 DEF K
  <2>3. DOMAIN s # {}
    BY <1>3, <2>2 DEF ToSet
  <2>4. DOMAIN PiecesOf(lines, i) # {}
    BY <1>4, <2>3
  <2> QED BY <2>4
<1> QED BY <1>8, <1>9, <1>10

\* What is so of the pieces of the first m lines.
PiecesUpto(base, lines, m) ==
  /\ base \in Seq(Piece)
  /\ \A k \in DOMAIN base : base[k].line \in 1..m
  /\ \A j, k \in DOMAIN base : j < k => base[j].line <= base[k].line
  /\ \A i \in 1..m : HasText(lines[i]) => \E k \in DOMAIN base : base[k].line = i

LEMMA BaseChunksAre ==
  ASSUME NEW lines \in Texts
  PROVE  PiecesUpto(BaseChunks(lines), lines, Len(lines))
<1> DEFINE n == Len(lines)
           ss == [i \in DOMAIN lines |-> PiecesOf(lines, i)]
<1>1. n \in Nat /\ DOMAIN lines = 1..n
  BY DEF Texts
<1>2. BaseChunks(lines) = FlattenSeq(ss)
  BY DEF BaseChunks, PiecesOf
<1>3. \A i \in 1..n : ss[i] = PiecesOf(lines, i) /\ ss[i] \in Seq(Piece)
  BY <1>1, PiecesAre
<1>4. ss \in Seq(Seq(Piece)) /\ Len(ss) = n
  <2> DEFINE T == Seq(Piece)
  <2>1. \A i \in 1..n : ss[i] \in T
    BY <1>3
  <2>2. ss = [i \in 1..n |-> ss[i]]
    BY <1>1
  <2> HIDE DEF ss, T
  <2>3. ss \in [1..n -> T]
    BY <2>1, <2>2
  <2>4. ss \in Seq(T) /\ Len(ss) = n
    BY <2>3, <1>1
  <2> QED BY <2>4 DEF T
<1> HIDE DEF ss, n
<1>5. PICK f : Flattens(f, ss, Piece) /\ FlattenSeq(ss) = f[n]
  BY <1>4, FlattenCounts
<1> DEFINE P == {m \in 0..n : PiecesUpto(f[m], lines, m)}
<1>6. 0 \in P
  BY <1>1, <1>5 DEF Flattens, PiecesUpto
<1>7. ASSUME NEW m \in 1..n, m - 1 \in P
      PROVE  m \in P
  <2> DEFINE s == f[m - 1]
             t == ss[m]
             u == s \o t
  <2>1. m \in 0..n /\ m \in Nat /\ m \in DOMAIN lines /\ m - 1 \in 0..n
    BY <1>1
  <2>2. s \in Seq(Piece) /\ f[m] = u
    BY <1>4, <1>5, <2>1 DEF Flattens
  <2>3. /\ t \in Seq(Piece) /\ \A k \in DOMAIN t : t[k].line = m
        /\ HasText(lines[m]) => t # <<>>
    BY <1>3, <2>1, PiecesAre
  <2>4. PiecesUpto(s, lines, m - 1)
    BY <1>7
  <2> HIDE DEF s, t, u
  <2>5. /\ Len(u) = Len(s) + Len(t) /\ u \in Seq(Piece) /\ Len(s) \in Nat /\ Len(t) \in Nat
        /\ DOMAIN u = 1..(Len(s) + Len(t)) /\ DOMAIN s = 1..Len(s) /\ DOMAIN t = 1..Len(t)
        /\ \A k \in 1..Len(s) : u[k] = s[k]
        /\ \A k \in 1..Len(t) : u[Len(s) + k] = t[k]
        /\ \A k \in DOMAIN u : k > Len(s) => k - Len(s) \in 1..Len(t) /\ u[k] = t[k - Len(s)]
    BY <2>2, <2>3, ConcatElements DEF u
  <2>6. \A k \in DOMAIN u : \/ k \in DOMAIN s /\ u[k].line = s[k].line /\ u[k].line \in 1..(m - 1)
                            \/ k > Len(s) /\ u[k].line = m
    <3> SUFFICES ASSUME NEW k \in DOMAIN u
                 PROVE  \/ k \in DOMAIN s /\ u[k].line = s[k].line /\ u[k].line \in 1..(m - 1)
                        \/ k > Len(s) /\ u[k].line = m
      OBVIOUS
    <3>1. CASE k > Len(s)
      BY <2>3, <2>5, <3>1
    <3>2. CASE ~(k > Len(s))
      <4>1. k \in DOMAIN s
        BY <2>5, <3>2
      <4>2. u[k] = s[k] /\ s[k].line \in 1..(m - 1)
        BY <2>4, <2>5, <4>1 DEF PiecesUpto
      <4> QED BY <4>1, <4>2
    <3> QED BY <3>1, <3>2
  <2>7. \A k \in DOMAIN u : u[k].line \in 1..m
    BY <2>1, <2>6
  <2>8. ASSUME NEW j \in DOMAIN u, NEW k \in DOMAIN u, j < k
        PROVE  u[j].line <= u[k].line
    <3>1. CASE k > Len(s)
      <4>1. u[k].line = m
        BY <2>5, <2>6, <3>1
      <4> QED BY <2>1, <2>7, <4>1
    <3>2. CASE ~(k > Len(s))
      <4>1. k \in DOMAIN s /\ j \in DOMAIN s
        BY <2>5, <2>8, <3>2
      <4>2. u[j] = s[j] /\ u[k] = s[k]
        BY <2>5, <4>1
      <4> QED BY <2>4, <2>8, <4>1, <4>2 DEF PiecesUpto
    <3> QED BY <3>1, <3>2
  <2>9. ASSUME NEW i \in 1..m, HasText(lines[i])
        PROVE  \E k \in DOMAIN u : u[k].line = i
    <3>1. CASE i = m
      <4>1. t # <<>>
        BY <2>3, <2>9, <3>1
      <4>2. 1 \in 1..Len(t)
        BY <2>3, <2>5, <4>1
      <4>3. u[Len(s) + 1] = t[1] /\ Len(s) + 1 \in DOMAIN u /\ t[1].line = m
        BY <2>3, <2>5, <4>2
      <4> QED BY <3>1, <4>3
    <3>2. CASE i # m
      <4>1. i \in 1..(m - 1)
        BY <2>1, <3>2
      <4>2. PICK k \in DOMAIN s : s[k].line = i
        BY <2>4, <2>9, <4>1 DEF PiecesUpto
      <4> QED BY <2>5, <4>2
    <3> QED BY <3>1, <3>2
  <2>10. PiecesUpto(u, lines, m)
    BY <2>5, <2>7, <2>8, <2>9 DEF PiecesUpto
  <2> QED BY <2>1, <2>2, <2>10
<1> HIDE DEF P
<1>8. n \in P
  <2>1. n \in 0..n
    BY <1>1
  <2> QED BY <1>1, <1>6, <1>7, <2>1, Induct
<1> QED BY <1>2, <1>5, <1>8 DEF P, n

-----------------------------------------------------------------------------
(* Putting short pieces together *)

Chunk == [first : Nat, last : Nat, short : BOOLEAN, parts : Seq(Nat)]

MergeStep(merged, base, i) ==
  IF Joins(merged, base, i) THEN Extend(merged, base, i) ELSE Append(merged, Single(base, i))

LEMMA LastIs ==
  ASSUME NEW S, NEW s \in Seq(S), s # <<>>
  PROVE  /\ Len(s) \in DOMAIN s /\ Last(s) = s[Len(s)] /\ Last(s) \in S
         /\ 1 \in DOMAIN s /\ Head(s) = s[1] /\ Head(s) \in S
         /\ Len(s) \in Nat \ {0} /\ DOMAIN s = 1..Len(s)
BY DEF Last

LEMMA ExtendIs ==
  ASSUME NEW base \in Seq(Piece), NEW i \in DOMAIN base,
         NEW merged \in Seq(Chunk), merged # <<>>
  PROVE  LET c == Last(merged)
             u == Extend(merged, base, i)
         IN  /\ u \in Seq(Chunk) /\ Len(u) = Len(merged) /\ DOMAIN u = DOMAIN merged
             /\ \A k \in DOMAIN merged : k # Len(merged) => u[k] = merged[k]
             /\ u[Len(u)] = [first |-> c.first, last |-> base[i].line, short |-> c.short,
                             parts |-> Append(c.parts, i)]
<1> DEFINE n == Len(merged)
           c == merged[n]
           d == [c EXCEPT !.parts = Append(@, i), !.last = base[i].line]
           e == [first |-> c.first, last |-> base[i].line, short |-> c.short,
                 parts |-> Append(c.parts, i)]
           u == Extend(merged, base, i)
<1>1. n \in DOMAIN merged /\ Last(merged) = c /\ c \in Chunk /\ DOMAIN merged = 1..n /\ n \in Nat
  BY LastIs
<1>2. i \in Nat /\ base[i].line \in Nat /\ c.parts \in Seq(Nat) /\ Append(c.parts, i) \in Seq(Nat)
  <2>1. i \in Nat /\ base[i] \in Piece
    OBVIOUS
  <2>2. base[i].line \in Nat
    BY <2>1 DEF Piece
  <2> HIDE DEF c
  <2>3. c.parts \in Seq(Nat)
    BY <1>1 DEF Chunk
  <2> QED BY <2>1, <2>2, <2>3
<1>3. c = [first |-> c.first, last |-> c.last, short |-> c.short, parts |-> c.parts]
  BY <1>1 DEF Chunk
<1>4. e \in Chunk
  BY <1>1, <1>2 DEF Chunk
<1>5. u = [merged EXCEPT ![n] = e]
  <2>1. u = [merged EXCEPT ![n].parts = Append(@, i), ![n].last = base[i].line]
    BY DEF Extend
  <2> DEFINE half == [merged EXCEPT ![n].parts = Append(@, i)]
  <2>2. u = [half EXCEPT ![n].last = base[i].line]
    BY <2>1
  <2>3. half[n] = [first |-> c.first, last |-> c.last, short |-> c.short, parts |-> Append(c.parts, i)]
    BY <1>1, <1>3
  <2>4. DOMAIN half = 1..n /\ \A k \in 1..n : k # n => half[k] = merged[k]
    BY <1>1
  <2> HIDE DEF half
  <2>5. DOMAIN u = 1..n /\ u[n] = e /\ \A k \in 1..n : k # n => u[k] = merged[k]
    <3>1. n \in 1..n
      BY <1>1
    <3>2. DOMAIN u = 1..n /\ \A k \in 1..n : u[k] = IF k = n THEN [half[n] EXCEPT !.last = base[i].line] ELSE half[k]
      BY <2>2, <2>4
    <3>3. [half[n] EXCEPT !.last = base[i].line] = e
      <4> DEFINE r == half[n]
                 x == [r EXCEPT !.last = base[i].line]
      <4> HIDE DEF n, c
      <4>1. r \in Chunk /\ r.first = c.first /\ r.short = c.short /\ r.parts = Append(c.parts, i)
        BY <1>1, <1>2, <2>3 DEF Chunk
      <4> HIDE DEF r
      <4>2. x \in Chunk /\ x.first = r.first /\ x.last = base[i].line /\ x.short = r.short /\ x.parts = r.parts
        BY <1>2, <4>1 DEF Chunk
      <4> HIDE DEF x
      <4>3. x = [first |-> x.first, last |-> x.last, short |-> x.short, parts |-> x.parts]
        BY <4>2 DEF Chunk
      <4> QED BY <4>1, <4>2, <4>3 DEF x, r
    <3> HIDE DEF u, e, n
    <3> QED BY <2>4, <3>1, <3>2, <3>3
  <2> HIDE DEF u, e
  <2>6. u = [k \in 1..n |-> u[k]] /\ [merged EXCEPT ![n] = e] = [k \in 1..n |-> IF k = n THEN e ELSE merged[k]]
    BY <1>1, <2>2, <2>5
  <2> QED BY <2>5, <2>6
<1> HIDE DEF u, e
<1>6. /\ u \in Seq(Chunk) /\ Len(u) = n /\ DOMAIN u = DOMAIN merged /\ u[n] = e
      /\ \A k \in DOMAIN merged : k # n => u[k] = merged[k]
  BY <1>1, <1>4, <1>5
<1> QED BY <1>1, <1>6 DEF u, e

LEMMA SingleType ==
  ASSUME NEW base \in Seq(Piece), NEW i \in DOMAIN base
  PROVE  Single(base, i) \in Chunk
<1>1. i \in Nat /\ base[i] \in Piece
  OBVIOUS
<1>2. base[i].line \in Nat /\ base[i].short \in BOOLEAN /\ <<i>> \in Seq(Nat)
  BY <1>1 DEF Piece
<1> QED BY <1>2, Zenon DEF Single, Chunk

LEMMA MergeStepType ==
  ASSUME NEW base \in Seq(Piece), NEW i \in DOMAIN base, NEW merged \in Seq(Chunk)
  PROVE  MergeStep(merged, base, i) \in Seq(Chunk)
<1>1. CASE Joins(merged, base, i)
  <2>1. Extend(merged, base, i) \in Seq(Chunk)
    BY <1>1, ExtendIs DEF Joins
  <2> QED BY <1>1, <2>1 DEF MergeStep
<1>2. CASE ~Joins(merged, base, i)
  <2>1. Append(merged, Single(base, i)) \in Seq(Chunk)
    BY SingleType
  <2> QED BY <1>2, <2>1 DEF MergeStep
<1> QED BY <1>1, <1>2

\* How MergeShortTextChunks goes through the pieces.
Merges(f, base) ==
  /\ f \in [0..Len(base) -> Seq(Chunk)]
  /\ f[0] = <<>>
  /\ \A i \in 1..Len(base) : f[i] = MergeStep(f[i - 1], base, i)

LEMMA MergeCounts ==
  ASSUME NEW base \in Seq(Piece)
  PROVE  \E f : Merges(f, base) /\ MergeShortTextChunks(base) = f[Len(base)]
<1> DEFINE T == Seq(Chunk)
           n == Len(base)
           step == [i \in 1..n |-> [x \in T |-> MergeStep(x, base, i)]]
           Eq(f) == f = [i \in 0..Len(base) |->
                           IF i = 0 THEN <<>>
                           ELSE LET merged == f[i - 1] IN
                                IF Joins(merged, base, i) THEN Extend(merged, base, i)
                                ELSE Append(merged, Single(base, i))]
           g == CHOOSE f : Eq(f)
<1>1. n \in Nat /\ DOMAIN base = 1..n /\ <<>> \in T
  OBVIOUS
<1>2. \A i \in 1..n : \A x \in T : step[i][x] = MergeStep(x, base, i)
  OBVIOUS
<1>3. \A i \in 1..n : \A x \in T : MergeStep(x, base, i) \in T
  BY <1>1, MergeStepType
<1> HIDE DEF T, step
<1>4. PICK f : RunOf(f, <<>>, step, n, T)
  <2>1. Steps(step, n, T)
    BY <1>2, <1>3 DEF Steps
  <2> HIDE DEF n
  <2> QED BY <1>1, <2>1, Recursion
<1>5. Eq(f)
  <2>1. f \in [0..n -> T] /\ f[0] = <<>> /\ \A i \in 1..n : f[i] = step[i][f[i - 1]]
    BY <1>4 DEF RunOf
  <2>2. ASSUME NEW i \in 0..n
        PROVE  f[i] = IF i = 0 THEN <<>> ELSE MergeStep(f[i - 1], base, i)
    <3>1. CASE i = 0
      BY <2>1, <3>1
    <3>2. CASE i # 0
      <4>1. i \in 1..n /\ i - 1 \in 0..n
        BY <1>1, <3>2
      <4>2. f[i - 1] \in T
        BY <2>1, <4>1
      <4> QED BY <1>2, <2>1, <3>2, <4>1, <4>2
    <3> QED BY <3>1, <3>2
  <2>3. f = [i \in 0..n |-> IF i = 0 THEN <<>> ELSE MergeStep(f[i - 1], base, i)]
    BY <2>1, <2>2
  <2> QED BY <2>3 DEF MergeStep
<1>6. Eq(g)
  BY <1>5
<1>7. MergeShortTextChunks(base) = g[n]
  BY DEF MergeShortTextChunks
<1>8. g = [i \in 0..n |-> IF i = 0 THEN <<>> ELSE MergeStep(g[i - 1], base, i)]
  BY <1>6 DEF MergeStep
<1> HIDE DEF g, n
<1>9. g[0] = <<>> /\ \A i \in 1..n : g[i] = MergeStep(g[i - 1], base, i)
  <2>1. 0 \in 0..n /\ \A i \in 1..n : i \in 0..n /\ i # 0
    BY <1>1
  <2>2. \A i \in 0..n : g[i] = IF i = 0 THEN <<>> ELSE MergeStep(g[i - 1], base, i)
    BY <1>8
  <2> QED BY <2>1, <2>2
<1> DEFINE P == {i \in 0..n : g[i] \in T}
<1>10. 0 \in P
  BY <1>1, <1>9
<1>11. ASSUME NEW i \in 1..n, i - 1 \in P
       PROVE  i \in P
  <2>1. i \in 0..n /\ g[i - 1] \in T
    BY <1>1, <1>11
  <2> QED BY <1>3, <1>9, <2>1
<1> HIDE DEF P
<1>12. \A i \in 0..n : i \in P
  BY <1>1, <1>10, <1>11, Induct
<1>13. g \in [0..n -> T]
  <2>1. \A i \in 0..n : g[i] \in T
    BY <1>12 DEF P
  <2>2. g = [i \in 0..n |-> g[i]]
    BY <1>8
  <2> QED BY <2>1, <2>2
<1> QED BY <1>7, <1>9, <1>13 DEF Merges, T, n

\* A chunk is a run of pieces, all short or a single long one.
IsRun(c, base) ==
  /\ c.parts # <<>>
  /\ \A q \in DOMAIN c.parts : /\ c.parts[q] = c.parts[1] + q - 1
                               /\ c.parts[q] \in DOMAIN base
                               /\ base[c.parts[q]].short = c.short
  /\ ~c.short => Len(c.parts) = 1
  /\ c.first = base[c.parts[1]].line /\ c.last = base[c.parts[Len(c.parts)]].line

Opens(c)  == c.parts[1]
Closes(c) == c.parts[Len(c.parts)]

PartsOf(cs) == [k \in DOMAIN cs |-> cs[k].parts]

\* What is so of the chunks made of the first i pieces.
RunsUpto(cs, base, i) ==
  /\ cs \in Seq(Chunk)
  /\ cs = <<>> <=> i = 0
  /\ \A k \in DOMAIN cs : IsRun(cs[k], base)
  /\ i # 0 => Closes(cs[Len(cs)]) = i
  /\ \A k, l \in DOMAIN cs : k < l => Closes(cs[k]) < Opens(cs[l])
  /\ \A k, l \in DOMAIN cs : l = k + 1 => /\ Opens(cs[l]) = Closes(cs[k]) + 1
                                          /\ ~(cs[k].short /\ cs[l].short)
  /\ FlattenSeq(PartsOf(cs)) = [j \in 1..i |-> j]

LEMMA AppendConcat ==
  ASSUME NEW S, NEW s \in Seq(S), NEW t \in Seq(S), NEW x \in S
  PROVE  s \o Append(t, x) = Append(s \o t, x)
OBVIOUS

LEMMA LengthIs ==
  ASSUME NEW S, NEW s \in Seq(S)
  PROVE  Len(s) \in Nat /\ DOMAIN s = 1..Len(s) /\ \A k \in DOMAIN s : s[k] \in S
OBVIOUS

LEMMA AppendIs ==
  ASSUME NEW S, NEW s \in Seq(S), NEW x \in S
  PROVE  /\ Append(s, x) \in Seq(S) /\ Len(Append(s, x)) = Len(s) + 1 /\ Len(s) \in Nat
         /\ DOMAIN Append(s, x) = 1..(Len(s) + 1) /\ DOMAIN s = 1..Len(s)
         /\ Append(s, x)[Len(s) + 1] = x
         /\ \A k \in 1..Len(s) : Append(s, x)[k] = s[k]
OBVIOUS

LEMMA AppendNat ==
  ASSUME NEW s \in Seq(Nat), NEW x \in Nat
  PROVE  /\ Len(Append(s, x)) = Len(s) + 1 /\ Append(s, x)[Len(s) + 1] = x
         /\ \A k \in 1..Len(s) : Append(s, x)[k] = s[k]
BY AppendIs

LEMMA PartsOfType ==
  ASSUME NEW cs \in Seq(Chunk)
  PROVE  /\ PartsOf(cs) \in Seq(Seq(Nat)) /\ Len(PartsOf(cs)) = Len(cs)
         /\ DOMAIN PartsOf(cs) = 1..Len(cs)
<1> DEFINE T == Seq(Nat)
<1>1. Len(cs) \in Nat /\ DOMAIN cs = 1..Len(cs) /\ \A k \in DOMAIN cs : cs[k] \in Chunk
  OBVIOUS
<1>2. \A k \in DOMAIN cs : cs[k].parts \in T
  BY <1>1 DEF Chunk
<1> HIDE DEF T
<1>3. PartsOf(cs) \in [1..Len(cs) -> T]
  BY <1>1, <1>2 DEF PartsOf
<1>4. PartsOf(cs) \in Seq(T) /\ Len(PartsOf(cs)) = Len(cs)
  BY <1>1, <1>3
<1> QED BY <1>3, <1>4 DEF T

\* The chunks with one more at the end.
LEMMA PartsOfAppend ==
  ASSUME NEW cs \in Seq(Chunk), NEW c \in Chunk
  PROVE  FlattenSeq(PartsOf(Append(cs, c))) = FlattenSeq(PartsOf(cs)) \o c.parts
<1> DEFINE ds == Append(cs, c)
           ps == PartsOf(cs)
           qs == PartsOf(ds)
           rs == Append(ps, c.parts)
<1>1. c.parts \in Seq(Nat) /\ ps \in Seq(Seq(Nat)) /\ Len(ps) = Len(cs)
  BY PartsOfType DEF Chunk
<1>2. /\ ds \in Seq(Chunk) /\ Len(ds) = Len(cs) + 1 /\ Len(cs) \in Nat
      /\ DOMAIN ds = 1..(Len(cs) + 1) /\ DOMAIN cs = 1..Len(cs)
      /\ ds[Len(cs) + 1] = c /\ \A k \in 1..Len(cs) : ds[k] = cs[k]
  BY AppendIs
<1>3. qs \in Seq(Seq(Nat)) /\ Len(qs) = Len(cs) + 1 /\ DOMAIN qs = 1..(Len(cs) + 1)
  BY <1>2, PartsOfType
<1>4. /\ rs \in Seq(Seq(Nat)) /\ DOMAIN rs = 1..(Len(cs) + 1)
      /\ rs[Len(cs) + 1] = c.parts /\ \A k \in 1..Len(cs) : rs[k] = ps[k]
  <2> DEFINE T == Seq(Nat)
  <2>1. c.parts \in T /\ ps \in Seq(T)
    BY <1>1
  <2> HIDE DEF T, ps
  <2>2. /\ rs \in Seq(T) /\ DOMAIN rs = 1..(Len(ps) + 1)
        /\ rs[Len(ps) + 1] = c.parts /\ \A k \in 1..Len(ps) : rs[k] = ps[k]
    BY <2>1, AppendIs
  <2> QED BY <1>1, <2>2 DEF T
<1>5. \A k \in 1..(Len(cs) + 1) : qs[k] = rs[k]
  <2> SUFFICES ASSUME NEW k \in 1..(Len(cs) + 1)
               PROVE  qs[k] = rs[k]
    OBVIOUS
  <2>1. qs[k] = ds[k].parts
    BY <1>2 DEF PartsOf
  <2>2. CASE k = Len(cs) + 1
    BY <1>2, <1>4, <2>1, <2>2
  <2>3. CASE k # Len(cs) + 1
    <3>1. k \in 1..Len(cs)
      BY <1>2, <2>3
    <3>2. ps[k] = cs[k].parts
      BY <1>2, <3>1 DEF PartsOf
    <3> QED BY <1>2, <1>4, <2>1, <3>1, <3>2
  <2> QED BY <2>2, <2>3
<1> HIDE DEF rs, qs, ps, ds
<1>6. qs = rs
  <2>1. qs = [k \in 1..(Len(cs) + 1) |-> qs[k]] /\ rs = [k \in 1..(Len(cs) + 1) |-> rs[k]]
    BY <1>3, <1>4
  <2> QED BY <1>5, <2>1
<1>7. FlattenSeq(rs) = FlattenSeq(ps) \o c.parts
  BY <1>1, FlattenAppend DEF rs
<1> QED BY <1>6, <1>7 DEF qs, ps, ds

LEMMA FrontAndLast ==
  ASSUME NEW S, NEW s \in Seq(S), s # <<>>
  PROVE  \E front \in Seq(S) : s = Append(front, s[Len(s)]) /\ Len(front) = Len(s) - 1
<1> DEFINE n == Len(s)
           front == [k \in 1..(n - 1) |-> s[k]]
           t == Append(front, s[n])
<1>1. n \in Nat /\ n # 0 /\ n - 1 \in Nat /\ DOMAIN s = 1..n /\ \A k \in 1..n : s[k] \in S
  OBVIOUS
<1>2. \A k \in 1..(n - 1) : k \in 1..n
  BY <1>1
<1>3. front \in Seq(S) /\ Len(front) = n - 1 /\ \A k \in 1..(n - 1) : front[k] = s[k]
  <2>1. front \in [1..(n - 1) -> S]
    BY <1>1, <1>2
  <2> QED BY <1>1, <2>1
<1> HIDE DEF front
<1>4. t \in Seq(S) /\ DOMAIN t = 1..n /\ t[n] = s[n] /\ \A k \in 1..(n - 1) : t[k] = s[k]
  <2>1. n \in 1..n /\ s[n] \in S
    BY <1>1
  <2>2. /\ t \in Seq(S) /\ DOMAIN t = 1..(Len(front) + 1) /\ t[Len(front) + 1] = s[n]
        /\ \A k \in 1..Len(front) : t[k] = front[k]
    BY <1>3, <2>1, AppendIs
  <2>3. Len(front) + 1 = n /\ n - 1 = Len(front)
    BY <1>1, <1>3
  <2> QED BY <1>3, <2>2, <2>3
<1> HIDE DEF t
<1>5. t = s
  <2>1. \A k \in 1..n : k = n \/ k \in 1..(n - 1)
    <3> HIDE DEF n
    <3>1. n \in Nat
      BY <1>1
    <3> QED BY <3>1
  <2>2. \A k \in 1..n : t[k] = s[k]
    BY <1>4, <2>1
  <2>3. s = [k \in 1..n |-> s[k]] /\ t = [k \in 1..n |-> t[k]]
    BY <1>1, <1>4
  <2> QED BY <2>2, <2>3
<1> QED BY <1>3, <1>5 DEF t

LEMMA RunEnds ==
  ASSUME NEW base, NEW c \in Chunk, IsRun(c, base)
  PROVE  /\ c.parts \in Seq(Nat) /\ Len(c.parts) \in Nat \ {0} /\ DOMAIN c.parts = 1..Len(c.parts)
         /\ Opens(c) \in Nat /\ Closes(c) \in Nat /\ Opens(c) <= Closes(c)
         /\ Closes(c) = Opens(c) + Len(c.parts) - 1
<1>1. c.parts \in Seq(Nat) /\ c.parts # <<>>
  BY DEF Chunk, IsRun
<1>2. /\ Len(c.parts) \in Nat \ {0} /\ DOMAIN c.parts = 1..Len(c.parts)
      /\ 1 \in DOMAIN c.parts /\ Len(c.parts) \in DOMAIN c.parts
      /\ c.parts[1] \in Nat
  BY <1>1
<1>3. c.parts[Len(c.parts)] = c.parts[1] + Len(c.parts) - 1
  BY <1>2 DEF IsRun
<1> QED BY <1>1, <1>2, <1>3 DEF Opens, Closes

\* A piece of its own.
LEMMA AppendRuns ==
  ASSUME NEW base \in Seq(Piece), NEW i \in DOMAIN base, NEW cs, RunsUpto(cs, base, i - 1),
         ~Joins(cs, base, i)
  PROVE  RunsUpto(Append(cs, Single(base, i)), base, i)
<1> DEFINE d == Single(base, i)
           ds == Append(cs, d)
           n == Len(cs)
<1>1. i \in Nat \ {0} /\ i - 1 \in Nat /\ base[i] \in Piece
  OBVIOUS
<1>2. cs \in Seq(Chunk) /\ d \in Chunk
  BY SingleType DEF RunsUpto
<1>3. d.first = base[i].line /\ d.last = base[i].line /\ d.short = base[i].short /\ d.parts = <<i>>
  BY DEF Single
<1>4. IsRun(d, base) /\ Opens(d) = i /\ Closes(d) = i
  <2>1. Len(d.parts) = 1 /\ d.parts[1] = i /\ DOMAIN d.parts = {1} /\ d.parts # <<>>
    BY <1>3
  <2> HIDE DEF d
  <2> QED BY <1>1, <1>3, <2>1 DEF IsRun, Opens, Closes
<1> HIDE DEF d
<1>5. /\ ds \in Seq(Chunk) /\ Len(ds) = n + 1 /\ n \in Nat
      /\ DOMAIN ds = 1..(n + 1) /\ DOMAIN cs = 1..n
      /\ ds[n + 1] = d /\ \A k \in 1..n : ds[k] = cs[k]
  BY <1>2, AppendIs
<1> HIDE DEF ds
<1>6. ds # <<>> /\ i # 0
  BY <1>1, <1>5
<1>7. \A k \in DOMAIN ds : k = n + 1 \/ k \in DOMAIN cs
  BY <1>5
<1>8. \A k \in DOMAIN ds : IsRun(ds[k], base)
  <2> SUFFICES ASSUME NEW k \in DOMAIN ds
               PROVE  IsRun(ds[k], base)
    OBVIOUS
  <2>1. CASE k = n + 1
    BY <1>4, <1>5, <2>1
  <2>2. CASE k \in DOMAIN cs
    <3>1. ds[k] = cs[k] /\ IsRun(cs[k], base)
      BY <1>5, <2>2 DEF RunsUpto
    <3> QED BY <3>1
  <2> QED BY <1>7, <2>1, <2>2
<1>9. n # 0 => n \in DOMAIN cs /\ Closes(cs[n]) = i - 1 /\ Opens(d) = Closes(cs[n]) + 1
  <2> SUFFICES ASSUME n # 0
               PROVE  n \in DOMAIN cs /\ Closes(cs[n]) = i - 1 /\ Opens(d) = Closes(cs[n]) + 1
    OBVIOUS
  <2>1. n \in DOMAIN cs /\ cs # <<>>
    BY <1>2, <1>5
  <2>2. Closes(cs[n]) = i - 1
    BY <2>1 DEF RunsUpto
  <2> QED BY <1>1, <1>4, <2>1, <2>2
<1>10. ASSUME NEW k \in DOMAIN cs
       PROVE  Opens(cs[k]) \in Nat /\ Closes(cs[k]) \in Nat /\ Closes(cs[k]) < i
  <2>1. IsRun(cs[k], base) /\ cs[k] \in Chunk /\ n \in DOMAIN cs /\ Closes(cs[n]) = i - 1
    BY <1>2, <1>5, <1>9 DEF RunsUpto
  <2>4. Opens(cs[k]) \in Nat /\ Closes(cs[k]) \in Nat
    BY <2>1, RunEnds
  <2>5. CASE k = n
    BY <1>1, <2>1, <2>4, <2>5
  <2>6. CASE k # n
    <3>1. k < n
      BY <1>5, <2>6
    <3>2. Closes(cs[k]) < Opens(cs[n])
      BY <2>1, <3>1 DEF RunsUpto
    <3>3. Opens(cs[n]) <= Closes(cs[n]) /\ Opens(cs[n]) \in Nat
      <4>1. IsRun(cs[n], base) /\ cs[n] \in Chunk
        BY <1>2, <2>1 DEF RunsUpto
      <4> QED BY <4>1, RunEnds
    <3> QED BY <1>1, <2>1, <2>4, <3>2, <3>3
  <2> QED BY <2>4, <2>5, <2>6
<1>11. ASSUME NEW k \in DOMAIN ds, NEW l \in DOMAIN ds, k < l
       PROVE  Closes(ds[k]) < Opens(ds[l])
  <2>1. k \in DOMAIN cs /\ ds[k] = cs[k]
    BY <1>5, <1>11
  <2>2. CASE l = n + 1
    BY <1>4, <1>5, <1>10, <2>1, <2>2
  <2>3. CASE l \in DOMAIN cs
    <3>1. ds[l] = cs[l]
      BY <1>5, <2>3
    <3> QED BY <1>11, <2>1, <2>3, <3>1 DEF RunsUpto
  <2> QED BY <1>7, <2>2, <2>3
<1>12. ASSUME NEW k \in DOMAIN ds, NEW l \in DOMAIN ds, l = k + 1
       PROVE  Opens(ds[l]) = Closes(ds[k]) + 1 /\ ~(ds[k].short /\ ds[l].short)
  <2>1. k \in DOMAIN cs /\ ds[k] = cs[k]
    BY <1>5, <1>12
  <2>2. CASE l = n + 1
    <3>1. k = n /\ n # 0 /\ ds[l] = d
      BY <1>5, <1>12, <2>1, <2>2
    <3>2. Opens(ds[l]) = Closes(ds[k]) + 1
      BY <1>9, <2>1, <3>1
    <3>3. cs # <<>> /\ Last(cs) = cs[n]
      BY <1>2, <1>5, <3>1 DEF Last
    <3>4. ~(cs[n].short /\ base[i].short)
      BY <3>3 DEF Joins
    <3> QED BY <1>3, <2>1, <3>1, <3>2, <3>4
  <2>3. CASE l \in DOMAIN cs
    <3>1. ds[l] = cs[l]
      BY <1>5, <2>3
    <3> QED BY <1>12, <2>1, <2>3, <3>1 DEF RunsUpto
  <2> QED BY <1>7, <2>2, <2>3
<1>13. FlattenSeq(PartsOf(ds)) = [j \in 1..i |-> j]
  <2>1. FlattenSeq(PartsOf(ds)) = FlattenSeq(PartsOf(cs)) \o <<i>>
    BY <1>2, <1>3, PartsOfAppend DEF ds
  <2>2. FlattenSeq(PartsOf(cs)) = [j \in 1..(i - 1) |-> j]
    BY DEF RunsUpto
  <2>3. [j \in 1..(i - 1) |-> j] \o <<i>> = [j \in 1..i |-> j]
    BY <1>1
  <2> QED BY <2>1, <2>2, <2>3
<1>14. Closes(ds[Len(ds)]) = i
  BY <1>4, <1>5
<1> QED BY <1>5, <1>6, <1>8, <1>11, <1>12, <1>13, <1>14 DEF RunsUpto, ds, d

\* A piece that joins the last chunk.
LEMMA ExtendRuns ==
  ASSUME NEW base \in Seq(Piece), NEW i \in DOMAIN base, NEW cs, RunsUpto(cs, base, i - 1),
         Joins(cs, base, i)
  PROVE  RunsUpto(Extend(cs, base, i), base, i)
<1> DEFINE n == Len(cs)
           c == cs[n]
           e == [first |-> c.first, last |-> base[i].line, short |-> c.short,
                 parts |-> Append(c.parts, i)]
           u == Extend(cs, base, i)
<1>1. i \in Nat \ {0} /\ i - 1 \in Nat /\ base[i] \in Piece
  OBVIOUS
<1>2. cs \in Seq(Chunk) /\ cs # <<>> /\ base[i].short /\ Last(cs).short
  BY DEF RunsUpto, Joins
<1>3. /\ n \in DOMAIN cs /\ n \in Nat \ {0} /\ DOMAIN cs = 1..n /\ Last(cs) = c
      /\ c \in Chunk /\ IsRun(c, base) /\ Closes(c) = i - 1 /\ c.short
  <2>1. n \in DOMAIN cs /\ n \in Nat \ {0} /\ DOMAIN cs = 1..n /\ Last(cs) = c
    BY <1>2, LastIs
  <2>2. c \in Chunk /\ IsRun(c, base)
    BY <1>2, <2>1 DEF RunsUpto
  <2>3. Closes(c) = i - 1
    BY <1>2 DEF RunsUpto
  <2> QED BY <1>2, <2>1, <2>2, <2>3
<1>4. /\ u \in Seq(Chunk) /\ Len(u) = n /\ DOMAIN u = 1..n /\ u[n] = e
      /\ \A k \in 1..n : k # n => u[k] = cs[k]
  <2>1. /\ u \in Seq(Chunk) /\ Len(u) = Len(cs) /\ DOMAIN u = DOMAIN cs
        /\ \A k \in DOMAIN cs : k # Len(cs) => u[k] = cs[k]
        /\ u[Len(u)] = [first |-> Last(cs).first, last |-> base[i].line, short |-> Last(cs).short,
                        parts |-> Append(Last(cs).parts, i)]
    BY <1>2, ExtendIs
  <2> HIDE DEF u
  <2>2. DOMAIN u = 1..n /\ \A k \in 1..n : k # n => u[k] = cs[k]
    BY <1>3, <2>1
  <2>3. u[n] = e
    BY <1>3, <2>1
  <2> QED BY <2>1, <2>2, <2>3
<1>5. /\ c.parts \in Seq(Nat) /\ Len(c.parts) \in Nat \ {0} /\ DOMAIN c.parts = 1..Len(c.parts)
      /\ Opens(c) \in Nat /\ Closes(c) = Opens(c) + Len(c.parts) - 1
  BY <1>3, RunEnds
<1> HIDE DEF c, u, n
<1>6. /\ Len(e.parts) = Len(c.parts) + 1 /\ DOMAIN e.parts = 1..(Len(c.parts) + 1)
      /\ e.parts \in Seq(Nat) /\ e.parts[Len(c.parts) + 1] = i
      /\ \A q \in 1..Len(c.parts) : e.parts[q] = c.parts[q]
  BY <1>1, <1>5, AppendIs
<1>7. /\ e.first = c.first /\ e.last = base[i].line /\ e.short = c.short
      /\ e.parts = Append(c.parts, i)
  OBVIOUS
<1> HIDE DEF e
<1>8. Opens(e) = Opens(c) /\ Closes(e) = i /\ e.parts[1] = c.parts[1]
  BY <1>5, <1>6 DEF Opens, Closes
<1>9. IsRun(e, base)
  <2>1. e.parts # <<>>
    BY <1>5, <1>6
  <2>2. ASSUME NEW q \in DOMAIN e.parts
        PROVE  /\ e.parts[q] = e.parts[1] + q - 1
               /\ e.parts[q] \in DOMAIN base
               /\ base[e.parts[q]].short = e.short
    <3>1. CASE q \in 1..Len(c.parts)
      <4>1. e.parts[q] = c.parts[q]
        BY <1>6, <3>1
      <4>2. /\ c.parts[q] = c.parts[1] + q - 1 /\ c.parts[q] \in DOMAIN base
            /\ base[c.parts[q]].short = c.short
        BY <1>3, <1>5, <3>1 DEF IsRun
      <4> QED BY <1>7, <1>8, <4>1, <4>2
    <3>2. CASE q \notin 1..Len(c.parts)
      <4>1. q = Len(c.parts) + 1 /\ e.parts[q] = i
        <5>1. q \in 1..(Len(c.parts) + 1)
          BY <1>6
        <5>2. q = Len(c.parts) + 1
          BY <1>5, <3>2, <5>1
        <5> QED BY <1>6, <5>2
      <4>2. i - 1 = c.parts[1] + Len(c.parts) - 1 /\ c.parts[1] \in Nat
        BY <1>3, <1>5 DEF Opens
      <4>3. i = e.parts[1] + q - 1
        BY <1>1, <1>5, <1>8, <4>1, <4>2
      <4>4. c.short = TRUE /\ base[i].short = TRUE
        BY <1>1, <1>2, <1>3 DEF Piece, Chunk
      <4> QED BY <1>7, <4>1, <4>3, <4>4
    <3> QED BY <3>1, <3>2
  <2>3. e.short
    BY <1>3, <1>7
  <2>4. e.first = base[e.parts[1]].line
    BY <1>3, <1>7, <1>8 DEF IsRun
  <2>5. e.last = base[e.parts[Len(e.parts)]].line
    BY <1>6, <1>7
  <2> QED BY <2>1, <2>2, <2>3, <2>4, <2>5 DEF IsRun
<1>10. \A k \in DOMAIN u : /\ Opens(u[k]) = Opens(cs[k]) /\ u[k].short = cs[k].short
                           /\ k # n => u[k] = cs[k]
  <2>1. cs[n] = c
    BY DEF c
  <2>2. \A k \in DOMAIN u : k # n => u[k] = cs[k]
    BY <1>4
  <2>3. u[n] = e
    BY <1>4
  <2> QED BY <1>7, <1>8, <2>1, <2>2, <2>3
<1>11. u # <<>> /\ i # 0
  BY <1>1, <1>3, <1>4
<1>12. \A k \in DOMAIN u : IsRun(u[k], base)
  <2> SUFFICES ASSUME NEW k \in DOMAIN u
               PROVE  IsRun(u[k], base)
    OBVIOUS
  <2>1. CASE k = n
    BY <1>4, <1>9, <2>1
  <2>2. CASE k # n
    <3>1. u[k] = cs[k] /\ k \in DOMAIN cs
      BY <1>3, <1>4, <2>2
    <3> QED BY <3>1 DEF RunsUpto
  <2> QED BY <2>1, <2>2
<1>13. ASSUME NEW k \in DOMAIN u, NEW l \in DOMAIN u, k < l
       PROVE  Closes(u[k]) < Opens(u[l])
  <2>1. k # n /\ k \in DOMAIN cs /\ l \in DOMAIN cs
    BY <1>3, <1>4, <1>13
  <2>2. Closes(cs[k]) < Opens(cs[l])
    BY <1>13, <2>1 DEF RunsUpto
  <2> QED BY <1>10, <2>1, <2>2
<1>14. ASSUME NEW k \in DOMAIN u, NEW l \in DOMAIN u, l = k + 1
       PROVE  Opens(u[l]) = Closes(u[k]) + 1 /\ ~(u[k].short /\ u[l].short)
  <2>1. k # n /\ k \in DOMAIN cs /\ l \in DOMAIN cs
    BY <1>3, <1>4, <1>14
  <2>2. Opens(cs[l]) = Closes(cs[k]) + 1 /\ ~(cs[k].short /\ cs[l].short)
    BY <1>14, <2>1 DEF RunsUpto
  <2> QED BY <1>10, <2>1, <2>2
<1>15. Closes(u[Len(u)]) = i
  BY <1>4, <1>8
<1>16. FlattenSeq(PartsOf(u)) = [j \in 1..i |-> j]
  <2>1. PICK front \in Seq(Chunk) : cs = Append(front, c) /\ Len(front) = n - 1
    BY <1>2, FrontAndLast DEF c, n
  <2>2. e \in Chunk
    <3>1. n \in 1..n
      BY <1>3
    <3> QED BY <1>4, <3>1
  <2>3. u = Append(front, e)
    <3> DEFINE v == Append(front, e)
    <3>1. /\ v \in Seq(Chunk) /\ DOMAIN v = 1..n /\ v[n] = e
          /\ \A k \in 1..(n - 1) : v[k] = front[k]
      <4>1. /\ v \in Seq(Chunk) /\ DOMAIN v = 1..(Len(front) + 1) /\ v[Len(front) + 1] = e
            /\ \A k \in 1..Len(front) : v[k] = front[k]
        BY <2>2, AppendIs
      <4>2. Len(front) + 1 = n
        BY <1>3, <2>1
      <4> QED BY <2>1, <4>1, <4>2
    <3>2. \A k \in 1..(n - 1) : cs[k] = front[k]
      BY <1>3, <2>1, AppendIs
    <3> HIDE DEF v
    <3>3. ASSUME NEW k \in 1..n
          PROVE  u[k] = v[k]
      <4>1. CASE k = n
        BY <1>4, <3>1, <4>1
      <4>2. CASE k # n
        <5>1. k \in 1..(n - 1)
          BY <1>3, <4>2
        <5> QED BY <1>4, <3>1, <3>2, <4>2, <5>1
      <4> QED BY <4>1, <4>2
    <3>4. u = [k \in 1..n |-> u[k]] /\ v = [k \in 1..n |-> v[k]]
      BY <1>4, <3>1
    <3> QED BY <3>3, <3>4 DEF v
  <2>4. /\ FlattenSeq(PartsOf(cs)) = FlattenSeq(PartsOf(front)) \o c.parts
        /\ FlattenSeq(PartsOf(u)) = FlattenSeq(PartsOf(front)) \o e.parts
    BY <1>3, <2>1, <2>2, <2>3, PartsOfAppend
  <2>5. FlattenSeq(PartsOf(front)) \in Seq(Nat)
    BY PartsOfType, FlattenType
  <2>6. FlattenSeq(PartsOf(u)) = Append(FlattenSeq(PartsOf(cs)), i)
    <3>1. i \in Nat /\ c.parts \in Seq(Nat)
      BY <1>1, <1>5
    <3> DEFINE f == FlattenSeq(PartsOf(front))
    <3> HIDE DEF f
    <3>2. f \o Append(c.parts, i) = Append(f \o c.parts, i)
      BY <2>5, <3>1, AppendConcat DEF f
    <3> QED BY <1>7, <2>4, <3>2 DEF f
  <2>7. FlattenSeq(PartsOf(cs)) = [j \in 1..(i - 1) |-> j]
    BY DEF RunsUpto
  <2>8. Append([j \in 1..(i - 1) |-> j], i) = [j \in 1..i |-> j]
    BY <1>1
  <2> QED BY <2>6, <2>7, <2>8
<1> QED BY <1>4, <1>11, <1>12, <1>13, <1>14, <1>15, <1>16 DEF RunsUpto, u

LEMMA MergedAre ==
  ASSUME NEW base \in Seq(Piece)
  PROVE  RunsUpto(MergeShortTextChunks(base), base, Len(base))
<1>1. Len(base) \in Nat /\ Len(base) \in 0..Len(base) /\ DOMAIN base = 1..Len(base)
  OBVIOUS
<1>2. PICK f : Merges(f, base) /\ MergeShortTextChunks(base) = f[Len(base)]
  BY MergeCounts
<1> DEFINE P == {i \in 0..Len(base) : RunsUpto(f[i], base, i)}
<1>3. 0 \in P
  <2>1. PartsOf(<<>>) = <<>> /\ [j \in 1..0 |-> j] = <<>>
    BY DEF PartsOf
  <2>2. FlattenSeq(PartsOf(<<>>)) = [j \in 1..0 |-> j]
    BY <2>1, FlattenNone
  <2>3. <<>> \in Seq(Chunk) /\ DOMAIN <<>> = {}
    OBVIOUS
  <2>4. RunsUpto(<<>>, base, 0)
    BY <2>2, <2>3 DEF RunsUpto
  <2>5. f[0] = <<>> /\ 0 \in 0..Len(base)
    BY <1>1, <1>2 DEF Merges
  <2> QED BY <2>4, <2>5
<1>4. ASSUME NEW i \in 1..Len(base), i - 1 \in P
      PROVE  i \in P
  <2>1. i \in DOMAIN base /\ i \in 0..Len(base)
    BY <1>1
  <2>2. RunsUpto(f[i - 1], base, i - 1)
    BY <1>4
  <2>3. f[i] = MergeStep(f[i - 1], base, i)
    BY <1>2 DEF Merges
  <2>4. CASE Joins(f[i - 1], base, i)
    <3>1. RunsUpto(Extend(f[i - 1], base, i), base, i)
      BY <2>1, <2>2, <2>4, ExtendRuns
    <3> QED BY <2>1, <2>3, <2>4, <3>1 DEF MergeStep
  <2>5. CASE ~Joins(f[i - 1], base, i)
    <3>1. RunsUpto(Append(f[i - 1], Single(base, i)), base, i)
      BY <2>1, <2>2, <2>5, AppendRuns
    <3> QED BY <2>1, <2>3, <2>5, <3>1 DEF MergeStep
  <2> QED BY <2>4, <2>5
<1> HIDE DEF P
<1>5. Len(base) \in P
  BY <1>1, <1>3, <1>4, Induct
<1> QED BY <1>2, <1>5 DEF P

LEMMA ChunkListType ==
  ASSUME NEW lines \in Texts
  PROVE  Len(BuildChunks(lines)) \in Nat
<1>1. BaseChunks(lines) \in Seq(Piece)
  BY BaseChunksAre DEF PiecesUpto
<1>2. BuildChunks(lines) \in Seq(Chunk)
  BY <1>1, MergedAre DEF BuildChunks, RunsUpto
<1> QED BY <1>2

\* Which pieces a run has.
LEMMA RunIs ==
  ASSUME NEW base, NEW c \in Chunk, IsRun(c, base)
  PROVE  /\ ToSet(c.parts) = Opens(c)..Closes(c)
         /\ Opens(c) \in Nat /\ Closes(c) \in Nat
         /\ \A i \in Opens(c)..Closes(c) : base[i].short = c.short /\ i \in DOMAIN base
         /\ ~c.short => Opens(c) = Closes(c)
         /\ Head(c.parts) = Opens(c) /\ Last(c.parts) = Closes(c)
<1>1. /\ c.parts \in Seq(Nat) /\ Len(c.parts) \in Nat \ {0} /\ DOMAIN c.parts = 1..Len(c.parts)
      /\ Opens(c) \in Nat /\ Closes(c) \in Nat /\ Opens(c) <= Closes(c)
      /\ Closes(c) = Opens(c) + Len(c.parts) - 1
  BY RunEnds
<1>2. /\ \A q \in DOMAIN c.parts : /\ c.parts[q] = Opens(c) + q - 1
                                   /\ c.parts[q] \in DOMAIN base
                                   /\ base[c.parts[q]].short = c.short
      /\ ~c.short => Len(c.parts) = 1
  BY DEF IsRun, Opens
<1>3. c.parts # <<>>
  BY DEF IsRun
<1>4. Head(c.parts) = Opens(c) /\ Last(c.parts) = Closes(c)
  BY <1>1, <1>3, LastIs DEF Opens, Closes
<1>5. ASSUME NEW i \in Opens(c)..Closes(c)
      PROVE  i - Opens(c) + 1 \in DOMAIN c.parts /\ c.parts[i - Opens(c) + 1] = i
  <2>1. i - Opens(c) + 1 \in DOMAIN c.parts
    BY <1>1
  <2> QED BY <1>1, <1>2, <2>1
<1>6. \A q \in DOMAIN c.parts : c.parts[q] \in Opens(c)..Closes(c)
  BY <1>1, <1>2
<1>7. ToSet(c.parts) = Opens(c)..Closes(c)
  BY <1>5, <1>6 DEF ToSet
<1>8. \A i \in Opens(c)..Closes(c) : base[i].short = c.short /\ i \in DOMAIN base
  <2> SUFFICES ASSUME NEW i \in Opens(c)..Closes(c)
               PROVE  base[i].short = c.short /\ i \in DOMAIN base
    OBVIOUS
  <2> DEFINE q == i - Opens(c) + 1
  <2>1. q \in DOMAIN c.parts /\ c.parts[q] = i
    BY <1>5
  <2> HIDE DEF q
  <2> QED BY <1>2, <2>1
<1>9. ~c.short => Opens(c) = Closes(c)
  BY <1>1, <1>2
<1> QED BY <1>1, <1>4, <1>7, <1>8, <1>9

\* Two pieces of different chunks have a piece between them that is not short.
LEMMA ApartAreNotTogether ==
  ASSUME NEW base \in Seq(Piece), NEW n, NEW cs, RunsUpto(cs, base, n),
         NEW c \in DOMAIN cs, NEW d \in DOMAIN cs, c < d,
         NEW i \in ToSet(cs[c].parts), NEW j \in ToSet(cs[d].parts)
  PROVE  i < j /\ ~(\A k \in i..j : base[k].short)
<1>1. cs \in Seq(Chunk) /\ DOMAIN cs = 1..Len(cs) /\ \A k \in DOMAIN cs : cs[k] \in Chunk /\ IsRun(cs[k], base)
  BY DEF RunsUpto
<1> DEFINE e == c + 1
<1>2. e \in DOMAIN cs /\ (e = d \/ e < d) /\ c < e
  BY <1>1
<1> HIDE DEF e
<1>3. /\ i \in Opens(cs[c])..Closes(cs[c]) /\ j \in Opens(cs[d])..Closes(cs[d])
      /\ Opens(cs[c]) \in Nat /\ Closes(cs[c]) \in Nat /\ Opens(cs[d]) \in Nat /\ Closes(cs[d]) \in Nat
      /\ Opens(cs[e]) \in Nat /\ Closes(cs[e]) \in Nat /\ Opens(cs[e]) <= Closes(cs[e])
      /\ Opens(cs[c]) <= Closes(cs[c])
  BY <1>1, <1>2, RunIs, RunEnds
<1>4. Opens(cs[e]) = Closes(cs[c]) + 1 /\ ~(cs[c].short /\ cs[e].short)
  BY <1>2 DEF RunsUpto, e
<1>5. Opens(cs[e]) <= Opens(cs[d])
  <2>1. CASE e = d
    BY <1>3, <2>1
  <2>2. CASE e < d
    <3>1. Closes(cs[e]) < Opens(cs[d])
      BY <1>2, <2>2 DEF RunsUpto
    <3> QED BY <1>3, <3>1
  <2> QED BY <1>2, <2>1, <2>2
<1>6. Closes(cs[c]) \in i..j /\ Opens(cs[e]) \in i..j /\ i < j
  BY <1>3, <1>4, <1>5
<1>7. base[Closes(cs[c])].short = cs[c].short /\ base[Opens(cs[e])].short = cs[e].short
  <2>1. Closes(cs[c]) \in Opens(cs[c])..Closes(cs[c]) /\ Opens(cs[e]) \in Opens(cs[e])..Closes(cs[e])
    BY <1>3
  <2> QED BY <1>1, <1>2, <2>1, RunIs
<1> QED BY <1>4, <1>6, <1>7

\* Of any text, the pieces merge_short_text_chunks puts together are its longest
\* runs of short ones.
THEOREM TextsBecomeRuns ==
  ASSUME NEW lines \in Texts
  PROVE  ChunksAreRuns(lines)
<1> DEFINE base == BaseChunks(lines)
           chunks == BuildChunks(lines)
           n == Len(base)
<1>1. PiecesUpto(base, lines, Len(lines)) /\ base \in Seq(Piece)
  BY BaseChunksAre DEF PiecesUpto
<1>2. RunsUpto(chunks, base, n)
  BY <1>1, MergedAre DEF BuildChunks
<1> HIDE DEF base, chunks
<1>3. n \in Nat /\ DOMAIN base = 1..n
  BY <1>1
<1>4. chunks \in Seq(Chunk) /\ \A c \in DOMAIN chunks : chunks[c] \in Chunk /\ IsRun(chunks[c], base)
  BY <1>2 DEF RunsUpto
<1>5. ASSUME NEW c \in DOMAIN chunks, NEW d \in DOMAIN chunks,
             NEW i \in ToSet(chunks[c].parts), NEW j \in ToSet(chunks[d].parts)
      PROVE  Together(base, i, j) <=> c = d
  <2>1. /\ i \in Opens(chunks[c])..Closes(chunks[c]) /\ j \in Opens(chunks[d])..Closes(chunks[d])
        /\ Opens(chunks[c]) \in Nat /\ Closes(chunks[c]) \in Nat
        /\ Opens(chunks[d]) \in Nat /\ Closes(chunks[d]) \in Nat
    BY <1>4, RunIs
  <2>2. c \in Nat /\ d \in Nat
    BY <1>4
  <2>3. CASE c = d
    <3>1. CASE chunks[c].short
      <4>1. \A k \in Opens(chunks[c])..Closes(chunks[c]) : base[k].short
        BY <1>4, <3>1, RunIs
      <4>2. \A k \in (IF i < j THEN i..j ELSE j..i) : k \in Opens(chunks[c])..Closes(chunks[c])
        BY <2>1, <2>3
      <4> QED BY <2>3, <4>1, <4>2 DEF Together
    <3>2. CASE ~chunks[c].short
      <4>1. Opens(chunks[c]) = Closes(chunks[c])
        BY <1>4, <3>2, RunIs
      <4>2. i = j
        BY <2>1, <2>3, <4>1
      <4> QED BY <2>3, <4>2 DEF Together
    <3> QED BY <3>1, <3>2
  <2>4. CASE c < d
    <3>1. i < j /\ ~(\A k \in i..j : base[k].short)
      BY <1>1, <1>2, <2>4, ApartAreNotTogether
    <3>2. i # j
      BY <2>1, <3>1
    <3> QED BY <2>2, <2>4, <3>1, <3>2 DEF Together
  <2>5. CASE d < c
    <3>1. j < i /\ ~(\A k \in j..i : base[k].short)
      BY <1>1, <1>2, <2>5, ApartAreNotTogether
    <3>2. i # j /\ ~(i < j)
      BY <2>1, <3>1
    <3> QED BY <2>2, <2>5, <3>1, <3>2 DEF Together
  <2> QED BY <2>2, <2>3, <2>4, <2>5
<1> QED BY <1>5 DEF ChunksAreRuns, base, chunks

\* What build_chunks makes of any text leaves none of it out and repeats none,
\* keeps the long pieces apart, and names the lines each chunk is on: no line
\* that has text is outside every chunk.
THEOREM ChunksCoverTexts ==
  ASSUME NEW lines \in Texts
  PROVE  ChunksCover(lines)
<1> DEFINE base == BaseChunks(lines)
           chunks == BuildChunks(lines)
           n == Len(base)
<1>1. PiecesUpto(base, lines, Len(lines)) /\ base \in Seq(Piece)
  BY BaseChunksAre DEF PiecesUpto
<1>2. RunsUpto(chunks, base, n)
  BY <1>1, MergedAre DEF BuildChunks
<1> HIDE DEF base, chunks
<1>3. n \in Nat /\ DOMAIN base = 1..n
  BY <1>1
<1>4. chunks \in Seq(Chunk) /\ \A c \in DOMAIN chunks : chunks[c] \in Chunk /\ IsRun(chunks[c], base)
  BY <1>2 DEF RunsUpto
<1>5. FlattenSeq([c \in DOMAIN chunks |-> chunks[c].parts]) = [i \in DOMAIN base |-> i]
  BY <1>2, <1>3 DEF RunsUpto, PartsOf
<1>6. ASSUME NEW i \in DOMAIN lines, \E s \in ToSet(lines[i]) : s # "blank"
      PROVE  \E c \in DOMAIN chunks : i \in chunks[c].first..chunks[c].last
  <2>1. i \in 1..Len(lines) /\ HasText(lines[i])
    BY <1>6 DEF HasText, Texts
  <2>2. PICK k \in DOMAIN base : base[k].line = i
    BY <1>1, <2>1 DEF PiecesUpto
  <2>3. k \in ToSet(FlattenSeq(PartsOf(chunks)))
    <3>1. FlattenSeq(PartsOf(chunks)) = [j \in DOMAIN base |-> j]
      BY <1>5 DEF PartsOf
    <3> QED BY <3>1, <2>2 DEF ToSet
  <2>4. PICK c \in DOMAIN PartsOf(chunks) : k \in ToSet(PartsOf(chunks)[c])
    <3>1. PartsOf(chunks) \in Seq(Seq(Nat))
      BY <1>4, PartsOfType
    <3>2. k \in UNION {ToSet(PartsOf(chunks)[c]) : c \in DOMAIN PartsOf(chunks)}
      BY <2>3, <3>1, FlattenRange
    <3> QED BY <3>2
  <2>5. c \in DOMAIN chunks /\ k \in ToSet(chunks[c].parts)
    BY <2>4 DEF PartsOf
  <2> DEFINE run == chunks[c]
  <2>6. run \in Chunk /\ IsRun(run, base)
    BY <1>4, <2>5
  <2>7. k \in Opens(run)..Closes(run) /\ Opens(run) \in Nat /\ Closes(run) \in Nat
    BY <2>5, <2>6, RunIs
  <2>8. Opens(run) \in DOMAIN base /\ Closes(run) \in DOMAIN base
    <3>1. Opens(run) \in Opens(run)..Closes(run) /\ Closes(run) \in Opens(run)..Closes(run)
      BY <2>7
    <3> HIDE DEF run
    <3> QED BY <2>6, <3>1, RunIs
  <2>9. run.first = base[Opens(run)].line /\ run.last = base[Closes(run)].line
    BY <2>6 DEF IsRun, Opens, Closes
  <2> HIDE DEF run
  <2>10. run.first <= i /\ i <= run.last
    <3>1. \A a, b \in DOMAIN base : a < b => base[a].line <= base[b].line
      BY <1>1 DEF PiecesUpto
    <3>2. \A a \in DOMAIN base : base[a].line \in Nat
      BY <1>1 DEF PiecesUpto
    <3>3. Opens(run) < k \/ Opens(run) = k
      BY <2>7
    <3>4. k < Closes(run) \/ k = Closes(run)
      BY <2>7
    <3>5. run.first \in Nat /\ run.last \in Nat /\ i \in Nat
      BY <2>2, <2>8, <2>9, <3>2
    <3> QED BY <2>2, <2>8, <2>9, <3>1, <3>3, <3>4, <3>5
  <2>11. run.first \in Nat /\ run.last \in Nat /\ i \in Nat
    BY <2>1, <2>6 DEF Chunk
  <2>12. i \in run.first..run.last
    BY <2>10, <2>11
  <2> QED BY <2>5, <2>12 DEF run
<1>7. ASSUME NEW c \in DOMAIN chunks
      PROVE  /\ Len(chunks[c].parts) > 1 => \A i \in ToSet(chunks[c].parts) : base[i].short
             /\ chunks[c].first = base[Head(chunks[c].parts)].line
             /\ chunks[c].last = base[Last(chunks[c].parts)].line
  <2>1. chunks[c] \in Chunk /\ IsRun(chunks[c], base)
    BY <1>4, <1>7
  <2>2. Head(chunks[c].parts) = Opens(chunks[c]) /\ Last(chunks[c].parts) = Closes(chunks[c])
    BY <2>1, RunIs
  <2>3. chunks[c].first = base[Opens(chunks[c])].line /\ chunks[c].last = base[Closes(chunks[c])].line
    BY <2>1 DEF IsRun, Opens, Closes
  <2>4. Len(chunks[c].parts) > 1 => chunks[c].short
    BY <2>1 DEF IsRun
  <2>5. \A i \in ToSet(chunks[c].parts) : base[i].short = chunks[c].short
    BY <2>1, RunIs
  <2> QED BY <2>2, <2>3, <2>4, <2>5
<1> QED BY <1>5, <1>6, <1>7 DEF ChunksCover, base, chunks

-----------------------------------------------------------------------------
(* The parts of an identifier *)

Word == Seq(Char)
State == [parts : Seq(Word), current : Word, lower : BOOLEAN]

LEMMA LowerCaseType ==
  ASSUME NEW word \in Word
  PROVE  LowerCase(word) \in Word /\ Len(LowerCase(word)) = Len(word)
<1>1. Len(word) \in Nat /\ DOMAIN word = 1..Len(word) /\ \A i \in DOMAIN word : word[i] \in Char
  BY DEF Word
<1>2. \A ch \in Char : (IF ch \in DOMAIN Upper THEN Upper[ch] ELSE ch) \in Char
  <2>1. DOMAIN Upper = {"A", "B"} /\ Upper["A"] = "a" /\ Upper["B"] = "b"
    BY DEF Upper
  <2>2. "a" \in Char /\ "b" \in Char
    BY DEF Char, Lower
  <2> QED BY <2>1, <2>2
<1> HIDE DEF Char
<1>3. LowerCase(word) \in [1..Len(word) -> Char]
  BY <1>1, <1>2 DEF LowerCase
<1> QED BY <1>1, <1>3 DEF Word

\* One character in lower case.
Small(ch) == LowerCase(<<ch>>)[1]

LEMMA SmallType ==
  ASSUME NEW ch \in Char
  PROVE  Small(ch) \in Char
<1>1. <<ch>> \in Word /\ Len(<<ch>>) = 1
  BY DEF Word
<1>2. LowerCase(<<ch>>) \in Word /\ Len(LowerCase(<<ch>>)) = 1
  BY <1>1, LowerCaseType
<1> QED BY <1>2 DEF Small, Word

LEMMA SplitStepType ==
  ASSUME NEW s \in State, NEW ch \in Char
  PROVE  SplitStep(s, ch) \in State
<1>1. s.parts \in Seq(Word) /\ s.current \in Word /\ s.lower \in BOOLEAN
  BY DEF State
<1>2. <<>> \in Word /\ FALSE \in BOOLEAN
  BY DEF Word
<1>3. Push(s.parts, s.current) \in Seq(Word)
  BY <1>1 DEF Push
<1>4. \A w \in Word : Append(w, Small(ch)) \in Word
  BY SmallType DEF Word
<1>5. (ch \in Lower \cup Digit) \in BOOLEAN
  OBVIOUS
<1> DEFINE Made(p, w, b) == [parts |-> p, current |-> w, lower |-> b]
<1>0. \A p \in Seq(Word), w \in Word, b \in BOOLEAN : Made(p, w, b) \in State
  BY Zenon DEF State
<1> HIDE DEF Made
<1>6. CASE ch = "_"
  <2>1. SplitStep(s, ch) = Made(Push(s.parts, s.current), <<>>, FALSE)
    BY <1>6 DEF SplitStep, Made
  <2> QED BY <2>1, <1>0, <1>2, <1>3
<1>7. CASE ch # "_"
  <2> DEFINE cut == ch \in DOMAIN Upper /\ s.lower
             ps == IF cut THEN Push(s.parts, s.current) ELSE s.parts
             w == IF cut THEN <<>> ELSE s.current
  <2>1. SplitStep(s, ch) = Made(ps, Append(w, Small(ch)), ch \in Lower \cup Digit)
    BY <1>7, Zenon DEF SplitStep, Small, Made
  <2>2. ps \in Seq(Word) /\ w \in Word
    BY <1>1, <1>2, <1>3
  <2> HIDE DEF ps, w
  <2>3. Append(w, Small(ch)) \in Word
    BY <1>4, <2>2
  <2>4. Made(ps, Append(w, Small(ch)), ch \in Lower \cup Digit) \in State
    BY <1>0, <1>5, <2>2, <2>3, Zenon
  <2> QED BY <2>1, <2>4
<1> QED BY <1>6, <1>7

Blank == [parts |-> <<>>, current |-> <<>>, lower |-> FALSE]

\* How Parts goes through an identifier.
Scans(f, word) ==
  /\ f \in [0..Len(word) -> State]
  /\ f[0] = Blank
  /\ \A i \in 1..Len(word) : f[i] = SplitStep(f[i - 1], word[i])

LEMMA ScanCounts ==
  ASSUME NEW word \in Word
  PROVE  \E f : /\ Scans(f, word)
                /\ Parts(word) = Push(f[Len(word)].parts, f[Len(word)].current)
<1> DEFINE n == Len(word)
           step == [i \in 1..n |-> [x \in State |-> SplitStep(x, word[i])]]
           Eq(f) == f = [i \in 0..Len(word) |->
                           IF i = 0 THEN [parts |-> <<>>, current |-> <<>>, lower |-> FALSE]
                           ELSE LET before == f[i - 1] IN SplitStep(before, word[i])]
           g == CHOOSE f : Eq(f)
<1>1. n \in Nat /\ \A i \in 1..n : word[i] \in Char
  BY DEF Word
<1>2. Blank \in State
  <2>1. <<>> \in Word /\ <<>> \in Seq(Word) /\ FALSE \in BOOLEAN
    BY DEF Word
  <2> QED BY <2>1, Zenon DEF Blank, State
<1>3. \A i \in 1..n : \A x \in State : step[i][x] = SplitStep(x, word[i])
  OBVIOUS
<1>4. \A i \in 1..n : \A x \in State : SplitStep(x, word[i]) \in State
  BY <1>1, SplitStepType
<1> HIDE DEF step
<1>5. PICK f : RunOf(f, Blank, step, n, State)
  <2>1. Steps(step, n, State)
    BY <1>3, <1>4 DEF Steps
  <2> HIDE DEF n
  <2> QED BY <1>1, <1>2, <2>1, Recursion
<1>6. Eq(f)
  <2>1. f \in [0..n -> State] /\ f[0] = Blank /\ \A i \in 1..n : f[i] = step[i][f[i - 1]]
    BY <1>5 DEF RunOf
  <2>2. ASSUME NEW i \in 0..n
        PROVE  f[i] = IF i = 0 THEN Blank ELSE SplitStep(f[i - 1], word[i])
    <3>1. CASE i = 0
      BY <2>1, <3>1
    <3>2. CASE i # 0
      <4>1. i \in 1..n /\ i - 1 \in 0..n
        BY <1>1, <3>2
      <4>2. f[i - 1] \in State
        BY <2>1, <4>1
      <4> QED BY <1>3, <2>1, <3>2, <4>1, <4>2
    <3> QED BY <3>1, <3>2
  <2>3. f = [i \in 0..n |-> IF i = 0 THEN Blank ELSE SplitStep(f[i - 1], word[i])]
    BY <2>1, <2>2
  <2> QED BY <2>3 DEF Blank
<1>7. Eq(g)
  BY <1>6
<1>8. Parts(word) = Push(g[n].parts, g[n].current)
  BY DEF Parts
<1>9. g = [i \in 0..n |-> IF i = 0 THEN Blank ELSE SplitStep(g[i - 1], word[i])]
  BY <1>7 DEF Blank
<1> HIDE DEF g, n
<1>10. g[0] = Blank /\ \A i \in 1..n : g[i] = SplitStep(g[i - 1], word[i])
  <2>1. 0 \in 0..n /\ \A i \in 1..n : i \in 0..n /\ i # 0
    BY <1>1
  <2>2. \A i \in 0..n : g[i] = IF i = 0 THEN Blank ELSE SplitStep(g[i - 1], word[i])
    BY <1>9
  <2> QED BY <2>1, <2>2
<1> DEFINE P == {i \in 0..n : g[i] \in State}
<1>11. 0 \in P
  BY <1>1, <1>2, <1>10
<1>12. ASSUME NEW i \in 1..n, i - 1 \in P
       PROVE  i \in P
  <2>1. i \in 0..n /\ g[i - 1] \in State
    BY <1>1, <1>12
  <2> QED BY <1>4, <1>10, <2>1
<1> HIDE DEF P
<1>13. \A i \in 0..n : i \in P
  BY <1>1, <1>11, <1>12, Induct
<1>14. g \in [0..n -> State]
  <2>1. \A i \in 0..n : g[i] \in State
    BY <1>13 DEF P
  <2>2. g = [i \in 0..n |-> g[i]]
    BY <1>9
  <2> QED BY <2>1, <2>2
<1> QED BY <1>8, <1>10, <1>14 DEF Scans, n

LEMMA PartsType ==
  ASSUME NEW word \in Word
  PROVE  Parts(word) \in Seq(Word)
<1>1. PICK f : /\ Scans(f, word)
               /\ Parts(word) = Push(f[Len(word)].parts, f[Len(word)].current)
  BY ScanCounts
<1>2. Len(word) \in 0..Len(word)
  BY DEF Word
<1>3. f[Len(word)] \in State
  BY <1>1, <1>2 DEF Scans
<1>4. f[Len(word)].parts \in Seq(Word) /\ f[Len(word)].current \in Word
  BY <1>3 DEF State
<1> QED BY <1>1, <1>4 DEF Push

\* The letters from b to e, in lower case.
Run(word, b, e) == LowerCase(SubSeq(word, b, e))

LEMMA SmallIs ==
  ASSUME NEW ch
  PROVE  Small(ch) = IF ch \in DOMAIN Upper THEN Upper[ch] ELSE ch
<1>1. DOMAIN <<ch>> = 1..1 /\ <<ch>>[1] = ch /\ 1 \in 1..1
  OBVIOUS
<1> QED BY <1>1 DEF Small, LowerCase

LEMMA RunLetters ==
  ASSUME NEW word \in Word, NEW b \in Nat \ {0}, NEW e \in 0..Len(word)
  PROVE  /\ Run(word, b, e) \in Word
         /\ Len(Run(word, b, e)) = (IF b <= e THEN e - b + 1 ELSE 0)
         /\ \A k \in 1..(e - b + 1) : Run(word, b, e)[k] = Small(word[b + k - 1])
<1> DEFINE w == SubSeq(word, b, e)
<1>1. Len(word) \in Nat /\ word \in Seq(Char)
  BY DEF Word
<1>2. /\ w \in Seq(Char) /\ Len(w) = (IF b <= e THEN e - b + 1 ELSE 0) /\ DOMAIN w = 1..Len(w)
      /\ \A k \in 1..(e - b + 1) : w[k] = word[b + k - 1]
  BY <1>1
<1> HIDE DEF w
<1>3. LowerCase(w) \in Word /\ Len(LowerCase(w)) = Len(w)
  BY <1>2, LowerCaseType DEF Word
<1>4. \A k \in DOMAIN w : LowerCase(w)[k] = Small(w[k])
  BY SmallIs DEF LowerCase
<1>5. \A k \in 1..(e - b + 1) : k \in DOMAIN w
  BY <1>1, <1>2
<1> QED BY <1>2, <1>3, <1>4, <1>5 DEF Run, w

LEMMA RunOfNone ==
  ASSUME NEW word \in Word, NEW i \in 1..Len(word)
  PROVE  Run(word, i, i - 1) = <<>>
<1>1. i - 1 \in 0..Len(word) /\ i \in Nat \ {0} /\ ~(i <= i - 1)
  BY DEF Word
<1>2. Run(word, i, i - 1) \in Word /\ Len(Run(word, i, i - 1)) = 0
  BY <1>1, RunLetters
<1> QED BY <1>2 DEF Word

LEMMA RunGrows ==
  ASSUME NEW word \in Word, NEW i \in 1..Len(word), NEW b \in 1..i
  PROVE  /\ Append(Run(word, b, i - 1), Small(word[i])) = Run(word, b, i)
         /\ Run(word, b, i) # <<>>
<1> DEFINE s == Run(word, b, i - 1)
           t == Run(word, b, i)
           u == Append(s, Small(word[i]))
           m == i - b
<1>1. /\ i \in Nat \ {0} /\ b \in Nat \ {0} /\ i - 1 \in 0..Len(word) /\ i \in 0..Len(word)
      /\ m \in Nat /\ i - b + 1 = m + 1 /\ (i - 1) - b + 1 = m /\ b <= i
      /\ (IF b <= i - 1 THEN (i - 1) - b + 1 ELSE 0) = m
  BY DEF Word
<1>2. word[i] \in Char
  BY DEF Word
<1>3. s \in Word /\ Len(s) = m /\ \A k \in 1..m : s[k] = Small(word[b + k - 1])
  BY <1>1, RunLetters
<1>4. t \in Word /\ Len(t) = m + 1 /\ \A k \in 1..(m + 1) : t[k] = Small(word[b + k - 1])
  BY <1>1, RunLetters
<1>5. b + (m + 1) - 1 = i
  BY <1>1
<1> HIDE DEF s, t, m
<1>6. /\ u \in Seq(Char) /\ DOMAIN u = 1..(m + 1) /\ u[m + 1] = Small(word[i])
      /\ \A k \in 1..m : u[k] = s[k]
  BY <1>2, <1>3, SmallType, AppendIs DEF Word
<1> HIDE DEF u
<1>7. DOMAIN t = 1..(m + 1) /\ t \in Seq(Char)
  BY <1>1, <1>4 DEF Word
<1>8. ASSUME NEW k \in 1..(m + 1)
      PROVE  u[k] = t[k]
  <2>1. CASE k = m + 1
    BY <1>4, <1>5, <1>6, <2>1
  <2>2. CASE k # m + 1
    <3>1. k \in 1..m
      BY <1>1, <2>2
    <3> QED BY <1>3, <1>4, <1>6, <3>1
  <2> QED BY <2>1, <2>2
<1>9. u = t
  <2>1. u = [k \in 1..(m + 1) |-> u[k]] /\ t = [k \in 1..(m + 1) |-> t[k]]
    BY <1>6, <1>7
  <2> QED BY <1>8, <2>1
<1>10. t # <<>>
  BY <1>1, <1>4
<1> QED BY <1>9, <1>10 DEF u, s, t

\* Runs from and to the given places.
RunsOf(word, as, zs) == [k \in 1..Len(zs) |-> Run(word, as[k], zs[k])]

LEMMA RunsOfAppend ==
  ASSUME NEW word \in Word, NEW zs \in Seq(Nat), NEW as, NEW e \in Nat
  PROVE  Append(RunsOf(word, as, zs), Run(word, as[Len(zs) + 1], e)) = RunsOf(word, as, Append(zs, e))
<1> DEFINE m == Len(zs)
           ys == Append(zs, e)
           s == RunsOf(word, as, zs)
           t == RunsOf(word, as, ys)
           x == Run(word, as[m + 1], e)
           u == Append(s, x)
<1>1. m \in Nat /\ ys[m + 1] = e /\ Len(ys) = m + 1 /\ \A k \in 1..m : ys[k] = zs[k]
  BY AppendIs
<1> HIDE DEF m, ys, x
<1>2. t = [k \in 1..(m + 1) |-> Run(word, as[k], ys[k])]
  BY <1>1 DEF RunsOf
<1>3. s = [k \in 1..m |-> Run(word, as[k], zs[k])]
  BY DEF RunsOf, m
<1> DEFINE T == {s[k] : k \in 1..m} \cup {x}
<1>4. s \in [1..m -> T] /\ x \in T
  BY <1>3
<1> HIDE DEF T, s
<1>5. s \in Seq(T) /\ Len(s) = m
  BY <1>1, <1>4
<1>6. /\ u \in Seq(T) /\ DOMAIN u = 1..(m + 1) /\ u[m + 1] = x
      /\ \A k \in 1..m : u[k] = s[k]
  BY <1>4, <1>5, AppendIs
<1> HIDE DEF u, t
<1>7. ASSUME NEW k \in 1..(m + 1)
      PROVE  u[k] = t[k]
  <2>2. CASE k = m + 1
    BY <1>1, <1>2, <1>6, <2>2 DEF x
  <2>3. CASE k # m + 1
    <3>1. k \in 1..m
      BY <1>1, <2>3
    <3> QED BY <1>1, <1>2, <1>3, <1>6, <3>1
  <2> QED BY <2>2, <2>3
<1>8. u = [k \in 1..(m + 1) |-> u[k]] /\ t = [k \in 1..(m + 1) |-> t[k]]
  BY <1>2, <1>6
<1> QED BY <1>7, <1>8 DEF u, s, t, x, ys, m

Letters(word) == {i \in DOMAIN word : word[i] # "_"}
Starts(word) == {i \in Letters(word) : i = 1 \/ ~InOnePart(word, i - 1)}
Stops(word)  == {i \in Letters(word) : i = Len(word) \/ ~InOnePart(word, i)}

\* After i characters: a part is being read, a part ends before the next one,
\* the places where parts have ended.
Open(word, i) == i # 0 /\ word[i] # "_"
Cut(word, i) == word[i] \in DOMAIN Upper /\ word[i - 1] \in Lower \cup Digit
Closed(word, z, i) == IF Open(word, i) THEN z[i - 1] ELSE z[i]

\* The beginnings and the ends of parts, one character later.
Begun(word, i, as) ==
  IF Open(word, i) /\ (~Open(word, i - 1) \/ Cut(word, i)) THEN Append(as, i) ELSE as
Ended(word, i, zs) ==
  IF Open(word, i - 1) /\ (~Open(word, i) \/ Cut(word, i)) THEN Append(zs, i - 1) ELSE zs

LEMMA StartsGrow ==
  ASSUME NEW word \in Word, NEW a, Picks(a, Starts(word), Len(word)), NEW i \in 1..Len(word)
  PROVE  a[i] = Begun(word, i, a[i - 1])
<1> USE DEF Begun
<1>1. Len(word) \in Nat /\ DOMAIN word = 1..Len(word) /\ i # 0
  BY DEF Word
<1>2. a[i] = IF i \in Starts(word) THEN Append(a[i - 1], i) ELSE a[i - 1]
  BY DEF Picks
<1>3. i \in Starts(word) <=> Open(word, i) /\ (i = 1 \/ ~InOnePart(word, i - 1))
  BY <1>1 DEF Starts, Letters, Open
<1>4. CASE i = 1
  <2>1. ~Open(word, i - 1)
    BY <1>4 DEF Open
  <2> QED BY <1>2, <1>3, <1>4, <2>1
<1>5. CASE i # 1
  <2>1. i - 1 # 0 /\ (i - 1) + 1 = i
    BY <1>1, <1>5
  <2>2. Open(word, i) => (InOnePart(word, i - 1) <=> Open(word, i - 1) /\ ~Cut(word, i))
    BY <2>1 DEF Open, InOnePart, Cut
  <2> QED BY <1>2, <1>3, <1>5, <2>2
<1> QED BY <1>4, <1>5

LEMMA StopsGrow ==
  ASSUME NEW word \in Word, NEW z, Picks(z, Stops(word), Len(word)), NEW i \in 1..Len(word)
  PROVE  Closed(word, z, i) = Ended(word, i, Closed(word, z, i - 1))
<1> USE DEF Ended
<1>1. Len(word) \in Nat /\ DOMAIN word = 1..Len(word) /\ i # 0
  BY DEF Word
<1>2. Closed(word, z, i) = z[i - 1]
  <2>1. CASE Open(word, i)
    BY <2>1 DEF Closed
  <2>2. CASE ~Open(word, i)
    <3>1. i \notin Stops(word)
      BY <1>1, <2>2 DEF Stops, Letters, Open
    <3>2. z[i] = z[i - 1]
      BY <3>1 DEF Picks
    <3> QED BY <2>2, <3>2 DEF Closed
  <2> QED BY <2>1, <2>2
<1>3. CASE ~Open(word, i - 1)
  BY <1>2, <1>3 DEF Closed
<1>4. CASE Open(word, i - 1)
  <2>1. i - 1 # 0
    BY <1>4 DEF Open
  <2>2. i - 1 \in 1..Len(word) /\ i - 1 # Len(word) /\ (i - 1) + 1 = i
    BY <1>1, <2>1
  <2>3. z[i - 1] = IF i - 1 \in Stops(word) THEN Append(z[(i - 1) - 1], i - 1) ELSE z[(i - 1) - 1]
    BY <2>2 DEF Picks
  <2>4. i - 1 \in Stops(word) <=> ~InOnePart(word, i - 1)
    BY <1>1, <1>4, <2>2 DEF Stops, Letters, Open
  <2>5. InOnePart(word, i - 1) <=> Open(word, i) /\ ~Cut(word, i)
    BY <1>1, <1>4, <2>2 DEF Open, InOnePart, Cut
  <2>6. Closed(word, z, i - 1) = z[(i - 1) - 1]
    BY <1>4 DEF Closed
  <2> QED BY <1>2, <1>4, <2>3, <2>4, <2>5, <2>6
<1> QED BY <1>3, <1>4

\* What the scan has after i characters, with the places where the parts
\* begin and end.
SplitUpto(s, word, i, as, zs) ==
  /\ Len(as) = Len(zs) + (IF Open(word, i) THEN 1 ELSE 0)
  /\ s.parts = RunsOf(word, as, zs)
  /\ s.current = IF Open(word, i) THEN Run(word, as[Len(as)], i) ELSE <<>>
  /\ s.lower <=> Open(word, i) /\ word[i] \in Lower \cup Digit

LEMMA SplitStepIs ==
  ASSUME NEW word \in Word, NEW i \in 1..Len(word), NEW s \in State,
         s.lower <=> Open(word, i - 1) /\ word[i - 1] \in Lower \cup Digit,
         NEW t, t = SplitStep(s, word[i])
  PROVE  /\ t.lower <=> Open(word, i) /\ word[i] \in Lower \cup Digit
         /\ ~Open(word, i) => t.parts = Push(s.parts, s.current) /\ t.current = <<>>
         /\ Open(word, i) /\ Open(word, i - 1) /\ Cut(word, i) =>
              t.parts = Push(s.parts, s.current) /\ t.current = Append(<<>>, Small(word[i]))
         /\ Open(word, i) /\ ~(Open(word, i - 1) /\ Cut(word, i)) =>
              t.parts = s.parts /\ t.current = Append(s.current, Small(word[i]))
<1> DEFINE ch == word[i]
           push == Push(s.parts, s.current)
           cut == ch \in DOMAIN Upper /\ s.lower
           low == ch \in Lower \cup Digit
           small == Small(ch)
<1>1. Open(word, i) <=> ch # "_"
  <2>1. i # 0
    BY DEF Word
  <2> QED BY <2>1 DEF Open
<1>2. cut <=> Open(word, i - 1) /\ Cut(word, i)
  BY DEF Cut
<1>3. t = IF ch = "_" THEN [parts |-> push, current |-> <<>>, lower |-> FALSE]
          ELSE [parts   |-> IF cut THEN push ELSE s.parts,
                current |-> Append(IF cut THEN <<>> ELSE s.current, small),
                lower   |-> low]
  BY Zenon DEF SplitStep, Small
<1>4. low \in BOOLEAN /\ (low <=> word[i] \in Lower \cup Digit)
  OBVIOUS
<1>5. cut \in BOOLEAN
  OBVIOUS
<1> HIDE DEF ch, push, cut, low, small
<1>6. CASE ~Open(word, i)
  <2>1. t = [parts |-> push, current |-> <<>>, lower |-> FALSE]
    BY <1>1, <1>3, <1>6, Zenon
  <2> QED BY <2>1, <1>6 DEF push
<1>7. CASE Open(word, i) /\ cut
  <2>1. t = [parts |-> push, current |-> Append(<<>>, small), lower |-> low]
    BY <1>1, <1>3, <1>5, <1>7, Zenon
  <2>2. t.parts = push /\ t.current = Append(<<>>, small) /\ t.lower = low
    BY <2>1
  <2>3. t.lower <=> low
    BY <2>2, Zenon
  <2> QED BY <2>2, <2>3, <1>2, <1>4, <1>7, Zenon DEF push, small, ch
<1>8. CASE Open(word, i) /\ ~cut
  <2>1. t = [parts |-> s.parts, current |-> Append(s.current, small), lower |-> low]
    BY <1>1, <1>3, <1>5, <1>8, Zenon
  <2>2. t.parts = s.parts /\ t.current = Append(s.current, small) /\ t.lower = low
    BY <2>1
  <2>3. t.lower <=> low
    BY <2>2, Zenon
  <2> QED BY <2>2, <2>3, <1>2, <1>4, <1>8, Zenon DEF push, small, ch
<1> QED BY <1>6, <1>7, <1>8

LEMMA SplitOnce ==
  ASSUME NEW word \in Word, NEW i \in 1..Len(word), NEW s \in State,
         NEW as \in Seq(Nat), \A k \in DOMAIN as : as[k] \in 1..(i - 1),
         NEW zs \in Seq(Nat), SplitUpto(s, word, i - 1, as, zs),
         NEW as2, as2 = Begun(word, i, as),
         NEW zs2, zs2 = Ended(word, i, zs)
  PROVE  SplitUpto(SplitStep(s, word[i]), word, i, as2, zs2)
<1> DEFINE t == SplitStep(s, word[i])
           push == Push(s.parts, s.current)
           one == Append(<<>>, Small(word[i]))
<1> HIDE DEF t, push, one
<1>1. i \in Nat /\ i # 0 /\ Len(word) \in Nat /\ i - 1 \in Nat
  BY DEF Word
<1>2. Len(as) \in Nat /\ Len(zs) \in Nat /\ DOMAIN as = 1..Len(as)
  BY LengthIs
<1>3. /\ Len(Append(as, i)) = Len(as) + 1 /\ Append(as, i)[Len(as) + 1] = i
      /\ \A k \in 1..Len(as) : Append(as, i)[k] = as[k]
  BY <1>1, AppendNat, Zenon
<1>4. Len(Append(zs, i - 1)) = Len(zs) + 1
  BY <1>1, AppendNat
<1>5. one = Run(word, i, i)
  <2>1. i \in 1..i
    BY <1>1
  <2>2. Append(Run(word, i, i - 1), Small(word[i])) = Run(word, i, i)
    BY <2>1, RunGrows
  <2> QED BY <2>2, RunOfNone DEF one
<1>6. s.lower <=> Open(word, i - 1) /\ word[i - 1] \in Lower \cup Digit
  BY DEF SplitUpto
<1>7. /\ t.lower <=> Open(word, i) /\ word[i] \in Lower \cup Digit
      /\ ~Open(word, i) => t.parts = push /\ t.current = <<>>
      /\ Open(word, i) /\ Open(word, i - 1) /\ Cut(word, i) => t.parts = push /\ t.current = one
      /\ Open(word, i) /\ ~(Open(word, i - 1) /\ Cut(word, i)) =>
           t.parts = s.parts /\ t.current = Append(s.current, Small(word[i]))
  BY <1>6, SplitStepIs DEF t, push, one
<1>8. SUFFICES /\ Len(as2) = Len(zs2) + (IF Open(word, i) THEN 1 ELSE 0)
               /\ t.parts = RunsOf(word, as2, zs2)
               /\ t.current = IF Open(word, i) THEN Run(word, as2[Len(as2)], i) ELSE <<>>
  BY <1>7 DEF SplitUpto, t
<1>9. CASE Open(word, i - 1)
  <2>1. /\ Len(as) = Len(zs) + 1 /\ s.parts = RunsOf(word, as, zs)
        /\ s.current = Run(word, as[Len(as)], i - 1)
    BY <1>9 DEF SplitUpto
  <2>2. as[Len(as)] \in 1..(i - 1) /\ as[Len(as)] \in 1..i /\ i - 1 \in 1..Len(word)
    <3>1. Len(as) \in DOMAIN as
      BY <1>2, <2>1
    <3>2. as[Len(as)] \in 1..(i - 1)
      BY <3>1
    <3> DEFINE b == as[Len(as)]
    <3>3. b \in 1..(i - 1)
      BY <3>2
    <3> HIDE DEF b
    <3>4. b \in 1..i /\ i - 1 \in 1..Len(word)
      BY <1>1, <3>3
    <3> QED BY <3>3, <3>4 DEF b
  <2>3. push = Append(s.parts, s.current)
    <3>1. s.current # <<>>
      BY <2>1, <2>2, RunGrows
    <3> QED BY <3>1 DEF Push, push
  <2>4. push = RunsOf(word, as, Append(zs, i - 1))
    <3>1. Append(RunsOf(word, as, zs), Run(word, as[Len(zs) + 1], i - 1)) = RunsOf(word, as, Append(zs, i - 1))
      BY <1>1, RunsOfAppend, Zenon
    <3> QED BY <2>1, <2>3, <3>1, Zenon
  <2>5. CASE ~Open(word, i)
    <3>1. as2 = as /\ zs2 = Append(zs, i - 1)
      BY <1>9, <2>5 DEF Begun, Ended
    <3>2. push = RunsOf(word, as2, zs2)
      BY <2>4, <3>1
    <3>3. Len(as2) = Len(zs2)
      BY <1>4, <2>1, <3>1
    <3> DEFINE m == Len(zs)
    <3>4. m \in Nat /\ Len(zs2) = m + 1
      BY <1>2, <1>4, <3>1, Zenon
    <3> HIDE DEF m
    <3>5. Len(zs2) \in Nat
      BY <3>4
    <3>6. Len(zs2) = Len(zs2) + 0
      BY <3>5
    <3> QED BY <1>7, <2>5, <3>2, <3>3, <3>6
  <2>6. CASE Open(word, i) /\ Cut(word, i)
    <3>1. as2 = Append(as, i) /\ zs2 = Append(zs, i - 1)
      BY <1>9, <2>6 DEF Begun, Ended
    <3>2. \A k \in 1..Len(zs2) : as2[k] = as[k]
      BY <1>3, <1>4, <2>1, <3>1
    <3>3. push = RunsOf(word, as2, zs2)
      BY <2>4, <3>1, <3>2 DEF RunsOf
    <3>4. as2[Len(as2)] = i /\ Len(as2) = Len(zs2) + 1
      BY <1>2, <1>3, <1>4, <2>1, <3>1
    <3> QED BY <1>5, <1>7, <1>9, <2>6, <3>3, <3>4
  <2>7. CASE Open(word, i) /\ ~Cut(word, i)
    <3>1. as2 = as /\ zs2 = zs
      BY <1>9, <2>7 DEF Begun, Ended
    <3>2. Append(s.current, Small(word[i])) = Run(word, as2[Len(as2)], i)
      BY <2>1, <2>2, <3>1, RunGrows
    <3> QED BY <1>7, <2>1, <2>7, <3>1, <3>2
  <2> QED BY <2>5, <2>6, <2>7
<1>10. CASE ~Open(word, i - 1)
  <2>1. Len(as) = Len(zs) /\ s.parts = RunsOf(word, as, zs) /\ s.current = <<>>
    BY <1>2, <1>10 DEF SplitUpto
  <2>2. zs2 = zs
    BY <1>10 DEF Begun, Ended
  <2>3. CASE ~Open(word, i)
    <3>1. as2 = as
      BY <2>3 DEF Begun, Ended
    <3>2. push = s.parts
      BY <2>1 DEF Push, push
    <3>3. Len(as2) = Len(zs2)
      BY <2>1, <2>2, <3>1
    <3>4. Len(zs2) = Len(zs2) + 0
      BY <1>2, <2>2
    <3> QED BY <3>4, <1>7, <2>1, <2>2, <2>3, <3>1, <3>2, <3>3
  <2>4. CASE Open(word, i)
    <3>1. as2 = Append(as, i)
      BY <1>10, <2>4 DEF Begun, Ended
    <3>2. as2[Len(as2)] = i /\ Len(as2) = Len(zs2) + 1
      BY <1>2, <1>3, <2>1, <2>2, <3>1
    <3>3. RunsOf(word, as2, zs2) = RunsOf(word, as, zs)
      <4>1. \A k \in 1..Len(zs) : as2[k] = as[k]
        BY <1>3, <2>1, <3>1
      <4> QED BY <2>2, <4>1 DEF RunsOf
    <3>4. t.parts = s.parts /\ t.current = one
      BY <1>7, <1>10, <2>1, <2>4 DEF one
    <3> QED BY <1>5, <2>1, <2>4, <3>2, <3>3, <3>4
  <2> QED BY <2>3, <2>4
<1> QED BY <1>9, <1>10

LEMMA SplitBegins ==
  ASSUME NEW word \in Word, NEW f, Scans(f, word), NEW a, a[0] = <<>>, NEW z, z[0] = <<>>
  PROVE  SplitUpto(f[0], word, 0, a[0], Closed(word, z, 0))
<1>1. ~Open(word, 0)
  BY DEF Open
<1>2. Closed(word, z, 0) = <<>>
  BY <1>1 DEF Closed
<1>3. f[0] = Blank
  BY DEF Scans
<1>4. Blank.parts = <<>> /\ Blank.current = <<>> /\ ~Blank.lower
  BY DEF Blank
<1>5. RunsOf(word, <<>>, <<>>) = <<>>
  BY DEF RunsOf
<1>6. Len(<<>>) = Len(<<>>) + 0
  OBVIOUS
<1> QED BY <1>1, <1>2, <1>3, <1>4, <1>5, <1>6 DEF SplitUpto

LEMMA ClosedType ==
  ASSUME NEW word \in Word, NEW z, Picks(z, Stops(word), Len(word)), NEW i \in 0..Len(word)
  PROVE  Closed(word, z, i) \in Seq(Nat)
<1>1. Len(word) \in Nat
  BY DEF Word
<1>2. \A k \in 0..Len(word) : z[k] \in Seq(Nat)
  BY DEF Picks
<1>3. CASE Open(word, i)
  <2>1. i # 0
    BY <1>3 DEF Open
  <2>2. i - 1 \in 0..Len(word)
    BY <1>1, <2>1
  <2> QED BY <1>2, <1>3, <2>2 DEF Closed
<1>4. CASE ~Open(word, i)
  BY <1>2, <1>4 DEF Closed
<1> QED BY <1>3, <1>4

LEMMA SplitGoes ==
  ASSUME NEW word \in Word, NEW f, Scans(f, word),
         NEW a, Picks(a, Starts(word), Len(word)), NEW z, Picks(z, Stops(word), Len(word))
  PROVE  \A i \in 0..Len(word) : SplitUpto(f[i], word, i, a[i], Closed(word, z, i))
<1> DEFINE n == Len(word)
           P == {i \in 0..n : SplitUpto(f[i], word, i, a[i], Closed(word, z, i))}
<1>1. n \in Nat /\ 0 \in 0..n
  BY DEF Word
<1>2. 0 \in P
  <2>1. a[0] = <<>> /\ z[0] = <<>>
    BY DEF Picks
  <2>2. SplitUpto(f[0], word, 0, a[0], Closed(word, z, 0))
    BY <2>1, SplitBegins, Zenon
  <2> QED BY <1>1, <2>2
<1>3. ASSUME NEW i \in 1..n, i - 1 \in P
      PROVE  i \in P
  <2>1. i - 1 \in 0..n /\ i \in 0..n /\ i - 1 \in Nat
    BY <1>1
  <2>2. SplitUpto(f[i - 1], word, i - 1, a[i - 1], Closed(word, z, i - 1))
    BY <1>3
  <2>3. f[i - 1] \in State /\ f[i] = SplitStep(f[i - 1], word[i])
    BY <2>1 DEF Scans
  <2>4. a[i - 1] \in Seq(1..(i - 1))
    BY <1>1, <2>1, PicksAre
  <2> DEFINE as == a[i - 1]
             zs == Closed(word, z, i - 1)
  <2>5. as \in Seq(Nat) /\ \A k \in DOMAIN as : as[k] \in 1..(i - 1)
    BY <2>1, <2>4
  <2>6. zs \in Seq(Nat)
    BY <2>1, ClosedType
  <2>7. a[i] = Begun(word, i, as) /\ Closed(word, z, i) = Ended(word, i, zs)
    BY StartsGrow, StopsGrow
  <2>8. SplitUpto(f[i - 1], word, i - 1, as, zs)
    BY <2>2
  <2> HIDE DEF as, zs
  <2>9. SplitUpto(SplitStep(f[i - 1], word[i]), word, i, Begun(word, i, as), Ended(word, i, zs))
    BY <2>3, <2>5, <2>6, <2>8, SplitOnce
  <2>10. SplitUpto(f[i], word, i, a[i], Closed(word, z, i))
    BY <2>3, <2>7, <2>9
  <2> QED BY <2>1, <2>10
<1> HIDE DEF P
<1>4. \A i \in 0..n : i \in P
  BY <1>1, <1>2, <1>3, Induct
<1> QED BY <1>4 DEF P

LEMMA SplitEnds ==
  ASSUME NEW word \in Word, NEW f, Scans(f, word),
         NEW a, Picks(a, Starts(word), Len(word)), NEW z, Picks(z, Stops(word), Len(word))
  PROVE  /\ Push(f[Len(word)].parts, f[Len(word)].current) = RunsOf(word, a[Len(word)], z[Len(word)])
         /\ Len(a[Len(word)]) = Len(z[Len(word)])
<1> DEFINE n == Len(word)
           s == f[n]
           as == a[n]
           zs == Closed(word, z, n)
<1>1. n \in Nat /\ n \in 0..n
  BY DEF Word
<1>2. SplitUpto(s, word, n, as, zs)
  BY <1>1, SplitGoes
<1>3. zs \in Seq(Nat) /\ Len(zs) \in Nat
  BY <1>1, ClosedType
<1>4. as \in Seq(1..n)
  BY <1>1, PicksAre
<1> HIDE DEF s, as, n
<1>5. CASE ~Open(word, n)
  <2>1. zs = z[n]
    BY <1>5 DEF Closed
  <2> HIDE DEF zs
  <2>2. Len(as) = Len(zs) + 0 /\ s.parts = RunsOf(word, as, zs) /\ s.current = <<>>
    BY <1>2, <1>5 DEF SplitUpto
  <2>3. Push(s.parts, s.current) = s.parts
    BY <2>2 DEF Push
  <2>4. Len(zs) + 0 = Len(zs)
    BY <1>3
  <2>5. Push(s.parts, s.current) = RunsOf(word, as, z[n]) /\ Len(as) = Len(z[n])
    BY <2>1, <2>2, <2>3, <2>4
  <2> QED BY <2>5 DEF s, as, n
<1>6. CASE Open(word, n)
  <2>1. n \in 1..n
    <3>1. n # 0
      BY <1>6 DEF Open
    <3> QED BY <1>1, <3>1
  <2>2. zs = z[n - 1]
    BY <1>6 DEF Closed
  <2>3. z[n] = Append(zs, n)
    <3>1. DOMAIN word = 1..n
      BY DEF Word, n
    <3>2. n \in Stops(word)
      BY <1>6, <2>1, <3>1 DEF Stops, Letters, Open, n
    <3>3. z[n] = IF n \in Stops(word) THEN Append(z[n - 1], n) ELSE z[n - 1]
      BY <2>1 DEF Picks, n
    <3> QED BY <2>2, <3>2, <3>3
  <2> HIDE DEF zs
  <2>4. /\ Len(as) = Len(zs) + 1 /\ s.parts = RunsOf(word, as, zs)
        /\ s.current = Run(word, as[Len(as)], n)
    BY <1>2, <1>6 DEF SplitUpto
  <2>5. as[Len(as)] \in 1..n
    <3>1. DOMAIN as = 1..Len(as) /\ Len(as) \in 1..Len(as)
      BY <1>3, <1>4, <2>4, LengthIs
    <3>2. \A k \in DOMAIN as : as[k] \in 1..n
      BY <1>4, LengthIs, Zenon
    <3> QED BY <3>1, <3>2, Zenon
  <2>6. s.current # <<>>
    BY <2>1, <2>4, <2>5, RunGrows DEF n
  <2>7. Push(s.parts, s.current) = Append(RunsOf(word, as, zs), Run(word, as[Len(zs) + 1], n))
    BY <2>4, <2>6 DEF Push
  <2>8. Push(s.parts, s.current) = RunsOf(word, as, z[n])
    BY <1>1, <1>3, <2>3, <2>7, RunsOfAppend
  <2>9. Len(z[n]) = Len(zs) + 1
    BY <1>1, <1>3, <2>3, AppendNat
  <2>10. Len(as) = Len(z[n])
    BY <2>4, <2>9
  <2> QED BY <2>8, <2>10 DEF s, as, n
<1> QED BY <1>5, <1>6

\* Splitting an identifier at separators and at capitals after small letters
\* (split_identifier_parts) gives the runs between them, in order: no letter
\* is lost, and none is in two parts.
THEOREM IdentifiersBecomeRuns ==
  ASSUME NEW word \in Word
  PROVE  PartsAreRuns(word)
<1> DEFINE n == Len(word)
<1>1. n \in Nat /\ n \in 0..n
  BY DEF Word
<1>2. PICK f : Scans(f, word) /\ Parts(word) = Push(f[n].parts, f[n].current)
  BY ScanCounts
<1>3. PICK a : Picks(a, Starts(word), n) /\ Ascending(Starts(word), n) = a[n]
  BY <1>1, AscendingCounts
<1>4. PICK z : Picks(z, Stops(word), n) /\ Ascending(Stops(word), n) = z[n]
  BY <1>1, AscendingCounts
<1>5. Parts(word) = RunsOf(word, a[n], z[n]) /\ Len(a[n]) = Len(z[n])
  BY <1>2, <1>3, <1>4, SplitEnds
<1>6. a[n] \in Seq(1..n)
  BY <1>1, <1>3, PicksAre
<1>7. DOMAIN a[n] = 1..Len(z[n])
  BY <1>5, <1>6
<1> DEFINE starts == Ascending(Starts(word), n)
           stops == Ascending(Stops(word), n)
<1>8. Parts(word) = [k \in DOMAIN starts |-> LowerCase(SubSeq(word, starts[k], stops[k]))]
  BY <1>3, <1>4, <1>5, <1>7 DEF RunsOf, Run
<1> QED BY <1>8 DEF PartsAreRuns, Starts, Stops, Letters

-----------------------------------------------------------------------------
(* Terms, each once *)

Different(s) == \A j, k \in DOMAIN s : s[j] = s[k] => j = k

\* Each term once: the same terms, none of them twice.
LEMMA DedupeIs ==
  ASSUME NEW S, NEW terms \in Seq(S)
  PROVE  /\ Dedupe(terms) \in Seq(S) /\ Different(Dedupe(terms))
         /\ ToSet(Dedupe(terms)) = ToSet(terms)
<1> DEFINE n == Len(terms)
           K == {i \in DOMAIN terms : \A j \in 1..(i - 1) : terms[j] # terms[i]}
           places == Ascending(K, n)
           d == Dedupe(terms)
<1>1. n \in Nat /\ DOMAIN terms = 1..n /\ \A i \in 1..n : terms[i] \in S
  BY LengthIs
<1>2. K \in SUBSET (1..n)
  BY <1>1
<1>3. places \in Seq(K) /\ Rising(places) /\ ToSet(places) = K
  BY <1>1, <1>2, AscendingIs
<1>4. d = [k \in DOMAIN places |-> terms[places[k]]]
  BY DEF Dedupe, At
<1>5. \A i : i \in K <=> i \in 1..n /\ \A j \in 1..(i - 1) : terms[j] # terms[i]
  BY <1>1
<1> HIDE DEF K, places, d, n
<1> DEFINE m == Len(places)
<1>6. m \in Nat /\ DOMAIN places = 1..m /\ \A k \in 1..m : places[k] \in K
  BY <1>3, LengthIs
<1> HIDE DEF m
<1>7. DOMAIN d = 1..m /\ \A k \in 1..m : d[k] = terms[places[k]]
  BY <1>4, <1>6
<1>8. d \in Seq(S)
  <2>1. \A k \in 1..m : terms[places[k]] \in S
    BY <1>1, <1>5, <1>6
  <2>2. d = [k \in 1..m |-> terms[places[k]]]
    BY <1>4, <1>6
  <2>3. d \in [1..m -> S]
    BY <2>1, <2>2
  <2> QED BY <1>6, <2>3
<1>9. \A i, j \in K : i < j => terms[i] # terms[j]
  <2> SUFFICES ASSUME NEW i \in K, NEW j \in K, i < j
               PROVE  terms[i] # terms[j]
    OBVIOUS
  <2>1. i \in 1..(j - 1)
    BY <1>1, <1>5
  <2> QED BY <1>5, <2>1
<1>10. Different(d)
  <2> SUFFICES ASSUME NEW j \in 1..m, NEW k \in 1..m, j # k
               PROVE  d[j] # d[k]
    BY <1>7 DEF Different
  <2>1. j < k \/ k < j
    BY <1>6
  <2>2. places[j] < places[k] \/ places[k] < places[j]
    BY <1>3, <1>6, <2>1 DEF Rising
  <2>3. terms[places[j]] # terms[places[k]]
    BY <1>6, <1>9, <2>2
  <2> QED BY <1>7, <2>3
<1>11. ToSet(d) \subseteq ToSet(terms)
  <2> SUFFICES ASSUME NEW k \in 1..m
               PROVE  d[k] \in ToSet(terms)
    BY <1>7 DEF ToSet
  <2>1. places[k] \in 1..n
    BY <1>5, <1>6
  <2> QED BY <1>1, <1>7, <2>1 DEF ToSet
<1>12. ToSet(terms) \subseteq ToSet(d)
  <2> SUFFICES ASSUME NEW i \in 1..n
               PROVE  terms[i] \in ToSet(d)
    BY <1>1 DEF ToSet
  <2> DEFINE Same == {j \in 1..n : terms[j] = terms[i]}
  <2>1. Same \subseteq Nat /\ i \in Same
    BY <1>1
  <2>2. PICK j \in Same : \A k \in Same : j <= k
    BY <2>1, LeastOfNat
  <2>3. j \in 1..n /\ terms[j] = terms[i]
    BY <2>2
  <2>4. j \in K
    <3>1. ASSUME NEW k \in 1..(j - 1), terms[k] = terms[j]
          PROVE  FALSE
      <4>1. k \in 1..n /\ ~(j <= k)
        BY <1>1, <2>3
      <4> QED BY <2>2, <2>3, <3>1, <4>1
    <3> QED BY <1>5, <2>3, <3>1
  <2>5. PICK k \in 1..m : places[k] = j
    BY <1>3, <1>6, <2>4 DEF ToSet
  <2>6. d[k] = terms[i]
    BY <1>7, <2>3, <2>5
  <2> QED BY <1>7, <2>6 DEF ToSet
<1> QED BY <1>8, <1>10, <1>11, <1>12 DEF d

LEMMA HeadIs ==
  ASSUME NEW S, NEW s \in Seq(S), NEW e \in 0..Len(s)
  PROVE  /\ SubSeq(s, 1, e) \in Seq(S) /\ Len(SubSeq(s, 1, e)) = e
         /\ DOMAIN SubSeq(s, 1, e) = 1..e /\ \A k \in 1..e : SubSeq(s, 1, e)[k] = s[k]
OBVIOUS

\* The first m terms.
Prefix(s, m) == SubSeq(s, 1, IF Len(s) < m THEN Len(s) ELSE m)

LEMMA PrefixIs ==
  ASSUME NEW S, NEW s \in Seq(S), NEW m \in Nat
  PROVE  /\ Prefix(s, m) \in Seq(S) /\ Len(Prefix(s, m)) <= m /\ ToSet(Prefix(s, m)) \subseteq ToSet(s)
         /\ Different(s) => Different(Prefix(s, m))
         /\ Len(Prefix(s, m)) < m => Prefix(s, m) = s
<1> DEFINE p == Prefix(s, m)
           l == Len(s)
           e == IF l < m THEN l ELSE m
<1>1. l \in Nat /\ DOMAIN s = 1..l
  BY LengthIs
<1>3. p = SubSeq(s, 1, e)
  BY DEF Prefix
<1> HIDE DEF p, l
<1>2. e \in Nat /\ e <= l /\ e <= m /\ (e < m => e = l)
  BY <1>1
<1> HIDE DEF e
<1>4. p \in Seq(S) /\ Len(p) = e /\ DOMAIN p = 1..e /\ \A k \in 1..e : p[k] = s[k]
  <2>1. e \in 0..l
    BY <1>1, <1>2
  <2>2. e \in 0..Len(s)
    BY <2>1, Zenon DEF l
  <2> QED BY <1>3, <2>2, HeadIs
<1>5. \A k \in 1..e : k \in DOMAIN s
  <2>1. \A k \in 1..e : k \in 1..l
    BY <1>1, <1>2
  <2> QED BY <1>1, <2>1, Zenon
<1>6. ToSet(p) \subseteq ToSet(s)
  BY <1>4, <1>5 DEF ToSet
<1>7. Different(s) => Different(p)
  BY <1>4, <1>5 DEF Different
<1>8. ASSUME e = l
      PROVE  p = s
  <2>1. p = [k \in 1..e |-> p[k]] /\ s = [k \in 1..e |-> s[k]]
    BY <1>1, <1>4, <1>8
  <2>2. \A k \in 1..e : p[k] = s[k]
    BY <1>4
  <2> QED BY <2>1, <2>2
<1>9. Len(p) <= m
  BY <1>2, <1>4
<1>10. Len(p) < m => p = s
  BY <1>2, <1>4, <1>8
<1> QED BY <1>4, <1>6, <1>7, <1>9, <1>10 DEF p

LEMMA CountOfDifferent ==
  ASSUME NEW S, NEW s \in Seq(S), Different(s)
  PROVE  Cardinality(ToSet(s)) = Len(s)
<1> DEFINE m == Len(s)
<1>1. m \in Nat /\ DOMAIN s = 1..m
  BY LengthIs
<1>2. s = [k \in 1..m |-> s[k]] /\ \A k \in 1..m : s[k] \in ToSet(s)
  BY <1>1 DEF ToSet
<1> HIDE DEF m
<1>3. s \in Injection(1..m, ToSet(s))
  BY <1>1, <1>2 DEF Injection, IsInjective, Different
<1>4. s \in Surjection(1..m, ToSet(s))
  BY <1>1, <1>2 DEF Surjection, ToSet
<1>5. ExistsBijection(1..m, ToSet(s))
  BY <1>3, <1>4 DEF Bijection, ExistsBijection
<1>6. Cardinality(ToSet(s)) = m
  BY <1>1, <1>5, FS_CountingElements
<1> QED BY <1>6 DEF m

-----------------------------------------------------------------------------
(* Whose terms they are *)

LEMMA GreatestOf ==
  ASSUME NEW n \in Nat, NEW S, S \subseteq 1..n, S # {}
  PROVE  \E x \in S : \A y \in S : y <= x
<1> DEFINE T == {n - x : x \in S}
<1>1. T \subseteq Nat /\ T # {}
  <2>1. \A x \in S : n - x \in Nat
    OBVIOUS
  <2>2. PICK x \in S : TRUE
    OBVIOUS
  <2>3. n - x \in T
    OBVIOUS
  <2> QED BY <2>1, <2>3
<1>2. PICK t \in T : \A u \in T : t <= u
  BY <1>1, LeastOfNat
<1>3. PICK x \in S : t = n - x
  BY <1>2
<1>4. ASSUME NEW y \in S
      PROVE  y <= x
  <2>1. n - y \in T /\ x \in Nat /\ y \in Nat
    OBVIOUS
  <2>2. n - x <= n - y
    BY <1>2, <1>3, <2>1
  <2> QED BY <2>1, <2>2
<1> QED BY <1>4

LEMMA TreeIs ==
  ASSUME NEW tree \in Tree
  PROVE  /\ Len(tree) \in Nat /\ DOMAIN tree = 1..Len(tree)
         /\ \A k \in DOMAIN tree : tree[k].word \in Word
<1> DEFINE Node == [up : Nat, kind : STRING, field : STRING, first : Nat, last : Nat, word : Seq(Char)]
<1>1. tree \in Seq(Node)
  BY DEF Tree
<1>2. \A x \in Node : x.word \in Word
  BY DEF Word
<1> HIDE DEF Node
<1>3. Len(tree) \in Nat /\ DOMAIN tree = 1..Len(tree) /\ \A k \in DOMAIN tree : tree[k] \in Node
  BY <1>1, LengthIs
<1> QED BY <1>2, <1>3

\* The walk from symbol n comes to identifier k just when n is the innermost
\* symbol around it.
LEMMA GatheredIsOwned ==
  ASSUME NEW tree \in Tree, NEW lang, NEW n \in DOMAIN tree, IsSymbol(lang, tree, n), NEW k \in DOMAIN tree
  PROVE  Gathers(lang, tree, n, k) <=> tree[k].kind \in IdentifierLike /\ Innermost(lang, tree, k) = n
<1> DEFINE around == {j \in DOMAIN tree : Below(tree, j, k) /\ IsSymbol(lang, tree, j)}
           inner == Innermost(lang, tree, k)
           m == Len(tree)
<1>1. m \in Nat /\ DOMAIN tree = 1..m
  BY TreeIs
<1>2. \A j : Below(tree, j, k) => j <= k
  BY DEF Below
<1>3. inner = IF around = {} THEN 0 ELSE CHOOSE j \in around : \A i \in around : i <= j
  BY DEF Innermost
<1>4. \A j : j \in around <=> j \in 1..m /\ Below(tree, j, k) /\ IsSymbol(lang, tree, j)
  BY <1>1
<1>5. around # {} => inner \in around /\ \A i \in around : i <= inner
  <2>1. around \subseteq 1..m
    BY <1>4
  <2>2. around # {} => \E j \in around : \A i \in around : i <= j
    BY <1>1, <2>1, GreatestOf
  <2> HIDE DEF around
  <2> QED BY <1>3, <2>2
<1> HIDE DEF around, inner, m
<1>6. n \in 1..m /\ k \in 1..m
  BY <1>1
<1>7. ASSUME Gathers(lang, tree, n, k)
      PROVE  tree[k].kind \in IdentifierLike /\ inner = n
  <2>1. /\ Below(tree, n, k) /\ tree[k].kind \in IdentifierLike
        /\ \A j \in (n + 1)..k : Below(tree, j, k) => ~IsSymbol(lang, tree, j)
    BY <1>7 DEF Gathers
  <2>2. n \in around
    BY <1>4, <1>6, <2>1
  <2>3. inner \in around /\ n <= inner
    BY <1>5, <2>2
  <2>4. inner \in 1..m /\ inner <= k
    BY <1>2, <1>4, <2>3
  <2>5. inner \notin (n + 1)..k
    BY <1>4, <2>1, <2>3
  <2>6. inner = n
    BY <1>1, <1>6, <2>3, <2>4, <2>5
  <2> QED BY <2>1, <2>6
<1>8. ASSUME tree[k].kind \in IdentifierLike, inner = n
      PROVE  Gathers(lang, tree, n, k)
  <2>1. inner # 0
    BY <1>6, <1>8
  <2>2. around # {}
    BY <1>3, <2>1
  <2>3. n \in around /\ \A i \in around : i <= n
    BY <1>5, <1>8, <2>2
  <2>4. ASSUME NEW j \in (n + 1)..k, Below(tree, j, k), IsSymbol(lang, tree, j)
        PROVE  FALSE
    <3>1. j \in 1..m /\ ~(j <= n)
      BY <1>1, <1>6
    <3> QED BY <1>4, <2>3, <2>4, <3>1
  <2> QED BY <1>4, <1>8, <2>3, <2>4 DEF Gathers
<1> QED BY <1>7, <1>8 DEF inner

LEMMA ExpandType ==
  ASSUME NEW word \in Word
  PROVE  ExpandIdentifierTerms(word) \in Seq(Word)
<1>1. LowerCase(word) \in Word /\ Parts(word) \in Seq(Word)
  BY LowerCaseType, PartsType
<1> DEFINE terms == <<LowerCase(word)>> \o Parts(word)
<1>2. terms \in Seq(Word)
  BY <1>1
<1> HIDE DEF terms
<1>3. Dedupe(terms) \in Seq(Word)
  BY <1>2, DedupeIs
<1>4. <<>> \in Seq(Word)
  OBVIOUS
<1> QED BY <1>3, <1>4 DEF ExpandIdentifierTerms, terms

\* The terms of the places a set has, one list for each.
TermLists(tree, nodes) == [i \in DOMAIN nodes |-> ExpandIdentifierTerms(tree[nodes[i]].word)]

LEMMA TermListsAre ==
  ASSUME NEW tree \in Tree, NEW K, K \subseteq DOMAIN tree, NEW nodes \in Seq(K), ToSet(nodes) = K
  PROVE  /\ FlattenSeq(TermLists(tree, nodes)) \in Seq(Word)
         /\ ToSet(FlattenSeq(TermLists(tree, nodes))) = UNION {ToSet(ExpandIdentifierTerms(tree[k].word)) : k \in K}
<1> DEFINE lists == TermLists(tree, nodes)
           m == Len(nodes)
<1>1. m \in Nat /\ DOMAIN nodes = 1..m /\ \A i \in 1..m : nodes[i] \in K
  BY LengthIs
<1>2. lists = [i \in 1..m |-> ExpandIdentifierTerms(tree[nodes[i]].word)]
  BY <1>1 DEF TermLists
<1> HIDE DEF m, lists
<1>3. ASSUME NEW i \in 1..m
      PROVE  lists[i] \in Seq(Word)
  <2>1. tree[nodes[i]].word \in Word
    BY <1>1, TreeIs
  <2> QED BY <1>2, <2>1, ExpandType
<1>4. lists \in [1..m -> Seq(Word)]
  BY <1>2, <1>3
<1>5. lists \in Seq(Seq(Word)) /\ DOMAIN lists = 1..m
  BY <1>1, <1>4
<1>6. FlattenSeq(lists) \in Seq(Word)
  BY <1>5, FlattenType
<1>7. ToSet(FlattenSeq(lists)) = UNION {ToSet(lists[i]) : i \in 1..m}
  BY <1>5, FlattenRange
<1>8. UNION {ToSet(lists[i]) : i \in 1..m} = UNION {ToSet(ExpandIdentifierTerms(tree[k].word)) : k \in K}
  <2>1. \A k \in K : \E i \in 1..m : nodes[i] = k
    BY <1>1 DEF ToSet
  <2>2. \A i \in 1..m : lists[i] = ExpandIdentifierTerms(tree[nodes[i]].word)
    BY <1>2
  <2> QED BY <1>1, <2>1, <2>2
<1> QED BY <1>6, <1>7, <1>8 DEF lists

\* A chunk's terms are those of the identifiers its symbol is the innermost
\* one around, up to the limit and each once (collect_identifier_terms turns
\* back at every other symbol).
THEOREM SymbolsOwnTerms ==
  ASSUME NEW tree \in Tree, NEW lang, TermLimit \in Nat
  PROVE  TermsAreOwned(lang, tree)
<1> SUFFICES ASSUME NEW n \in DOMAIN tree, HasChunk(lang, tree, n)
             PROVE  LET owned == {k \in DOMAIN tree :
                                    tree[k].kind \in IdentifierLike /\ Innermost(lang, tree, k) = n}
                        terms == IdentifierTerms(lang, tree, n)
                        all   == UNION {ToSet(ExpandIdentifierTerms(tree[k].word)) : k \in owned}
                    IN  /\ ToSet(terms) \subseteq all
                        /\ Len(terms) < TermLimit => ToSet(terms) = all
                        /\ Cardinality(ToSet(terms)) = Len(terms)
  BY DEF TermsAreOwned
<1> DEFINE owned == {k \in DOMAIN tree :
                       tree[k].kind \in IdentifierLike /\ Innermost(lang, tree, k) = n}
           terms == IdentifierTerms(lang, tree, n)
           all   == UNION {ToSet(ExpandIdentifierTerms(tree[k].word)) : k \in owned}
           K == {k \in DOMAIN tree : Gathers(lang, tree, n, k)}
           nodes == Ascending(K, Len(tree))
           flat == FlattenSeq(TermLists(tree, nodes))
<1>1. K = owned
  <2>1. IsSymbol(lang, tree, n)
    BY DEF HasChunk
  <2>2. \A k \in DOMAIN tree : Gathers(lang, tree, n, k) <=>
                                 tree[k].kind \in IdentifierLike /\ Innermost(lang, tree, k) = n
    BY <2>1, GatheredIsOwned
  <2> QED BY <2>2
<1>2. nodes \in Seq(K) /\ ToSet(nodes) = K
  <2>1. Len(tree) \in Nat /\ K \in SUBSET (1..Len(tree))
    BY TreeIs
  <2> QED BY <2>1, AscendingIs
<1>3. K \subseteq DOMAIN tree
  OBVIOUS
<1>4. terms = Prefix(Dedupe(flat), TermLimit)
  BY DEF IdentifierTerms, Prefix, TermLists
<1> HIDE DEF K, nodes, owned, terms
<1>5. flat \in Seq(Word) /\ ToSet(flat) = all
  BY <1>1, <1>2, <1>3, TermListsAre
<1> HIDE DEF flat, all
<1>6. Dedupe(flat) \in Seq(Word) /\ Different(Dedupe(flat)) /\ ToSet(Dedupe(flat)) = all
  BY <1>5, DedupeIs
<1>7. /\ terms \in Seq(Word) /\ ToSet(terms) \subseteq all /\ Different(terms)
      /\ Len(terms) < TermLimit => terms = Dedupe(flat)
  BY <1>4, <1>6, PrefixIs
<1>8. Cardinality(ToSet(terms)) = Len(terms)
  BY <1>7, CountOfDifferent
<1> QED BY <1>6, <1>7, <1>8 DEF owned, terms, all

LEMMA SymbolListType ==
  ASSUME NEW tree \in Tree, NEW lang, NEW lines
  PROVE  Len(BuildSymbolChunks(lang, tree, lines)) \in Nat
<1> DEFINE K == {n \in DOMAIN tree : HasChunk(lang, tree, n)}
           nodes == Ascending(K, Len(tree))
           m == Len(nodes)
<1>1. Len(tree) \in Nat /\ K \in SUBSET (1..Len(tree))
  BY TreeIs
<1>2. nodes \in Seq(K)
  BY <1>1, AscendingIs
<1>3. m \in Nat /\ DOMAIN nodes = 1..m
  BY <1>2, LengthIs
<1>4. BuildSymbolChunks(lang, tree, lines) = [i \in 1..m |-> SymbolChunkForNode(lang, tree, lines, nodes[i])]
  BY <1>3 DEF BuildSymbolChunks
<1> HIDE DEF m, nodes
<1>5. Len([i \in 1..m |-> SymbolChunkForNode(lang, tree, lines, nodes[i])]) = m
  BY <1>3
<1> QED BY <1>3, <1>4, <1>5
=============================================================================
