-------------------------- MODULE LoadPackage_proofs --------------------------
(***************************************************************************)
(* What loading a package promises for every configuration and every       *)
(* package: each language is what the last files of the search path say,   *)
(* each program is in the documented language, and a package without       *)
(* errors leaves no doubt where its submissions start.                     *)
(*                                                                         *)
(* First come facts on sequences that the library does not have.  They are *)
(* proved from functions defined by recursion: that such a function exists *)
(* is SetInduction, and its equation then does the rest.                   *)
(***************************************************************************)
EXTENDS LoadPackage, SequenceTheorems, FiniteSetTheorems, WellFoundedInduction, TLAPS

(* A set of naturals with 0 and with the successor of each of its elements *)
(* has them all.                                                           *)
LEMMA SetInduction ==
  ASSUME NEW S, 0 \in S, \A n \in Nat : n \in S => n + 1 \in S
  PROVE  \A n \in Nat : n \in S
<1> DEFINE out == {n \in Nat : n \notin S}
<1>1. ASSUME out # {}
      PROVE  FALSE
  <2>1. PICK m \in out : \A y \in out : ~ (<<y, m>> \in OpToRel(<, Nat))
    BY <1>1, NatLessThanWellFounded, WFMin
  <2>2. m \in Nat /\ m \notin S /\ \A y \in Nat : y \notin S => ~ (y < m)
    BY <2>1 DEF OpToRel
  <2>3. m # 0 /\ m - 1 \in Nat /\ m - 1 < m /\ (m - 1) + 1 = m
    BY <2>2
  <2>4. m - 1 \in S
    BY <2>2, <2>3
  <2>. QED  BY <2>2, <2>3, <2>4
<1>. QED  BY <1>1

(* s \o t, under a name the provers leave alone.                           *)
Glue(s, t) == s \o t

(* What is in one sequence followed by another is in either.               *)
LEMMA ToSetConcat ==
  ASSUME NEW T, NEW s \in Seq(T), NEW t \in Seq(T)
  PROVE  ToSet(s \o t) = ToSet(s) \union ToSet(t)
<1>1. \A u : ToSet(u) = Range(u)
  BY DEF ToSet, Range
<1>2. Range(s \o t) = Range(s) \union Range(t)
  BY RangeConcatenation
<1>. QED  BY <1>1, <1>2

Flattens(f, s, N) ==
  f = [i \in 1 .. N |-> IF i = 1 THEN s[i] ELSE Glue(f[i - 1], s[i])]

(* The recursion of FlattenSeq has a solution.                             *)
LEMMA FlattenExists ==
  ASSUME NEW s
  PROVE  \A N \in Nat : \E f : Flattens(f, s, N)
<1> DEFINE S == {n \in Nat : \E f : Flattens(f, s, n)}
<1>1. 0 \in S
  <2> DEFINE f == [i \in 1 .. 0 |-> 0]
  <2>1. f = [i \in 1 .. 0 |-> IF i = 1 THEN s[i] ELSE Glue(f[i - 1], s[i])]
    OBVIOUS
  <2>. QED  BY <2>1 DEF Flattens
<1>2. ASSUME NEW n \in Nat, n \in S
      PROVE  n + 1 \in S
  <2>1. PICK f : Flattens(f, s, n)
    BY <1>2
  <2> DEFINE last == IF n = 0 THEN s[1] ELSE Glue(f[n], s[n + 1])
             g == [i \in 1 .. n + 1 |-> IF i = n + 1 THEN last ELSE f[i]]
  <2>2. \A i \in 1 .. n : f[i] = IF i = 1 THEN s[i] ELSE Glue(f[i - 1], s[i])
    BY <2>1 DEF Flattens
  <2>3. g[n + 1] = last /\ \A i \in 1 .. n : g[i] = f[i]
    OBVIOUS
  <2>4. \A i \in 1 .. n + 1 : g[i] = IF i = 1 THEN s[i] ELSE Glue(g[i - 1], s[i])
    <3> HIDE DEF g
    <3> TAKE i \in 1 .. n + 1
    <3>1. CASE i = n + 1
      <4>1. n # 0 => i # 1 /\ i - 1 = n /\ n \in 1 .. n
        BY <3>1
      <4>2. n = 0 => i = 1
        BY <3>1
      <4>. QED  BY <2>3, <3>1, <4>1, <4>2
    <3>2. CASE i # n + 1
      <4>1. i \in 1 .. n /\ (i # 1 => i - 1 \in 1 .. n)
        BY <3>2
      <4>. QED  BY <2>2, <2>3, <4>1
    <3>. QED  BY <3>1, <3>2
  <2>5. g = [i \in 1 .. n + 1 |-> g[i]]
    OBVIOUS
  <2> HIDE DEF g
  <2>6. Flattens(g, s, n + 1)
    BY <2>4, <2>5 DEF Flattens
  <2>. QED  BY <2>6
<1>3. \A n \in Nat : n \in S
  <2> HIDE DEF S
  <2>. QED  BY <1>1, <1>2, SetInduction
<1>. QED  BY <1>3

(* So FlattenSeq is the last of its values, and each is glued together     *)
(* from the one before.                                                    *)
LEMMA FlattenSteps ==
  ASSUME NEW T, NEW s \in Seq(Seq(T)), s # <<>>
  PROVE  \E f : /\ FlattenSeq(s) = f[Len(s)]
                /\ Len(s) \in Nat \ {0}
                /\ \A i \in 1 .. Len(s) : f[i] = IF i = 1 THEN s[i] ELSE Glue(f[i - 1], s[i])
<1> DEFINE N == Len(s)
           h == CHOOSE f : Flattens(f, s, N)
<1>1. N \in Nat /\ N # 0
  BY EmptySeq
<1>2. FlattenSeq(s) = h[N]
  BY <1>1 DEF FlattenSeq, Flattens, Glue
<1>3. Flattens(h, s, N)
  <2>1. \E f : Flattens(f, s, N)
    BY <1>1, FlattenExists
  <2>. QED  BY <2>1
<1> HIDE DEF h
<1>4. \A i \in 1 .. N : h[i] = IF i = 1 THEN s[i] ELSE Glue(h[i - 1], s[i])
  BY <1>3 DEF Flattens
<1>. QED  BY <1>1, <1>2, <1>4

(* What is flattened holds what its pieces hold, and nothing else.         *)
LEMMA FlattenHolds ==
  ASSUME NEW T, NEW s \in Seq(Seq(T))
  PROVE  /\ FlattenSeq(s) \in Seq(T)
         /\ ToSet(FlattenSeq(s)) = UNION {ToSet(s[i]) : i \in DOMAIN s}
<1> DEFINE N == Len(s)
<1>1. CASE s = <<>>
  BY <1>1, EmptySeq DEF FlattenSeq, ToSet
<1>2. CASE s # <<>>
  <2>1. PICK f : /\ FlattenSeq(s) = f[N]
                 /\ N \in Nat \ {0}
                 /\ \A i \in 1 .. N : f[i] = IF i = 1 THEN s[i] ELSE Glue(f[i - 1], s[i])
    BY <1>2, FlattenSteps
  <2>2. DOMAIN s = 1 .. N /\ \A i \in 1 .. N : s[i] \in Seq(T)
    OBVIOUS
  <2> DEFINE S == {n \in Nat : n + 1 <= N =>
                     /\ f[n + 1] \in Seq(T)
                     /\ ToSet(f[n + 1]) = UNION {ToSet(s[i]) : i \in 1 .. n + 1}}
  <2>3. 0 \in S
    <3>1. f[1] = s[1]
      BY <2>1
    <3>2. 1 .. 1 = {1}
      OBVIOUS
    <3>. QED  BY <2>1, <2>2, <3>1, <3>2
  <2>4. ASSUME NEW n \in Nat, n \in S
        PROVE  n + 1 \in S
    <3> SUFFICES ASSUME (n + 1) + 1 <= N
                 PROVE  /\ f[(n + 1) + 1] \in Seq(T)
                        /\ ToSet(f[(n + 1) + 1]) = UNION {ToSet(s[i]) : i \in 1 .. (n + 1) + 1}
      OBVIOUS
    <3>1. /\ f[n + 1] \in Seq(T)
          /\ ToSet(f[n + 1]) = UNION {ToSet(s[i]) : i \in 1 .. n + 1}
      BY <2>1, <2>4
    <3>2. f[(n + 1) + 1] = f[n + 1] \o s[(n + 1) + 1] /\ s[(n + 1) + 1] \in Seq(T)
      <4>1. (n + 1) + 1 \in 1 .. N /\ (n + 1) + 1 # 1 /\ ((n + 1) + 1) - 1 = n + 1
        BY <2>1
      <4>2. f[(n + 1) + 1] = Glue(f[n + 1], s[(n + 1) + 1])
        BY <2>1, <4>1
      <4>. QED  BY <2>2, <4>1, <4>2 DEF Glue
    <3>3. ToSet(f[n + 1] \o s[(n + 1) + 1]) = ToSet(f[n + 1]) \union ToSet(s[(n + 1) + 1])
      BY <3>1, <3>2, ToSetConcat
    <3>4. 1 .. (n + 1) + 1 = (1 .. n + 1) \union {(n + 1) + 1}
      OBVIOUS
    <3> HIDE DEF S
    <3>5. f[(n + 1) + 1] \in Seq(T)
      BY <3>1, <3>2, ConcatProperties
    <3>. QED  BY <3>1, <3>2, <3>3, <3>4, <3>5
  <2>5. \A n \in Nat : n \in S
    <3> HIDE DEF S
    <3>. QED  BY <2>3, <2>4, SetInduction
  <2>6. N - 1 \in S /\ N - 1 \in Nat /\ (N - 1) + 1 = N
    <3> HIDE DEF S
    <3>. QED  BY <2>1, <2>5
  <2>7. f[N] \in Seq(T) /\ ToSet(f[N]) = UNION {ToSet(s[i]) : i \in 1 .. N}
    BY <2>1, <2>6
  <2>. QED  BY <2>1, <2>2, <2>7
<1>. QED  BY <1>1, <1>2

(* Two sequences without repetitions that share nothing, joined.           *)
LEMMA ConcatInjective ==
  ASSUME NEW T, NEW s \in Seq(T), NEW t \in Seq(T), IsInjective(s), IsInjective(t),
         ToSet(s) \intersect ToSet(t) = {}
  PROVE  IsInjective(s \o t)
<1>1. /\ Len(s) \in Nat /\ Len(t) \in Nat /\ DOMAIN s = 1 .. Len(s) /\ DOMAIN t = 1 .. Len(t)
      /\ DOMAIN (s \o t) = 1 .. Len(s) + Len(t)
      /\ \A i \in 1 .. Len(s) + Len(t) :
           (s \o t)[i] = IF i <= Len(s) THEN s[i] ELSE t[i - Len(s)]
  <2>1. s \o t \in Seq(T) /\ Len(s \o t) = Len(s) + Len(t)
    BY ConcatProperties
  <2>. QED  BY <2>1, ConcatProperties
<1>2. \A i \in 1 .. Len(s) : \A j \in 1 .. Len(t) : s[i] # t[j]
  BY <1>1 DEF ToSet
<1>3. SUFFICES ASSUME NEW a \in 1 .. Len(s) + Len(t), NEW b \in 1 .. Len(s) + Len(t),
                      (s \o t)[a] = (s \o t)[b]
               PROVE  a = b
  BY <1>1 DEF IsInjective
<1>4. CASE a <= Len(s) /\ b <= Len(s)
  <2>1. s[a] = s[b] /\ a \in DOMAIN s /\ b \in DOMAIN s
    BY <1>1, <1>3, <1>4
  <2>. QED  BY <2>1 DEF IsInjective
<1>5. CASE a > Len(s) /\ b > Len(s)
  <2>1. t[a - Len(s)] = t[b - Len(s)] /\ a - Len(s) \in DOMAIN t /\ b - Len(s) \in DOMAIN t
    BY <1>1, <1>3, <1>5
  <2>2. a - Len(s) = b - Len(s)
    BY <2>1 DEF IsInjective
  <2>. QED  BY <1>1, <2>2
<1>6. CASE a <= Len(s) /\ b > Len(s)
  <2>1. s[a] = t[b - Len(s)] /\ a \in 1 .. Len(s) /\ b - Len(s) \in 1 .. Len(t)
    BY <1>1, <1>3, <1>6
  <2>. QED  BY <1>2, <2>1
<1>7. CASE a > Len(s) /\ b <= Len(s)
  <2>1. s[b] = t[a - Len(s)] /\ b \in 1 .. Len(s) /\ a - Len(s) \in 1 .. Len(t)
    BY <1>1, <1>3, <1>7
  <2>. QED  BY <1>2, <2>1
<1>. QED  BY <1>1, <1>4, <1>5, <1>6, <1>7

(* Kept keeps what is in the set, in order and without repetitions.        *)
LEMMA KeptIs ==
  ASSUME NEW T, NEW s \in Seq(T), NEW S
  PROVE  /\ Kept(s, S) \in Seq(T)
         /\ ToSet(Kept(s, S)) = ToSet(s) \intersect S
         /\ IsInjective(s) => IsInjective(Kept(s, S))
<1> DEFINE N == Len(s)
           p == [i \in DOMAIN s |-> IF s[i] \in S THEN <<s[i]>> ELSE <<>>]
<1>1. N \in Nat /\ DOMAIN s = 1 .. N /\ \A i \in 1 .. N : s[i] \in T
  OBVIOUS
<1>2. p \in Seq(Seq(T)) /\ Len(p) = N /\ DOMAIN p = 1 .. N
  <2>1. \A i \in 1 .. N : (IF s[i] \in S THEN <<s[i]>> ELSE <<>>) \in Seq(T)
    BY <1>1
  <2>. QED  BY <1>1, <2>1, SeqDef, LenProperties
<1>3. \A i \in 1 .. N : /\ ToSet(p[i]) = {s[i]} \intersect S
                        /\ IsInjective(p[i])
                        /\ p[i] \in Seq(T)
  <2> SUFFICES ASSUME NEW i \in 1 .. N
               PROVE  /\ ToSet(p[i]) = {s[i]} \intersect S
                      /\ IsInjective(p[i])
                      /\ p[i] \in Seq(T)
    OBVIOUS
  <2>1. CASE s[i] \in S
    <3>1. p[i] = <<s[i]>>
      BY <1>1, <2>1
    <3>2. DOMAIN <<s[i]>> = {1} /\ <<s[i]>>[1] = s[i] /\ <<s[i]>> \in Seq(T)
      BY <1>1
    <3> HIDE DEF p
    <3>. QED  BY <2>1, <3>1, <3>2 DEF ToSet, IsInjective
  <2>2. CASE s[i] \notin S
    <3>1. p[i] = <<>>
      BY <1>1, <2>2
    <3>2. DOMAIN <<>> = {} /\ <<>> \in Seq(T)
      OBVIOUS
    <3> HIDE DEF p
    <3>. QED  BY <2>2, <3>1, <3>2 DEF ToSet, IsInjective
  <2>. QED  BY <2>1, <2>2
<1>4. Kept(s, S) = FlattenSeq(p)
  BY DEF Kept
<1> HIDE DEF p
<1>5. FlattenSeq(p) \in Seq(T) /\ ToSet(FlattenSeq(p)) = UNION {ToSet(p[i]) : i \in DOMAIN p}
  BY <1>2, FlattenHolds
<1>6. UNION {ToSet(p[i]) : i \in DOMAIN p} = ToSet(s) \intersect S
  BY <1>1, <1>2, <1>3 DEF ToSet
<1>7. ASSUME IsInjective(s)
      PROVE  IsInjective(FlattenSeq(p))
  <2>1. CASE N = 0
    <3>1. p = <<>>
      BY <1>2, <2>1, EmptySeq
    <3>2. FlattenSeq(p) = <<>>
      BY <3>1, EmptySeq DEF FlattenSeq
    <3>3. DOMAIN <<>> = {}
      OBVIOUS
    <3>. QED  BY <3>2, <3>3 DEF IsInjective
  <2>2. CASE N # 0
    <3>1. PICK f : /\ FlattenSeq(p) = f[N]
                   /\ \A i \in 1 .. N : f[i] = IF i = 1 THEN p[i] ELSE Glue(f[i - 1], p[i])
      <4>1. p # <<>>
        BY <1>2, <2>2, EmptySeq
      <4>2. \E f : /\ FlattenSeq(p) = f[Len(p)]
                   /\ Len(p) \in Nat \ {0}
                   /\ \A i \in 1 .. Len(p) : f[i] = IF i = 1 THEN p[i] ELSE Glue(f[i - 1], p[i])
        BY <1>2, <4>1, FlattenSteps
      <4>. QED  BY <1>2, <4>2
    <3> DEFINE Good(n) == /\ f[n] \in Seq(T)
                          /\ ToSet(f[n]) \subseteq {s[i] : i \in 1 .. n}
                          /\ IsInjective(f[n])
               G == {n \in Nat : n + 1 <= N => Good(n + 1)}
    <3>2. 0 \in G
      <4>1. f[1] = p[1] /\ 1 \in 1 .. N
        BY <1>1, <2>2, <3>1
      <4>2. Good(1)
        <5>1. p[1] \in Seq(T) /\ IsInjective(p[1]) /\ ToSet(p[1]) = {s[1]} \intersect S
          BY <1>3, <4>1
        <5>3. 1 .. 1 = {1}
          OBVIOUS
        <5>2. {s[i] : i \in {1}} = {s[1]}
          OBVIOUS
        <5>. QED  BY <4>1, <5>1, <5>2, <5>3
      <4> HIDE DEF Good
      <4>. QED  BY <4>2
    <3>3. ASSUME NEW n \in Nat, n \in G
          PROVE  n + 1 \in G
      <4> SUFFICES ASSUME (n + 1) + 1 <= N
                   PROVE  Good((n + 1) + 1)
        OBVIOUS
      <4>1. Good(n + 1)
        <5> HIDE DEF Good
        <5>. QED  BY <1>1, <3>3
      <4>2. (n + 1) + 1 \in 1 .. N /\ (n + 1) + 1 # 1 /\ ((n + 1) + 1) - 1 = n + 1
        BY <1>1
      <4>3. f[(n + 1) + 1] = f[n + 1] \o p[(n + 1) + 1]
        BY <3>1, <4>2 DEF Glue
      <4>4. s[(n + 1) + 1] \notin {s[i] : i \in 1 .. n + 1}
        BY <1>1, <1>7, <4>2 DEF IsInjective
      <4>5. ToSet(f[n + 1]) \intersect ToSet(p[(n + 1) + 1]) = {}
        BY <1>3, <4>1, <4>2, <4>4
      <4>6. p[(n + 1) + 1] \in Seq(T) /\ IsInjective(p[(n + 1) + 1])
        BY <1>3, <4>2
      <4>7. IsInjective(f[(n + 1) + 1])
        BY <4>1, <4>3, <4>5, <4>6, ConcatInjective
      <4>8. f[(n + 1) + 1] \in Seq(T)
        BY <4>1, <4>3, <4>6, ConcatProperties
      <4>9. ToSet(f[(n + 1) + 1]) = ToSet(f[n + 1]) \union ToSet(p[(n + 1) + 1])
        BY <4>1, <4>3, <4>6, ToSetConcat
      <4>10. ToSet(p[(n + 1) + 1]) \subseteq {s[(n + 1) + 1]}
        BY <1>3, <4>2
      <4>11. 1 .. (n + 1) + 1 = (1 .. n + 1) \union {(n + 1) + 1}
        OBVIOUS
      <4>. QED  BY <4>1, <4>7, <4>8, <4>9, <4>10, <4>11
    <3>4. \A n \in Nat : n \in G
      <4> HIDE DEF G
      <4>. QED  BY <3>2, <3>3, SetInduction
    <3>5. N - 1 \in G /\ N - 1 \in Nat /\ (N - 1) + 1 = N
      <4> HIDE DEF G
      <4>. QED  BY <1>1, <2>2, <3>4
    <3> HIDE DEF Good
    <3>6. Good(N)
      BY <1>1, <3>5
    <3>. QED  BY <3>1, <3>6 DEF Good
  <2>. QED  BY <2>1, <2>2
<1>. QED  BY <1>4, <1>5, <1>6, <1>7

(* SetToSeq lists the elements of a finite set.                            *)
LEMMA SetToSeqIs ==
  ASSUME NEW S, IsFiniteSet(S)
  PROVE  SetToSeq(S) \in Seq(S) /\ ToSet(SetToSeq(S)) = S
<1> DEFINE n == Cardinality(S)
           f == SetToSeq(S)
<1>1. n \in Nat
  BY FS_CardinalityType
<1>2. \E g \in [1 .. n -> S] : IsInjective(g)
  <2>1. ExistsBijection(1 .. n, S)
    BY FS_CardinalityType
  <2>2. PICK g \in Bijection(1 .. n, S) : TRUE
    BY <2>1 DEF ExistsBijection
  <2>3. g \in [1 .. n -> S] /\ \A a, b \in 1 .. n : g[a] = g[b] => a = b
    BY <2>2 DEF Bijection, Injection, Surjection, IsInjective
  <2>. QED  BY <2>3 DEF IsInjective
<1>3. f \in [1 .. n -> S] /\ IsInjective(f)
  BY <1>2 DEF SetToSeq
<1> HIDE DEF f
<1>4. f \in Seq(S)
  BY <1>1, <1>3, SeqDef
<1>5. \A s \in S : \E i \in 1 .. n : f[i] = s
  <2>1. f \in Injection(1 .. n, S)
    BY <1>3 DEF Injection, IsInjective
  <2>2. Cardinality(1 .. n) = n
    BY <1>1, FS_Interval
  <2>3. f \in Surjection(1 .. n, S)
    BY <2>1, <2>2, FS_Injection
  <2>. QED  BY <2>3 DEF Surjection
<1>. QED  BY <1>3, <1>4, <1>5 DEF ToSet, f

-----------------------------------------------------------------------------
(* The configuration of the languages.                                     *)
Loads(f, layers, N) ==
  f = [i \in 1 .. N |->
         IF i = 1 THEN layers[1]
         ELSE IF layers[i] = NoFile THEN f[i - 1]
         ELSE update_dict(f[i - 1], layers[i])]

(* The recursion of load_config has a solution.                            *)
LEMMA LoadExists ==
  ASSUME NEW layers
  PROVE  \A N \in Nat : \E f : Loads(f, layers, N)
<1> DEFINE S == {n \in Nat : \E f : Loads(f, layers, n)}
           Next(x, i) == IF layers[i] = NoFile THEN x ELSE update_dict(x, layers[i])
<1>1. 0 \in S
  <2> DEFINE f == [i \in 1 .. 0 |-> 0]
  <2>1. f = [i \in 1 .. 0 |->
               IF i = 1 THEN layers[1]
               ELSE IF layers[i] = NoFile THEN f[i - 1]
               ELSE update_dict(f[i - 1], layers[i])]
    OBVIOUS
  <2>. QED  BY <2>1 DEF Loads
<1>2. ASSUME NEW n \in Nat, n \in S
      PROVE  n + 1 \in S
  <2>1. PICK f : Loads(f, layers, n)
    BY <1>2
  <2> DEFINE last == IF n = 0 THEN layers[1] ELSE Next(f[n], n + 1)
             g == [i \in 1 .. n + 1 |-> IF i = n + 1 THEN last ELSE f[i]]
  <2>2. \A i \in 1 .. n : f[i] = IF i = 1 THEN layers[1] ELSE Next(f[i - 1], i)
    BY <2>1 DEF Loads
  <2> HIDE DEF Next
  <2>3. g[n + 1] = last /\ \A i \in 1 .. n : g[i] = f[i]
    OBVIOUS
  <2>4. \A i \in 1 .. n + 1 : g[i] = IF i = 1 THEN layers[1] ELSE Next(g[i - 1], i)
    <3> HIDE DEF g
    <3> TAKE i \in 1 .. n + 1
    <3>1. CASE i = n + 1
      <4>1. n # 0 => i # 1 /\ i - 1 = n /\ n \in 1 .. n
        BY <3>1
      <4>2. n = 0 => i = 1
        BY <3>1
      <4>. QED  BY <2>3, <3>1, <4>1, <4>2
    <3>2. CASE i # n + 1
      <4>1. i \in 1 .. n /\ (i # 1 => i - 1 \in 1 .. n)
        BY <3>2
      <4>. QED  BY <2>2, <2>3, <4>1
    <3>. QED  BY <3>1, <3>2
  <2>5. g = [i \in 1 .. n + 1 |-> g[i]]
    OBVIOUS
  <2> HIDE DEF g
  <2>6. g = [i \in 1 .. n + 1 |-> IF i = 1 THEN layers[1] ELSE Next(g[i - 1], i)]
    BY <2>4, <2>5
  <2>7. Loads(g, layers, n + 1)
    BY <2>6 DEF Loads, Next
  <2>. QED  BY <2>7
<1>3. \A n \in Nat : n \in S
  <2> HIDE DEF S
  <2>. QED  BY <1>1, <1>2, SetInduction
<1>. QED  BY <1>3

(* What has been read after each directory.                                *)
LEMMA LoadSteps ==
  ASSUME NEW layers, AreLayers(layers)
  PROVE  /\ Len(layers) \in Nat \ {0}
         /\ DOMAIN layers = 1 .. Len(layers)
         /\ load_config(layers)[1] = layers[1]
         /\ \A n \in Nat \ {0} : n + 1 <= Len(layers) =>
              load_config(layers)[n + 1] =
                IF layers[n + 1] = NoFile THEN load_config(layers)[n]
                ELSE update_dict(load_config(layers)[n], layers[n + 1])
<1> DEFINE N == Len(layers)
           h == CHOOSE f : Loads(f, layers, N)
<1>1. N \in Nat /\ N # 0 /\ DOMAIN layers = 1 .. N
  <2>1. layers \in Seq(ToSet(layers)) /\ layers # <<>>
    BY DEF AreLayers
  <2>. QED  BY <2>1, EmptySeq
<1>2. load_config(layers) = h
  BY <1>1 DEF load_config, Loads
<1>3. Loads(h, layers, N)
  <2>1. \E f : Loads(f, layers, N)
    BY <1>1, LoadExists
  <2>. QED  BY <2>1
<1> HIDE DEF h
<1>4. \A i \in 1 .. N : h[i] = IF i = 1 THEN layers[1]
                              ELSE IF layers[i] = NoFile THEN h[i - 1]
                              ELSE update_dict(h[i - 1], layers[i])
  BY <1>3 DEF Loads
<1>5. h[1] = layers[1]
  BY <1>1, <1>4
<1>6. ASSUME NEW n \in Nat \ {0}, n + 1 <= N
      PROVE  h[n + 1] = IF layers[n + 1] = NoFile THEN h[n]
                        ELSE update_dict(h[n], layers[n + 1])
  <2>1. n + 1 \in 1 .. N /\ n + 1 # 1 /\ (n + 1) - 1 = n
    BY <1>1, <1>6
  <2>. QED  BY <1>4, <2>1
<1>. QED  BY <1>1, <1>2, <1>5, <1>6

(* Merging two values.                                                     *)
LEMMA MergedIs ==
  ASSUME NEW f, NEW g, IsMapping(f), IsMapping(g)
  PROVE  /\ IsMapping(Merged(f, g))
         /\ DOMAIN Merged(f, g) = DOMAIN f \union DOMAIN g
         /\ \A x \in DOMAIN Merged(f, g) : Merged(f, g)[x] = IF x \in DOMAIN g THEN g[x] ELSE f[x]
BY DEF Merged, IsMapping

(* Merging two specifications of a language keeps the types of their keys. *)
LEMMA MergedIsTyped ==
  ASSUME NEW f, NEW g, IsFunction(f), IsFunction(g), IsTyped(f), IsTyped(g)
  PROVE  IsFunction(Merged(f, g)) /\ IsTyped(Merged(f, g))
<1> DEFINE m == Merged(f, g)
<1>1. CASE IsMapping(f) /\ IsMapping(g)
  <2>1. IsFunction(m)
    BY <1>1 DEF Merged, IsFunction
  <2>2. /\ DOMAIN m = DOMAIN f \union DOMAIN g
        /\ \A x \in DOMAIN m : m[x] = IF x \in DOMAIN g THEN g[x] ELSE f[x]
    BY <1>1, MergedIs
  <2> HIDE DEF m
  <2>3. \A x \in DOMAIN m : \/ x \in DOMAIN g /\ m[x] = g[x]
                            \/ x \in DOMAIN f /\ m[x] = f[x]
    BY <2>2
  <2>4. IsTyped(m)
    BY <2>3 DEF IsTyped
  <2>. QED  BY <2>1, <2>4 DEF m
<1>2. CASE ~ (IsMapping(f) /\ IsMapping(g))
  BY <1>2 DEF Merged
<1>. QED  BY <1>1, <1>2

(* Updating a dictionary gives a dictionary; where both give a language,   *)
(* its two specifications are merged.                                      *)
LEMMA UpdateIs ==
  ASSUME NEW d, NEW e, IsDict(d), IsDict(e)
  PROVE  /\ IsDict(update_dict(d, e))
         /\ DOMAIN update_dict(d, e).values = DOMAIN d.values \union DOMAIN e.values
         /\ \A id \in DOMAIN update_dict(d, e).values :
              update_dict(d, e).values[id] =
                IF id \notin DOMAIN d.values THEN e.values[id]
                ELSE IF id \notin DOMAIN e.values THEN d.values[id]
                ELSE Merged(d.values[id], e.values[id])
<1> DEFINE old == DOMAIN d.values
           new == DOMAIN e.values
           order == d.order \o Kept(e.order, new \ old)
           values == [k \in old \union new |->
                        IF k \in old \intersect new THEN Merged(d.values[k], e.values[k])
                        ELSE IF k \in new THEN e.values[k] ELSE d.values[k]]
<1>1. update_dict(d, e).order = order /\ update_dict(d, e).values = values
  BY DEF update_dict, Dict
<1>2. /\ d.order \in Seq(old) /\ ToSet(d.order) = old /\ IsInjective(d.order)
      /\ e.order \in Seq(new) /\ ToSet(e.order) = new /\ IsInjective(e.order)
  BY DEF IsDict
<1>3. ASSUME NEW id \in old \union new
      PROVE  /\ values[id] = IF id \notin old THEN e.values[id]
                             ELSE IF id \notin new THEN d.values[id]
                             ELSE Merged(d.values[id], e.values[id])
             /\ id \in STRING /\ IsFunction(values[id]) /\ IsTyped(values[id])
  <2>0. /\ id \in old => id \in STRING /\ IsFunction(d.values[id]) /\ IsTyped(d.values[id])
        /\ id \in new => id \in STRING /\ IsFunction(e.values[id]) /\ IsTyped(e.values[id])
    BY DEF IsDict
  <2>1. CASE id \notin old
    <3>1. values[id] = e.values[id]
      BY <1>3, <2>1
    <3>. QED  BY <1>3, <2>0, <2>1, <3>1
  <2>2. CASE id \notin new
    <3>1. values[id] = d.values[id]
      BY <1>3, <2>2
    <3>. QED  BY <1>3, <2>0, <2>2, <3>1
  <2>3. CASE id \in old /\ id \in new
    <3>1. values[id] = Merged(d.values[id], e.values[id])
      BY <2>3
    <3>2. /\ IsFunction(Merged(d.values[id], e.values[id]))
          /\ IsTyped(Merged(d.values[id], e.values[id]))
      BY <2>0, <2>3, MergedIsTyped
    <3> HIDE DEF values
    <3>. QED  BY <2>0, <2>3, <3>1, <3>2
  <2>. QED  BY <2>1, <2>2, <2>3
<1>4. DOMAIN values = old \union new /\ IsFunction(values)
  BY DEF IsFunction
<1> HIDE DEF values
<1>5. /\ Kept(e.order, new \ old) \in Seq(new)
      /\ ToSet(Kept(e.order, new \ old)) = new \ old
      /\ IsInjective(Kept(e.order, new \ old))
  <2>1. ToSet(Kept(e.order, new \ old)) = ToSet(e.order) \intersect (new \ old)
    BY <1>2, KeptIs
  <2>. QED  BY <1>2, <2>1, KeptIs
<1>6. d.order \in Seq(old \union new) /\ Kept(e.order, new \ old) \in Seq(old \union new)
  BY <1>2, <1>5, SeqMonotonic
<1>7. order \in Seq(old \union new)
  BY <1>6, ConcatProperties
<1>8. ToSet(order) = old \union new
  <2>1. ToSet(order) = ToSet(d.order) \union ToSet(Kept(e.order, new \ old))
    BY <1>6, ToSetConcat
  <2>. QED  BY <1>2, <1>5, <2>1
<1>9. IsInjective(order)
  BY <1>2, <1>5, <1>6, ConcatInjective
<1> HIDE DEF order
<1>10. IsDict(update_dict(d, e))
  BY <1>1, <1>3, <1>4, <1>7, <1>8, <1>9 DEF IsDict
<1>. QED  BY <1>1, <1>3, <1>4, <1>10

(* The languages are those of the first n directories, and each key of     *)
(* them has the value of the last of these directories that gives it.      *)
Gives(layers, i, id) == layers[i] # NoFile /\ id \in DOMAIN layers[i].values

FromLast(layers, n, config) ==
  /\ IsDict(config)
  /\ \A id \in DOMAIN config.values : IsMapping(config.values[id])
  /\ \A i \in 1 .. n : \A id : Gives(layers, i, id) =>
       id \in DOMAIN config.values /\ DOMAIN layers[i].values[id] \subseteq DOMAIN config.values[id]
  /\ \A id \in DOMAIN config.values :
       /\ \E i \in 1 .. n : Gives(layers, i, id)
       /\ \A k \in DOMAIN config.values[id] :
            \E i \in 1 .. n :
              /\ i \in Givers(layers, id, k)
              /\ config.values[id][k] = layers[i].values[id][k]
              /\ \A j \in 1 .. n : j \in Givers(layers, id, k) => j <= i

(* The premise of LayersOverrideKeyByKey.                                  *)
AllOverridable(layers) ==
  /\ AreLayers(layers)
  /\ Unreadable \notin ToSet(layers) /\ layers[1] # NoFile
  /\ \A i \in DOMAIN layers : \A id : Gives(layers, i, id) => IsMapping(layers[i].values[id])

(* A layer that gives a language is a dictionary.                          *)
LEMMA LayersAreDicts ==
  ASSUME NEW layers, AllOverridable(layers), NEW i \in DOMAIN layers, layers[i] # NoFile
  PROVE  /\ IsDict(layers[i])
         /\ \A id \in DOMAIN layers[i].values : IsMapping(layers[i].values[id])
<1>1. layers[i] # Unreadable
  BY DEF AllOverridable, ToSet
<1>. QED  BY <1>1 DEF AllOverridable, AreLayers, Gives

(* The configuration read from the first file is what that file gives.     *)
LEMMA FirstIsFromLast ==
  ASSUME NEW layers, AllOverridable(layers)
  PROVE  FromLast(layers, 1, layers[1])
<1>1. 1 \in DOMAIN layers
  BY LoadSteps DEF AllOverridable
<1>2. /\ layers[1] # NoFile /\ IsDict(layers[1])
      /\ \A id \in DOMAIN layers[1].values : IsMapping(layers[1].values[id])
  BY <1>1, LayersAreDicts DEF AllOverridable
<1>3. \A i \in 1 .. 1 : i = 1
  OBVIOUS
<1>4. 1 \in 1 .. 1 /\ 1 <= 1
  OBVIOUS
<1>5. \A id \in DOMAIN layers[1].values : \A k \in DOMAIN layers[1].values[id] :
        1 \in Givers(layers, id, k)
  BY <1>1, <1>2 DEF Givers, Given
<1>. QED  BY <1>2, <1>3, <1>4, <1>5 DEF FromLast, Gives

(* The next directory has a file.                                          *)
LEMMA NextIsFromLast ==
  ASSUME NEW layers, AllOverridable(layers), NEW n \in Nat \ {0}, n + 1 \in DOMAIN layers,
         layers[n + 1] # NoFile, NEW c, FromLast(layers, n, c)
  PROVE  FromLast(layers, n + 1, update_dict(c, layers[n + 1]))
<1> DEFINE e == layers[n + 1]
           u == update_dict(c, e)
<1>1. IsDict(e) /\ \A id \in DOMAIN e.values : IsMapping(e.values[id])
  BY LayersAreDicts
<1>2. IsDict(c) /\ \A id \in DOMAIN c.values : IsMapping(c.values[id])
  BY DEF FromLast
<1>3. /\ IsDict(u)
      /\ DOMAIN u.values = DOMAIN c.values \union DOMAIN e.values
      /\ \A id \in DOMAIN u.values :
           u.values[id] = IF id \notin DOMAIN c.values THEN e.values[id]
                          ELSE IF id \notin DOMAIN e.values THEN c.values[id]
                          ELSE Merged(c.values[id], e.values[id])
  <2> HIDE DEF e
  <2>. QED  BY <1>1, <1>2, UpdateIs
<1>4. \A id : Gives(layers, n + 1, id) <=> id \in DOMAIN e.values
  BY DEF Gives
<1>5. \A id, k : n + 1 \in Givers(layers, id, k) <=> id \in DOMAIN e.values /\ k \in DOMAIN e.values[id]
  BY DEF Givers, Given
<1>6. \A i \in 1 .. n + 1 : i = n + 1 \/ i \in 1 .. n
  OBVIOUS
<1>7. n + 1 \in 1 .. n + 1 /\ \A i \in 1 .. n : i \in 1 .. n + 1 /\ i <= n + 1
  OBVIOUS
<1>8. layers[n + 1] = e
  OBVIOUS
<1> HIDE DEF e, u
<1>9. ASSUME NEW id \in DOMAIN u.values
      PROVE  /\ IsMapping(u.values[id])
             /\ DOMAIN u.values[id] = (IF id \in DOMAIN c.values THEN DOMAIN c.values[id] ELSE {})
                                      \union (IF id \in DOMAIN e.values THEN DOMAIN e.values[id] ELSE {})
             /\ \A k \in DOMAIN u.values[id] :
                  u.values[id][k] = IF id \in DOMAIN e.values /\ k \in DOMAIN e.values[id]
                                    THEN e.values[id][k] ELSE c.values[id][k]
  <2>1. CASE id \notin DOMAIN c.values
    BY <1>1, <1>3, <1>9, <2>1
  <2>2. CASE id \in DOMAIN c.values /\ id \notin DOMAIN e.values
    BY <1>2, <1>3, <1>9, <2>2
  <2>3. CASE id \in DOMAIN c.values /\ id \in DOMAIN e.values
    <3> DEFINE f == c.values[id]
               g == e.values[id]
    <3>1. u.values[id] = Merged(f, g)
      BY <1>3, <1>9, <2>3
    <3>2. IsMapping(f) /\ IsMapping(g)
      BY <1>1, <1>2, <2>3
    <3> HIDE DEF f, g
    <3>3. /\ IsMapping(Merged(f, g))
          /\ DOMAIN Merged(f, g) = DOMAIN f \union DOMAIN g
          /\ \A x \in DOMAIN Merged(f, g) :
               Merged(f, g)[x] = IF x \in DOMAIN g THEN g[x] ELSE f[x]
      <4> HIDE DEF u, e
      <4>. QED  BY ONLY <3>2, MergedIs
    <3>4. /\ IsMapping(u.values[id])
          /\ DOMAIN u.values[id] = DOMAIN f \union DOMAIN g
          /\ \A x \in DOMAIN u.values[id] :
               u.values[id][x] = IF x \in DOMAIN g THEN g[x] ELSE f[x]
      BY <3>1, <3>3
    <3>. QED  BY <2>3, <3>4 DEF f, g
  <2>. QED  BY <2>1, <2>2, <2>3
<1>10. ASSUME NEW i \in 1 .. n + 1, NEW id, Gives(layers, i, id)
       PROVE  id \in DOMAIN u.values /\ DOMAIN layers[i].values[id] \subseteq DOMAIN u.values[id]
  <2>1. CASE i = n + 1
    <3>1. id \in DOMAIN e.values /\ layers[i].values[id] = e.values[id]
      BY <1>4, <1>8, <1>10, <2>1
    <3>. QED  BY <1>3, <1>9, <3>1
  <2>2. CASE i \in 1 .. n
    <3>1. id \in DOMAIN c.values /\ DOMAIN layers[i].values[id] \subseteq DOMAIN c.values[id]
      BY <1>10, <2>2 DEF FromLast
    <3>. QED  BY <1>3, <1>9, <3>1
  <2>. QED  BY <1>6, <2>1, <2>2
<1>11. ASSUME NEW id \in DOMAIN u.values
       PROVE  \E i \in 1 .. n + 1 : Gives(layers, i, id)
  <2>1. CASE id \in DOMAIN e.values
    BY <1>4, <1>7, <2>1
  <2>2. CASE id \in DOMAIN c.values
    <3>1. PICK i \in 1 .. n : Gives(layers, i, id)
      BY <2>2 DEF FromLast
    <3>. QED  BY <1>7, <3>1
  <2>. QED  BY <1>3, <1>11, <2>1, <2>2
<1>12. ASSUME NEW id \in DOMAIN u.values, NEW k \in DOMAIN u.values[id]
       PROVE  \E i \in 1 .. n + 1 :
                /\ i \in Givers(layers, id, k)
                /\ u.values[id][k] = layers[i].values[id][k]
                /\ \A j \in 1 .. n + 1 : j \in Givers(layers, id, k) => j <= i
  <2>1. CASE id \in DOMAIN e.values /\ k \in DOMAIN e.values[id]
    <3>1. n + 1 \in Givers(layers, id, k) /\ u.values[id][k] = layers[n + 1].values[id][k]
      BY <1>5, <1>8, <1>9, <2>1
    <3>2. \A j \in 1 .. n + 1 : j <= n + 1
      OBVIOUS
    <3>. QED  BY <1>7, <3>1, <3>2
  <2>2. CASE ~ (id \in DOMAIN e.values /\ k \in DOMAIN e.values[id])
    <3>1. /\ id \in DOMAIN c.values /\ k \in DOMAIN c.values[id]
          /\ u.values[id][k] = c.values[id][k]
      BY <1>3, <1>9, <1>12, <2>2
    <3>2. PICK i \in 1 .. n :
            /\ i \in Givers(layers, id, k)
            /\ c.values[id][k] = layers[i].values[id][k]
            /\ \A j \in 1 .. n : j \in Givers(layers, id, k) => j <= i
      BY <3>1 DEF FromLast
    <3>3. n + 1 \notin Givers(layers, id, k)
      BY <1>5, <2>2
    <3>. QED  BY <1>6, <1>7, <3>1, <3>2, <3>3
  <2>. QED  BY <2>1, <2>2
<1>13. FromLast(layers, n + 1, u)
  BY <1>3, <1>9, <1>10, <1>11, <1>12 DEF FromLast
<1>. QED  BY <1>13 DEF u, e

(* It has none.                                                            *)
LEMMA NoneIsFromLast ==
  ASSUME NEW layers, NEW n \in Nat \ {0}, n + 1 \in DOMAIN layers,
         layers[n + 1] = NoFile, NEW c, FromLast(layers, n, c)
  PROVE  FromLast(layers, n + 1, c)
<1>1. \A id : ~ Gives(layers, n + 1, id)
  BY DEF Gives
<1>2. \A id, k : n + 1 \notin Givers(layers, id, k)
  BY DEF Givers
<1>3. \A i \in 1 .. n + 1 : i = n + 1 \/ i \in 1 .. n
  OBVIOUS
<1>4. \A i \in 1 .. n : i \in 1 .. n + 1
  OBVIOUS
<1>. QED  BY <1>1, <1>2, <1>3, <1>4 DEF FromLast

(* After all directories, then.                                            *)
LEMMA LoadedIsFromLast ==
  ASSUME NEW layers, AllOverridable(layers)
  PROVE  FromLast(layers, Len(layers), load_config(layers)[Len(layers)])
<1> DEFINE N == Len(layers)
           c == load_config(layers)
           S == {n \in Nat : n + 1 <= N => FromLast(layers, n + 1, c[n + 1])}
<1>1. /\ N \in Nat \ {0} /\ DOMAIN layers = 1 .. N
      /\ c[1] = layers[1]
      /\ \A n \in Nat \ {0} : n + 1 <= N =>
           c[n + 1] = IF layers[n + 1] = NoFile THEN c[n] ELSE update_dict(c[n], layers[n + 1])
  BY LoadSteps DEF AllOverridable
<1> HIDE DEF c
<1>2. 0 \in S
  BY <1>1, FirstIsFromLast
<1>3. ASSUME NEW n \in Nat, n \in S
      PROVE  n + 1 \in S
  <2> SUFFICES ASSUME (n + 1) + 1 <= N
               PROVE  FromLast(layers, (n + 1) + 1, c[(n + 1) + 1])
    OBVIOUS
  <2>1. FromLast(layers, n + 1, c[n + 1])
    BY <1>1, <1>3
  <2>2. n + 1 \in Nat \ {0} /\ (n + 1) + 1 \in DOMAIN layers
    BY <1>1
  <2>3. c[(n + 1) + 1] = IF layers[(n + 1) + 1] = NoFile THEN c[n + 1]
                         ELSE update_dict(c[n + 1], layers[(n + 1) + 1])
    BY <1>1, <2>2
  <2>4. CASE layers[(n + 1) + 1] = NoFile
    BY <2>1, <2>2, <2>3, <2>4, NoneIsFromLast
  <2>5. CASE layers[(n + 1) + 1] # NoFile
    BY <2>1, <2>2, <2>3, <2>5, NextIsFromLast
  <2>. QED  BY <2>4, <2>5
<1>4. \A n \in Nat : n \in S
  <2> HIDE DEF S
  <2>. QED  BY <1>2, <1>3, SetInduction
<1>5. N - 1 \in S /\ N - 1 \in Nat /\ (N - 1) + 1 = N
  <2> HIDE DEF S
  <2>. QED  BY <1>1, <1>4
<1>6. FromLast(layers, N, c[N])
  BY <1>1, <1>5
<1>. QED  BY <1>6 DEF c

(* What has been loaded is a dictionary.                                   *)
LEMMA LoadedIsDict ==
  ASSUME NEW layers, AreLayers(layers), ~ ConfigError(layers)
  PROVE  IsDict(load_config(layers)[Len(layers)])
<1> DEFINE N == Len(layers)
           c == load_config(layers)
           S == {n \in Nat : n + 1 <= N => IsDict(c[n + 1])}
<1>1. /\ N \in Nat \ {0} /\ DOMAIN layers = 1 .. N
      /\ c[1] = layers[1]
      /\ \A n \in Nat \ {0} : n + 1 <= N =>
           c[n + 1] = IF layers[n + 1] = NoFile THEN c[n] ELSE update_dict(c[n], layers[n + 1])
  BY LoadSteps
<1>2. layers[1] # NoFile /\ \A i \in 1 .. N : layers[i] # Unreadable
  BY <1>1 DEF ConfigError, ToSet
<1>3. \A i \in 1 .. N : layers[i] # NoFile => IsDict(layers[i])
  BY <1>1, <1>2 DEF AreLayers
<1> HIDE DEF c
<1>4. 0 \in S
  BY <1>1, <1>2, <1>3
<1>5. ASSUME NEW n \in Nat, n \in S
      PROVE  n + 1 \in S
  <2> SUFFICES ASSUME (n + 1) + 1 <= N
               PROVE  IsDict(c[(n + 1) + 1])
    OBVIOUS
  <2>1. IsDict(c[n + 1])
    BY <1>1, <1>5
  <2>2. n + 1 \in Nat \ {0} /\ (n + 1) + 1 \in 1 .. N
    BY <1>1
  <2>3. c[(n + 1) + 1] = IF layers[(n + 1) + 1] = NoFile THEN c[n + 1]
                         ELSE update_dict(c[n + 1], layers[(n + 1) + 1])
    BY <1>1, <2>2
  <2>4. CASE layers[(n + 1) + 1] = NoFile
    BY <2>1, <2>3, <2>4
  <2>5. CASE layers[(n + 1) + 1] # NoFile
    <3>1. IsDict(layers[(n + 1) + 1])
      BY <1>3, <2>2, <2>5
    <3>. QED  BY <2>1, <2>3, <2>5, <3>1, UpdateIs
  <2>. QED  BY <2>4, <2>5
<1>6. \A n \in Nat : n \in S
  <2> HIDE DEF S
  <2>. QED  BY <1>4, <1>5, SetInduction
<1>7. N - 1 \in S /\ N - 1 \in Nat /\ (N - 1) + 1 = N
  <2> HIDE DEF S
  <2>. QED  BY <1>1, <1>6
<1>8. IsDict(c[N])
  BY <1>1, <1>7
<1>. QED  BY <1>8 DEF c

(* The languages of a dictionary, one for each key.                        *)
LEMMA LanguagesListed ==
  ASSUME NEW config, IsDict(config)
  PROVE  /\ DOMAIN LanguagesOf(config) = 1 .. Len(config.order)
         /\ Len(config.order) \in Nat
         /\ LanguagesOf(config) \in Seq({AsLanguage(id, config.values[id]) : id \in DOMAIN config.values})
         /\ Len(LanguagesOf(config)) = Len(config.order)
         /\ \A i \in 1 .. Len(config.order) :
              /\ config.order[i] \in DOMAIN config.values
              /\ LanguagesOf(config)[i] = AsLanguage(config.order[i], config.values[config.order[i]])
         /\ \A id \in DOMAIN config.values :
              \E i \in 1 .. Len(config.order) : config.order[i] = id
<1> DEFINE N == Len(config.order)
           L == {AsLanguage(id, config.values[id]) : id \in DOMAIN config.values}
<1>1. config.order \in Seq(DOMAIN config.values) /\ ToSet(config.order) = DOMAIN config.values
  BY DEF IsDict
<1>2. N \in Nat /\ DOMAIN config.order = 1 .. N /\ \A i \in 1 .. N : config.order[i] \in DOMAIN config.values
  BY <1>1
<1>3. LanguagesOf(config) = [i \in 1 .. N |-> AsLanguage(config.order[i], config.values[config.order[i]])]
  BY <1>2 DEF LanguagesOf
<1>4. LanguagesOf(config) \in [1 .. N -> L]
  BY <1>2, <1>3
<1>5. LanguagesOf(config) \in Seq(L) /\ Len(LanguagesOf(config)) = N
  <2> HIDE DEF L
  <2>. QED  BY <1>2, <1>4, SeqDef, LenProperties
<1>6. \A id \in DOMAIN config.values : \E i \in 1 .. N : config.order[i] = id
  BY <1>1, <1>2 DEF ToSet
<1>. QED  BY <1>2, <1>3, <1>5, <1>6

(* If Languages.update accepts it, a language is one that detection knows. *)
LEMMA LanguagesTyped ==
  ASSUME NEW config, IsDict(config), ~ LanguageConfigError(config)
  PROVE  LanguagesOf(config) \in Seq(Language) /\ PrioritiesDiffer(LanguagesOf(config))
<1>1. ASSUME NEW id \in DOMAIN config.values
      PROVE  AsLanguage(id, config.values[id]) \in Language
  <2> DEFINE spec == config.values[id]
  <2>1. IsTyped(spec) /\ id \in STRING
    BY DEF IsDict
  <2>2. /\ MANDATORY \subseteq DOMAIN spec
        /\ \A k \in DOMAIN spec : spec[k] # WrongType
        /\ Given(spec, "shebang") <=> Given(spec, "shebang_files")
    BY DEF LanguageConfigError, ValidSpec
  <2> HIDE DEF spec
  <2>3. spec["priority"] \in Int
    BY <2>1, <2>2 DEF IsTyped, MANDATORY
  <2>4. spec["files"] \in SUBSET Globs
    <3>1. "files" \in DOMAIN spec /\ spec["files"] # WrongType
      BY <2>2 DEF MANDATORY
    <3>. QED  BY <2>1, <3>1 DEF IsTyped
  <2>5. ASSUME Given(spec, "shebang")
        PROVE  spec["shebang_files"] \in SUBSET Globs /\ spec["shebang"] \in SUBSET Lines
    <3>1. /\ "shebang" \in DOMAIN spec /\ spec["shebang"] # WrongType
          /\ "shebang_files" \in DOMAIN spec /\ spec["shebang_files"] # WrongType
      BY <2>2, <2>5 DEF Given
    <3>. QED  BY <2>1, <3>1 DEF IsTyped
  <2>6. AsLanguage(id, spec) \in Language
    BY <2>1, <2>3, <2>4, <2>5 DEF AsLanguage, Language
  <2>. QED  BY <2>6 DEF spec
<1> DEFINE L == {AsLanguage(id, config.values[id]) : id \in DOMAIN config.values}
<1>2. L \subseteq Language
  BY <1>1
<1>3. LanguagesOf(config) \in Seq(L)
  BY LanguagesListed
<1> HIDE DEF L
<1>. QED  BY <1>2, <1>3, SeqMonotonic DEF LanguageConfigError

(* What has been loaded is what is meant.                                  *)
LEMMA LoadedIsIntended ==
  ASSUME NEW layers, AllOverridable(layers)
  PROVE  LET c == load_config(layers)[Len(layers)]
         IN  /\ \A id : id \in DOMAIN c.values <=> \E i \in DOMAIN layers : Gives(layers, i, id)
             /\ \A id \in DOMAIN c.values : c.values[id] = Intended(layers, id)
<1> DEFINE N == Len(layers)
           c == load_config(layers)[N]
<1>1. N \in Nat \ {0} /\ DOMAIN layers = 1 .. N
  BY LoadSteps DEF AllOverridable
<1>2. FromLast(layers, N, c)
  BY LoadedIsFromLast
<1> HIDE DEF c
<1>3. ASSUME NEW id \in DOMAIN c.values
      PROVE  c.values[id] = Intended(layers, id)
  <2> DEFINE specs == {layers[i].values[id] :
                         i \in {i \in DOMAIN layers :
                                  layers[i] # NoFile /\ id \in DOMAIN layers[i].values}}
             given == UNION {DOMAIN spec : spec \in specs}
             spec == c.values[id]
  <2>1. Intended(layers, id) = [k \in given |-> layers[Max(Givers(layers, id, k))].values[id][k]]
    BY DEF Intended
  <2>2. IsFunction(spec)
    BY <1>2 DEF FromLast, IsDict
  <2>3. ASSUME NEW k \in DOMAIN spec
        PROVE  k \in given /\ spec[k] = layers[Max(Givers(layers, id, k))].values[id][k]
    <3>1. PICK i \in 1 .. N :
            /\ i \in Givers(layers, id, k)
            /\ spec[k] = layers[i].values[id][k]
            /\ \A j \in 1 .. N : j \in Givers(layers, id, k) => j <= i
      BY <1>2 DEF FromLast
    <3>2. Givers(layers, id, k) \subseteq 1 .. N
      BY <1>1 DEF Givers
    <3>3. \A m \in Givers(layers, id, k) :
            (\A y \in Givers(layers, id, k) : m >= y) <=> m = i
      BY <1>1, <3>1, <3>2
    <3>4. Max(Givers(layers, id, k)) = i
      BY <3>1, <3>3 DEF Max
    <3>5. k \in given
      BY <3>1 DEF Givers, Given
    <3>. QED  BY <3>1, <3>4, <3>5
  <2>4. ASSUME NEW k \in given
        PROVE  k \in DOMAIN spec
    <3>1. PICK i \in DOMAIN layers : Gives(layers, i, id) /\ k \in DOMAIN layers[i].values[id]
      BY DEF Gives
    <3>. QED  BY <1>1, <1>2, <3>1 DEF FromLast
  <2> HIDE DEF given, spec
  <2>5. spec = [k \in given |-> layers[Max(Givers(layers, id, k))].values[id][k]]
    <3>1. DOMAIN spec = given
      BY <2>3, <2>4
    <3>. QED  BY <2>2, <2>3, <3>1 DEF IsFunction
  <2>. QED  BY <2>1, <2>5 DEF spec
<1>4. \A id : id \in DOMAIN c.values <=> \E i \in DOMAIN layers : Gives(layers, i, id)
  BY <1>1, <1>2 DEF FromLast
<1>. QED  BY <1>3, <1>4 DEF c

(* What LoadLanguages makes of the directories, and what it should make.   *)
LanguagesRead(layers) ==
  LET config == load_config(layers)[Len(layers)]
  IN  IF ConfigError(layers) \/ LanguageConfigError(config) THEN <<>> ELSE LanguagesOf(config)

LanguagesMeant(layers) ==
  LET ids == UNION {DOMAIN layers[i].values :
                      i \in {i \in DOMAIN layers : layers[i] # NoFile}}
      intended == [id \in ids |-> Intended(layers, id)]
      sensible == \A id \in ids : id \notin BadIds /\ ValidSpec(intended[id])
      distinct == \A a, b \in ids :
                    intended[a].priority = intended[b].priority => a = b
  IN  IF sensible /\ distinct THEN {AsLanguage(id, intended[id]) : id \in ids} ELSE {}

(* The languages that are read are those that are meant: for each key the  *)
(* value of the last file that gives it, and none if they make no sense    *)
(* together.                                                               *)
LEMMA ReadAsMeant ==
  ASSUME NEW layers, AllOverridable(layers)
  PROVE  ToSet(LanguagesRead(layers)) = LanguagesMeant(layers)
<1> DEFINE c == load_config(layers)[Len(layers)]
           ids == UNION {DOMAIN layers[i].values :
                           i \in {i \in DOMAIN layers : layers[i] # NoFile}}
           intended == [id \in ids |-> Intended(layers, id)]
           sensible == \A id \in ids : id \notin BadIds /\ ValidSpec(intended[id])
           distinct == \A a, b \in ids :
                         intended[a].priority = intended[b].priority => a = b
           ls == LanguagesOf(c)
           N == Len(c.order)
<1>1. ~ ConfigError(layers) /\ AreLayers(layers)
  BY DEF AllOverridable, ConfigError
<1>2. IsDict(c)
  BY <1>1, LoadedIsDict
<1>3. /\ \A id : id \in DOMAIN c.values <=> \E i \in DOMAIN layers : Gives(layers, i, id)
      /\ \A id \in DOMAIN c.values : c.values[id] = Intended(layers, id)
  BY LoadedIsIntended
<1>4. LanguagesRead(layers) = IF LanguageConfigError(c) THEN <<>> ELSE ls
  BY <1>1 DEF LanguagesRead
<1>5. LanguagesMeant(layers) =
        IF sensible /\ distinct THEN {AsLanguage(id, intended[id]) : id \in ids} ELSE {}
  BY DEF LanguagesMeant
<1>6. DOMAIN c.values = ids
  BY <1>3 DEF Gives
<1>7. \A id \in ids : intended[id] = c.values[id]
  BY <1>3, <1>6
<1> HIDE DEF c, ids, intended
<1>8. /\ DOMAIN ls = 1 .. N /\ N \in Nat /\ Len(ls) = N
      /\ \A i \in 1 .. N :
           c.order[i] \in ids /\ ls[i] = AsLanguage(c.order[i], c.values[c.order[i]])
      /\ \A id \in ids : \E i \in 1 .. N : c.order[i] = id
  BY <1>2, <1>6, LanguagesListed
<1>9. \A i, j \in 1 .. N : c.order[i] = c.order[j] => i = j
  <2>1. IsInjective(c.order) /\ DOMAIN c.order = 1 .. N
    BY <1>2 DEF IsDict
  <2>. QED  BY <2>1 DEF IsInjective
<1>10. sensible <=> ~ \E id \in DOMAIN c.values : id \in BadIds \/ ~ ValidSpec(c.values[id])
  BY <1>6, <1>7
<1>11. \A i \in 1 .. N : ls[i].priority = intended[c.order[i]].priority
  <2>1. \A id, spec : AsLanguage(id, spec).priority = spec.priority
    BY DEF AsLanguage
  <2> HIDE DEF ls
  <2>. QED  BY <1>7, <1>8, <2>1
<1>12. distinct <=> PrioritiesDiffer(ls)
  <2> HIDE DEF ls
  <2>1. ASSUME distinct
        PROVE  PrioritiesDiffer(ls)
    <3> SUFFICES ASSUME NEW i \in 1 .. N, NEW j \in 1 .. N, ls[i].priority = ls[j].priority
                 PROVE  i = j
      BY <1>8 DEF PrioritiesDiffer
    <3>1. c.order[i] = c.order[j]
      BY <1>8, <1>11, <2>1
    <3>. QED  BY <1>9, <3>1
  <2>2. ASSUME PrioritiesDiffer(ls)
        PROVE  distinct
    <3> SUFFICES ASSUME NEW a \in ids, NEW b \in ids,
                        intended[a].priority = intended[b].priority
                 PROVE  a = b
      OBVIOUS
    <3>1. PICK i \in 1 .. N : c.order[i] = a
      BY <1>8
    <3>2. PICK j \in 1 .. N : c.order[j] = b
      BY <1>8
    <3>3. ls[i].priority = ls[j].priority
      BY <1>11, <3>1, <3>2
    <3>. QED  BY <1>8, <2>2, <3>1, <3>2, <3>3 DEF PrioritiesDiffer
  <2>. QED  BY <2>1, <2>2
<1>13. LanguageConfigError(c) <=> ~ (sensible /\ distinct)
  BY <1>10, <1>12 DEF LanguageConfigError
<1>14. ToSet(ls) = {AsLanguage(id, intended[id]) : id \in ids}
  <2>1. ToSet(ls) = {ls[i] : i \in 1 .. N}
    BY <1>8 DEF ToSet
  <2> HIDE DEF ls
  <2>2. \A i \in 1 .. N : c.order[i] \in ids /\ ls[i] = AsLanguage(c.order[i], intended[c.order[i]])
    BY <1>7, <1>8
  <2>. QED  BY <1>8, <2>1, <2>2
<1>15. ToSet(<<>>) = {}
  BY DEF ToSet
<1> HIDE DEF ls, sensible, distinct
<1>. QED  BY <1>4, <1>5, <1>13, <1>14, <1>15

-----------------------------------------------------------------------------
(* The package stays what it is; the languages are what has been read of   *)
(* its configuration; entries still to be loaded are its entries.          *)
LInv ==
  /\ \E family \in Packages : pkg \in family
  /\ pc = "languages" => languages = <<>> /\ programs = <<>>
  /\ pc # "languages" => languages = LanguagesRead(pkg.layers)
  /\ todo \in Seq(ToSet(pkg.entries))
  /\ pc = "detecting" => todo # <<>>

(* Where a report leads.                                                   *)
LEMMA ReportLeads ==
  ASSUME NEW rs, NEW next, Report(rs, next)
  PROVE  /\ pc' \in {next, "stopped"}
         /\ pc' # "stopped" => reports' = reports \union ToSet(rs)
BY DEF Report, Goto

(* What is to be loaded is part of the package.                            *)
LEMMA EntriesAreEntries ==
  ASSUME \E family \in Packages : pkg \in family, NEW v
  PROVE  EntriesToLoad(v) \in Seq(ToSet(pkg.entries))
<1> DEFINE T == ToSet(pkg.entries)
           one(d) == Kept(pkg.entries, {e \in T : e.dir = d})
           p == MapSeq(one, ProgramDirs(v))
<1>1. pkg.entries \in Seq(T)
  BY PackagesAssumption
<1>2. \A d : one(d) \in Seq(T)
  BY <1>1, KeptIs
<1>3. DOMAIN ProgramDirs(v) = 1 .. 5
  BY DEF ProgramDirs
<1>4. EntriesToLoad(v) = FlattenSeq(p)
  BY DEF EntriesToLoad
<1>5. p = [i \in 1 .. 5 |-> one(ProgramDirs(v)[i])]
  BY <1>3 DEF MapSeq
<1> HIDE DEF one, p, T
<1>6. p \in [1 .. 5 -> Seq(T)]
  BY <1>2, <1>5
<1>7. p \in Seq(Seq(T))
  <2>1. \A n \in Nat : [1 .. n -> Seq(T)] \subseteq Seq(Seq(T))
    BY SeqDef
  <2>2. 5 \in Nat
    OBVIOUS
  <2>. QED  BY <1>6, <2>1, <2>2
<1>8. FlattenSeq(p) \in Seq(T)
  BY <1>7, FlattenHolds
<1>. QED  BY <1>4, <1>8 DEF T

(* The languages are those of the configuration from the moment they are   *)
(* read, and what is still to be loaded is in the package.                 *)
LEMMA LInvHolds == LoadSpec => []LInv
<1>1. LoadInit => LInv
  <2> SUFFICES ASSUME LoadInit PROVE LInv
    OBVIOUS
  <2>. QED  BY DEF LoadInit, DetectInit, LInv
<1>2. LInv /\ [LoadNext]_loadVars => LInv'
  <2> SUFFICES ASSUME LInv, [LoadNext]_loadVars PROVE LInv'
    OBVIOUS
  <2> USE DEF LInv
  <2>1. CASE LoadLanguages
    <3>0. pkg' = pkg /\ pc = "languages"
      BY <2>1 DEF LoadLanguages
    <3> DEFINE config == load_config(pkg.layers)[Len(pkg.layers)]
    <3>1. CASE ConfigError(pkg.layers) \/ LanguageConfigError(config)
      <4>1. LoadFails
        BY <2>1, <3>1 DEF LoadLanguages
      <4>2. languages' = <<>> /\ todo' = todo /\ programs' = programs
        BY <3>0, <4>1 DEF LoadFails, detection
      <4>3. pc' = "stopped"
        BY <4>1, ReportLeads DEF LoadFails
      <4>4. LanguagesRead(pkg.layers) = <<>>
        BY <3>1 DEF LanguagesRead
      <4>. QED  BY <3>0, <4>2, <4>3, <4>4
    <3>2. CASE ~ (ConfigError(pkg.layers) \/ LanguageConfigError(config))
      <4>1. /\ Configure(LanguagesOf(config)) /\ pc' = "metadata"
            /\ todo' = todo
        BY <2>1, <3>2 DEF LoadLanguages, Goto
      <4>2. languages' = LanguagesRead(pkg.layers)
        BY <3>2, <4>1 DEF LanguagesRead, Configure
      <4>. QED  BY <3>0, <4>1, <4>2
    <3>. QED  BY <3>1, <3>2
  <2>2. CASE LoadMetadata
    <3>0. pkg' = pkg /\ pc = "metadata" /\ UNCHANGED detection
      BY <2>2 DEF LoadMetadata, LoadFails
    <3>1. /\ pc' \in {"programs", "stopped"}
          /\ todo' = todo \/ \E v : todo' = EntriesToLoad(v)
      BY <2>2, ReportLeads DEF LoadMetadata, LoadFails, Goto
    <3>2. todo' \in Seq(ToSet(pkg.entries))
      BY <3>1, EntriesAreEntries
    <3>. QED  BY <3>0, <3>1, <3>2 DEF detection
  <2>3. CASE TakeAsItIs
    <3>1. todo' \in Seq(ToSet(pkg.entries))
      BY <2>3 DEF TakeAsItIs
    <3>. QED  BY <2>3, <3>1 DEF TakeAsItIs, detection
  <2>4. CASE LookAtFiles
    BY <2>4 DEF LookAtFiles, Look, Goto
  <2>5. CASE DetectOne
    BY <2>5 DEF DetectOne, DetectStep
  <2>6. CASE EndDetection
    <3>1. /\ todo' = Tail(todo) /\ pkg' = pkg /\ UNCHANGED detection
          /\ pc = "detecting" /\ pc' = "programs"
      BY <2>6 DEF EndDetection, Goto
    <3>2. todo' \in Seq(ToSet(pkg.entries))
      BY <3>1
    <3>. QED  BY <3>1, <3>2 DEF detection
  <2>7. CASE EndLoading
    BY <2>7 DEF EndLoading, Goto, detection
  <2>8. ASSUME NEW label, NEW rs, NEW next, label # "languages",
               next \notin {"languages", "detecting"}, Check(label, rs, next)
        PROVE  LInv'
    <3>1. pc' \in {next, "stopped"} /\ pc = label /\ UNCHANGED <<detection, pkg, todo>>
      BY <2>8, ReportLeads DEF Check
    <3>. QED  BY <2>8, <3>1 DEF detection
  <2>9. CASE UNCHANGED loadVars
    BY <2>9 DEF loadVars, detection
  <2>10. CASE CheckPackage
    <3> DEFINE rs == When(pkg.shortname = "Bad-Name", Error("shortname")) \o
                     When(version = V_2023_07, Warning("2023-07 is incomplete")) \o
                     check_problem_package(pkg, version)
    <3>1. Check("package", rs, "config")
      BY <2>10 DEF CheckPackage
    <3> HIDE DEF rs
    <3>2. "package" # "languages" /\ "config" \notin {"languages", "detecting"}
      OBVIOUS
    <3>. QED  BY <2>8, <3>1, <3>2
  <2>11. CASE CheckConfig
    BY <2>8, <2>11 DEF CheckConfig
  <2>12. CASE CheckStatements
    BY <2>8, <2>12 DEF CheckStatements
  <2>13. CASE CheckAttachments
    BY <2>8, <2>13 DEF CheckAttachments
  <2>14. CASE CheckGraders
    BY <2>8, <2>14 DEF CheckGraders
  <2>15. CASE CheckIncludes
    BY <2>8, <2>15 DEF CheckIncludes
  <2>. QED  BY <2>1, <2>2, <2>3, <2>4, <2>5, <2>6, <2>7, <2>9, <2>10, <2>11, <2>12,
               <2>13, <2>14, <2>15
            DEF LoadNext
<1>. QED  BY <1>1, <1>2, PTL DEF LoadSpec

-----------------------------------------------------------------------------
(* Language detection, for languages and programs of any origin.           *)
DTypeOK ==
  /\ languages \in Seq(Language)
  /\ files \in Files
  /\ IsFiniteSet(DOMAIN files)
  /\ PrioritiesDiffer(languages)
  /\ at \in Nat \ {0}
  /\ at <= Len(languages) + 1
  /\ found \in 0 .. (at - 1)

(* found is the best of the languages before at.                           *)
BestSoFar ==
  IF found = 0
  THEN \A j \in 1 .. (at - 1) : Count(j) = 0
  ELSE /\ Count(found) > 0
       /\ \A j \in 1 .. (at - 1) : j # found =>
            \/ Count(j) < Count(found)
            \/ /\ Count(j) = Count(found)
               /\ languages[j].priority < languages[found].priority

DInv == DTypeOK /\ BestSoFar

(* The number of files that count for a language is a natural number.      *)
LEMMA CountIsNat ==
  ASSUME DTypeOK, NEW i \in 1 .. Len(languages)
  PROVE  Count(i) \in Nat
<1>1. get_source_files_for_detection(languages[i], files) \subseteq DOMAIN files
  BY DEF get_source_files_for_detection, get_source_files
<1>2. IsFiniteSet(get_source_files_for_detection(languages[i], files))
  BY <1>1, FS_Subset DEF DTypeOK
<1> QED
  BY <1>2, FS_CardinalityType DEF Count

(* A language with a file that counts has a source file.                   *)
LEMMA CountedAreSources ==
  ASSUME DTypeOK, NEW i \in 1 .. Len(languages), Count(i) > 0
  PROVE  get_source_files(languages[i], files) # {}
<1> SUFFICES ASSUME get_source_files(languages[i], files) = {}
             PROVE  FALSE
  OBVIOUS
<1>1. get_source_files_for_detection(languages[i], files) = {}
  BY DEF get_source_files_for_detection
<1>2. Count(i) = 0
  BY <1>1, FS_EmptySet DEF Count
<1> QED
  BY <1>2

(* Priorities can be compared.                                             *)
LEMMA PrioritiesAreNumbers ==
  ASSUME DTypeOK, NEW i \in 1 .. Len(languages)
  PROVE  languages[i].priority \in Int
<1>1. languages[i] \in Language
  BY DEF DTypeOK
<1> QED
  BY <1>1 DEF Language

(* The language found so far is the best of those looked at, since         *)
(* different priorities leave no tie.                                      *)
LEMMA DInvHolds == DetectSpec => []DInv
<1>1. DetectInit => DInv
  <2> SUFFICES ASSUME DetectInit PROVE DInv
    OBVIOUS
  <2>1. <<>> \in Files /\ DOMAIN (<<>>) = {}
    <3>1. <<>> \in [{} -> Lines] /\ {} \in SUBSET Paths
      OBVIOUS
    <3> QED
      BY <3>1 DEF Files
  <2>2. languages \in Seq(Language) /\ Len(languages) = 0
    BY DEF DetectInit
  <2>3. DTypeOK
    BY <2>1, <2>2, FS_EmptySet DEF DetectInit, DTypeOK, PrioritiesDiffer
  <2> QED
    BY <2>3 DEF DetectInit, DInv, BestSoFar
<1>2. DInv /\ [DetectNext]_detection => DInv'
  <2> SUFFICES ASSUME DInv, [DetectNext]_detection PROVE DInv'
    OBVIOUS
  <2> USE DEF DInv
  <2>1. CASE UNCHANGED detection
    BY <2>1 DEF detection, DTypeOK, BestSoFar, Count, PrioritiesDiffer
  <2>3. ASSUME NEW ls \in Seq(Language), Configure(ls)
        PROVE  DInv'
    <3>1. <<>> \in Files /\ DOMAIN (<<>>) = {}
      <4>1. <<>> \in [{} -> Lines] /\ {} \in SUBSET Paths
        OBVIOUS
      <4> QED
        BY <4>1 DEF Files
    <3>2. Len(ls) \in Nat
      OBVIOUS
    <3>3. DTypeOK'
      BY <2>3, <3>1, <3>2, FS_EmptySet DEF Configure, DTypeOK, PrioritiesDiffer
    <3>4. ASSUME NEW j \in 1 .. Len(ls)
          PROVE  Count(j)' = 0
      <4>1. DOMAIN files' = {}
        BY <2>3, <3>1 DEF Configure
      <4>2. get_source_files_for_detection(languages'[j], files') = {}
        BY <4>1 DEF get_source_files_for_detection, get_source_files
      <4> QED
        BY <4>2, FS_EmptySet DEF Count
    <3>5. found' = 0 /\ at' - 1 = Len(ls)
      BY <2>3, <3>2 DEF Configure
    <3> QED
      BY <3>3, <3>4, <3>5 DEF BestSoFar
  <2>4. ASSUME NEW fs \in {f \in Files : IsFiniteSet(DOMAIN f)}, Look(fs)
        PROVE  DInv'
    <3>1. Len(languages) \in Nat
      BY DEF DTypeOK
    <3>2. DTypeOK'
      BY <2>4, <3>1 DEF Look, DTypeOK, PrioritiesDiffer
    <3> QED
      BY <2>4, <3>2 DEF Look, BestSoFar
  <2>2. CASE DetectStep
    <3>0. Len(languages) \in Nat
      BY DEF DTypeOK
    <3>1. /\ languages' = languages
          /\ files' = files
          /\ at' = at + 1
          /\ at \in 1 .. Len(languages)
          /\ found' = IF Outdoes(at, found) THEN at ELSE found
      BY <2>2, <3>0 DEF DetectStep, DTypeOK
    <3>2. \A j : Count(j)' = Count(j)
      BY <3>1 DEF Count
    <3>3. DTypeOK'
      BY <3>0, <3>1 DEF DTypeOK, PrioritiesDiffer
    <3>4. \A j \in 1 .. Len(languages) :
            Count(j) \in Nat /\ languages[j].priority \in Int
      BY CountIsNat, PrioritiesAreNumbers
    <3>5. (at' - 1) = at /\ 1 .. at = (1 .. (at - 1)) \union {at}
      BY <3>1 DEF DTypeOK
    <3>6. found = 0 \/ found \in 1 .. Len(languages)
      BY <3>0, <3>1 DEF DTypeOK
    <3>7. \A j \in 1 .. (at - 1) : j \in 1 .. Len(languages) /\ j # at
      BY <3>0, <3>1 DEF DTypeOK
    <3>8. CASE Outdoes(at, found)
      <4>1. found' = at /\ at # 0
        BY <3>1, <3>8
      <4>2. Count(at) > 0
        <5>1. Count(found) > 0 \/ found = 0
          BY DEF BestSoFar
        <5> QED
          BY <3>1, <3>4, <3>6, <3>8, <5>1 DEF Outdoes
      <4>3. ASSUME NEW j \in 1 .. (at - 1)
            PROVE  \/ Count(j) < Count(at)
                   \/ /\ Count(j) = Count(at)
                      /\ languages[j].priority < languages[at].priority
        <5>1. CASE found = 0
          BY <3>1, <3>4, <4>2, <5>1 DEF BestSoFar
        <5>2. CASE found # 0
          <6>1. /\ Count(j) \in Nat /\ Count(at) \in Nat /\ Count(found) \in Nat
                /\ languages[j].priority \in Int
                /\ languages[at].priority \in Int
                /\ languages[found].priority \in Int
            BY <3>1, <3>4, <3>6, <3>7, <5>2
          <6>2. \/ Count(at) > Count(found)
                \/ /\ Count(at) = Count(found)
                   /\ languages[at].priority > languages[found].priority
            BY <3>8, <5>2 DEF Outdoes
          <6>3. \/ j = found
                \/ Count(j) < Count(found)
                \/ /\ Count(j) = Count(found)
                   /\ languages[j].priority < languages[found].priority
            BY <5>2 DEF BestSoFar
          <6> HIDE DEF DInv
          <6> QED
            BY <6>1, <6>2, <6>3
        <5> QED
          BY <5>1, <5>2
      <4> QED
        BY <3>1, <3>2, <3>3, <3>5, <4>1, <4>2, <4>3 DEF BestSoFar
    <3>9. CASE ~ Outdoes(at, found)
      <4>1. found' = found
        BY <3>1, <3>9
      <4>2. CASE found = 0
        <5>1. Count(at) = 0
          BY <3>1, <3>4, <3>9, <4>2 DEF Outdoes
        <5> QED
          BY <3>1, <3>2, <3>3, <3>5, <4>1, <4>2, <5>1 DEF BestSoFar
      <4>3. CASE found # 0
        <5>1. found # at /\ found \in 1 .. Len(languages)
          BY <3>6, <3>7, <4>3 DEF DTypeOK
        <5>2. languages[at].priority # languages[found].priority
          BY <3>1, <5>1 DEF DTypeOK, PrioritiesDiffer
        <5>3. \/ Count(at) < Count(found)
              \/ /\ Count(at) = Count(found)
                 /\ languages[at].priority < languages[found].priority
          BY <3>1, <3>4, <3>9, <4>3, <5>1, <5>2 DEF Outdoes
        <5> QED
          BY <3>1, <3>2, <3>3, <3>5, <4>1, <4>3, <5>3 DEF BestSoFar
      <4> QED
        BY <4>2, <4>3
    <3> QED
      BY <3>8, <3>9
  <2> QED
    BY <2>1, <2>2, <2>3, <2>4 DEF DetectNext
<1> QED
  BY <1>1, <1>2, PTL DEF DetectSpec

(* For every configuration with distinct priorities, in whatever order its *)
(* languages come, and for every program, detect_language returns what     *)
(* languages.yaml documents, and that language has source files in the     *)
(* program.                                                                *)
THEOREM DetectionFollowsDocumentation == DetectSpec => []DetectionIsDocumented
<1>1. DInv => DetectionIsDocumented
  <2> SUFFICES ASSUME DInv, Detected
               PROVE  /\ found \in 0 .. Len(languages)
                      /\ Documented(found)
                      /\ found # 0 =>
                           get_source_files(languages[found], files) # {}
    BY DEF DetectionIsDocumented
  <2> USE DEF DInv
  <2>0. Len(languages) \in Nat
    BY DEF DTypeOK
  <2>1. at - 1 = Len(languages)
    BY <2>0 DEF DTypeOK, Detected
  <2>2. found \in 0 .. Len(languages)
    BY <2>1 DEF DTypeOK
  <2>3. \A j \in 1 .. Len(languages) :
          Count(j) \in Nat /\ languages[j].priority \in Int
    BY CountIsNat, PrioritiesAreNumbers
  <2>4. Documented(found)
    BY <2>0, <2>1, <2>2, <2>3 DEF BestSoFar, Documented
  <2>5. found # 0 => get_source_files(languages[found], files) # {}
    BY <2>0, <2>1, <2>2, CountedAreSources DEF BestSoFar
  <2> QED
    BY <2>2, <2>4, <2>5
<1> QED
  BY <1>1, DInvHolds, PTL

-----------------------------------------------------------------------------
(* Loading a package uses detection as Languages describes it: only with   *)
(* languages that differ in priority, and one program after the other.     *)
LEMMA LoadDetects == LoadSpec => DetectSpec
<1>1. LoadInit => DetectInit
  BY DEF LoadInit
<1>2. LInv /\ [LoadNext]_loadVars => [DetectNext]_detection
  <2> SUFFICES ASSUME LInv, [LoadNext]_loadVars PROVE [DetectNext]_detection
    OBVIOUS
  <2>1. CASE LoadLanguages
    <3> DEFINE config == load_config(pkg.layers)[Len(pkg.layers)]
    <3>1. CASE ConfigError(pkg.layers) \/ LanguageConfigError(config)
      BY <2>1, <3>1 DEF LoadLanguages, LoadFails
    <3>2. CASE ~ (ConfigError(pkg.layers) \/ LanguageConfigError(config))
      <4>1. Configure(LanguagesOf(config))
        BY <2>1, <3>2 DEF LoadLanguages
      <4>2. AreLayers(pkg.layers)
        BY PackagesAssumption DEF LInv
      <4>3. LanguagesOf(config) \in Seq(Language)
        BY <3>2, <4>2, LoadedIsDict, LanguagesTyped
      <4>. QED  BY <4>1, <4>3 DEF DetectNext
    <3>. QED  BY <3>1, <3>2
  <2>2. CASE LoadMetadata
    BY <2>2 DEF LoadMetadata, LoadFails
  <2>3. CASE TakeAsItIs
    BY <2>3 DEF TakeAsItIs
  <2>4. CASE LookAtFiles
    <3>1. Look(Head(todo).files) /\ todo # <<>>
      BY <2>4 DEF LookAtFiles
    <3>2. Head(todo) \in ToSet(pkg.entries)
      BY <3>1, HeadTailProperties DEF LInv
    <3>3. Head(todo).files \in Files /\ IsFiniteSet(DOMAIN Head(todo).files)
      BY <3>2, PackagesAssumption DEF LInv
    <3>. QED  BY <3>1, <3>3 DEF DetectNext
  <2>5. CASE DetectOne
    BY <2>5 DEF DetectOne, DetectNext
  <2>6. CASE EndDetection
    BY <2>6 DEF EndDetection
  <2>7. CASE EndLoading
    BY <2>7 DEF EndLoading
  <2>8. ASSUME NEW label, NEW rs, NEW next, Check(label, rs, next)
        PROVE  UNCHANGED detection
    BY <2>8 DEF Check
  <2>9. CASE UNCHANGED loadVars
    BY <2>9 DEF loadVars
  <2>10. CASE CheckPackage \/ CheckConfig \/ CheckStatements \/ CheckAttachments
                \/ CheckGraders \/ CheckIncludes
    <3>1. UNCHANGED detection
      BY <2>10, <2>8 DEF CheckPackage, CheckConfig, CheckStatements, CheckAttachments,
                         CheckGraders, CheckIncludes
    <3>. QED  BY <3>1
  <2>. QED  BY <2>1, <2>2, <2>3, <2>4, <2>5, <2>6, <2>7, <2>9, <2>10 DEF LoadNext
<1>. QED  BY <1>1, <1>2, LInvHolds, PTL DEF LoadSpec, DetectSpec

(* So the language of every program of every package is the documented     *)
(* one: in whatever order the configuration files list the languages, and  *)
(* however they override each other.                                       *)
THEOREM ProgramsAreDetected == LoadSpec => []DetectionIsDocumented
BY LoadDetects, DetectionFollowsDocumentation, PTL

(* Whatever files are in the search path, each language that is loaded has *)
(* for each key the value of the last file that gives it; and if the files *)
(* together make no sense, none is loaded.                                 *)
THEOREM ConfigurationIsMerged == LoadSpec => []LayersOverrideKeyByKey
<1>1. LInv => LayersOverrideKeyByKey
  <2> SUFFICES ASSUME LInv,
                      pc # "languages",
                      Unreadable \notin ToSet(pkg.layers), pkg.layers[1] # NoFile,
                      \A id \in UNION {DOMAIN pkg.layers[i].values :
                             i \in {i \in DOMAIN pkg.layers : pkg.layers[i] # NoFile}} :
                        Overridable(id)
               PROVE  ToSet(languages) = LanguagesMeant(pkg.layers)
    BY DEF LayersOverrideKeyByKey, LanguagesMeant
  <2>1. AreLayers(pkg.layers)
    BY PackagesAssumption DEF LInv
  <2>2. \A i \in DOMAIN pkg.layers : pkg.layers[i] # Unreadable
    BY DEF ToSet
  <2>3. AllOverridable(pkg.layers)
    BY <2>1, <2>2 DEF AllOverridable, Gives, Overridable
  <2>. QED  BY <2>3, ReadAsMeant DEF LInv
<1>. QED  BY <1>1, LInvHolds, PTL

-----------------------------------------------------------------------------
(* Where submissions start.                                                *)
AnyReport == {Error("default includes"), Warning("unknown language"), Error("several main files"),
              Error("default main file"), Error("collision")}

(* What a check reports of each element of a set is among its reports.     *)
LEMMA OneReportEach ==
  ASSUME NEW S, IsFiniteSet(S), NEW r \in AnyReport
  PROVE  LET rs == [i \in DOMAIN SetToSeq(S) |-> r]
         IN  rs \in Seq(AnyReport) /\ (S # {} => r \in ToSet(rs))
<1> DEFINE s == SetToSeq(S)
           rs == [i \in DOMAIN s |-> r]
<1>1. s \in Seq(S) /\ ToSet(s) = S
  BY SetToSeqIs
<1> HIDE DEF s
<1>2. Len(s) \in Nat /\ DOMAIN s = 1 .. Len(s)
  BY <1>1
<1>3. rs \in [1 .. Len(s) -> AnyReport]
  BY <1>2
<1>4. rs \in Seq(AnyReport)
  <2> HIDE DEF rs
  <2>. QED  BY <1>2, <1>3, SeqDef
<1>5. S # {} => \E i \in DOMAIN s : TRUE
  BY <1>1 DEF ToSet
<1>6. S # {} => r \in ToSet(rs)
  BY <1>5 DEF ToSet
<1>. QED  BY <1>4, <1>6 DEF s

(* Glued sequences hold what both hold.                                    *)
LEMMA GlueIs ==
  ASSUME NEW T, NEW s \in Seq(T), NEW t \in Seq(T)
  PROVE  Glue(s, t) \in Seq(T) /\ ToSet(Glue(s, t)) = ToSet(s) \union ToSet(t)
<1>1. s \o t \in Seq(T)
  BY ConcatProperties
<1>. QED  BY <1>1, ToSetConcat DEF Glue

(* The reports of check_includes that count here.                          *)
LEMMA IncludeReports ==
  ASSUME NEW includes, NEW ls, NEW v, IsFiniteSet(DOMAIN includes), ls \in Seq(Language)
  PROVE  /\ \A id \in DOMAIN includes \ {"default"} :
              (\E i \in DOMAIN ls : ls[i].id = id) /\ Cardinality(mainfile_candidates(includes[id])) > 1
              => Error("several main files") \in ToSet(check_includes(includes, ls, v))
         /\ ls # <<>> /\ mainfile_candidates(FilesFor(includes, "default")) # {}
              => Error("default main file") \in ToSet(check_includes(includes, ls, v))
<1> DEFINE a == check_default_and_unknown_languages(includes, ls, v)
           b == check_ambiguous_mainfile(includes, ls)
           c == check_default_sets_mainfile(includes, ls)
           d == check_default_path_collision(includes)
<1>1. a \in Seq(AnyReport)
  <2> DEFINE s == SetToSeq(DOMAIN includes)
             About(id) == IF id = "default" THEN When(v = LEGACY, Error("default includes"))
                          ELSE When(\A i \in DOMAIN ls : ls[i].id # id, Warning("unknown language"))
             p == [i \in DOMAIN s |-> About(s[i])]
  <2>1. s \in Seq(DOMAIN includes)
    BY SetToSeqIs
  <2>2. ASSUME NEW id PROVE About(id) \in Seq(AnyReport)
    <3>0. \A r \in AnyReport : <<r>> \in Seq(AnyReport)
      <4> HIDE DEF AnyReport
      <4>. QED  OBVIOUS
    <3>1. /\ Error("default includes") \in AnyReport
          /\ Warning("unknown language") \in AnyReport
      BY DEF AnyReport
    <3> HIDE DEF AnyReport
    <3>2. \A given \in BOOLEAN : \A r \in AnyReport : When(given, r) \in Seq(AnyReport)
      BY <3>0 DEF When
    <3> DEFINE r1 == Error("default includes")
               r2 == Warning("unknown language")
               c1 == v = LEGACY
               c2 == \A i \in DOMAIN ls : ls[i].id # id
    <3>3. c1 \in BOOLEAN /\ c2 \in BOOLEAN /\ r1 \in AnyReport /\ r2 \in AnyReport
      BY <3>1
    <3> HIDE DEF c1, c2, r1, r2
    <3>4. When(c1, r1) \in Seq(AnyReport) /\ When(c2, r2) \in Seq(AnyReport)
      BY <3>2, <3>3
    <3>5. About(id) = IF id = "default" THEN When(c1, r1) ELSE When(c2, r2)
      BY DEF c1, c2, r1, r2
    <3>. QED  BY <3>4, <3>5
  <2>3. a = FlattenSeq(p)
    BY DEF check_default_and_unknown_languages, ForEach, MapSeq
  <2> HIDE DEF s, About
  <2>4. Len(s) \in Nat /\ DOMAIN s = 1 .. Len(s)
    BY <2>1
  <2>5. p \in [1 .. Len(s) -> Seq(AnyReport)]
    BY <2>2, <2>4
  <2> HIDE DEF p
  <2>6. p \in Seq(Seq(AnyReport))
    BY <2>4, <2>5, SeqDef
  <2>. QED  BY <2>3, <2>6, FlattenHolds
<1>2. /\ b \in Seq(AnyReport)
      /\ \A id \in DOMAIN includes \ {"default"} :
           (\E i \in DOMAIN ls : ls[i].id = id) /\ Cardinality(mainfile_candidates(includes[id])) > 1
           => Error("several main files") \in ToSet(b)
  <2> DEFINE S == {id \in DOMAIN includes \ {"default"} :
                     /\ \E i \in DOMAIN ls : ls[i].id = id
                     /\ Cardinality(mainfile_candidates(includes[id])) > 1}
  <2>1. IsFiniteSet(S)
    BY FS_Subset
  <2>2. b = [i \in DOMAIN SetToSeq(S) |-> Error("several main files")]
    BY DEF check_ambiguous_mainfile, ForEach, MapSeq
  <2>3. b \in Seq(AnyReport) /\ (S # {} => Error("several main files") \in ToSet(b))
    <3>1. Error("several main files") \in AnyReport
      BY DEF AnyReport
    <3> HIDE DEF S, b
    <3>. QED  BY <2>1, <2>2, <3>1, OneReportEach
  <2>. QED  BY <2>3
<1>3. /\ c \in Seq(AnyReport)
      /\ ls # <<>> /\ mainfile_candidates(FilesFor(includes, "default")) # {}
           => Error("default main file") \in ToSet(c)
  <2> DEFINE one == When(mainfile_candidates(FilesFor(includes, "default")) # {},
                         Error("default main file"))
             p == [i \in DOMAIN ls |-> one]
  <2>1. /\ one \in Seq(AnyReport)
        /\ mainfile_candidates(FilesFor(includes, "default")) # {}
             => Error("default main file") \in ToSet(one)
    <3>1. Error("default main file") \in AnyReport
      BY DEF AnyReport
    <3> DEFINE r == Error("default main file")
    <3> HIDE DEF r
    <3>2. <<r>> \in Seq(AnyReport) /\ r \in ToSet(<<r>>) /\ <<>> \in Seq(AnyReport)
      <4>0. r \in AnyReport
        BY <3>1 DEF r
      <4>1. <<r>> \in Seq(AnyReport) /\ <<>> \in Seq(AnyReport)
        BY <4>0
      <4>2. 1 \in DOMAIN <<r>> /\ <<r>>[1] = r
        OBVIOUS
      <4>. QED  BY <4>1, <4>2 DEF ToSet
    <3>. QED  BY <3>2 DEF When, r
  <2>2. c = FlattenSeq(p)
    BY DEF check_default_sets_mainfile, MapSeq
  <2> HIDE DEF one, c
  <2>3. Len(ls) \in Nat /\ DOMAIN ls = 1 .. Len(ls)
    OBVIOUS
  <2>4. p \in [1 .. Len(ls) -> Seq(AnyReport)]
    BY <2>1, <2>3
  <2>5. ls # <<>> => 1 \in DOMAIN ls /\ p[1] = one
    BY <2>3, EmptySeq
  <2>6. DOMAIN p = DOMAIN ls
    OBVIOUS
  <2> HIDE DEF p
  <2>7. p \in Seq(Seq(AnyReport))
    BY <2>3, <2>4, SeqDef
  <2>8. FlattenSeq(p) \in Seq(AnyReport) /\ ToSet(FlattenSeq(p)) = UNION {ToSet(p[i]) : i \in DOMAIN p}
    BY <2>7, FlattenHolds
  <2>. QED  BY <2>1, <2>2, <2>5, <2>6, <2>8
<1>4. d \in Seq(AnyReport)
  <2> DEFINE S == {id \in DOMAIN includes \ {"default"} :
                     includes[id] \intersect FilesFor(includes, "default") # {}}
  <2>1. IsFiniteSet(S)
    BY FS_Subset
  <2>2. d = [i \in DOMAIN SetToSeq(S) |-> Error("collision")]
    BY DEF check_default_path_collision, ForEach, MapSeq
  <2>3. Error("collision") \in AnyReport
    BY DEF AnyReport
  <2> HIDE DEF S, d
  <2>. QED  BY <2>1, <2>2, <2>3, OneReportEach
<1>5. check_includes(includes, ls, v) = a \o b \o c \o d
  BY DEF check_includes
<1> HIDE DEF a, b, c, d
<1> DEFINE e == Glue(a, b)
           f == Glue(e, c)
<1>6. e \in Seq(AnyReport) /\ ToSet(e) = ToSet(a) \union ToSet(b)
  <2>1. b \in Seq(AnyReport)
    BY <1>2
  <2>. QED  BY <1>1, <2>1, GlueIs
<1>9. check_includes(includes, ls, v) = Glue(f, d)
  BY <1>5 DEF Glue
<1> HIDE DEF e
<1>7. f \in Seq(AnyReport) /\ ToSet(f) = ToSet(e) \union ToSet(c)
  <2>1. c \in Seq(AnyReport)
    BY <1>3
  <2>. QED  BY <2>1, <1>6, GlueIs
<1> HIDE DEF f
<1>8. ToSet(Glue(f, d)) = ToSet(f) \union ToSet(d)
  BY <1>4, <1>7, GlueIs
<1>. QED  BY <1>2, <1>3, <1>6, <1>7, <1>8, <1>9

(* The first of a set of paths is one of them.                             *)
LEMMA FirstIsIn ==
  ASSUME NEW S, S # {}, S \subseteq ToSet(PathOrder)
  PROVE  First(S) \in S
<1> DEFINE I == {i \in 1 .. Len(PathOrder) : PathOrder[i] \in S}
<1>1. Len(PathOrder) \in Nat /\ DOMAIN PathOrder = 1 .. Len(PathOrder)
  BY PathOrderAssumption
<1>2. I # {} /\ I \in SUBSET Nat
  BY <1>1 DEF ToSet
<1>3. PICK m \in I : \A y \in I : ~ (<<y, m>> \in OpToRel(<, Nat))
  BY <1>2, NatLessThanWellFounded, WFMin
<1>4. \A y \in I : m <= y
  <2>1. \A y \in I : ~ (y < m)
    BY <1>2, <1>3 DEF OpToRel
  <2>. QED  BY <1>2, <2>1
<1>5. Min(I) \in I
  BY <1>3, <1>4 DEF Min
<1>6. SelectInSeq(PathOrder, LAMBDA p : p \in S) = Min(I)
  BY <1>2 DEF SelectInSeq
<1> HIDE DEF I
<1>7. PathOrder[Min(I)] \in S
  BY <1>5 DEF I
<1>. QED  BY <1>6, <1>7 DEF First

(* Only finitely many paths occur in programs.                             *)
LEMMA PathsAreFinite == IsFiniteSet(ToSet(PathOrder))
<1>1. PathOrder \in [1 .. Len(PathOrder) -> Paths] /\ Len(PathOrder) \in Nat
  BY PathOrderAssumption
<1>2. PathOrder \in Surjection(1 .. Len(PathOrder), ToSet(PathOrder))
  BY <1>1 DEF Surjection, ToSet
<1>3. IsFiniteSet(1 .. Len(PathOrder))
  BY <1>1, FS_Interval
<1>. QED  BY <1>2, <1>3, FS_Surjection

(* A submission starts at the first main file of the include files of its  *)
(* language, if there is one.                                              *)
StartsAtInclude(p, includes, ls) ==
  p.dir = "submissions" /\ p.lang # 0 =>
    /\ p.lang \in DOMAIN ls
    /\ LET own == MainIncluded(includes, ls[p.lang])
       IN  own # {} => p.mainfile = First(own)

StartsRight == \A i \in DOMAIN programs : StartsAtInclude(programs[i], pkg.includes, languages)

IncludesChecked ==
  pc = "verified" => ToSet(check_includes(pkg.includes, languages, version)) \subseteq reports

SInv ==
  /\ programs \in Seq(ToSet(programs))
  /\ StartsRight
  /\ IncludesChecked

(* One more program that starts where it should.                           *)
LEMMA OneMore ==
  ASSUME NEW p, NEW programs1, programs \in Seq(ToSet(programs)),
         programs1 = Append(programs, p), StartsRight, StartsAtInclude(p, pkg.includes, languages)
  PROVE  /\ programs1 \in Seq(ToSet(programs1))
         /\ \A i \in DOMAIN programs1 : StartsAtInclude(programs1[i], pkg.includes, languages)
<1> DEFINE T == ToSet(programs) \union {p}
           n == Len(programs)
<1>1. programs \in Seq(T)
  BY SeqMonotonic, ToSet(programs) \subseteq T
<1> HIDE DEF T
<1>2. p \in T
  BY DEF T
<1>3. /\ n \in Nat /\ DOMAIN programs = 1 .. n
      /\ programs1 \in Seq(T) /\ Len(programs1) = n + 1 /\ DOMAIN programs1 = 1 .. n + 1
      /\ \A i \in 1 .. n : programs1[i] = programs[i]
      /\ programs1[n + 1] = p
  BY <1>1, <1>2, AppendProperties
<1> DEFINE N == n + 1
<1>4. N \in Nat /\ programs1 \in [1 .. N -> T] /\ DOMAIN programs1 = 1 .. N
  <2>1. N \in Nat /\ DOMAIN programs1 = 1 .. N /\ programs1 \in Seq(T) /\ Len(programs1) = N
    BY <1>3
  <2>2. programs1 \in [1 .. Len(programs1) -> T]
    BY <1>3, LenProperties
  <2> HIDE DEF N
  <2>. QED  BY <2>1, <2>2
<1>5. programs1 \in Seq(ToSet(programs1))
  <2> HIDE DEF N
  <2>1. programs1 \in [1 .. N -> ToSet(programs1)]
    BY <1>4 DEF ToSet
  <2>2. [1 .. N -> ToSet(programs1)] \subseteq Seq(ToSet(programs1))
    BY <1>4, SeqDef
  <2>. QED  BY <2>1, <2>2
<1>6. ASSUME NEW i \in DOMAIN programs1
      PROVE  StartsAtInclude(programs1[i], pkg.includes, languages)
  <2>1. i \in 1 .. n \/ i = n + 1
    BY <1>3
  <2>. QED  BY <1>3, <2>1 DEF StartsRight
<1>. QED  BY <1>5, <1>6

(* Every submission found so far starts at the include file of its         *)
(* language, if there is one, and a package that is verified has had its   *)
(* include files checked.                                                  *)
LEMMA SInvHolds == LoadSpec => []SInv
<1>1. LoadInit => SInv
  <2> SUFFICES ASSUME LoadInit PROVE SInv
    OBVIOUS
  <2>1. programs = <<>> /\ pc # "verified"
    BY DEF LoadInit
  <2>. QED  BY <2>1 DEF SInv, StartsRight, IncludesChecked
<1>2. LInv /\ DInv /\ SInv /\ [LoadNext]_loadVars => SInv'
  <2> SUFFICES ASSUME LInv, DInv, SInv, [LoadNext]_loadVars PROVE SInv'
    OBVIOUS
  <2>0. ASSUME UNCHANGED <<pkg, languages, programs>>, pc' # "verified"
        PROVE  SInv'
    BY <2>0 DEF SInv, StartsRight, IncludesChecked
  <2>1. CASE LoadLanguages
    <3>1. programs = <<>> /\ programs' = programs /\ pc' \in {"metadata", "stopped"}
      BY <2>1, ReportLeads DEF LoadLanguages, LoadFails, LInv, Goto
    <3>. QED  BY <3>1 DEF SInv, StartsRight, IncludesChecked
  <2>2. CASE LoadMetadata
    <3>1. pc' \in {"programs", "stopped"} /\ UNCHANGED <<detection, pkg, programs>>
      BY <2>2, ReportLeads DEF LoadMetadata, LoadFails, Goto
    <3>. QED  BY <2>0, <3>1 DEF detection
  <2>3. CASE TakeAsItIs
    <3> DEFINE p == [dir |-> Head(todo).dir, lang |-> 0, mainfile |-> Null]
    <3>1. /\ programs' = Append(programs, p)
          /\ UNCHANGED <<languages, pkg>> /\ pc' # "verified"
      BY <2>3 DEF TakeAsItIs, detection
    <3>2. StartsAtInclude(p, pkg.includes, languages)
      BY DEF StartsAtInclude
    <3> HIDE DEF p
    <3>3. /\ programs' \in Seq(ToSet(programs'))
          /\ \A i \in DOMAIN programs' : StartsAtInclude(programs'[i], pkg.includes, languages)
      BY <3>1, <3>2, OneMore DEF SInv
    <3>. QED  BY <3>1, <3>3 DEF SInv, StartsRight, IncludesChecked
  <2>4. CASE LookAtFiles
    <3>1. UNCHANGED <<pkg, languages, programs>> /\ pc' = "detecting"
      BY <2>4 DEF LookAtFiles, Look, Goto
    <3>. QED  BY <2>0, <3>1
  <2>5. CASE DetectOne
    <3>1. UNCHANGED <<pkg, languages, programs>> /\ pc' = "detecting"
      BY <2>5 DEF DetectOne, DetectStep
    <3>. QED  BY <2>0, <3>1
  <2>6. CASE EndDetection
    <3> DEFINE dir == Head(todo).dir
               includes == IF dir = "submissions" THEN pkg.includes ELSE <<>>
               p == [dir |-> dir, lang |-> found,
                     mainfile |-> Mainfile(includes, languages[found], DOMAIN files)]
    <3>1. /\ programs' = IF found = 0 THEN programs ELSE Append(programs, p)
          /\ UNCHANGED <<languages, pkg>> /\ pc' = "programs"
      BY <2>6 DEF EndDetection, detection, Goto
    <3>2. CASE found = 0
      BY <2>0, <3>1, <3>2
    <3>3. CASE found # 0
      <4>1. found \in DOMAIN languages
        <5>1. at \in Nat /\ found \in 0 .. (at - 1) /\ at <= Len(languages) + 1
          BY DEF DInv, DTypeOK
        <5>2. Len(languages) \in Nat /\ DOMAIN languages = 1 .. Len(languages)
          BY DEF DInv, DTypeOK
        <5>. QED  BY <3>3, <5>1, <5>2
      <4>2. dir = "submissions" /\ MainIncluded(pkg.includes, languages[found]) # {} =>
              p.mainfile = First(MainIncluded(pkg.includes, languages[found]))
        BY DEF Mainfile
      <4>3. StartsAtInclude(p, pkg.includes, languages)
        BY <4>1, <4>2 DEF StartsAtInclude
      <4> HIDE DEF p
      <4>4. /\ programs' \in Seq(ToSet(programs'))
            /\ \A i \in DOMAIN programs' : StartsAtInclude(programs'[i], pkg.includes, languages)
        BY <3>1, <3>3, <4>3, OneMore DEF SInv
      <4>. QED  BY <3>1, <4>4 DEF SInv, StartsRight, IncludesChecked
    <3>. QED  BY <3>2, <3>3
  <2>7. CASE EndLoading
    <3>1. UNCHANGED <<pkg, languages, programs>> /\ pc' = "package"
      BY <2>7 DEF EndLoading, Goto, detection
    <3>. QED  BY <2>0, <3>1
  <2>8. ASSUME NEW label, NEW rs, NEW next, next # "verified", Check(label, rs, next)
        PROVE  SInv'
    <3>1. pc' \in {next, "stopped"} /\ UNCHANGED <<pkg, languages, programs>>
      BY <2>8, ReportLeads DEF Check, detection
    <3>. QED  BY <2>0, <2>8, <3>1
  <2>9. CASE UNCHANGED loadVars
    BY <2>9 DEF loadVars, detection, SInv, StartsRight, IncludesChecked, version
  <2>10. CASE CheckPackage
    <3> DEFINE rs == When(pkg.shortname = "Bad-Name", Error("shortname")) \o
                     When(version = V_2023_07, Warning("2023-07 is incomplete")) \o
                     check_problem_package(pkg, version)
    <3>1. Check("package", rs, "config")
      BY <2>10 DEF CheckPackage
    <3> HIDE DEF rs
    <3>2. "config" # "verified"
      OBVIOUS
    <3>. QED  BY <2>8, <3>1, <3>2
  <2>11. CASE CheckConfig
    BY <2>8, <2>11 DEF CheckConfig
  <2>12. CASE CheckStatements
    BY <2>8, <2>12 DEF CheckStatements
  <2>13. CASE CheckAttachments
    BY <2>8, <2>13 DEF CheckAttachments
  <2>14. CASE CheckGraders
    BY <2>8, <2>14 DEF CheckGraders
  <2>15. CASE CheckIncludes
    <3> DEFINE rs == check_includes(pkg.includes, languages, version)
    <3>1. /\ Report(rs, "verified") /\ UNCHANGED <<pkg, languages, programs, md>>
      BY <2>15 DEF CheckIncludes, Check, detection
    <3>2. rs' = rs
      BY <3>1 DEF version
    <3>3. pc' = "verified" => reports' = reports \union ToSet(rs)
      BY <3>1, ReportLeads
    <3> HIDE DEF rs
    <3>4. pc' = "verified" => ToSet(rs') \subseteq reports'
      BY <3>2, <3>3
    <3>5. IncludesChecked'
      BY <3>4 DEF IncludesChecked, rs
    <3>6. StartsRight' /\ (programs \in Seq(ToSet(programs)))'
      BY <3>1 DEF SInv, StartsRight
    <3>. QED  BY <3>5, <3>6 DEF SInv
  <2>. QED  BY <2>1, <2>2, <2>3, <2>4, <2>5, <2>6, <2>7, <2>9, <2>10, <2>11, <2>12,
               <2>13, <2>14, <2>15
            DEF LoadNext
<1>3. LoadSpec => []DInv
  BY LoadDetects, DInvHolds, PTL
<1>. QED  BY <1>1, <1>2, <1>3, LInvHolds, PTL DEF LoadSpec

(* For every configuration and every package: if no error is found, at     *)
(* most one include file of the language of a submission can be its entry  *)
(* point, and if there is one it is.                                       *)
THEOREM EntryPointIsDecided == LoadSpec => []IncludesDecideEntryPoint
<1>1. LInv /\ DInv /\ SInv => IncludesDecideEntryPoint
  <2> SUFFICES ASSUME LInv, DInv, SInv, Verified,
                      NEW i \in DOMAIN programs,
                      programs[i].dir = "submissions", programs[i].lang # 0
               PROVE  LET l == languages[programs[i].lang]
                          mains == SourcesIn(l, IncludesFor(pkg.includes, l)) \intersect MainFiles
                      IN  /\ Cardinality(mains) <= 1
                          /\ mains # {} => mains = {programs[i].mainfile}
    BY DEF IncludesDecideEntryPoint
  <2> DEFINE p == programs[i]
             l == languages[p.lang]
             own == FilesFor(pkg.includes, l.id)
             default == FilesFor(pkg.includes, "default")
             mains == SourcesIn(l, IncludesFor(pkg.includes, l)) \intersect MainFiles
  <2>1. /\ p.lang \in DOMAIN languages
        /\ MainIncluded(pkg.includes, l) # {} => p.mainfile = First(MainIncluded(pkg.includes, l))
    BY DEF SInv, StartsRight, StartsAtInclude
  <2>2. languages \in Seq(Language) /\ languages # <<>>
    BY <2>1 DEF DInv, DTypeOK
  <2>3. /\ IsFiniteSet(DOMAIN pkg.includes)
        /\ \A id \in DOMAIN pkg.includes : pkg.includes[id] \subseteq ToSet(PathOrder)
    BY PackagesAssumption DEF LInv
  <2>4. \A what : Error(what) \notin ToSet(check_includes(pkg.includes, languages, version))
    <3>1. \A what : IsError(Error(what))
      BY DEF IsError, Error
    <3>. QED  BY <3>1 DEF Verified, SInv, IncludesChecked
  <2>5. default \intersect MainFiles = {}
    BY <2>2, <2>3, <2>4, IncludeReports DEF mainfile_candidates
  <2>6. own \subseteq ToSet(PathOrder)
    BY <2>3 DEF FilesFor
  <2>7. mains = MainIncluded(pkg.includes, l)
    BY <2>5 DEF MainIncluded, mainfile_candidates, SourcesIn, IncludesFor
  <2>8. mains \subseteq own \intersect MainFiles
    BY <2>7 DEF MainIncluded, mainfile_candidates, SourcesIn
  <2>9. IsFiniteSet(own \intersect MainFiles) /\ IsFiniteSet(mains)
    BY <2>6, <2>8, PathsAreFinite, FS_Subset
  <2>10. ~ (Cardinality(own \intersect MainFiles) > 1)
    <3>1. CASE l.id \in DOMAIN pkg.includes \ {"default"}
      <4>1. own = pkg.includes[l.id]
        BY <3>1 DEF FilesFor
      <4>2. \E j \in DOMAIN languages : languages[j].id = l.id
        BY <2>1
      <4>. QED  BY <2>2, <2>3, <2>4, <3>1, <4>1, <4>2, IncludeReports DEF mainfile_candidates
    <3>2. CASE l.id \notin DOMAIN pkg.includes \ {"default"}
      <4>1. own \intersect MainFiles = {}
        BY <2>5, <3>2 DEF FilesFor
      <4>2. Cardinality(own \intersect MainFiles) = 0
        BY <4>1, FS_EmptySet
      <4>. QED  BY <4>2
    <3>. QED  BY <3>1, <3>2
  <2> DEFINE n == Cardinality(mains)
             m == Cardinality(own \intersect MainFiles)
  <2>11. n \in Nat /\ m \in Nat /\ n <= m /\ ~ (m > 1)
    BY <2>8, <2>9, <2>10, FS_Subset, FS_CardinalityType
  <2>12. ASSUME mains # {} PROVE mains = {p.mainfile}
    <3>1. n # 0
      BY <2>9, <2>12, FS_EmptySet
    <3> HIDE DEF n, m, p
    <3>2. n = 1
      BY <2>11, <3>1
    <3> HIDE DEF mains
    <3>3. PICK x : mains = {x}
      BY <2>9, <3>2, FS_Singleton DEF n
    <3>4. First(mains) \in mains
      BY <2>6, <2>8, <2>12, FirstIsIn
    <3>5. p.mainfile = First(mains)
      BY <2>1, <2>7, <2>12
    <3>. QED  BY <3>3, <3>4, <3>5
  <2>13. n <= 1
    <3> HIDE DEF n, m
    <3>. QED  BY <2>11
  <2>. QED  BY <2>12, <2>13
<1>2. LoadSpec => []DInv
  BY LoadDetects, DInvHolds, PTL
<1>. QED  BY <1>1, <1>2, LInvHolds, SInvHolds, PTL

(* What is given over what.                                                *)
LEMMA OverIs ==
  ASSUME NEW f, NEW g
  PROVE  /\ IsFunction(Over(f, g))
         /\ DOMAIN Over(f, g) = DOMAIN f \union DOMAIN g
         /\ \A k \in DOMAIN f : Over(f, g)[k] = f[k]
         /\ \A k \in DOMAIN g \ DOMAIN f : Over(f, g)[k] = g[k]
BY DEF Over, IsFunction

(* The fields that are written out by a rule of their own, and the fields  *)
(* of the parts.                                                           *)
SixKeys == {"type", "name", "credits", "source", "limits", "keywords"}
LimitKeys == {"memory", "output", "ac_to_time_limit", "time_limit_to_tle", "time_limit",
              "time_resolution"}
CreditKeys == {"authors", "contributors", "testers", "translators", "packagers",
               "acknowledgements"}
LegacyKeys == {"legacy_grading", "legacy_validation", "legacy_validator_flags",
               "legacy_custom_score", "show_test_data_groups_explicitly_set"}

(* Every field of metadata that was loaded.                                *)
MetadataKeys ==
  CommonKeys \union SixKeys \union LegacyKeys \union {"problem_format_version"}

(* Which fields the records of the model have.                             *)
LEMMA KeysAre ==
  /\ CommonKeys = {"uuid", "license", "rights_owner", "version", "embargo_until", "languages",
                   "allow_file_writing", "constants"}
  /\ DOMAIN NoLegacy = LegacyKeys
  /\ DOMAIN NoCredits = CreditKeys
  /\ DOMAIN Over(SystemLimits, LimitsOfKind(V_2023_07)) = LimitKeys
  /\ DOMAIN SystemLimits \union DOMAIN LimitsOfKind(V_2023_07) = LimitKeys
  /\ DOMAIN Defaults(V_2023_07) = CommonKeys \union (SixKeys \ {"name"})
<1>1. LEGACY # V_2023_07
  BY DEF LEGACY, V_2023_07
<1>2. DOMAIN SystemLimits \union DOMAIN LimitsOfKind(V_2023_07) = LimitKeys
  BY <1>1 DEF SystemLimits, LimitsOfKind, LimitKeys
<1>3. DOMAIN Defaults(V_2023_07) = CommonKeys \union (SixKeys \ {"name"})
  <2> DEFINE rest == [type |-> Str("pass-fail"), credits |-> Null, source |-> List(<<>>),
                      keywords |-> <<>>, limits |-> <<>>]
  <2>1. Defaults(V_2023_07) = Over(Over(Shared, OnlyNew), rest)
    BY <1>1 DEF Defaults
  <2>2. DOMAIN rest = SixKeys \ {"name"}
    BY DEF SixKeys
  <2> HIDE DEF rest
  <2>. QED  BY <2>1, <2>2, OverIs DEF CommonKeys
<1>4. DOMAIN NoLegacy = LegacyKeys
  BY DEF NoLegacy, LegacyKeys
<1>5. DOMAIN NoCredits = CreditKeys
  BY DEF NoCredits, CreditKeys
<1>6. CommonKeys = {"uuid", "license", "rights_owner", "version", "embargo_until", "languages",
                   "allow_file_writing", "constants"}
  BY DEF CommonKeys, Shared, OnlyNew
<1>. QED  BY <1>2, <1>3, <1>4, <1>5, <1>6, OverIs

(* Nothing that is a function is one of these: in the program None, the    *)
(* exception and a value of another type are no mapping and no list.       *)
NoneIsFunction == \A f : IsFunction(f) => f \notin {Null, Rejected, WrongType}

(* Metadata that can be written out: the fields are there, and the credits *)
(* are functions of the right kind.                                        *)
Dumpable(m) ==
  /\ DOMAIN m = MetadataKeys
  /\ \A k \in CommonKeys \union {"keywords"} : m[k] # WrongType
  /\ IsFiniteSet(m.type)
  /\ IsFunction(m.credits) /\ CreditKeys \subseteq DOMAIN m.credits
  /\ \A k \in DOMAIN m.credits :
       IF k # "translators" THEN IsFunction(m.credits[k])
       ELSE /\ IsFunction(m.credits[k])
            /\ \A lang \in DOMAIN m.credits[k] : IsFunction(m.credits[k][lang])
  /\ IsFunction(m.source)
  /\ IsFunction(m.limits) /\ DOMAIN m.limits = LimitKeys
  /\ \A k \in LimitKeys : m.limits[k] # WrongType

(* Mappings that are written out and read again.                           *)
LEMMA ListingsSurvive ==
  ASSUME NEW s, IsFunction(s)
  PROVE  /\ parse_persons(AsMappings(s)) = s
         /\ parse_list(parse_source, AsMappings(s), SourceKeys) = s
<1> DEFINE ms == [i \in DOMAIN s |-> [form |-> "mapping", of |-> s[i]]]
<1>1. AsMappings(s) = [form |-> "list", of |-> ms]
  BY DEF AsMappings, List, MapSeq, Map
<1>2. DOMAIN ms = DOMAIN s /\ \A i \in DOMAIN s : ms[i].form = "mapping" /\ ms[i].of = s[i]
  OBVIOUS
<1>3. AsMappings(s).form = "list" /\ AsMappings(s).of = ms
  BY <1>1
<1> HIDE DEF ms
<1>4. "list" # "string" /\ "list" # "mapping" /\ "mapping" # "string"
  OBVIOUS
<1>5. parse_persons(AsMappings(s)) = [i \in DOMAIN ms |-> parse_person(ms[i])]
  BY <1>3, <1>4 DEF parse_persons, parse_list, MapSeq
<1>6. parse_list(parse_source, AsMappings(s), SourceKeys) = [i \in DOMAIN ms |-> parse_source(ms[i])]
  BY <1>3, <1>4 DEF parse_list, MapSeq
<1>7. \A i \in DOMAIN s : parse_person(ms[i]) = s[i] /\ parse_source(ms[i]) = s[i]
  BY <1>2, <1>4 DEF parse_person, parse_source
<1>. QED  BY <1>2, <1>5, <1>6, <1>7 DEF IsFunction

(* The credits as they are written out: persons as mappings.               *)
DumpedCredits(m) ==
  [k \in DOMAIN m.credits |->
     IF k # "translators" THEN AsMappings(m.credits[k])
     ELSE [lang \in DOMAIN m.credits[k] |-> AsMappings(m.credits[k][lang])]]

(* What is written out of each field.                                      *)
LEMMA DumpIs ==
  ASSUME NEW m, NoneIsFunction, Dumpable(m)
  PROVE  /\ DOMAIN DumpedFields(m) = CommonKeys \union SixKeys
         /\ \A k \in CommonKeys \union {"keywords", "limits"} : DumpedFields(m)[k] = m[k]
         /\ DumpedFields(m).type = List(SetToSeq(m.type))
         /\ DumpedFields(m).name = Map(m.name)
         /\ DumpedFields(m).credits = Map(DumpedCredits(m))
         /\ DumpedFields(m).source = AsMappings(m.source)
<1> DEFINE a == [k \in CommonKeys |-> m[k]]
           b == [type |-> List(SetToSeq(m.type)),
                 name |-> Map(m.name),
                 credits |-> Map(DumpedCredits(m)),
                 source |-> AsMappings(m.source),
                 limits |-> m.limits,
                 keywords |-> m.keywords]
<1>1. DumpedFields(m) = Over(a, b)
  BY DEF DumpedFields, DumpedCredits
<1>2. DOMAIN b = SixKeys /\ DOMAIN a = CommonKeys /\ \A k \in CommonKeys : a[k] = m[k]
  BY DEF SixKeys
<1>3. /\ b.type = List(SetToSeq(m.type)) /\ b.name = Map(m.name)
      /\ b.credits = Map(DumpedCredits(m)) /\ b.source = AsMappings(m.source)
      /\ b.limits = m.limits /\ b.keywords = m.keywords
  OBVIOUS
<1> HIDE DEF a, b
<1>4. DOMAIN Over(a, b) = CommonKeys \union SixKeys
  BY <1>2, OverIs
<1>5. \A k \in CommonKeys : Over(a, b)[k] = m[k]
  BY <1>2, OverIs
<1>6. \A k \in SixKeys : Over(a, b)[k] = b[k]
  <2>1. CommonKeys \intersect SixKeys = {}
    BY KeysAre DEF SixKeys
  <2>2. \A k \in SixKeys : k \in DOMAIN b \ DOMAIN a
    BY <1>2, <2>1
  <2>3. \A k \in DOMAIN b \ DOMAIN a : Over(a, b)[k] = b[k]
    BY OverIs
  <2>. QED  BY <2>2, <2>3
<1>7. {"type", "name", "credits", "source", "limits", "keywords"} \subseteq SixKeys
  BY DEF SixKeys
<1>. QED  BY <1>1, <1>3, <1>4, <1>5, <1>6, <1>7

(* What is written out is valid.                                           *)
LEMMA DumpIsValid ==
  ASSUME NEW m, NoneIsFunction, Dumpable(m)
  PROVE  Valid(V_2023_07, DumpedFields(m))
<1> DEFINE y == DumpedFields(m)
<1>0. LEGACY # V_2023_07
  BY DEF LEGACY, V_2023_07
<1>1. DOMAIN y = CommonKeys \union SixKeys
  BY DumpIs
<1>2. "name" \in SixKeys /\ "grading" \notin CommonKeys \union SixKeys /\ "limits" \in SixKeys
  BY KeysAre DEF SixKeys
<1>3. \A k \in DOMAIN y : y[k] # WrongType
  <2>1. \A f : IsFunction(f) => f # WrongType
    BY DEF NoneIsFunction
  <2>2. \A x : Map(x) # WrongType /\ List(x) # WrongType
    <3>1. \A x : IsFunction(Map(x)) /\ IsFunction(List(x))
      BY DEF IsFunction, Map, List
    <3>. QED  BY <2>1, <3>1
  <2>3. y.type # WrongType /\ y.name # WrongType /\ y.credits # WrongType /\ y.source # WrongType
    BY <2>2, DumpIs DEF AsMappings
  <2>4. y.limits # WrongType
    <3>1. y.limits = m.limits /\ IsFunction(m.limits)
      BY DumpIs DEF Dumpable
    <3>. QED  BY <2>1, <3>1
  <2>5. \A k \in CommonKeys \union {"keywords"} : y[k] # WrongType
    BY DumpIs DEF Dumpable
  <2> HIDE DEF y
  <2>. QED  BY <1>1, <2>3, <2>4, <2>5 DEF SixKeys
<1>4. DOMAIN y.limits = LimitKeys /\ \A k \in LimitKeys : y.limits[k] # WrongType
  BY DumpIs DEF Dumpable
<1> HIDE DEF y
<1>5. Mandatory(V_2023_07) = {"name"}
  BY <1>0 DEF Mandatory
<1>6. DOMAIN y \subseteq DOMAIN Defaults(V_2023_07) \union {"name"}
  BY <1>1, KeysAre
<1>. QED  BY <1>1, <1>2, <1>3, <1>4, <1>5, <1>6, KeysAre DEF Valid, y

(* What is read from it.                                                   *)
LEMMA DumpIsReadAs ==
  ASSUME NEW m, NoneIsFunction, Dumpable(m)
  PROVE  parse_metadata(V_2023_07, DumpedFields(m), <<>>) = from_2023_07(DumpedFields(m))
<1> DEFINE y == DumpedFields(m)
           all == Over(y, Defaults(V_2023_07))
           system == Over(SystemLimits, LimitsOfKind(V_2023_07))
           d == [all EXCEPT !.limits = Over(@, system)]
<1>1. DOMAIN y = CommonKeys \union SixKeys /\ IsFunction(y)
  BY DumpIs, OverIs DEF DumpedFields
<1>2. y.limits = m.limits /\ IsFunction(m.limits) /\ DOMAIN m.limits = LimitKeys
  BY DumpIs DEF Dumpable
<1>3. parse_metadata(V_2023_07, y, <<>>) = from_2023_07(d)
  <2>1. V_2023_07 # LEGACY
    BY DEF LEGACY, V_2023_07
  <2>. QED  BY <2>1, DumpIsValid DEF parse_metadata
<1> HIDE DEF y
<1>4. all = y
  <2>1. DOMAIN Defaults(V_2023_07) \subseteq DOMAIN y
    BY <1>1, KeysAre
  <2>. QED  BY <1>1, <2>1, OverIs DEF Over, IsFunction
<1>5. Over(y.limits, system) = y.limits
  <2>1. DOMAIN system = LimitKeys
    BY KeysAre
  <2> HIDE DEF system
  <2>. QED  BY <1>2, <2>1 DEF Over, IsFunction
<1>6. d = y
  <2> HIDE DEF system
  <2>1. "limits" \in DOMAIN y
    BY <1>1 DEF SixKeys
  <2>. QED  BY <1>1, <1>4, <1>5, <2>1 DEF IsFunction
<1> HIDE DEF d
<1>. QED  BY <1>3, <1>6 DEF y

(* The credits are those that were written out.                            *)
LEMMA CreditsSurvive ==
  ASSUME NEW m, NoneIsFunction, Dumpable(m)
  PROVE  parse_credits(Map(DumpedCredits(m))) = m.credits
<1> DEFINE c == m.credits
           e == DumpedCredits(m)
           parsed == [k \in DOMAIN e |->
                        IF k # "translators" THEN parse_persons(e[k])
                        ELSE [lang \in DOMAIN e[k] |-> parse_persons(e[k][lang])]]
<1>1. Map(e) # Null /\ Map(e).form = "mapping" /\ Map(e).of = e /\ "mapping" # "string"
  <2>1. IsFunction(Map(e))
    BY DEF IsFunction, Map
  <2>. QED  BY <2>1 DEF NoneIsFunction, Map
<1>2. parse_credits(Map(e)) = Over(parsed, NoCredits)
  <2> HIDE DEF e
  <2>. QED  BY <1>1 DEF parse_credits
<1>3. DOMAIN e = DOMAIN c
  BY DEF DumpedCredits
<1>4. \A k \in DOMAIN c : parsed[k] = c[k]
  <2> SUFFICES ASSUME NEW k \in DOMAIN c PROVE parsed[k] = c[k]
    OBVIOUS
  <2>1. CASE k # "translators"
    <3>1. e[k] = AsMappings(c[k]) /\ IsFunction(c[k])
      BY <2>1 DEF DumpedCredits, Dumpable
    <3>2. parsed[k] = parse_persons(e[k])
      BY <1>3, <2>1
    <3> HIDE DEF c, e, parsed
    <3>. QED  BY <3>1, <3>2, ListingsSurvive
  <2>2. CASE k = "translators"
    <3>1. /\ e[k] = [lang \in DOMAIN c[k] |-> AsMappings(c[k][lang])]
          /\ IsFunction(c[k]) /\ \A lang \in DOMAIN c[k] : IsFunction(c[k][lang])
      BY <2>2 DEF DumpedCredits, Dumpable
    <3>2. parsed[k] = [lang \in DOMAIN e[k] |-> parse_persons(e[k][lang])]
      BY <1>3, <2>2
    <3> HIDE DEF c, e, parsed
    <3>3. \A lang \in DOMAIN c[k] : parse_persons(e[k][lang]) = c[k][lang]
      <4> SUFFICES ASSUME NEW lang \in DOMAIN c[k]
                   PROVE  parse_persons(e[k][lang]) = c[k][lang]
        OBVIOUS
      <4>1. e[k][lang] = AsMappings(c[k][lang]) /\ IsFunction(c[k][lang])
        BY <3>1
      <4>. QED  BY <4>1, ListingsSurvive
    <3>. QED  BY <3>1, <3>2, <3>3 DEF IsFunction
  <2>. QED  BY <2>1, <2>2
<1>5. DOMAIN NoCredits \subseteq DOMAIN c /\ IsFunction(c)
  BY KeysAre DEF Dumpable
<1>6. DOMAIN parsed = DOMAIN c
  BY <1>3
<1> HIDE DEF c, e, parsed
<1>7. Over(parsed, NoCredits) = c
  BY <1>4, <1>5, <1>6 DEF Over, IsFunction
<1>. QED  BY <1>2, <1>7 DEF c, e

(* What from_2023_07 gives, field by field.                                *)
LEMMA NewFormIs ==
  ASSUME NEW d
  PROVE  LET n == from_2023_07(d)
         IN  /\ IsFunction(n)
             /\ DOMAIN n = MetadataKeys
             /\ \A k \in CommonKeys \union {"limits", "keywords"} : n[k] = d[k]
             /\ n.type = IF d.type.form = "string" THEN {d.type.of} ELSE ToSet(d.type.of)
             /\ n.name = IF d.name.form = "string" THEN English(d.name.of) ELSE d.name.of
             /\ n.credits = parse_credits(d.credits)
             /\ n.source = parse_list(parse_source, d.source, SourceKeys)
             /\ n.problem_format_version = V_2023_07
             /\ \A k \in LegacyKeys : n[k] = NoLegacy[k]
             /\ n.legacy_validation = <<>>
<1> DEFINE a == [k \in CommonKeys |-> d[k]]
           b == Over(a, NoLegacy)
           c == [problem_format_version |-> V_2023_07,
                 type |-> IF d.type.form = "string" THEN {d.type.of} ELSE ToSet(d.type.of),
                 name |-> IF d.name.form = "string" THEN English(d.name.of) ELSE d.name.of,
                 credits |-> parse_credits(d.credits),
                 source |-> parse_list(parse_source, d.source, SourceKeys),
                 limits |-> d.limits,
                 keywords |-> d.keywords]
           n == from_2023_07(d)
<1>1. n = Over(b, c)
  BY DEF from_2023_07
<1>2. DOMAIN a = CommonKeys /\ \A k \in CommonKeys : a[k] = d[k]
  OBVIOUS
<1>3. /\ DOMAIN c = SixKeys \union {"problem_format_version"}
      /\ c.type = IF d.type.form = "string" THEN {d.type.of} ELSE ToSet(d.type.of)
      /\ c.name = IF d.name.form = "string" THEN English(d.name.of) ELSE d.name.of
      /\ c.credits = parse_credits(d.credits)
      /\ c.source = parse_list(parse_source, d.source, SourceKeys)
      /\ c.limits = d.limits /\ c.keywords = d.keywords
      /\ c.problem_format_version = V_2023_07
  BY DEF SixKeys
<1> HIDE DEF a, c, n
<1>4. /\ DOMAIN b = CommonKeys \union LegacyKeys
      /\ \A k \in CommonKeys : b[k] = d[k]
      /\ \A k \in LegacyKeys : b[k] = NoLegacy[k]
  <2>1. DOMAIN b = CommonKeys \union LegacyKeys /\ \A k \in CommonKeys : b[k] = d[k]
    <3>1. DOMAIN b = DOMAIN a \union DOMAIN NoLegacy /\ \A k \in DOMAIN a : b[k] = a[k]
      BY OverIs
    <3> HIDE DEF b
    <3>. QED  BY <1>2, <3>1, KeysAre
  <2>2. LegacyKeys \subseteq DOMAIN NoLegacy \ DOMAIN a
    BY <1>2, KeysAre DEF LegacyKeys
  <2>3. \A k \in DOMAIN NoLegacy \ DOMAIN a : b[k] = NoLegacy[k]
    BY OverIs
  <2>. QED  BY <2>1, <2>2, <2>3
<1> HIDE DEF b
<1>5. DOMAIN n = MetadataKeys
  <2>1. DOMAIN n = DOMAIN b \union DOMAIN c
    BY <1>1, OverIs
  <2>. QED  BY <1>3, <1>4, <2>1 DEF MetadataKeys
<1>6. \A k \in DOMAIN b : n[k] = b[k]
  BY <1>1, OverIs
<1>7. \A k \in SixKeys : n[k] = c[k]
  <2>1. \A k \in SixKeys : k \in DOMAIN c \ DOMAIN b
    BY <1>3, <1>4, KeysAre DEF SixKeys, LegacyKeys
  <2>2. \A k \in DOMAIN c \ DOMAIN b : Over(b, c)[k] = c[k]
    BY OverIs
  <2>. QED  BY <1>1, <2>1, <2>2
<1>8. \A k \in CommonKeys \union {"limits", "keywords"} : n[k] = d[k]
  <2>1. "limits" \in SixKeys /\ "keywords" \in SixKeys
    BY DEF SixKeys
  <2>. QED  BY <1>3, <1>4, <1>6, <1>7, <2>1
<1>9. (\A k \in LegacyKeys : n[k] = NoLegacy[k]) /\ n.legacy_validation = <<>>
  <2>1. \A k \in LegacyKeys : n[k] = NoLegacy[k]
    BY <1>4, <1>6
  <2>2. "legacy_validation" \in LegacyKeys /\ NoLegacy.legacy_validation = <<>>
    BY DEF LegacyKeys, NoLegacy
  <2>. QED  BY <2>1, <2>2
<1>10. n.type = c.type /\ n.name = c.name /\ n.credits = c.credits /\ n.source = c.source
  BY <1>7 DEF SixKeys
<1>11. IsFunction(n)
  BY <1>1, OverIs
<1>12. n.problem_format_version = V_2023_07
  <2>1. "problem_format_version" \in DOMAIN c \ DOMAIN b
    BY <1>3, <1>4, KeysAre DEF LegacyKeys
  <2>2. \A k \in DOMAIN c \ DOMAIN b : Over(b, c)[k] = c[k]
    BY OverIs
  <2>. QED  BY <1>1, <1>3, <2>1, <2>2
<1>. QED  BY <1>3, <1>5, <1>8, <1>9, <1>10, <1>11, <1>12 DEF n

(* Metadata of this form written out and read again, field by field.       *)
LEMMA DumpIsReadBack ==
  ASSUME NEW m, NoneIsFunction, Dumpable(m)
  PROVE  LET again == parse_metadata(V_2023_07, DumpedFields(m), <<>>)
         IN  /\ IsFunction(again) /\ DOMAIN again = MetadataKeys
             /\ \A k \in CommonKeys \union SixKeys : again[k] = m[k]
             /\ again.problem_format_version = V_2023_07
             /\ \A k \in LegacyKeys : again[k] = NoLegacy[k]
<1> DEFINE y == DumpedFields(m)
           n == from_2023_07(y)
<1>1. parse_metadata(V_2023_07, y, <<>>) = n
  BY DumpIsReadAs
<1>2. /\ IsFunction(n) /\ DOMAIN n = DOMAIN m
      /\ \A k \in CommonKeys \union {"limits", "keywords"} : n[k] = m[k]
  <2>1. /\ IsFunction(n)
        /\ DOMAIN n = MetadataKeys
        /\ \A k \in CommonKeys \union {"limits", "keywords"} : n[k] = y[k]
    BY NewFormIs
  <2>2. \A k \in CommonKeys \union {"limits", "keywords"} : y[k] = m[k]
    BY DumpIs
  <2>3. DOMAIN m = MetadataKeys
    BY DEF Dumpable
  <2> HIDE DEF n, y
  <2>. QED  BY <2>1, <2>2, <2>3
<1>3. n.type = m.type
  <2>1. y.type.form # "string" /\ y.type.of = SetToSeq(m.type)
    <3>1. y.type = List(SetToSeq(m.type))
      BY DumpIs
    <3> HIDE DEF y
    <3>. QED  BY <3>1 DEF List
  <2>2. ToSet(SetToSeq(m.type)) = m.type
    BY SetToSeqIs DEF Dumpable
  <2>. QED  BY <2>1, <2>2, NewFormIs
<1>4. n.name = m.name
  <2>1. y.name.form # "string" /\ y.name.of = m.name
    <3>1. y.name = Map(m.name)
      BY DumpIs
    <3> HIDE DEF y
    <3>. QED  BY <3>1 DEF Map
  <2>. QED  BY <2>1, NewFormIs
<1>5. n.credits = m.credits
  <2>1. n.credits = parse_credits(y.credits)
    BY NewFormIs
  <2>2. y.credits = Map(DumpedCredits(m))
    BY DumpIs
  <2>. QED  BY <2>1, <2>2, CreditsSurvive
<1>6. n.source = m.source
  <2>1. n.source = parse_list(parse_source, y.source, SourceKeys)
    BY NewFormIs
  <2>2. y.source = AsMappings(m.source) /\ IsFunction(m.source)
    BY DumpIs DEF Dumpable
  <2>. QED  BY <2>1, <2>2, ListingsSurvive
<1>7. n.problem_format_version = V_2023_07 /\ \A k \in LegacyKeys : n[k] = NoLegacy[k]
  BY NewFormIs
<1> HIDE DEF y, n
<1>8. \A k \in CommonKeys \union SixKeys : n[k] = m[k]
  BY <1>2, <1>3, <1>4, <1>5, <1>6 DEF SixKeys
<1>9. DOMAIN m = MetadataKeys
  BY DEF Dumpable
<1>. QED  BY <1>1, <1>2, <1>7, <1>8, <1>9 DEF y

(* Metadata of this form survives being written out and read again.        *)
LEMMA DumpSurvives ==
  ASSUME NEW m, NoneIsFunction, Dumpable(m)
  PROVE  LET again == parse_metadata(V_2023_07, DumpedFields(m), <<>>)
         IN  again # Rejected /\ WithoutLegacy(again) = WithoutLegacy(m)
<1> DEFINE n == parse_metadata(V_2023_07, DumpedFields(m), <<>>)
<1>1. /\ IsFunction(n) /\ DOMAIN n = MetadataKeys
      /\ \A k \in CommonKeys \union SixKeys : n[k] = m[k]
  BY DumpIsReadBack
<1> HIDE DEF n
<1>2. DOMAIN m = MetadataKeys
  BY DEF Dumpable
<1>3. MetadataKeys \ (DOMAIN NoLegacy \union {"problem_format_version"}) = CommonKeys \union SixKeys
  <2>1. /\ (CommonKeys \union SixKeys) \intersect LegacyKeys = {}
        /\ "problem_format_version" \notin CommonKeys \union SixKeys
    BY KeysAre DEF SixKeys, LegacyKeys
  <2>. QED  BY <2>1, KeysAre DEF MetadataKeys
<1>4. WithoutLegacy(n) = WithoutLegacy(m)
  BY <1>1, <1>2, <1>3 DEF WithoutLegacy
<1>5. n # Rejected
  BY <1>1 DEF NoneIsFunction
<1>. QED  BY <1>4, <1>5 DEF n

(* Metadata of the 2023-07 format are read back as a whole.                *)
LEMMA NewDumpIsRead ==
  ASSUME NEW m, NoneIsFunction, IsFunction(m), Dumpable(m),
         m.problem_format_version = V_2023_07, \A k \in LegacyKeys : m[k] = NoLegacy[k]
  PROVE  parse_metadata(V_2023_07, DumpedFields(m), <<>>) = m
<1> DEFINE n == parse_metadata(V_2023_07, DumpedFields(m), <<>>)
<1>1. /\ IsFunction(n) /\ DOMAIN n = MetadataKeys
      /\ \A k \in CommonKeys \union SixKeys : n[k] = m[k]
      /\ n.problem_format_version = V_2023_07
      /\ \A k \in LegacyKeys : n[k] = NoLegacy[k]
  BY DumpIsReadBack
<1> HIDE DEF n
<1>2. DOMAIN m = MetadataKeys
  BY DEF Dumpable
<1>3. \A k \in MetadataKeys : n[k] = m[k]
  BY <1>1 DEF MetadataKeys
<1>4. n = m
  BY <1>1, <1>2, <1>3 DEF IsFunction
<1>. QED  BY <1>4 DEF n

(* What is written out is the fields and the version of the format.        *)
LEMMA DumpHas ==
  ASSUME NEW m, NoneIsFunction, Dumpable(m)
  PROVE  /\ WithoutVersion(Dump(m)) = DumpedFields(m)
         /\ Dump(m).problem_format_version = m.problem_format_version
<1> DEFINE y == DumpedFields(m)
           a == [problem_format_version |-> m.problem_format_version]
           d == Dump(m)
<1>1. IsFunction(y) /\ DOMAIN y = CommonKeys \union SixKeys
  BY DumpIs, OverIs DEF DumpedFields
<1>2. DOMAIN a = {"problem_format_version"} /\ a.problem_format_version = m.problem_format_version
  OBVIOUS
<1>3. d = Over(a, y)
  BY DEF Dump
<1> HIDE DEF a, y, d
<1>4. "problem_format_version" \notin CommonKeys \union SixKeys
  BY KeysAre DEF SixKeys
<1>5. /\ DOMAIN d = DOMAIN a \union DOMAIN y
      /\ \A k \in DOMAIN a : d[k] = a[k]
      /\ \A k \in DOMAIN y \ DOMAIN a : d[k] = y[k]
  <2>1. /\ DOMAIN Over(a, y) = DOMAIN a \union DOMAIN y
        /\ \A k \in DOMAIN a : Over(a, y)[k] = a[k]
        /\ \A k \in DOMAIN y \ DOMAIN a : Over(a, y)[k] = y[k]
    BY OverIs, Zenon
  <2>. QED  BY <1>3, <2>1, Zenon
<1>6. DOMAIN d \ {"problem_format_version"} = DOMAIN y
  BY <1>1, <1>2, <1>4, <1>5
<1>7. \A k \in DOMAIN y : d[k] = y[k]
  BY <1>1, <1>2, <1>4, <1>5
<1>8. WithoutVersion(d) = y
  BY <1>1, <1>6, <1>7 DEF WithoutVersion, IsFunction
<1>9. d.problem_format_version = m.problem_format_version
  BY <1>2, <1>5
<1>. QED  BY <1>8, <1>9 DEF d, y

(* problem.yaml with the defaults and the system's limits under it.        *)
Filled(v, yaml) ==
  [Over(yaml, Defaults(v)) EXCEPT !.limits = Over(@, Over(SystemLimits, LimitsOfKind(v)))]

(* The limits that a problem of version v has.                             *)
KnownLimits(v) == DOMAIN SystemLimits \union DOMAIN LimitsOfKind(v)

(* The values used where problem.yaml gives none.                          *)
LEMMA DefaultsAre ==
  ASSUME NoneIsFunction
  PROVE  /\ "limits" \in DOMAIN Defaults(LEGACY) /\ "limits" \in DOMAIN Defaults(V_2023_07)
         /\ DOMAIN Defaults(LEGACY)
              = {"uuid", "license", "rights_owner", "type", "name", "author", "source", "source_url",
                 "validation", "validator_flags", "grading", "keywords", "limits"}
         /\ \A k \in {"uuid", "license", "rights_owner", "keywords"} :
              Defaults(LEGACY)[k] # WrongType
         /\ \A k \in CommonKeys \union {"keywords"} : Defaults(V_2023_07)[k] # WrongType
         /\ Defaults(LEGACY).author = Null
         /\ Defaults(LEGACY).validation = <<"default">>
         /\ Defaults(V_2023_07).type = Str("pass-fail")
         /\ Defaults(V_2023_07).credits = Null
         /\ Defaults(V_2023_07).source = List(<<>>)
         /\ Defaults(LEGACY).limits = <<>> /\ Defaults(V_2023_07).limits = <<>>
<1> DEFINE legacy == [type |-> "pass-fail", name |-> Null, author |-> Null, source |-> Null,
                      source_url |-> Null, validation |-> <<"default">>, validator_flags |-> <<>>,
                      grading |-> <<>>, keywords |-> <<>>, limits |-> <<>>]
           new == [type |-> Str("pass-fail"), credits |-> Null, source |-> List(<<>>),
                   keywords |-> <<>>, limits |-> <<>>]
           a == Over(Shared, legacy)
           both == Over(Shared, OnlyNew)
           b == Over(both, new)
<1>1. Defaults(LEGACY) = a /\ Defaults(V_2023_07) = b
  BY DEF Defaults, LEGACY, V_2023_07
<1>2. <<>> # WrongType
  <2>1. IsFunction(<<>>)
    BY DEF IsFunction
  <2>. QED  BY <2>1 DEF NoneIsFunction
<1>3. /\ DOMAIN legacy = {"type", "name", "author", "source", "source_url", "validation",
                          "validator_flags", "grading", "keywords", "limits"}
      /\ legacy.author = Null /\ legacy.validation = <<"default">>
      /\ legacy.keywords = <<>> /\ legacy.limits = <<>>
  OBVIOUS
<1>4. /\ DOMAIN new = SixKeys \ {"name"}
      /\ new.type = Str("pass-fail") /\ new.credits = Null /\ new.source = List(<<>>)
      /\ new.keywords = <<>> /\ new.limits = <<>>
  BY DEF SixKeys
<1>0. Null # WrongType /\ "unknown" # WrongType /\ "all" # WrongType /\ TRUE # WrongType
  BY WrongTypeAssumption
<1>5. DOMAIN Shared = {"uuid", "license", "rights_owner"} /\ \A k \in DOMAIN Shared : Shared[k] # WrongType
  <2>1. DOMAIN Shared = {"uuid", "license", "rights_owner"}
    BY DEF Shared
  <2>2. Shared.uuid # WrongType /\ Shared.license # WrongType /\ Shared.rights_owner # WrongType
    BY <1>0 DEF Shared
  <2>. QED  BY <2>1, <2>2
<1>6. /\ DOMAIN OnlyNew = {"version", "embargo_until", "languages", "allow_file_writing", "constants"}
      /\ \A k \in DOMAIN OnlyNew : OnlyNew[k] # WrongType
  <2>1. DOMAIN OnlyNew = {"version", "embargo_until", "languages", "allow_file_writing", "constants"}
    BY DEF OnlyNew
  <2>2. /\ OnlyNew.version # WrongType /\ OnlyNew.embargo_until # WrongType
        /\ OnlyNew.languages # WrongType /\ OnlyNew.constants # WrongType
    BY <1>0, <1>2 DEF OnlyNew
  <2>3. OnlyNew.allow_file_writing # WrongType
    <3>1. OnlyNew.allow_file_writing = TRUE
      BY DEF OnlyNew
    <3>. QED  BY <1>0, <3>1, Zenon
  <2>. QED  BY <2>1, <2>2, <2>3
<1> HIDE DEF legacy, new
<1>7. /\ DOMAIN a = DOMAIN Shared \union DOMAIN legacy
      /\ \A k \in DOMAIN Shared : a[k] = Shared[k]
      /\ \A k \in DOMAIN legacy \ DOMAIN Shared : a[k] = legacy[k]
  BY OverIs
<1>8. /\ DOMAIN both = CommonKeys
      /\ \A k \in DOMAIN Shared : both[k] = Shared[k]
      /\ \A k \in DOMAIN OnlyNew \ DOMAIN Shared : both[k] = OnlyNew[k]
  BY OverIs DEF CommonKeys
<1> HIDE DEF a, both
<1>9. /\ DOMAIN b = DOMAIN both \union DOMAIN new
      /\ \A k \in DOMAIN both : b[k] = both[k]
      /\ \A k \in DOMAIN new \ DOMAIN both : b[k] = new[k]
  BY OverIs
<1> HIDE DEF b
<1>10. \A k \in CommonKeys : b[k] # WrongType
  BY <1>5, <1>6, <1>8, <1>9 DEF CommonKeys
<1>11. SixKeys \intersect CommonKeys = {}
  BY KeysAre DEF SixKeys
<1>12. \A k \in SixKeys \ {"name"} : b[k] = new[k]
  BY <1>4, <1>8, <1>9, <1>11
<1>13. /\ b.type = Str("pass-fail") /\ b.credits = Null /\ b.source = List(<<>>)
       /\ b.keywords = <<>> /\ b.limits = <<>> /\ "limits" \in DOMAIN b
  BY <1>4, <1>9, <1>12 DEF SixKeys
<1>14. /\ a.author = Null /\ a.validation = <<"default">> /\ a.keywords = <<>> /\ a.limits = <<>>
       /\ \A k \in {"uuid", "license", "rights_owner"} : a[k] # WrongType
       /\ DOMAIN a = {"uuid", "license", "rights_owner", "type", "name", "author", "source",
                      "source_url", "validation", "validator_flags", "grading", "keywords", "limits"}
  BY <1>3, <1>5, <1>7
<1>. QED  BY <1>1, <1>2, <1>10, <1>13, <1>14

(* The legacy parser forbids keys that are written out of any metadata.    *)
LEMMA LegacyDumpIsRefused ==
  ASSUME NEW m, NoneIsFunction, Dumpable(m)
  PROVE  parse_metadata(LEGACY, DumpedFields(m), <<>>) = Rejected
<1> DEFINE y == DumpedFields(m)
<1>1. "credits" \in DOMAIN y
  BY DumpIs DEF SixKeys
<1>2. "credits" \notin DOMAIN Defaults(LEGACY) \union Mandatory(LEGACY)
  BY DefaultsAre DEF Mandatory
<1> HIDE DEF y
<1>3. ~ Valid(LEGACY, y)
  BY <1>1, <1>2 DEF Valid
<1>4. parse_metadata(LEGACY, y, <<>>) = Rejected
  BY <1>3, Zenon DEF parse_metadata
<1>. QED  BY <1>4 DEF y

(* What is read of a valid problem.yaml.                                   *)
LEMMA FilledIs ==
  ASSUME NEW v \in {LEGACY, V_2023_07}, NEW yaml, NoneIsFunction, Valid(v, yaml)
  PROVE  LET d == Filled(v, yaml)
         IN  /\ \A k \in DOMAIN Defaults(v) \ {"limits"} :
                  d[k] = IF k \in DOMAIN yaml THEN yaml[k] ELSE Defaults(v)[k]
             /\ \A k \in DOMAIN yaml \ {"limits"} : d[k] = yaml[k] /\ yaml[k] # WrongType
             /\ IsFunction(d.limits) /\ DOMAIN d.limits = KnownLimits(v)
             /\ \A k \in KnownLimits(v) : d.limits[k] # WrongType
             /\ \A k \in IF v = LEGACY THEN {"uuid", "license", "rights_owner", "keywords"}
                         ELSE CommonKeys \union {"keywords"} : d[k] # WrongType
<1> DEFINE all == Over(yaml, Defaults(v))
           system == Over(SystemLimits, LimitsOfKind(v))
           d == Filled(v, yaml)
           limits == Over(all.limits, system)
           plain == IF v = LEGACY THEN {"uuid", "license", "rights_owner", "keywords"}
                    ELSE CommonKeys \union {"keywords"}
<1>1. /\ DOMAIN all = DOMAIN yaml \union DOMAIN Defaults(v)
      /\ \A k \in DOMAIN yaml : all[k] = yaml[k]
      /\ \A k \in DOMAIN Defaults(v) \ DOMAIN yaml : all[k] = Defaults(v)[k]
  BY OverIs
<1>2. d = [all EXCEPT !.limits = limits]
  BY DEF Filled
<1>3. "limits" \in DOMAIN Defaults(v) /\ Defaults(v).limits = <<>>
  BY DefaultsAre
<1>4. d.limits = limits /\ \A k \in DOMAIN all \ {"limits"} : d[k] = all[k]
  <2> HIDE DEF limits, all
  <2>. QED  BY <1>1, <1>2, <1>3
<1>5. \A k \in DOMAIN yaml : yaml[k] # WrongType
  BY DEF Valid
<1>6. "limits" \in DOMAIN yaml => /\ DOMAIN yaml.limits \subseteq KnownLimits(v)
                                  /\ \A k \in DOMAIN yaml.limits : yaml.limits[k] # WrongType
  BY DEF Valid, KnownLimits
<1>7. /\ DOMAIN limits = DOMAIN all.limits \union DOMAIN system
      /\ \A k \in DOMAIN all.limits : limits[k] = all.limits[k]
      /\ \A k \in DOMAIN system \ DOMAIN all.limits : limits[k] = system[k]
      /\ IsFunction(limits)
  BY OverIs
<1>8. /\ DOMAIN system = KnownLimits(v)
      /\ \A k \in KnownLimits(v) : system[k] # WrongType
  <2>1. /\ DOMAIN system = DOMAIN SystemLimits \union DOMAIN LimitsOfKind(v)
        /\ \A k \in DOMAIN SystemLimits : system[k] = SystemLimits[k]
        /\ \A k \in DOMAIN LimitsOfKind(v) \ DOMAIN SystemLimits : system[k] = LimitsOfKind(v)[k]
    BY OverIs
  <2>2. \A k \in DOMAIN SystemLimits : SystemLimits[k] # WrongType
    BY WrongTypeAssumption DEF SystemLimits
  <2>3. \A k \in DOMAIN LimitsOfKind(v) : LimitsOfKind(v)[k] # WrongType
    BY WrongTypeAssumption DEF LimitsOfKind
  <2> HIDE DEF system
  <2>. QED  BY <2>1, <2>2, <2>3 DEF KnownLimits
<1>9. DOMAIN all.limits \subseteq KnownLimits(v) /\ \A k \in DOMAIN all.limits : all.limits[k] # WrongType
  <2>1. CASE "limits" \in DOMAIN yaml
    BY <1>1, <1>6, <2>1
  <2>2. CASE "limits" \notin DOMAIN yaml
    <3>1. all.limits = <<>>
      BY <1>1, <1>3, <2>2
    <3>. QED  BY <3>1
  <2>. QED  BY <2>1, <2>2
<1> HIDE DEF limits, system
<1>10. /\ IsFunction(limits) /\ DOMAIN limits = KnownLimits(v)
       /\ \A k \in KnownLimits(v) : limits[k] # WrongType
  BY <1>7, <1>8, <1>9
<1> HIDE DEF all, d
<1>11. \A k \in plain : k \in DOMAIN Defaults(v) \ {"limits"} /\ Defaults(v)[k] # WrongType
  <2>1. CASE v = LEGACY
    BY <2>1, DefaultsAre
  <2>2. CASE v = V_2023_07
    <3>1. v # LEGACY
      BY <2>2 DEF LEGACY, V_2023_07
    <3>2. \A k \in CommonKeys \union {"keywords"} : k \in DOMAIN Defaults(v) \ {"limits"}
      BY <2>2, KeysAre DEF SixKeys
    <3>. QED  BY <2>2, <3>1, <3>2, DefaultsAre
  <2>. QED  BY <2>1, <2>2
<1> HIDE DEF plain
<1>12. \A k \in plain : d[k] # WrongType
  BY <1>1, <1>4, <1>5, <1>11
<1>. QED  BY <1>1, <1>4, <1>5, <1>10, <1>12 DEF d, plain

(* What from_legacy gives, field by field.                                 *)
LegacyAuthors(d) ==
  IF d.author = Null THEN <<>> ELSE Kept(d.author, ToSet(d.author) \ {<<"">>})

LegacyNames(d, names) ==
  IF names # <<>> THEN names ELSE IF d.name \in {Null, ""} THEN <<>> ELSE English(d.name)

OnlyNewIn(n) == \A k \in DOMAIN OnlyNew : n[k] = OnlyNew[k]

(* from_legacy, field by field, for a problem that it does not reject.     *)
LEMMA OldFormIs ==
  ASSUME NEW d, NEW names, from_legacy(d, names) # Rejected
  PROVE  LET n == from_legacy(d, names)
         IN  /\ IsFunction(n)
             /\ DOMAIN n = MetadataKeys
             /\ \A k \in {"uuid", "license", "rights_owner", "keywords"} : n[k] = d[k]
             /\ OnlyNewIn(n)
             /\ n.type \in {{d.type}, {d.type, "interactive"}}
             /\ n.name = LegacyNames(d, names)
             /\ n.credits = [NoCredits EXCEPT !.authors = MapSeq(from_string, LegacyAuthors(d))]
             /\ n.source = IF d.source = Null THEN <<>>
                           ELSE <<[name |-> d.source, url |-> d.source_url]>>
             /\ n.limits = [memory |-> d.limits.memory, output |-> d.limits.output,
                            ac_to_time_limit |-> d.limits.time_multiplier,
                            time_limit_to_tle |-> d.limits.time_safety_margin,
                            time_limit |-> Null, time_resolution |-> 10]
             /\ n.legacy_validation = d.validation
             /\ n.problem_format_version = LEGACY
<1> DEFINE custom == d.validation # <<>> /\ d.validation[1] = "custom"
           options == IF custom THEN ToSet(Tail(d.validation)) ELSE {}
           a == [k \in DOMAIN Shared |-> d[k]]
           b == Over(a, OnlyNew)
           types == {d.type} \union (options \intersect {"interactive"})
           credits == [NoCredits EXCEPT !.authors = MapSeq(from_string, LegacyAuthors(d))]
           source == IF d.source = Null THEN <<>>
                     ELSE <<[name |-> d.source, url |-> d.source_url]>>
           limits == [memory |-> d.limits.memory, output |-> d.limits.output,
                      ac_to_time_limit |-> d.limits.time_multiplier,
                      time_limit_to_tle |-> d.limits.time_safety_margin,
                      time_limit |-> Null, time_resolution |-> 10]
           grading == Over(d.grading, LegacyGrading)
           score == "score" \in options
           explicit == "show_test_data_groups" \in DOMAIN d.grading
           name == LegacyNames(d, names)
           n == from_legacy(d, names)
<1>1. n = Over(b, [problem_format_version |-> LEGACY, type |-> types, name |-> name,
                   credits |-> credits, source |-> source, limits |-> limits,
                   keywords |-> d.keywords, legacy_grading |-> grading,
                   legacy_validation |-> d.validation,
                   legacy_validator_flags |-> d.validator_flags,
                   legacy_custom_score |-> score,
                   show_test_data_groups_explicitly_set |-> explicit])
  BY Zenon DEF from_legacy, LegacyAuthors, LegacyNames
<1>2. types \in {{d.type}, {d.type, "interactive"}}
  <2> HIDE DEF options
  <2>. QED  OBVIOUS
<1> HIDE DEF options, types, credits, source, limits, grading, score, explicit, name, n
<1> DEFINE c == [problem_format_version |-> LEGACY, type |-> types, name |-> name,
                 credits |-> credits, source |-> source, limits |-> limits,
                 keywords |-> d.keywords, legacy_grading |-> grading,
                 legacy_validation |-> d.validation,
                 legacy_validator_flags |-> d.validator_flags,
                 legacy_custom_score |-> score,
                 show_test_data_groups_explicitly_set |-> explicit]
<1>3. n = Over(b, c)
  BY <1>1
<1>4. /\ DOMAIN c = SixKeys \union LegacyKeys \union {"problem_format_version"}
      /\ c.type = types /\ c.name = name /\ c.credits = credits /\ c.source = source
      /\ c.limits = limits /\ c.keywords = d.keywords /\ c.legacy_validation = d.validation
      /\ c.problem_format_version = LEGACY
  BY DEF SixKeys, LegacyKeys
<1>5. /\ DOMAIN b = CommonKeys
      /\ \A k \in DOMAIN Shared : b[k] = d[k]
      /\ \A k \in DOMAIN OnlyNew \ DOMAIN Shared : b[k] = OnlyNew[k]
  <2>1. /\ DOMAIN b = DOMAIN a \union DOMAIN OnlyNew
        /\ \A k \in DOMAIN a : b[k] = a[k]
        /\ \A k \in DOMAIN OnlyNew \ DOMAIN a : b[k] = OnlyNew[k]
    <3> HIDE DEF a
    <3>. QED  BY OverIs
  <2> HIDE DEF b
  <2>. QED  BY <2>1 DEF CommonKeys
<1>6. /\ DOMAIN Shared = {"uuid", "license", "rights_owner"}
      /\ DOMAIN OnlyNew = {"version", "embargo_until", "languages", "allow_file_writing", "constants"}
  BY DEF Shared, OnlyNew
<1> HIDE DEF b, c
<1>7. /\ DOMAIN n = DOMAIN b \union DOMAIN c
      /\ \A k \in DOMAIN b : n[k] = b[k]
      /\ \A k \in DOMAIN c \ DOMAIN b : n[k] = c[k]
      /\ IsFunction(n)
  <2>1. /\ DOMAIN Over(b, c) = DOMAIN b \union DOMAIN c
        /\ \A k \in DOMAIN b : Over(b, c)[k] = b[k]
        /\ \A k \in DOMAIN c \ DOMAIN b : Over(b, c)[k] = c[k]
        /\ IsFunction(Over(b, c))
    BY OverIs
  <2>. QED  BY <1>3, <2>1
<1>8. DOMAIN c \intersect DOMAIN b = {}
  BY <1>4, <1>5, KeysAre DEF SixKeys, LegacyKeys
<1>9. DOMAIN n = MetadataKeys
  BY <1>4, <1>5, <1>7 DEF MetadataKeys
<1>10. \A k \in DOMAIN OnlyNew : n[k] = OnlyNew[k]
  BY <1>5, <1>6, <1>7 DEF CommonKeys
<1>11. \A k \in {"uuid", "license", "rights_owner"} : n[k] = d[k]
  BY <1>5, <1>6, <1>7 DEF CommonKeys
<1>12. \A k \in DOMAIN c : n[k] = c[k]
  BY <1>7, <1>8
<1>13. /\ n.type = types /\ n.name = name /\ n.credits = credits /\ n.source = source
       /\ n.limits = limits /\ n.keywords = d.keywords /\ n.legacy_validation = d.validation
       /\ n.problem_format_version = LEGACY
  BY <1>4, <1>12 DEF SixKeys, LegacyKeys
<1>. QED  BY <1>2, <1>7, <1>9, <1>10, <1>11, <1>13 DEF OnlyNewIn, credits, source, limits, name, n

(* A sequence, of whatever elements.                                       *)
IsSeq(s) == s \in Seq(ToSet(s))

(* A function on 1 .. n is a sequence of length n.                         *)
LEMMA SeqIs ==
  ASSUME NEW s, NEW n \in Nat, IsFunction(s), DOMAIN s = 1 .. n
  PROVE  IsSeq(s) /\ Len(s) = n
<1>1. s \in [1 .. n -> ToSet(s)]
  BY DEF IsFunction, ToSet
<1>2. s \in Seq(ToSet(s))
  BY <1>1, SeqDef
<1>. QED  BY <1>1, <1>2, LenProperties DEF IsSeq

(* The length, the domain and the elements of a sequence.                  *)
LEMMA SeqHas ==
  ASSUME NEW s, IsSeq(s)
  PROVE  Len(s) \in Nat /\ DOMAIN s = 1 .. Len(s) /\ IsFunction(s) /\ IsFiniteSet(ToSet(s))
<1>1. s \in [1 .. Len(s) -> ToSet(s)] /\ Len(s) \in Nat
  BY LenProperties DEF IsSeq
<1>2. s \in Surjection(1 .. Len(s), ToSet(s))
  BY <1>1 DEF Surjection, ToSet
<1>3. IsFiniteSet(1 .. Len(s))
  BY <1>1, FS_Interval
<1>4. IsFiniteSet(ToSet(s))
  BY <1>2, <1>3, FS_Surjection
<1>. QED  BY <1>1, <1>4 DEF IsFunction

(* A sequence of elements of S is a sequence.                              *)
LEMMA InSeqIs ==
  ASSUME NEW S, NEW s \in Seq(S)
  PROVE  IsSeq(s)
<1>1. Len(s) \in Nat /\ DOMAIN s = 1 .. Len(s) /\ IsFunction(s)
  BY DEF IsFunction
<1>. QED  BY <1>1, SeqIs

(* Sequences that are written out are sequences.                           *)
LEMMA ShortSeqs ==
  ASSUME NEW x, NEW y
  PROVE  IsSeq(<<>>) /\ IsSeq(<<x>>) /\ IsSeq(<<x, y>>)
<1>1. <<>> \in Seq(ToSet(<<>>))
  OBVIOUS
<1>2. x \in ToSet(<<x>>)
  <2>1. 1 \in DOMAIN <<x>> /\ <<x>>[1] = x
    OBVIOUS
  <2>. QED  BY <2>1 DEF ToSet
<1>3. x \in ToSet(<<x, y>>) /\ y \in ToSet(<<x, y>>)
  <2>1. 1 \in DOMAIN <<x, y>> /\ <<x, y>>[1] = x /\ 2 \in DOMAIN <<x, y>> /\ <<x, y>>[2] = y
    OBVIOUS
  <2>. QED  BY <2>1 DEF ToSet
<1>4. \A S : \A a, b \in S : <<a>> \in Seq(S) /\ <<a, b>> \in Seq(S)
  OBVIOUS
<1>. QED  BY <1>1, <1>2, <1>3, <1>4 DEF IsSeq

(* A list that is read is a sequence.                                      *)
LEMMA ParsedListIs ==
  ASSUME NEW l, IsListing(l)
  PROVE  /\ IsFunction(parse_persons(l)) /\ IsSeq(parse_persons(l))
         /\ IsFunction(parse_list(parse_source, l, SourceKeys))
<1>0. "list" # "string" /\ "list" # "mapping" /\ "mapping" # "string"
  OBVIOUS
<1>1. \A x, y : IsFunction(<<x>>) /\ IsFunction(<<x, y>>)
  BY DEF IsFunction
<1>2. CASE l.form = "string"
  <2>1. /\ parse_persons(l) = <<parse_person(l)>>
        /\ parse_list(parse_source, l, SourceKeys) = <<parse_source(l)>>
    BY <1>0, <1>2 DEF parse_persons, parse_list
  <2>. QED  BY <1>1, <2>1, ShortSeqs
<1>3. CASE l.form = "mapping"
  <2> DEFINE ks == SetToSeq(DOMAIN l.of)
             p == PersonKeys(l)
             a == [i \in DOMAIN p |-> parse_person(p[i])]
             b == [i \in DOMAIN SourceKeys |-> parse_source(SourceKeys[i])]
  <2>1. parse_persons(l) = a /\ parse_list(parse_source, l, SourceKeys) = b
    BY <1>0, <1>3 DEF parse_persons, parse_list, MapSeq
  <2>2. DOMAIN p = DOMAIN ks
    BY DEF PersonKeys, MapSeq
  <2>3. ks \in Seq(DOMAIN l.of)
    BY <1>3, SetToSeqIs DEF IsListing
  <2> HIDE DEF ks, p
  <2>4. IsFunction(a) /\ DOMAIN a = DOMAIN p /\ IsFunction(b)
    BY DEF IsFunction
  <2> HIDE DEF a, b
  <2>5. Len(ks) \in Nat /\ DOMAIN ks = 1 .. Len(ks)
    BY <2>3, InSeqIs, SeqHas
  <2>6. IsSeq(a)
    BY <2>2, <2>4, <2>5, SeqIs
  <2>. QED  BY <2>1, <2>4, <2>6
<1>4. CASE l.form = "list"
  <2> DEFINE a == [i \in DOMAIN l.of |-> parse_person(l.of[i])]
             b == [i \in DOMAIN l.of |-> parse_source(l.of[i])]
  <2>1. parse_persons(l) = a /\ parse_list(parse_source, l, SourceKeys) = b
    BY <1>0, <1>4 DEF parse_persons, parse_list, MapSeq
  <2>2. IsFunction(a) /\ IsFunction(b) /\ DOMAIN a = DOMAIN l.of
    BY DEF IsFunction
  <2>3. IsSeq(l.of)
    BY <1>4 DEF IsListing, IsSeq
  <2> HIDE DEF a, b
  <2>4. Len(l.of) \in Nat /\ DOMAIN l.of = 1 .. Len(l.of)
    BY <2>3, SeqHas
  <2>5. IsSeq(a)
    BY <2>2, <2>4, SeqIs
  <2>. QED  BY <2>1, <2>2, <2>5
<1>. QED  BY <1>2, <1>3, <1>4 DEF IsListing

(* Credits as the metadata keep them: each role a sequence of persons, the *)
(* translators one for each language.                                      *)
CreditsOK(c) ==
  /\ IsFunction(c) /\ CreditKeys \subseteq DOMAIN c
  /\ \A k \in DOMAIN c :
       /\ IsFunction(c[k])
       /\ k = "translators" => \A lang \in DOMAIN c[k] : IsFunction(c[k][lang])
  /\ IsSeq(c.authors)

(* Credits without names, and with authors only.                           *)
LEMMA AuthorsAreCredits ==
  ASSUME NEW s, IsSeq(s)
  PROVE  CreditsOK(NoCredits) /\ CreditsOK([NoCredits EXCEPT !.authors = s])
<1>1. DOMAIN NoCredits = CreditKeys /\ \A k \in CreditKeys : NoCredits[k] = <<>>
  BY DEF NoCredits, CreditKeys
<1>2. IsFunction(NoCredits)
  BY DEF NoCredits, IsFunction
<1>3. IsSeq(<<>>) /\ IsFunction(<<>>) /\ DOMAIN <<>> = {}
  <2>1. IsFunction(<<>>)
    BY DEF IsFunction
  <2>2. DOMAIN <<>> = {}
    OBVIOUS
  <2>. QED  BY <2>1, <2>2, ShortSeqs
<1>4. IsFunction(s)
  BY SeqHas
<1>5. "authors" \in CreditKeys /\ "authors" # "translators"
  BY DEF CreditKeys
<1>6. CreditsOK(NoCredits)
  BY <1>1, <1>2, <1>3, <1>5 DEF CreditsOK
<1> DEFINE c == [NoCredits EXCEPT !.authors = s]
<1>7. /\ DOMAIN c = CreditKeys /\ IsFunction(c) /\ c.authors = s
      /\ \A k \in CreditKeys \ {"authors"} : c[k] = <<>>
  BY <1>1, <1>5 DEF IsFunction
<1> HIDE DEF c
<1>8. CreditsOK(c)
  BY <1>3, <1>4, <1>5, <1>7 DEF CreditsOK
<1>. QED  BY <1>6, <1>8 DEF c

(* parse_credits gives credits as the metadata keep them.                  *)
LEMMA ParsedCreditsAre ==
  ASSUME NEW c, c = Null \/ AreCredits(c)
  PROVE  CreditsOK(parse_credits(c))
<1>1. CASE c = Null
  <2>1. parse_credits(c) = NoCredits
    BY <1>1 DEF parse_credits
  <2>. QED  BY <2>1, ShortSeqs, AuthorsAreCredits
<1>2. CASE c # Null /\ c.form = "string"
  <2>1. parse_credits(c) = [NoCredits EXCEPT !.authors = <<parse_person(c)>>]
    BY <1>2 DEF parse_credits
  <2>2. IsSeq(<<parse_person(c)>>)
    BY ShortSeqs
  <2>. QED  BY <2>1, <2>2, AuthorsAreCredits
<1>3. CASE c # Null /\ c.form # "string"
  <2> DEFINE e == c.of
             parsed == [k \in DOMAIN e |->
                          IF k # "translators" THEN parse_persons(e[k])
                          ELSE [lang \in DOMAIN e[k] |-> parse_persons(e[k][lang])]]
             r == Over(parsed, NoCredits)
  <2>1. parse_credits(c) = r
    BY <1>3 DEF parse_credits
  <2>2. \A k \in DOMAIN e : IF k # "translators" THEN IsListing(e[k])
                            ELSE \A lang \in DOMAIN e[k] : IsListing(e[k][lang])
    BY <1>3 DEF AreCredits
  <2> HIDE DEF e
  <2>3. DOMAIN parsed = DOMAIN e
    OBVIOUS
  <2>4. ASSUME NEW k \in DOMAIN e
        PROVE  /\ IsFunction(parsed[k])
               /\ k = "translators" => \A lang \in DOMAIN parsed[k] : IsFunction(parsed[k][lang])
               /\ k # "translators" => IsSeq(parsed[k])
    <3>1. CASE k # "translators"
      <4>1. parsed[k] = parse_persons(e[k]) /\ IsListing(e[k])
        BY <2>2, <2>4, <3>1
      <4> HIDE DEF parsed
      <4>. QED  BY <3>1, <4>1, ParsedListIs
    <3>2. CASE k = "translators"
      <4>1. /\ parsed[k] = [lang \in DOMAIN e[k] |-> parse_persons(e[k][lang])]
            /\ \A lang \in DOMAIN e[k] : IsListing(e[k][lang])
        BY <2>2, <2>4, <3>2
      <4> HIDE DEF parsed
      <4>2. DOMAIN parsed[k] = DOMAIN e[k] /\ IsFunction(parsed[k])
        BY <4>1 DEF IsFunction
      <4>3. \A lang \in DOMAIN e[k] : IsFunction(parsed[k][lang])
        <5> SUFFICES ASSUME NEW lang \in DOMAIN e[k] PROVE IsFunction(parsed[k][lang])
          OBVIOUS
        <5>1. parsed[k][lang] = parse_persons(e[k][lang]) /\ IsListing(e[k][lang])
          BY <4>1
        <5>. QED  BY <5>1, ParsedListIs
      <4>. QED  BY <3>2, <4>2, <4>3
    <3>. QED  BY <3>1, <3>2
  <2> HIDE DEF parsed
  <2>5. /\ IsFunction(r)
        /\ DOMAIN r = DOMAIN parsed \union DOMAIN NoCredits
        /\ \A k \in DOMAIN parsed : r[k] = parsed[k]
        /\ \A k \in DOMAIN NoCredits \ DOMAIN parsed : r[k] = NoCredits[k]
    BY OverIs
  <2> HIDE DEF r
  <2>6. DOMAIN NoCredits = CreditKeys /\ CreditsOK(NoCredits)
    BY KeysAre, ShortSeqs, AuthorsAreCredits
  <2>7. "authors" \in CreditKeys /\ "authors" # "translators"
    BY DEF CreditKeys
  <2>8. ASSUME NEW k \in DOMAIN r
        PROVE  /\ IsFunction(r[k])
               /\ k = "translators" => \A lang \in DOMAIN r[k] : IsFunction(r[k][lang])
               /\ k = "authors" => IsSeq(r[k])
    <3>1. CASE k \in DOMAIN parsed
      BY <2>3, <2>4, <2>5, <2>7, <3>1
    <3>2. CASE k \notin DOMAIN parsed
      <4>1. k \in DOMAIN NoCredits /\ r[k] = NoCredits[k]
        BY <2>5, <3>2
      <4>. QED  BY <2>6, <4>1 DEF CreditsOK
    <3>. QED  BY <3>1, <3>2
  <2>9. CreditsOK(r)
    BY <2>5, <2>6, <2>7, <2>8 DEF CreditsOK
  <2>. QED  BY <2>1, <2>9
<1>. QED  BY <1>1, <1>2, <1>3

(* What metadata that was loaded is like.                                  *)
IsLoaded(m) ==
  /\ IsFunction(m) /\ Dumpable(m)
  /\ IsSeq(m.credits.authors)
  /\ IsSeq(m.legacy_validation)
  /\ \/ m.problem_format_version = LEGACY
     \/ m.problem_format_version = V_2023_07 /\ \A k \in LegacyKeys : m[k] = NoLegacy[k]

(* What from_legacy does not reject is metadata with every field of the    *)
(* right kind.                                                             *)
LEMMA LegacyIsLoaded ==
  ASSUME NEW yaml, NEW names, NoneIsFunction, IsYaml(LEGACY, yaml), Valid(LEGACY, yaml),
         from_legacy(Filled(LEGACY, yaml), names) # Rejected
  PROVE  IsLoaded(from_legacy(Filled(LEGACY, yaml), names))
<1> DEFINE d == Filled(LEGACY, yaml)
           n == from_legacy(d, names)
<1>1. /\ \A k \in DOMAIN Defaults(LEGACY) \ {"limits"} :
           d[k] = IF k \in DOMAIN yaml THEN yaml[k] ELSE Defaults(LEGACY)[k]
      /\ \A k \in DOMAIN yaml : yaml[k] # WrongType
      /\ DOMAIN d.limits = KnownLimits(LEGACY)
      /\ \A k \in KnownLimits(LEGACY) : d.limits[k] # WrongType
      /\ \A k \in {"uuid", "license", "rights_owner", "keywords"} : d[k] # WrongType
  <2>1. \A k \in DOMAIN yaml : yaml[k] # WrongType
    BY DEF Valid
  <2>. QED  BY <2>1, FilledIs
<1>2. /\ IsFunction(n)
      /\ DOMAIN n = MetadataKeys
      /\ \A k \in {"uuid", "license", "rights_owner", "keywords"} : n[k] = d[k]
      /\ \A k \in DOMAIN OnlyNew : n[k] = OnlyNew[k]
      /\ n.type \in {{d.type}, {d.type, "interactive"}}
      /\ n.credits = [NoCredits EXCEPT !.authors = MapSeq(from_string, LegacyAuthors(d))]
      /\ n.source = IF d.source = Null THEN <<>>
                    ELSE <<[name |-> d.source, url |-> d.source_url]>>
      /\ n.limits = [memory |-> d.limits.memory, output |-> d.limits.output,
                     ac_to_time_limit |-> d.limits.time_multiplier,
                     time_limit_to_tle |-> d.limits.time_safety_margin,
                     time_limit |-> Null, time_resolution |-> 10]
      /\ n.legacy_validation = d.validation
      /\ n.problem_format_version = LEGACY
  <2>1. from_legacy(d, names) # Rejected
    OBVIOUS
  <2> HIDE DEF d
  <2>2. IsFunction(n)
    BY <2>1, OldFormIs
  <2>8. DOMAIN n = MetadataKeys
    BY <2>1, OldFormIs
  <2>9. \A k \in {"uuid", "license", "rights_owner", "keywords"} : n[k] = d[k]
    BY <2>1, OldFormIs
  <2>11. OnlyNewIn(n)
    BY <2>1, OldFormIs
  <2>10. \A k \in DOMAIN OnlyNew : n[k] = OnlyNew[k]
    BY <2>11 DEF OnlyNewIn
  <2>3. n.type \in {{d.type}, {d.type, "interactive"}}
    BY <2>1, OldFormIs
  <2>4. n.credits = [NoCredits EXCEPT !.authors = MapSeq(from_string, LegacyAuthors(d))]
    BY <2>1, OldFormIs
  <2>5. n.source = IF d.source = Null THEN <<>>
                    ELSE <<[name |-> d.source, url |-> d.source_url]>>
    BY <2>1, OldFormIs
  <2>6. n.limits = [memory |-> d.limits.memory, output |-> d.limits.output,
                     ac_to_time_limit |-> d.limits.time_multiplier,
                     time_limit_to_tle |-> d.limits.time_safety_margin,
                     time_limit |-> Null, time_resolution |-> 10]
    BY <2>1, OldFormIs
  <2>7. n.legacy_validation = d.validation /\ n.problem_format_version = LEGACY
    BY <2>1, OldFormIs
  <2> HIDE DEF n
  <2>. QED  BY <2>2, <2>3, <2>4, <2>5, <2>6, <2>7, <2>8, <2>9, <2>10
<1>3. KnownLimits(LEGACY) = {"memory", "output", "time_multiplier", "time_safety_margin"}
  BY DEF KnownLimits, SystemLimits, LimitsOfKind
<1> HIDE DEF d, n
<1>4. /\ IsFunction(n.limits) /\ DOMAIN n.limits = LimitKeys
      /\ \A k \in LimitKeys : n.limits[k] # WrongType
  <2> DEFINE l == [memory |-> d.limits.memory, output |-> d.limits.output,
                   ac_to_time_limit |-> d.limits.time_multiplier,
                   time_limit_to_tle |-> d.limits.time_safety_margin,
                   time_limit |-> Null, time_resolution |-> 10]
  <2>1. IsFunction(l)
    BY DEF IsFunction
  <2>2. DOMAIN l = LimitKeys
    BY DEF LimitKeys
  <2>3. /\ l.memory # WrongType /\ l.output # WrongType /\ l.ac_to_time_limit # WrongType
        /\ l.time_limit_to_tle # WrongType
    BY <1>1, <1>3
  <2>4. l.time_limit # WrongType /\ l.time_resolution # WrongType
    BY WrongTypeAssumption
  <2>5. n.limits = l
    BY <1>2
  <2> HIDE DEF l
  <2>. QED  BY <2>1, <2>2, <2>3, <2>4, <2>5 DEF LimitKeys
<1>5. \A k \in CommonKeys \union {"keywords"} : n[k] # WrongType
  <2>1. \A k \in DOMAIN OnlyNew : n[k] # WrongType
    <3>1. <<>> # WrongType
      <4>1. IsFunction(<<>>)
        BY DEF IsFunction
      <4>. QED  BY <4>1 DEF NoneIsFunction
    <3>2. /\ OnlyNew.version # WrongType /\ OnlyNew.embargo_until # WrongType
          /\ OnlyNew.languages # WrongType /\ OnlyNew.constants # WrongType
      BY <3>1, WrongTypeAssumption DEF OnlyNew
    <3>3. OnlyNew.allow_file_writing # WrongType
      <4>1. OnlyNew.allow_file_writing = TRUE /\ TRUE # WrongType
        BY WrongTypeAssumption DEF OnlyNew
      <4>. QED  BY <4>1, Zenon
    <3>4. DOMAIN OnlyNew = {"version", "embargo_until", "languages", "allow_file_writing",
                            "constants"}
      BY DEF OnlyNew
    <3>. QED  BY <1>2, <3>2, <3>3, <3>4
  <2>2. DOMAIN Shared = {"uuid", "license", "rights_owner"}
    BY DEF Shared
  <2>. QED  BY <1>1, <1>2, <2>1, <2>2 DEF CommonKeys
<1>6. IsFiniteSet(n.type)
  <2>1. IsFiniteSet({d.type}) /\ IsFiniteSet({d.type, "interactive"})
    BY FS_EmptySet, FS_AddElement
  <2>. QED  BY <1>2, <2>1
<1>7. IsFunction(n.source)
  <2>1. IsFunction(<<>>) /\ \A x : IsFunction(<<x>>)
    BY DEF IsFunction
  <2>. QED  BY <1>2, <2>1
<1>8. IsSeq(LegacyAuthors(d))
  <2>1. CASE d.author = Null
    <3>1. LegacyAuthors(d) = <<>>
      BY <2>1 DEF LegacyAuthors
    <3>. QED  BY <3>1, ShortSeqs
  <2>2. CASE d.author # Null
    <3>1. "author" \in DOMAIN Defaults(LEGACY) \ {"limits"} /\ Defaults(LEGACY).author = Null
      BY DefaultsAre
    <3>2. "author" \in DOMAIN yaml /\ d.author = yaml.author
      BY <1>1, <2>2, <3>1
    <3>3. d.author \in Seq(ToSet(d.author))
      BY <1>1, <3>2 DEF IsYaml
    <3>4. LegacyAuthors(d) = Kept(d.author, ToSet(d.author) \ {<<"">>})
      BY <2>2 DEF LegacyAuthors
    <3> DEFINE T == ToSet(d.author)
               S == T \ {<<"">>}
    <3> HIDE DEF T, S
    <3>5. Kept(d.author, S) \in Seq(T)
      BY <3>3, KeptIs DEF T
    <3>6. LegacyAuthors(d) \in Seq(T)
      BY <3>4, <3>5 DEF S, T
    <3>. QED  BY <3>6, InSeqIs
  <2>. QED  BY <2>1, <2>2
<1>9. CreditsOK(n.credits)
  <2> DEFINE s == MapSeq(from_string, LegacyAuthors(d))
  <2>1. s = [i \in DOMAIN LegacyAuthors(d) |-> from_string(LegacyAuthors(d)[i])]
    BY DEF MapSeq
  <2> HIDE DEF s
  <2>2. Len(LegacyAuthors(d)) \in Nat /\ DOMAIN LegacyAuthors(d) = 1 .. Len(LegacyAuthors(d))
    BY <1>8, SeqHas
  <2>3. IsFunction(s) /\ DOMAIN s = 1 .. Len(LegacyAuthors(d))
    BY <2>1, <2>2 DEF IsFunction
  <2>4. IsSeq(s)
    BY <2>2, <2>3, SeqIs
  <2>5. CreditsOK([NoCredits EXCEPT !.authors = s])
    BY <2>4, AuthorsAreCredits
  <2>. QED  BY <1>2, <2>5 DEF s
<1>10. IsSeq(n.legacy_validation)
  <2>1. "validation" \in DOMAIN Defaults(LEGACY) \ {"limits"}
    BY DefaultsAre
  <2>2. CASE "validation" \in DOMAIN yaml
    <3>1. d.validation = yaml.validation
      BY <1>1, <2>1, <2>2
    <3>2. yaml.validation \in Seq(ToSet(yaml.validation))
      BY <1>1, <2>2 DEF IsYaml
    <3>. QED  BY <1>2, <3>1, <3>2 DEF IsSeq
  <2>3. CASE "validation" \notin DOMAIN yaml
    <3>1. d.validation = <<"default">>
      BY <1>1, <2>1, <2>3, DefaultsAre
    <3>2. IsSeq(<<"default">>)
      BY ShortSeqs
    <3>3. n.legacy_validation = d.validation
      BY <1>2
    <3>. QED  BY <3>1, <3>2, <3>3
  <2>. QED  BY <2>2, <2>3
<1>11. Dumpable(n)
  BY <1>2, <1>4, <1>5, <1>6, <1>7, <1>9 DEF Dumpable, CreditsOK
<1>. QED  BY <1>2, <1>9, <1>10, <1>11 DEF IsLoaded, CreditsOK, n, d

(* So is what from_2023_07 gives.                                          *)
LEMMA NewIsLoaded ==
  ASSUME NEW yaml, NoneIsFunction, IsYaml(V_2023_07, yaml), Valid(V_2023_07, yaml)
  PROVE  IsLoaded(from_2023_07(Filled(V_2023_07, yaml)))
<1> DEFINE d == Filled(V_2023_07, yaml)
           n == from_2023_07(d)
<1>0. LEGACY # V_2023_07
  BY DEF LEGACY, V_2023_07
<1>1. /\ \A k \in DOMAIN Defaults(V_2023_07) \ {"limits"} :
           d[k] = IF k \in DOMAIN yaml THEN yaml[k] ELSE Defaults(V_2023_07)[k]
      /\ \A k \in DOMAIN yaml : yaml[k] # WrongType
      /\ IsFunction(d.limits)
      /\ DOMAIN d.limits = KnownLimits(V_2023_07)
      /\ \A k \in KnownLimits(V_2023_07) : d.limits[k] # WrongType
      /\ \A k \in CommonKeys \union {"keywords"} : d[k] # WrongType
  <2>1. \A k \in DOMAIN yaml : yaml[k] # WrongType
    BY DEF Valid
  <2>2. \A k \in CommonKeys \union {"keywords"} : d[k] # WrongType
    BY <1>0, FilledIs
  <2>. QED  BY <2>1, <2>2, FilledIs
<1>2. /\ IsFunction(n) /\ DOMAIN n = MetadataKeys
      /\ \A k \in CommonKeys \union {"limits", "keywords"} : n[k] = d[k]
      /\ n.type = IF d.type.form = "string" THEN {d.type.of} ELSE ToSet(d.type.of)
      /\ n.credits = parse_credits(d.credits)
      /\ n.source = parse_list(parse_source, d.source, SourceKeys)
      /\ n.legacy_validation = <<>>
      /\ n.problem_format_version = V_2023_07
      /\ \A k \in LegacyKeys : n[k] = NoLegacy[k]
  BY NewFormIs
<1> HIDE DEF d, n
<1>3. KnownLimits(V_2023_07) = LimitKeys
  BY KeysAre DEF KnownLimits
<1>4. IsSeq(n.legacy_validation)
  BY <1>2, ShortSeqs
<1>5. {"type", "credits", "source"} \subseteq DOMAIN Defaults(V_2023_07) \ {"limits"}
  BY KeysAre DEF SixKeys
<1>6. IsFiniteSet(n.type)
  <2>1. d.type.form = "string" \/ IsSeq(d.type.of)
    <3>1. CASE "type" \in DOMAIN yaml
      <4>1. d.type = yaml.type /\ yaml.type # WrongType
        BY <1>1, <1>5, <3>1
      <4>2. yaml.type.form = "string" \/ yaml.type.of \in Seq(ToSet(yaml.type.of))
        BY <1>0, <3>1, <4>1 DEF IsYaml
      <4>. QED  BY <4>1, <4>2 DEF IsSeq
    <3>2. CASE "type" \notin DOMAIN yaml
      <4>1. d.type = Str("pass-fail")
        BY <1>1, <1>5, <3>2, DefaultsAre
      <4>. QED  BY <4>1 DEF Str
    <3>. QED  BY <3>1, <3>2
  <2>2. IsFiniteSet({d.type.of})
    BY FS_EmptySet, FS_AddElement
  <2>. QED  BY <1>2, <2>1, <2>2, SeqHas
<1>7. IsFunction(n.source)
  <2>1. IsListing(d.source)
    <3>1. CASE "source" \in DOMAIN yaml
      <4>1. d.source = yaml.source /\ yaml.source # WrongType
        BY <1>1, <1>5, <3>1
      <4>. QED  BY <1>0, <3>1, <4>1 DEF IsYaml
    <3>2. CASE "source" \notin DOMAIN yaml
      <4>1. d.source = List(<<>>)
        BY <1>1, <1>5, <3>2, DefaultsAre
      <4>2. List(<<>>).form = "list" /\ List(<<>>).of = <<>>
        BY DEF List
      <4>3. IsListing(List(<<>>))
        BY <4>2, ShortSeqs DEF IsListing, IsSeq
      <4>. QED  BY <4>1, <4>3
    <3>. QED  BY <3>1, <3>2
  <2>2. IsFunction(parse_list(parse_source, d.source, SourceKeys))
    BY <2>1, ParsedListIs
  <2>. QED  BY <1>2, <2>2
<1>8. CreditsOK(n.credits)
  <2>1. d.credits = Null \/ AreCredits(d.credits)
    <3>1. CASE "credits" \in DOMAIN yaml
      <4>1. d.credits = yaml.credits /\ yaml.credits # WrongType
        BY <1>1, <1>5, <3>1
      <4>. QED  BY <1>0, <3>1, <4>1 DEF IsYaml
    <3>2. CASE "credits" \notin DOMAIN yaml
      BY <1>1, <1>5, <3>2, DefaultsAre
    <3>. QED  BY <3>1, <3>2
  <2>2. CreditsOK(parse_credits(d.credits))
    BY <2>1, ParsedCreditsAre
  <2>. QED  BY <1>2, <2>2
<1>9. /\ IsFunction(n.limits) /\ DOMAIN n.limits = LimitKeys
      /\ \A k \in LimitKeys : n.limits[k] # WrongType
  <2>1. n.limits = d.limits
    BY <1>2
  <2>. QED  BY <1>1, <1>3, <2>1
<1>10. Dumpable(n)
  BY <1>1, <1>2, <1>6, <1>7, <1>8, <1>9 DEF Dumpable, CreditsOK
<1>. QED  BY <1>2, <1>4, <1>8, <1>10 DEF IsLoaded, CreditsOK, n, d

(* So, whatever its format version, is every problem.yaml that             *)
(* parse_metadata accepts.                                                 *)
LEMMA MetadataIsLoaded ==
  ASSUME NEW v \in {LEGACY, V_2023_07}, NEW yaml, NEW names, NoneIsFunction, IsYaml(v, yaml),
         parse_metadata(v, yaml, names) # Rejected
  PROVE  IsLoaded(parse_metadata(v, yaml, names))
<1>0. LEGACY # V_2023_07
  BY DEF LEGACY, V_2023_07
<1>1. /\ Valid(v, yaml)
      /\ parse_metadata(v, yaml, names) = IF v = LEGACY THEN from_legacy(Filled(v, yaml), names)
                                          ELSE from_2023_07(Filled(v, yaml))
  BY Zenon DEF parse_metadata, Filled
<1>2. CASE v = LEGACY
  <2>1. from_legacy(Filled(LEGACY, yaml), names) # Rejected
    BY <1>1, <1>2
  <2>. QED  BY <1>1, <1>2, <2>1, LegacyIsLoaded
<1>3. CASE v = V_2023_07
  BY <1>0, <1>1, <1>3, NewIsLoaded
<1>. QED  BY <1>2, <1>3

(* The names in the statements of a package, and the metadata of it.       *)
NamesFound(p) ==
  IF VersionOf(p.version) = LEGACY THEN load_names_from_statements(p.statements) ELSE <<>>

MetadataOf(p) == parse_metadata(VersionOf(p.version), p.yaml, NamesFound(p))

(* Metadata that was loaded is that of the package, which was accepted.    *)
MInv ==
  /\ \E family \in Packages : pkg \in family
  /\ md # Null => /\ VersionOf(pkg.version) \in {LEGACY, V_2023_07}
                  /\ md = MetadataOf(pkg) /\ MetadataOf(pkg) # Rejected
  /\ pc \notin {"languages", "metadata", "stopped"} => md # Null

(* The metadata of a package are what parse_metadata made of its           *)
(* problem.yaml, and stay so.                                              *)
LEMMA MInvHolds == ASSUME NoneIsFunction PROVE LoadSpec => []MInv
<1>1. LoadInit => MInv
  BY DEF LoadInit, MInv
<1>2. MInv /\ [LoadNext]_loadVars => MInv'
  <2> SUFFICES ASSUME MInv, [LoadNext]_loadVars PROVE MInv'
    OBVIOUS
  <2> USE DEF MInv
  <2>1. CASE LoadLanguages
    <3>1. pkg' = pkg /\ pc = "languages" /\ md' = md /\ pc' \in {"metadata", "stopped"}
      BY <2>1, ReportLeads DEF LoadLanguages, LoadFails, Goto
    <3>. QED  BY <3>1
  <2>2. CASE LoadMetadata
    <3> DEFINE v == VersionOf(pkg.version)
               loaded == IF v \in {LEGACY, V_2023_07} THEN MetadataOf(pkg) ELSE Rejected
    <3>1. /\ pkg' = pkg
          /\ IF loaded = Rejected THEN LoadFails
             ELSE md' = loaded /\ Goto("programs")
      BY <2>2 DEF LoadMetadata, MetadataOf, NamesFound
    <3>2. CASE loaded = Rejected
      <4>1. md' = md /\ pc' = "stopped"
        BY <3>1, <3>2, ReportLeads DEF LoadFails
      <4>. QED  BY <3>1, <4>1
    <3>3. CASE loaded # Rejected
      <4>1. v \in {LEGACY, V_2023_07} /\ md' = MetadataOf(pkg) /\ pc' = "programs"
            /\ MetadataOf(pkg) # Rejected
        BY <3>1, <3>3 DEF Goto
      <4>2. IsYaml(v, pkg.yaml)
        BY <4>1, PackagesAssumption
      <4>3. IsLoaded(MetadataOf(pkg))
        BY <4>1, <4>2, MetadataIsLoaded DEF MetadataOf
      <4>4. MetadataOf(pkg) # Null
        BY <4>3 DEF IsLoaded, NoneIsFunction
      <4>. QED  BY <3>1, <4>1, <4>4
    <3>. QED  BY <3>2, <3>3
  <2>3. CASE TakeAsItIs
    BY <2>3 DEF TakeAsItIs
  <2>4. CASE LookAtFiles
    BY <2>4 DEF LookAtFiles, Goto
  <2>5. CASE DetectOne
    BY <2>5 DEF DetectOne
  <2>6. CASE EndDetection
    BY <2>6 DEF EndDetection, Goto
  <2>7. CASE EndLoading
    BY <2>7 DEF EndLoading, Goto
  <2>8. ASSUME NEW label, NEW rs, NEW next, label \notin {"languages", "metadata", "stopped"},
               Check(label, rs, next)
        PROVE  MInv'
    <3>1. pc = label /\ UNCHANGED <<pkg, md>>
      BY <2>8 DEF Check
    <3>. QED  BY <2>8, <3>1
  <2>9. CASE UNCHANGED loadVars
    BY <2>9 DEF loadVars
  <2>10. CASE CheckPackage
    <3> DEFINE rs == When(pkg.shortname = "Bad-Name", Error("shortname")) \o
                     When(version = V_2023_07, Warning("2023-07 is incomplete")) \o
                     check_problem_package(pkg, version)
    <3>1. Check("package", rs, "config")
      BY <2>10 DEF CheckPackage
    <3> HIDE DEF rs
    <3>. QED  BY <2>8, <3>1
  <2>11. CASE CheckConfig
    BY <2>8, <2>11 DEF CheckConfig
  <2>12. CASE CheckStatements
    BY <2>8, <2>12 DEF CheckStatements
  <2>13. CASE CheckAttachments
    BY <2>8, <2>13 DEF CheckAttachments
  <2>14. CASE CheckGraders
    BY <2>8, <2>14 DEF CheckGraders
  <2>15. CASE CheckIncludes
    BY <2>8, <2>15 DEF CheckIncludes
  <2>. QED  BY <2>1, <2>2, <2>3, <2>4, <2>5, <2>6, <2>7, <2>9, <2>10, <2>11, <2>12,
               <2>13, <2>14, <2>15
            DEF LoadNext
<1>. QED  BY <1>1, <1>2, PTL DEF LoadSpec

(* Metadata that is there was accepted, so every field of it is of the     *)
(* right kind.                                                             *)
LEMMA LoadedMetadata ==
  ASSUME NoneIsFunction, MInv, md # Null
  PROVE  IsLoaded(md)
<1>1. IsYaml(VersionOf(pkg.version), pkg.yaml)
  BY PackagesAssumption DEF MInv
<1>. QED  BY <1>1, MetadataIsLoaded DEF MInv, MetadataOf

(* Metadata that was loaded from a problem.yaml, of either format version, *)
(* can be written out and read again by the parser of the 2023-07 format,  *)
(* and are then the same up to the legacy fields.  Read as it is written,  *)
(* by the parser its problem_format_version chooses, what a 2023-07        *)
(* package gives is the same metadata, and what a legacy package gives is  *)
(* refused (Metadata.model_dump, the serialisers of Person and Source,     *)
(* parse_metadata, load_metadata).                                         *)
THEOREM MetadataIsSerialisable ==
  ASSUME NoneIsFunction PROVE LoadSpec => []MetadataSurvivesDump
<1>1. MInv => MetadataSurvivesDump
  <2> SUFFICES ASSUME MInv, md # Null
               PROVE  MetadataSurvivesDump
    BY DEF MetadataSurvivesDump
  <2>1. IsLoaded(md) /\ Dumpable(md)
    BY LoadedMetadata DEF IsLoaded
  <2>2. WithoutVersion(Dump(md)) = DumpedFields(md) /\ Dump(md).problem_format_version = version
    BY <2>1, DumpHas DEF version
  <2>3. /\ parse_metadata(V_2023_07, DumpedFields(md), <<>>) # Rejected
        /\ WithoutLegacy(parse_metadata(V_2023_07, DumpedFields(md), <<>>)) = WithoutLegacy(md)
    BY <2>1, DumpSurvives
  <2>4. parse_metadata(version, DumpedFields(md), <<>>) = IF version = LEGACY THEN Rejected ELSE md
    <3>1. CASE version = LEGACY
      BY <2>1, <3>1, LegacyDumpIsRefused
    <3>2. CASE version # LEGACY
      <4>1. /\ version = V_2023_07 /\ IsFunction(md)
            /\ \A k \in LegacyKeys : md[k] = NoLegacy[k]
        BY <2>1, <3>2 DEF IsLoaded, version
      <4>2. parse_metadata(V_2023_07, DumpedFields(md), <<>>) = md
        BY <2>1, <4>1, NewDumpIsRead DEF version
      <4>. QED  BY <3>2, <4>1, <4>2
    <3>. QED  BY <3>1, <3>2
  <2>. QED  BY <2>2, <2>3, <2>4 DEF MetadataSurvivesDump
<1>. QED  BY <1>1, MInvHolds, PTL

(* What is in the set and has with every sequence its extensions by one    *)
(* element holds all sequences.                                            *)
LEMMA SeqInduction ==
  ASSUME NEW T, NEW Q, <<>> \in Q,
         \A s \in Seq(T) : \A x \in T : s \in Q => Append(s, x) \in Q
  PROVE  \A s \in Seq(T) : s \in Q
<1> DEFINE N == {n \in Nat : \A s \in Seq(T) : Len(s) = n => s \in Q}
<1>1. 0 \in N
  <2>1. \A s \in Seq(T) : Len(s) = 0 => s = <<>>
    BY EmptySeq
  <2>. QED  BY <2>1
<1>2. ASSUME NEW n \in Nat, n \in N
      PROVE  n + 1 \in N
  <2> SUFFICES ASSUME NEW s \in Seq(T), Len(s) = n + 1 PROVE s \in Q
    OBVIOUS
  <2>1. s # <<>>
    BY EmptySeq
  <2>2. PICK t \in Seq(T), x \in T : s = Append(t, x)
    BY <2>1, SequenceEmptyOrAppend
  <2>3. Len(t) = n
    <3>1. Len(Append(t, x)) = Len(t) + 1 /\ Len(t) \in Nat
      BY AppendProperties, LenProperties
    <3>. QED  BY <2>2, <3>1
  <2>4. t \in Q
    BY <1>2, <2>3
  <2>. QED  BY <2>2, <2>4
<1>3. \A n \in Nat : n \in N
  <2> HIDE DEF N
  <2>. QED  BY <1>1, <1>2, SetInduction
<1>. QED  BY <1>3, LenProperties

(* Length, items and elements of two sequences in a row.                   *)
LEMMA GlueHas ==
  ASSUME NEW T, NEW s \in Seq(T), NEW t \in Seq(T)
  PROVE  /\ Glue(s, t) \in Seq(T) /\ Len(Glue(s, t)) = Len(s) + Len(t)
         /\ Len(s) \in Nat /\ Len(t) \in Nat
         /\ \A i \in 1 .. Len(s) : Glue(s, t)[i] = s[i]
         /\ \A i \in 1 .. Len(t) : Glue(s, t)[Len(s) + i] = t[i]
         /\ ToSet(Glue(s, t)) = ToSet(s) \union ToSet(t)
<1>1. /\ s \o t \in Seq(T)
      /\ Len(s \o t) = Len(s) + Len(t)
      /\ \A i \in 1 .. Len(s) + Len(t) :
           (s \o t)[i] = IF i <= Len(s) THEN s[i] ELSE t[i - Len(s)]
  BY ConcatProperties
<1>2. Len(s) \in Nat /\ Len(t) \in Nat
  OBVIOUS
<1> DEFINE u == s \o t
           m == Len(s)
           n == Len(t)
<1> HIDE DEF u, m, n
<1>3. \A i \in 1 .. m : u[i] = s[i]
  BY <1>1, <1>2 DEF u, m, n
<1>4. \A i \in 1 .. n : u[m + i] = t[i]
  <2>1. \A i \in 1 .. m + n : u[i] = IF i <= m THEN s[i] ELSE t[i - m]
    BY <1>1 DEF u, m, n
  <2>2. m \in Nat /\ n \in Nat
    BY <1>2 DEF m, n
  <2>3. \A i \in 1 .. n : m + i \in 1 .. m + n /\ ~ (m + i <= m) /\ (m + i) - m = i
    BY <2>2
  <2>. QED  BY <2>1, <2>3
<1>5. ToSet(Glue(s, t)) = ToSet(s) \union ToSet(t)
  BY GlueIs
<1>. QED  BY <1>1, <1>2, <1>3, <1>4, <1>5 DEF Glue, u, m, n

(* The empty sequence adds nothing.                                        *)
LEMMA GlueEmpty ==
  ASSUME NEW T, NEW s \in Seq(T)
  PROVE  Glue(s, <<>>) = s /\ Glue(<<>>, s) = s
BY ConcatEmptySeq DEF Glue

(* Three sequences in a row, in whichever order they are put together.     *)
LEMMA GlueGlue ==
  ASSUME NEW T, NEW s \in Seq(T), NEW t \in Seq(T), NEW u \in Seq(T)
  PROVE  Glue(Glue(s, t), u) = Glue(s, Glue(t, u))
BY ConcatAssociative DEF Glue

(* Append puts a sequence of one behind another.                           *)
LEMMA AppendIs ==
  ASSUME NEW T, NEW s \in Seq(T), NEW x \in T
  PROVE  Append(s, x) = Glue(s, <<x>>)
BY AppendIsConcat DEF Glue

(* Flattening, a sequence at a time.                                       *)
LEMMA FlattenAppend ==
  ASSUME NEW T, NEW p \in Seq(Seq(T)), NEW x \in Seq(T)
  PROVE  FlattenSeq(Append(p, x)) = Glue(FlattenSeq(p), x)
<1> DEFINE q == Append(p, x)
           n == Len(p)
<1>1. /\ q \in Seq(Seq(T)) /\ q # <<>> /\ Len(q) = n + 1 /\ n \in Nat
      /\ \A i \in 1 .. n : q[i] = p[i]
      /\ q[n + 1] = x
  BY AppendProperties, LenProperties
<1> HIDE DEF q, n
<1>2. PICK g : /\ FlattenSeq(q) = g[n + 1]
               /\ \A i \in 1 .. n + 1 : g[i] = IF i = 1 THEN q[i] ELSE Glue(g[i - 1], q[i])
  <2>1. \E g : /\ FlattenSeq(q) = g[Len(q)]
               /\ Len(q) \in Nat \ {0}
               /\ \A i \in 1 .. Len(q) : g[i] = IF i = 1 THEN q[i] ELSE Glue(g[i - 1], q[i])
    BY <1>1, FlattenSteps
  <2>. QED  BY <1>1, <2>1
<1>3. CASE p = <<>>
  <2>1. n = 0
    BY <1>3 DEF n
  <2>2. FlattenSeq(q) = x
    BY <1>1, <1>2, <2>1
  <2>3. FlattenSeq(p) = <<>>
    BY <1>3, EmptySeq DEF FlattenSeq
  <2>. QED  BY <2>2, <2>3, GlueEmpty DEF q
<1>4. CASE p # <<>>
  <2>1. PICK f : /\ FlattenSeq(p) = f[n] /\ n # 0
                 /\ \A i \in 1 .. n : f[i] = IF i = 1 THEN p[i] ELSE Glue(f[i - 1], p[i])
    <3>1. \E f : /\ FlattenSeq(p) = f[Len(p)]
                 /\ Len(p) \in Nat \ {0}
                 /\ \A i \in 1 .. Len(p) : f[i] = IF i = 1 THEN p[i] ELSE Glue(f[i - 1], p[i])
      BY <1>4, FlattenSteps
    <3>. QED  BY <3>1 DEF n
  <2> DEFINE G == {k \in Nat : k + 1 <= n => f[k + 1] = g[k + 1]}
  <2>2. 0 \in G
    <3>1. 1 \in 1 .. n /\ 1 \in 1 .. n + 1
      BY <1>1, <2>1
    <3>. QED  BY <1>1, <1>2, <2>1, <3>1
  <2>3. ASSUME NEW k \in Nat, k \in G
        PROVE  k + 1 \in G
    <3> SUFFICES ASSUME (k + 1) + 1 <= n PROVE f[(k + 1) + 1] = g[(k + 1) + 1]
      OBVIOUS
    <3>1. /\ (k + 1) + 1 \in 1 .. n /\ (k + 1) + 1 \in 1 .. n + 1
          /\ (k + 1) + 1 # 1 /\ ((k + 1) + 1) - 1 = k + 1 /\ k + 1 <= n
      BY <1>1
    <3>2. f[k + 1] = g[k + 1]
      BY <2>3, <3>1
    <3> HIDE DEF G
    <3>3. f[(k + 1) + 1] = Glue(f[k + 1], p[(k + 1) + 1])
      BY <2>1, <3>1
    <3>4. g[(k + 1) + 1] = Glue(g[k + 1], q[(k + 1) + 1])
      BY <1>2, <3>1
    <3>. QED  BY <1>1, <3>1, <3>2, <3>3, <3>4
  <2>4. \A k \in Nat : k \in G
    <3> HIDE DEF G
    <3>. QED  BY <2>2, <2>3, SetInduction
  <2>5. f[n] = g[n]
    <3>1. n - 1 \in Nat /\ (n - 1) + 1 = n /\ n - 1 \in G
      <4> HIDE DEF G
      <4>. QED  BY <1>1, <2>1, <2>4
    <3>. QED  BY <1>1, <3>1
  <2>6. g[n + 1] = Glue(g[n], x)
    <3>1. n + 1 \in 1 .. n + 1 /\ n + 1 # 1 /\ (n + 1) - 1 = n
      BY <1>1, <2>1
    <3>. QED  BY <1>1, <1>2, <3>1
  <2>. QED  BY <1>2, <2>1, <2>5, <2>6 DEF q
<1>. QED  BY <1>3, <1>4

(* What is kept of one item.                                               *)
OneKept(x, S) == IF x \in S THEN <<x>> ELSE <<>>

(* Keeping what is in a set, an element at a time.                         *)
LEMMA KeptAppend ==
  ASSUME NEW T, NEW s \in Seq(T), NEW x \in T, NEW S
  PROVE  /\ Kept(Append(s, x), S) = Glue(Kept(s, S), OneKept(x, S))
         /\ Kept(s, S) \in Seq(T) /\ OneKept(x, S) \in Seq(T)
<1> DEFINE t == Append(s, x)
           p == [i \in DOMAIN s |-> OneKept(s[i], S)]
           q == [i \in DOMAIN t |-> OneKept(t[i], S)]
           n == Len(s)
<1>1. /\ Kept(s, S) = FlattenSeq(p) /\ Kept(t, S) = FlattenSeq(q)
  BY DEF Kept, OneKept
<1>2. /\ t \in Seq(T) /\ Len(t) = n + 1 /\ DOMAIN t = 1 .. n + 1 /\ n \in Nat
      /\ DOMAIN s = 1 .. n
      /\ \A i \in 1 .. n : t[i] = s[i] /\ s[i] \in T
      /\ t[n + 1] = x
  BY AppendProperties, LenProperties
<1> HIDE DEF t, n
<1>3. \A y \in T : OneKept(y, S) \in Seq(T)
  BY DEF OneKept
<1>4. p \in Seq(Seq(T)) /\ Len(p) = n
  <2>1. p \in [1 .. n -> Seq(T)]
    BY <1>2, <1>3
  <2>2. DOMAIN p = 1 .. n
    BY <1>2
  <2> HIDE DEF p
  <2>. QED  BY <1>2, <2>1, <2>2, SeqDef, LenProperties
<1>5. q \in Seq(Seq(T)) /\ Len(q) = n + 1
  <2>1. \A i \in 1 .. n + 1 : t[i] \in T
    BY <1>2
  <2>2. q \in [1 .. n + 1 -> Seq(T)]
    BY <1>2, <1>3, <2>1
  <2>3. DOMAIN q = 1 .. n + 1
    BY <1>2
  <2> HIDE DEF q
  <2>. QED  BY <1>2, <2>2, <2>3, SeqDef, LenProperties
<1> DEFINE e == OneKept(x, S)
           r == Append(p, e)
<1>6. e \in Seq(T)
  BY <1>3
<1> HIDE DEF e
<1>7. /\ r \in Seq(Seq(T)) /\ Len(r) = n + 1
      /\ \A i \in 1 .. n : r[i] = p[i]
      /\ r[n + 1] = e
  BY <1>4, <1>6, AppendProperties
<1>8. \A i \in 1 .. n + 1 : q[i] = r[i]
  <2>1. \A i \in 1 .. n : q[i] = p[i]
    BY <1>2
  <2>2. q[n + 1] = e
    BY <1>2 DEF e
  <2> HIDE DEF p, q, r
  <2>. QED  BY <1>2, <1>7, <2>1, <2>2
<1> HIDE DEF q, r
<1>9. q = r
  BY <1>2, <1>5, <1>7, <1>8, SeqEqual
<1> HIDE DEF p
<1>10. FlattenSeq(r) = Glue(FlattenSeq(p), e)
  BY <1>4, <1>6, FlattenAppend DEF r
<1>. QED  BY <1>1, <1>6, <1>9, <1>10, KeptIs DEF t, e

(* Nothing is kept of nothing.                                             *)
LEMMA KeptEmpty == \A S : Kept(<<>>, S) = <<>>
<1> SUFFICES ASSUME NEW S PROVE Kept(<<>>, S) = <<>>
  OBVIOUS
<1> DEFINE p == [i \in DOMAIN <<>> |-> OneKept(<<>>[i], S)]
<1>1. Kept(<<>>, S) = FlattenSeq(p)
  BY DEF Kept, OneKept
<1>2. p = <<>>
  OBVIOUS
<1>. QED  BY <1>1, <1>2, EmptySeq DEF FlattenSeq

(* Only what occurs counts.                                                *)
LEMMA KeptOccurring ==
  ASSUME NEW s, NEW S, NEW U, ToSet(s) \intersect S = ToSet(s) \intersect U
  PROVE  Kept(s, S) = Kept(s, U)
<1>1. \A i \in DOMAIN s : s[i] \in S <=> s[i] \in U
  BY DEF ToSet
<1> DEFINE p == [i \in DOMAIN s |-> IF s[i] \in S THEN <<s[i]>> ELSE <<>>]
           q == [i \in DOMAIN s |-> IF s[i] \in U THEN <<s[i]>> ELSE <<>>]
<1>2. p = q
  BY <1>1
<1>. QED  BY <1>2 DEF Kept

(* What is kept of two sequences in a row is what is kept of each.         *)
LEMMA KeptGlue ==
  ASSUME NEW T, NEW s \in Seq(T), NEW t \in Seq(T), NEW S
  PROVE  Kept(Glue(s, t), S) = Glue(Kept(s, S), Kept(t, S))
<1> DEFINE Q == {u \in Seq(T) : Kept(Glue(s, u), S) = Glue(Kept(s, S), Kept(u, S))}
<1>0. Kept(s, S) \in Seq(T)
  BY KeptIs
<1>1. <<>> \in Q
  <2>1. <<>> \in Seq(T)
    OBVIOUS
  <2>2. Glue(s, <<>>) = s
    BY GlueEmpty
  <2>3. Glue(Kept(s, S), <<>>) = Kept(s, S)
    BY <1>0, GlueEmpty
  <2>. QED  BY <2>1, <2>2, <2>3, KeptEmpty
<1>2. ASSUME NEW u \in Seq(T), NEW x \in T, u \in Q
      PROVE  Append(u, x) \in Q
  <2> DEFINE e == OneKept(x, S)
             k == Kept(s, S)
             l == Kept(u, S)
  <2>1. /\ Kept(Append(u, x), S) = Glue(l, e)
        /\ l \in Seq(T) /\ e \in Seq(T)
    BY KeptAppend
  <2>2. Append(u, x) \in Seq(T)
    BY AppendProperties
  <2>3. Glue(s, Append(u, x)) = Append(Glue(s, u), x)
    <3> DEFINE y == <<x>>
    <3>1. y \in Seq(T)
      OBVIOUS
    <3>2. Append(u, x) = Glue(u, y)
      BY AppendIs
    <3>3. Append(Glue(s, u), x) = Glue(Glue(s, u), y)
      <4>1. Glue(s, u) \in Seq(T)
        BY GlueHas
      <4>. QED  BY <4>1, AppendIs
    <3> HIDE DEF y
    <3>4. Glue(Glue(s, u), y) = Glue(s, Glue(u, y))
      BY <3>1, GlueGlue
    <3>. QED  BY <3>2, <3>3, <3>4
  <2>4. Kept(Append(Glue(s, u), x), S) = Glue(Kept(Glue(s, u), S), e)
    <3>1. Glue(s, u) \in Seq(T)
      BY GlueHas
    <3>. QED  BY <3>1, KeptAppend
  <2>5. Kept(Glue(s, u), S) = Glue(k, l)
    BY <1>2
  <2> HIDE DEF e, k, l
  <2>6. Glue(Glue(k, l), e) = Glue(k, Glue(l, e))
    BY <1>0, <2>1, GlueGlue DEF k
  <2>. QED  BY <2>1, <2>2, <2>3, <2>4, <2>5, <2>6 DEF k
<1>3. \A u \in Seq(T) : u \in Q
  <2> HIDE DEF Q
  <2>. QED  BY <1>1, <1>2, SeqInduction
<1>. QED  BY <1>3

(* What is kept keeps its order.                                           *)
LEMMA KeptBefore ==
  ASSUME NEW T, NEW s \in Seq(T), NEW S
  PROVE  \A i, j \in DOMAIN Kept(s, S) : i < j => Before(s, Kept(s, S)[i], Kept(s, S)[j])
<1> DEFINE InOrder(u) == \A i, j \in DOMAIN Kept(u, S) :
                           i < j => Before(u, Kept(u, S)[i], Kept(u, S)[j])
           Q == {u \in Seq(T) : InOrder(u)}
<1>1. <<>> \in Q
  <2>1. <<>> \in Seq(T) /\ DOMAIN <<>> = {}
    OBVIOUS
  <2>. QED  BY <2>1, KeptEmpty
<1>2. ASSUME NEW u \in Seq(T), NEW x \in T, u \in Q
      PROVE  Append(u, x) \in Q
  <2> DEFINE e == OneKept(x, S)
             k == Kept(u, S)
             v == Append(u, x)
             l == Kept(v, S)
  <2>1. /\ l = Glue(k, e) /\ k \in Seq(T) /\ e \in Seq(T)
    BY KeptAppend
  <2>2. /\ v \in Seq(T) /\ Len(u) \in Nat /\ DOMAIN u = 1 .. Len(u)
        /\ DOMAIN v = 1 .. Len(u) + 1
        /\ \A i \in 1 .. Len(u) : v[i] = u[i]
        /\ v[Len(u) + 1] = x
    BY AppendProperties, LenProperties
  <2>3. InOrder(u) /\ ToSet(k) \subseteq ToSet(u)
    BY <1>2, KeptIs
  <2>0. InOrder(v) <=> \A i, j \in DOMAIN l : i < j => Before(v, l[i], l[j])
    OBVIOUS
  <2>00. InOrder(u) <=> \A i, j \in DOMAIN k : i < j => Before(u, k[i], k[j])
    OBVIOUS
  <2> HIDE DEF e, k, v, l, InOrder
  <2>4. \A y, z : Before(u, y, z) => Before(v, y, z)
    <3> SUFFICES ASSUME NEW y, NEW z, Before(u, y, z) PROVE Before(v, y, z)
      OBVIOUS
    <3>1. PICK a, b \in DOMAIN u : a < b /\ u[a] = y /\ u[b] = z
      BY DEF Before
    <3>2. a \in DOMAIN v /\ b \in DOMAIN v /\ v[a] = y /\ v[b] = z
      BY <2>2, <3>1
    <3>. QED  BY <3>1, <3>2 DEF Before
  <2>5. \A y \in ToSet(u) : Before(v, y, x)
    <3> SUFFICES ASSUME NEW y \in ToSet(u) PROVE Before(v, y, x)
      OBVIOUS
    <3>1. PICK a \in DOMAIN u : u[a] = y
      BY DEF ToSet
    <3>2. /\ a \in DOMAIN v /\ v[a] = y /\ Len(u) + 1 \in DOMAIN v /\ a < Len(u) + 1
      BY <2>2, <3>1
    <3>. QED  BY <2>2, <3>2 DEF Before
  <2>6. /\ l \in Seq(T) /\ Len(l) = Len(k) + Len(e) /\ Len(k) \in Nat /\ Len(e) \in Nat
        /\ \A i \in 1 .. Len(k) : l[i] = k[i]
        /\ \A i \in 1 .. Len(e) : l[Len(k) + i] = e[i]
    <3> DEFINE g == Glue(k, e)
    <3>0. k \in Seq(T) /\ e \in Seq(T)
      BY <2>1
    <3>1. g \in Seq(T) /\ Len(g) = Len(k) + Len(e) /\ Len(k) \in Nat /\ Len(e) \in Nat
      BY <3>0, GlueHas
    <3>2. \A i \in 1 .. Len(k) : g[i] = k[i]
      BY <3>0, GlueHas
    <3>3. \A i \in 1 .. Len(e) : g[Len(k) + i] = e[i]
      BY <3>0, GlueHas
    <3>4. l = g
      BY <2>1
    <3> HIDE DEF g
    <3>. QED  BY <3>1, <3>2, <3>3, <3>4
  <2>7. /\ DOMAIN l = 1 .. Len(k) + Len(e) /\ DOMAIN k = 1 .. Len(k)
    BY <2>1, <2>6, LenProperties
  <2>8. Len(e) \in {0, 1} /\ (Len(e) = 1 => e[1] = x)
    <3>1. e = <<x>> \/ e = <<>>
      BY DEF e, OneKept
    <3>2. Len(<<x>>) = 1 /\ Len(<<>>) = 0 /\ <<x>>[1] = x
      OBVIOUS
    <3>. QED  BY <3>1, <3>2
  <2>9. ASSUME NEW i \in DOMAIN l, NEW j \in DOMAIN l, i < j
        PROVE  Before(v, l[i], l[j])
    <3>1. i \in 1 .. Len(k)
      BY <2>6, <2>7, <2>8, <2>9
    <3>2. l[i] = k[i] /\ k[i] \in ToSet(u)
      BY <2>3, <2>6, <2>7, <3>1 DEF ToSet
    <3>3. CASE j \in 1 .. Len(k)
      <4>1. l[j] = k[j] /\ Before(u, k[i], k[j])
        BY <2>00, <2>3, <2>6, <2>7, <2>9, <3>1, <3>3
      <4>. QED  BY <2>4, <3>2, <4>1
    <3>4. CASE j \notin 1 .. Len(k)
      <4>1. Len(e) = 1 /\ j = Len(k) + 1
        BY <2>6, <2>7, <2>8, <3>4
      <4>2. l[j] = x
        BY <2>6, <2>8, <4>1
      <4>. QED  BY <2>5, <3>2, <4>2
    <3>. QED  BY <3>3, <3>4
  <2>10. InOrder(v)
    BY <2>0, <2>9
  <2>. QED  BY <2>2, <2>10 DEF v
<1>3. \A u \in Seq(T) : u \in Q
  <2> HIDE DEF Q
  <2>. QED  BY <1>1, <1>2, SeqInduction
<1>. QED  BY <1>3

(* Two sequences whose elements come in the order of a third, without      *)
(* repetitions, are equal if they have the same elements.                  *)
IsOrdered(order, s) == \A i, j \in DOMAIN s : i < j => Before(order, s[i], s[j])

(* The order in which an injective sequence lists its elements is total    *)
(* and strict.                                                             *)
LEMMA BeforeIs ==
  ASSUME NEW T, NEW order \in Seq(T), IsInjective(order)
  PROVE  /\ \A x, y : Before(order, x, y) => ~ Before(order, y, x) /\ x # y
         /\ \A x, y \in ToSet(order) : x # y => Before(order, x, y) \/ Before(order, y, x)
         /\ \A x, y, z : Before(order, x, y) /\ Before(order, y, z) => Before(order, x, z)
<1>1. DOMAIN order \subseteq Nat
  OBVIOUS
<1>2. \A i, j \in DOMAIN order : order[i] = order[j] => i = j
  BY DEF IsInjective
<1>3. ASSUME NEW x, NEW y, Before(order, x, y)
      PROVE  ~ Before(order, y, x) /\ x # y
  <2>1. PICK i, j \in DOMAIN order : i < j /\ order[i] = x /\ order[j] = y
    BY <1>3 DEF Before
  <2>2. x # y
    BY <1>1, <1>2, <2>1
  <2>3. ASSUME Before(order, y, x) PROVE FALSE
    <3>1. PICK a, b \in DOMAIN order : a < b /\ order[a] = y /\ order[b] = x
      BY <2>3 DEF Before
    <3>2. a = j /\ b = i
      BY <1>2, <2>1, <3>1
    <3>. QED  BY <1>1, <2>1, <3>1, <3>2
  <2>. QED  BY <2>2, <2>3
<1>4. ASSUME NEW x \in ToSet(order), NEW y \in ToSet(order), x # y
      PROVE  Before(order, x, y) \/ Before(order, y, x)
  <2>1. PICK i, j \in DOMAIN order : order[i] = x /\ order[j] = y
    BY DEF ToSet
  <2>2. i < j \/ j < i
    BY <1>1, <1>4, <2>1
  <2>. QED  BY <2>1, <2>2 DEF Before
<1>5. ASSUME NEW x, NEW y, NEW z, Before(order, x, y), Before(order, y, z)
      PROVE  Before(order, x, z)
  <2>1. PICK i, j \in DOMAIN order : i < j /\ order[i] = x /\ order[j] = y
    BY <1>5 DEF Before
  <2>2. PICK a, b \in DOMAIN order : a < b /\ order[a] = y /\ order[b] = z
    BY <1>5 DEF Before
  <2>3. a = j
    BY <1>2, <2>1, <2>2
  <2>4. i < b
    BY <1>1, <2>1, <2>2, <2>3
  <2>. QED  BY <2>1, <2>2, <2>4 DEF Before
<1>. QED  BY <1>3, <1>4, <1>5

(* An element of one ordered sequence is, as long as the two agree before, *)
(* the next of the other, or comes after it.                               *)
LEMMA NextOfOther ==
  ASSUME NEW T, NEW order \in Seq(T), IsInjective(order),
         NEW U, NEW s \in Seq(U), NEW t \in Seq(U),
         IsOrdered(order, s), IsOrdered(order, t), ToSet(s) = ToSet(t),
         NEW k \in Nat \ {0}, k \in DOMAIN s,
         \A i \in 1 .. k - 1 : i \in DOMAIN t /\ s[i] = t[i]
  PROVE  k \in DOMAIN t /\ (s[k] = t[k] \/ Before(order, t[k], s[k]))
<1>1. DOMAIN s = 1 .. Len(s) /\ DOMAIN t = 1 .. Len(t) /\ Len(s) \in Nat /\ Len(t) \in Nat
  OBVIOUS
<1>2. PICK j \in DOMAIN t : t[j] = s[k]
  BY DEF ToSet
<1>3. ~ (j < k)
  <2>1. SUFFICES ASSUME j < k PROVE FALSE
    OBVIOUS
  <2>2. s[j] = t[j] /\ j \in DOMAIN s
    BY <1>1, <2>1
  <2>3. Before(order, s[j], s[k])
    BY <2>1, <2>2 DEF IsOrdered
  <2>. QED  BY <1>2, <2>2, <2>3, BeforeIs
<1>4. k \in DOMAIN t
  BY <1>1, <1>2, <1>3
<1>5. CASE j = k
  BY <1>2, <1>4, <1>5
<1>6. CASE j # k
  <2>1. k < j
    BY <1>1, <1>3, <1>6
  <2>. QED  BY <1>2, <1>4, <2>1 DEF IsOrdered
<1>. QED  BY <1>5, <1>6

(* Two sequences in the same order, with the same elements, are equal.     *)
LEMMA SameOrder ==
  ASSUME NEW T, NEW order \in Seq(T), IsInjective(order),
         NEW U, NEW s \in Seq(U), NEW t \in Seq(U),
         IsOrdered(order, s), IsOrdered(order, t), ToSet(s) = ToSet(t)
  PROVE  s = t
<1>1. DOMAIN s = 1 .. Len(s) /\ DOMAIN t = 1 .. Len(t) /\ Len(s) \in Nat /\ Len(t) \in Nat
  OBVIOUS
<1> DEFINE Agree(k) == \A i \in 1 .. k : /\ i \in DOMAIN s <=> i \in DOMAIN t
                                         /\ i \in DOMAIN s => s[i] = t[i]
           A == {k \in Nat : Agree(k)}
<1>2. 0 \in A
  OBVIOUS
<1>3. ASSUME NEW k \in Nat, k \in A
      PROVE  k + 1 \in A
  <2> DEFINE m == k + 1
  <2>1. m \in Nat \ {0} /\ m - 1 = k
    OBVIOUS
  <2>2. \A i \in 1 .. k : /\ i \in DOMAIN s <=> i \in DOMAIN t
                          /\ i \in DOMAIN s => s[i] = t[i]
    BY <1>3
  <2> HIDE DEF m
  <2>3. m \in DOMAIN s => m \in DOMAIN t /\ (s[m] = t[m] \/ Before(order, t[m], s[m]))
    <3> SUFFICES ASSUME m \in DOMAIN s
                 PROVE  m \in DOMAIN t /\ (s[m] = t[m] \/ Before(order, t[m], s[m]))
      OBVIOUS
    <3>1. \A i \in 1 .. m - 1 : i \in DOMAIN t /\ s[i] = t[i]
      BY <1>1, <2>1, <2>2
    <3>. QED  BY <2>1, <3>1, NextOfOther
  <2>4. m \in DOMAIN t => m \in DOMAIN s /\ (t[m] = s[m] \/ Before(order, s[m], t[m]))
    <3> SUFFICES ASSUME m \in DOMAIN t
                 PROVE  m \in DOMAIN s /\ (t[m] = s[m] \/ Before(order, s[m], t[m]))
      OBVIOUS
    <3>1. \A i \in 1 .. m - 1 : i \in DOMAIN s /\ t[i] = s[i]
      BY <1>1, <2>1, <2>2
    <3>. QED  BY <2>1, <3>1, NextOfOther
  <2>5. m \in DOMAIN s => s[m] = t[m]
    BY <2>3, <2>4, BeforeIs
  <2>6. \A i \in 1 .. k + 1 : i \in 1 .. k \/ i = m
    BY DEF m
  <2>. QED  BY <2>2, <2>3, <2>4, <2>5, <2>6
<1>4. \A k \in Nat : k \in A
  <2> HIDE DEF A
  <2>. QED  BY <1>2, <1>3, SetInduction
<1>5. \A k \in Nat \ {0} : /\ k \in DOMAIN s <=> k \in DOMAIN t
                           /\ k \in DOMAIN s => s[k] = t[k]
  <2> SUFFICES ASSUME NEW k \in Nat \ {0}
               PROVE  /\ k \in DOMAIN s <=> k \in DOMAIN t
                      /\ k \in DOMAIN s => s[k] = t[k]
    OBVIOUS
  <2>1. Agree(k) /\ k \in 1 .. k
    BY <1>4
  <2>. QED  BY <2>1
<1>6. Len(s) = Len(t)
  <2>1. Len(s) <= Len(t)
    <3>1. Len(s) = 0 \/ Len(s) \in Nat \ {0}
      BY <1>1
    <3>. QED  BY <1>1, <1>5, <3>1
  <2>2. Len(t) <= Len(s)
    <3>1. Len(t) = 0 \/ Len(t) \in Nat \ {0}
      BY <1>1
    <3>. QED  BY <1>1, <1>5, <3>1
  <2> DEFINE m == Len(s)
             n == Len(t)
  <2>3. m \in Nat /\ n \in Nat /\ m <= n /\ n <= m
    BY <1>1, <2>1, <2>2
  <2> HIDE DEF m, n
  <2>4. m = n
    BY <2>3
  <2>. QED  BY <2>4 DEF m, n
<1>7. \A i \in 1 .. Len(s) : s[i] = t[i]
  BY <1>1, <1>5
<1>. QED  BY <1>6, <1>7, SeqEqual

-----------------------------------------------------------------------------
(* The first piece of a kind.                                              *)
LEMMA FirstAtIs ==
  ASSUME NEW T, NEW s \in Seq(T), NEW S
  PROVE  \/ FirstAt(s, S) = 0 /\ ToSet(s) \intersect S = {}
         \/ /\ FirstAt(s, S) \in 1 .. Len(s)
            /\ s[FirstAt(s, S)] \in S
            /\ \A j \in 1 .. FirstAt(s, S) - 1 : s[j] \notin S
<1> DEFINE I == {i \in 1 .. Len(s) : s[i] \in S}
<1>0. Len(s) \in Nat /\ DOMAIN s = 1 .. Len(s)
  OBVIOUS
<1>1. FirstAt(s, S) = IF I = {} THEN 0 ELSE Min(I)
  BY DEF FirstAt, SelectInSeq
<1>2. CASE I = {}
  BY <1>0, <1>1, <1>2 DEF ToSet
<1>3. CASE I # {}
  <2>1. I \in SUBSET Nat
    BY <1>0
  <2>2. PICK m \in I : \A y \in I : ~ (<<y, m>> \in OpToRel(<, Nat))
    BY <1>3, <2>1, NatLessThanWellFounded, WFMin
  <2>3. \A y \in I : m <= y
    <3>1. \A y \in I : ~ (y < m)
      BY <2>1, <2>2 DEF OpToRel
    <3>. QED  BY <2>1, <3>1
  <2>4. Min(I) \in I /\ \A y \in I : Min(I) <= y
    BY <2>2, <2>3 DEF Min
  <2> DEFINE f == Min(I)
  <2>5. FirstAt(s, S) = f /\ f \in I
    BY <1>1, <1>3, <2>4
  <2>6. \A j \in 1 .. f - 1 : s[j] \notin S
    <3> SUFFICES ASSUME NEW j \in 1 .. f - 1, s[j] \in S PROVE FALSE
      OBVIOUS
    <3>1. f \in 1 .. Len(s)
      BY <2>5
    <3> HIDE DEF f
    <3>2. j \in 1 .. Len(s) /\ j < f
      BY <1>0, <3>1
    <3>3. j \in I
      BY <3>2
    <3>4. f <= j
      BY <2>4, <3>3 DEF f
    <3>. QED  BY <1>0, <3>1, <3>2, <3>4
  <2> HIDE DEF f
  <2>. QED  BY <2>5, <2>6
<1>. QED  BY <1>2, <1>3

(* The files of samples, and the pieces that show one.                     *)
SampleFiles == ToSet(FileOrder)
SamplePieces == {Sample(s) : s \in SampleFiles}

(* The samples that files, or pieces of HTML, stand for, in their order.   *)
Stems(s) == MapSeq(LAMBDA x : x[1], s)
Seconds(s) == MapSeq(LAMBDA p : p[2], s)
Shown(html) == Seconds(Kept(html, SamplePieces))

(* The pieces there are.                                                   *)
LEMMA PiecesAre ==
  /\ \A s \in SampleFiles : /\ Sample(s) \in SamplePieces /\ s[1] \in STRING
                            /\ Sample(s)[2] = s[1]
  /\ \A p \in SamplePieces : p[1] = "sample" /\ p[2] \in STRING
  /\ \A p \in {Text, Footnotes} \union Markers : p[1] # "sample"
  /\ SamplePieces \intersect ({Text, Footnotes} \union Markers) = {}
  /\ Pieces = {Text, Footnotes} \union Markers \union SamplePieces
  /\ Text \notin Markers /\ Footnotes \notin Markers /\ Markers = {Next1, Remaining}
  /\ Next1 # Remaining
<1>1. \A s \in SampleFiles : s[1] \in STRING
  <2>1. FileOrder \in Seq(STRING \X STRING)
    BY OrderAssumption
  <2>. QED  BY <2>1 DEF SampleFiles, ToSet
<1>2. \A s : Sample(s)[1] = "sample" /\ Sample(s)[2] = s[1]
  BY DEF Sample
<1>3. /\ Text[1] = "text" /\ Footnotes[1] = "footnotes"
      /\ Next1[1] = "nextsample" /\ Remaining[1] = "remainingsamples"
  BY DEF Text, Footnotes, Next1, Remaining
<1>4. /\ "text" # "sample" /\ "footnotes" # "sample" /\ "nextsample" # "sample"
      /\ "remainingsamples" # "sample" /\ "text" # "nextsample" /\ "text" # "remainingsamples"
      /\ "footnotes" # "nextsample" /\ "footnotes" # "remainingsamples"
      /\ "nextsample" # "remainingsamples"
  OBVIOUS
<1>5. \A p \in SamplePieces : p[1] = "sample" /\ p[2] \in STRING
  BY <1>1, <1>2 DEF SamplePieces
<1>6. \A p \in {Text, Footnotes} \union Markers : p[1] # "sample"
  BY <1>3, <1>4 DEF Markers
<1>7. Text \notin Markers /\ Footnotes \notin Markers /\ Next1 # Remaining
  BY <1>3, <1>4 DEF Markers
<1>8. SamplePieces \intersect ({Text, Footnotes} \union Markers) = {}
  BY <1>5, <1>6
<1>9. \A s \in SampleFiles : Sample(s) \in SamplePieces
  BY DEF SamplePieces
<1>. QED  BY <1>1, <1>2, <1>5, <1>6, <1>7, <1>8, <1>9 DEF Pieces, SamplePieces, SampleFiles, Markers

(* There is a stem for each file.                                          *)
LEMMA StemsAre ==
  ASSUME NEW s \in Seq(SampleFiles)
  PROVE  /\ Stems(s) \in Seq(STRING) /\ Len(Stems(s)) = Len(s)
         /\ \A i \in 1 .. Len(s) : Stems(s)[i] = s[i][1]
<1>1. Len(s) \in Nat /\ DOMAIN s = 1 .. Len(s) /\ \A i \in 1 .. Len(s) : s[i] \in SampleFiles
  OBVIOUS
<1>2. Stems(s) = [i \in 1 .. Len(s) |-> s[i][1]]
  BY <1>1 DEF Stems, MapSeq
<1>3. Stems(s) \in [1 .. Len(s) -> STRING]
  BY <1>1, <1>2, PiecesAre
<1>4. Stems(s) \in Seq(STRING) /\ DOMAIN Stems(s) = 1 .. Len(s)
  BY <1>1, <1>3, SeqDef
<1>. QED  BY <1>1, <1>2, <1>4, LenProperties

(* There is a sample for each piece that shows one.                        *)
LEMMA SecondsAre ==
  ASSUME NEW s \in Seq(SamplePieces)
  PROVE  /\ Seconds(s) \in Seq(STRING) /\ Len(Seconds(s)) = Len(s)
         /\ \A i \in 1 .. Len(s) : Seconds(s)[i] = s[i][2]
<1>1. Len(s) \in Nat /\ DOMAIN s = 1 .. Len(s) /\ \A i \in 1 .. Len(s) : s[i] \in SamplePieces
  OBVIOUS
<1>2. Seconds(s) = [i \in 1 .. Len(s) |-> s[i][2]]
  BY <1>1 DEF Seconds, MapSeq
<1>3. Seconds(s) \in [1 .. Len(s) -> STRING]
  BY <1>1, <1>2, PiecesAre
<1>4. Seconds(s) \in Seq(STRING) /\ DOMAIN Seconds(s) = 1 .. Len(s)
  BY <1>1, <1>3, SeqDef
<1>. QED  BY <1>1, <1>2, <1>4, LenProperties

(* The samples of two sequences of pieces in a row.                        *)
LEMMA SecondsGlue ==
  ASSUME NEW s \in Seq(SamplePieces), NEW t \in Seq(SamplePieces)
  PROVE  Seconds(Glue(s, t)) = Glue(Seconds(s), Seconds(t))
<1> DEFINE u == Glue(s, t)
           a == Seconds(u)
           b == Glue(Seconds(s), Seconds(t))
           m == Len(s)
           n == Len(t)
<1>1. /\ u \in Seq(SamplePieces) /\ Len(u) = m + n /\ m \in Nat /\ n \in Nat
      /\ \A i \in 1 .. m : u[i] = s[i]
      /\ \A i \in 1 .. n : u[m + i] = t[i]
  <2>1. u \in Seq(SamplePieces) /\ Len(u) = m + n /\ m \in Nat /\ n \in Nat
    BY GlueHas
  <2>2. \A i \in 1 .. m : u[i] = s[i]
    BY GlueHas
  <2>3. \A i \in 1 .. n : u[m + i] = t[i]
    BY GlueHas
  <2>. QED  BY <2>1, <2>2, <2>3
<1>2. /\ Seconds(s) \in Seq(STRING) /\ Len(Seconds(s)) = m
      /\ \A i \in 1 .. m : Seconds(s)[i] = s[i][2]
  BY SecondsAre
<1>3. /\ Seconds(t) \in Seq(STRING) /\ Len(Seconds(t)) = n
      /\ \A i \in 1 .. n : Seconds(t)[i] = t[i][2]
  BY SecondsAre
<1> HIDE DEF u, m, n
<1>4. /\ a \in Seq(STRING) /\ Len(a) = m + n
      /\ \A i \in 1 .. m + n : a[i] = u[i][2]
  BY <1>1, SecondsAre
<1>5. b \in Seq(STRING) /\ Len(b) = m + n
  BY <1>2, <1>3, GlueHas
<1>6. /\ \A i \in 1 .. m : b[i] = Seconds(s)[i]
      /\ \A i \in 1 .. n : b[m + i] = Seconds(t)[i]
  <2> DEFINE c == Seconds(s)
             d == Seconds(t)
  <2>1. c \in Seq(STRING) /\ d \in Seq(STRING) /\ Len(c) = m /\ Len(d) = n /\ b = Glue(c, d)
    BY <1>2, <1>3
  <2>0. c \in Seq(STRING) /\ d \in Seq(STRING)
    BY <2>1
  <2> HIDE DEF b, c, d
  <2>2. \A i \in 1 .. Len(c) : Glue(c, d)[i] = c[i]
    BY <2>0, GlueHas
  <2>3. \A i \in 1 .. Len(d) : Glue(c, d)[Len(c) + i] = d[i]
    BY <2>0, GlueHas
  <2>4. \A i \in 1 .. m : b[i] = c[i]
    BY <2>1, <2>2
  <2>5. \A i \in 1 .. n : b[m + i] = d[i]
    BY <2>1, <2>3
  <2>. QED  BY <2>4, <2>5 DEF c, d
<1> HIDE DEF a, b
<1>8. ASSUME NEW i \in 1 .. m + n PROVE a[i] = b[i]
  <2>1. CASE i \in 1 .. m
    BY <1>1, <1>2, <1>4, <1>6, <2>1
  <2>2. CASE i \notin 1 .. m
    <3> DEFINE j == i - m
    <3>1. j \in 1 .. n /\ i = m + j
      BY <1>1, <2>2
    <3> HIDE DEF j
    <3>2. b[i] = t[j][2] /\ u[i] = t[j]
      BY <1>1, <1>3, <1>6, <3>1
    <3>. QED  BY <1>4, <3>2
  <2>. QED  BY <2>1, <2>2
<1>9. a = b
  BY <1>4, <1>5, <1>8, SeqEqual
<1>. QED  BY <1>9 DEF a, b, u

(* What is shown in HTML of these pieces.                                  *)
LEMMA ShownIs ==
  ASSUME NEW html \in Seq(Pieces)
  PROVE  /\ ShownIn(html) = Shown(html)
         /\ Kept(html, SamplePieces) \in Seq(SamplePieces)
         /\ Shown(html) \in Seq(STRING)
<1>1. ToSet(html) \subseteq Pieces
  BY DEF ToSet
<1> DEFINE S == {p \in ToSet(html) : p[1] = "sample"}
           k == Kept(html, SamplePieces)
<1>2. ToSet(html) \intersect S = ToSet(html) \intersect SamplePieces
  BY <1>1, PiecesAre
<1>3. Kept(html, S) = k
  <2> HIDE DEF S
  <2>. QED  BY <1>2, KeptOccurring
<1>4. ShownIn(html) = Seconds(Kept(html, S))
  BY DEF ShownIn, Seconds
<1>5. k \in Seq(Pieces) /\ ToSet(k) \subseteq SamplePieces
  BY KeptIs
<1>6. k \in Seq(SamplePieces)
  <2> HIDE DEF k
  <2>1. Len(k) \in Nat /\ k \in [1 .. Len(k) -> ToSet(k)]
    BY <1>5, LenProperties DEF ToSet
  <2>2. k \in Seq(ToSet(k))
    BY <2>1, SeqDef
  <2>. QED  BY <1>5, <2>2, SeqMonotonic
<1>7. Seconds(k) \in Seq(STRING)
  BY <1>6, SecondsAre
<1>. QED  BY <1>3, <1>4, <1>6, <1>7 DEF Shown

(* The samples shown by two pieces of HTML in a row.                       *)
LEMMA ShownGlue ==
  ASSUME NEW s \in Seq(Pieces), NEW t \in Seq(Pieces)
  PROVE  Shown(Glue(s, t)) = Glue(Shown(s), Shown(t))
<1>1. Kept(Glue(s, t), SamplePieces) = Glue(Kept(s, SamplePieces), Kept(t, SamplePieces))
  BY KeptGlue
<1>2. Kept(s, SamplePieces) \in Seq(SamplePieces) /\ Kept(t, SamplePieces) \in Seq(SamplePieces)
  BY ShownIs
<1>. QED  BY <1>1, <1>2, SecondsGlue DEF Shown

(* Nothing is shown without samples.                                       *)
LEMMA ShownNothing ==
  ASSUME NEW s \in Seq(Pieces), ToSet(s) \intersect SamplePieces = {}
  PROVE  Shown(s) = <<>>
<1>1. Kept(s, SamplePieces) \in Seq(Pieces) /\ ToSet(Kept(s, SamplePieces)) = {}
  BY KeptIs
<1> DEFINE k == Kept(s, SamplePieces)
<1> HIDE DEF k
<1>2. k = <<>>
  <2>1. Len(k) \in Nat /\ DOMAIN k = 1 .. Len(k) /\ k \in Seq(Pieces) /\ ToSet(k) = {}
    BY <1>1 DEF k
  <2>2. DOMAIN k = {}
    BY <2>1 DEF ToSet
  <2>3. Len(k) = 0
    BY <2>1, <2>2
  <2>. QED  BY <2>1, <2>3, EmptySeq
<1>3. Seconds(<<>>) = <<>>
  BY DEF Seconds, MapSeq
<1>. QED  BY <1>2, <1>3 DEF Shown, k

(* One sample.                                                             *)
LEMMA ShownSample ==
  ASSUME NEW s \in SampleFiles
  PROVE  Formatted(s) \in Seq(Pieces) /\ Shown(Formatted(s)) = <<s[1]>>
<1> DEFINE p == Sample(s)
           q == <<p>>
           e == <<Next1>>
<1>1. p \in SamplePieces /\ p \in Pieces /\ p[2] = s[1] /\ Next1 \in Pieces
      /\ Next1 \notin SamplePieces
  BY PiecesAre
<1> HIDE DEF p
<1>2. q \in Seq(Pieces) /\ e \in Seq(Pieces) /\ Glue(q, e) = <<p, Next1>>
  <2>1. q \in Seq(Pieces) /\ e \in Seq(Pieces)
    BY <1>1
  <2>2. Append(q, Next1) = Glue(q, e)
    BY <1>1, <2>1, AppendIs
  <2>3. Append(q, Next1) = <<p, Next1>>
    <3> DEFINE a == Append(q, Next1)
               b == <<p, Next1>>
    <3>1. /\ b \in Seq(Pieces) /\ Len(b) = 2 /\ b[1] = p /\ b[2] = Next1
      BY <1>1
    <3>2. Len(q) = 1 /\ q[1] = p
      OBVIOUS
    <3> HIDE DEF q, b
    <3>3. a \in Seq(Pieces) /\ Len(a) = 2 /\ a[1] = p /\ a[2] = Next1
      <4>1. /\ a \in Seq(Pieces) /\ Len(a) = Len(q) + 1
            /\ \A i \in 1 .. Len(q) : a[i] = q[i]
            /\ a[Len(q) + 1] = Next1
        BY <1>1, <2>1, AppendProperties
      <4> HIDE DEF a
      <4>2. 1 \in 1 .. 1 /\ 1 + 1 = 2
        OBVIOUS
      <4>. QED  BY <3>2, <4>1, <4>2
    <3> HIDE DEF a
    <3>4. \A i \in 1 .. 2 : a[i] = b[i]
      <4>1. \A i \in 1 .. 2 : i = 1 \/ i = 2
        OBVIOUS
      <4>. QED  BY <3>1, <3>3, <4>1
    <3>5. a = b
      BY <3>1, <3>3, <3>4, SeqEqual
    <3>. QED  BY <3>5 DEF a, b
  <2>. QED  BY <2>1, <2>2, <2>3
<1>3. Shown(q) = <<s[1]>>
  <2>1. Kept(Append(<<>>, p), SamplePieces) = Glue(Kept(<<>>, SamplePieces), OneKept(p, SamplePieces))
    <3> DEFINE z == <<>>
    <3>1. z \in Seq(Pieces)
      OBVIOUS
    <3> HIDE DEF z
    <3>2. Kept(Append(z, p), SamplePieces) = Glue(Kept(z, SamplePieces), OneKept(p, SamplePieces))
      BY <1>1, <3>1, KeptAppend
    <3>. QED  BY <3>2 DEF z
  <2>2. Append(<<>>, p) = q /\ OneKept(p, SamplePieces) = q
    BY <1>1 DEF OneKept
  <2>3. Kept(q, SamplePieces) = q
    BY <1>2, <2>1, <2>2, KeptEmpty, GlueEmpty
  <2>4. Seconds(q) = <<s[1]>>
    <3>1. DOMAIN q = {1} /\ q[1] = p
      OBVIOUS
    <3>2. Seconds(q) = [i \in {1} |-> s[1]]
      BY <1>1, <3>1 DEF Seconds, MapSeq
    <3>3. <<s[1]>> = [i \in {1} |-> s[1]]
      OBVIOUS
    <3>. QED  BY <3>2, <3>3
  <2>. QED  BY <2>3, <2>4 DEF Shown
<1>4. Shown(e) = <<>>
  <2>1. ToSet(e) \intersect SamplePieces = {}
    BY <1>1 DEF ToSet
  <2>. QED  BY <1>2, <2>1, ShownNothing
<1>5. Shown(Glue(q, e)) = <<s[1]>>
  <2>1. Shown(Glue(q, e)) = Glue(Shown(q), Shown(e))
    BY <1>2, ShownGlue
  <2>2. Shown(q) \in Seq(STRING)
    BY <1>2, ShownIs
  <2>. QED  BY <1>3, <1>4, <2>1, <2>2, GlueEmpty
<1>6. Formatted(s) = IF s \in Quoting THEN Glue(q, e) ELSE q
  BY <1>2 DEF Formatted, p
<1> HIDE DEF q, e
<1>7. Glue(q, e) \in Seq(Pieces)
  BY <1>2, GlueHas
<1>. QED  BY <1>2, <1>3, <1>5, <1>6, <1>7

(* The HTML that format_samples makes of files.                            *)
InHtml(rest) == FlattenSeq(MapSeq(Formatted, rest))

(* Samples put into HTML are shown in their order.                         *)
LEMMA ShownInHtml ==
  ASSUME NEW rest \in Seq(SampleFiles)
  PROVE  InHtml(rest) \in Seq(Pieces) /\ Shown(InHtml(rest)) = Stems(rest)
<1> DEFINE m(s) == MapSeq(Formatted, s)
           Q == {s \in Seq(SampleFiles) : /\ m(s) \in Seq(Seq(Pieces))
                                          /\ InHtml(s) \in Seq(Pieces)
                                          /\ Shown(InHtml(s)) = Stems(s)}
<1>1. <<>> \in Q
  <2>1. m(<<>>) = <<>> /\ Stems(<<>>) = <<>>
    BY DEF MapSeq, Stems
  <2>2. InHtml(<<>>) = <<>>
    BY <2>1, EmptySeq DEF InHtml, FlattenSeq
  <2>3. <<>> \in Seq(Pieces) /\ <<>> \in Seq(SampleFiles) /\ <<>> \in Seq(Seq(Pieces))
    OBVIOUS
  <2>4. Shown(<<>>) = <<>>
    <3>1. ToSet(<<>>) = {}
      BY DEF ToSet
    <3>. QED  BY <2>3, <3>1, ShownNothing
  <2>. QED  BY <2>1, <2>2, <2>3, <2>4
<1>2. ASSUME NEW s \in Seq(SampleFiles), NEW x \in SampleFiles, s \in Q
      PROVE  Append(s, x) \in Q
  <2> DEFINE t == Append(s, x)
             f == Formatted(x)
             ms == m(s)
             mt == m(t)
             n == Len(s)
  <2>1. /\ t \in Seq(SampleFiles) /\ Len(t) = n + 1 /\ DOMAIN t = 1 .. n + 1 /\ n \in Nat
        /\ DOMAIN s = 1 .. n
        /\ \A i \in 1 .. n : t[i] = s[i]
        /\ t[n + 1] = x
    BY AppendProperties, LenProperties
  <2>2. /\ ms \in Seq(Seq(Pieces)) /\ InHtml(s) \in Seq(Pieces)
        /\ Shown(InHtml(s)) = Stems(s)
    BY <1>2
  <2>3. f \in Seq(Pieces) /\ Shown(f) = <<x[1]>> /\ x[1] \in STRING
    BY ShownSample, PiecesAre
  <2>4. /\ DOMAIN ms = 1 .. n /\ \A i \in 1 .. n : ms[i] = Formatted(s[i])
        /\ DOMAIN mt = 1 .. n + 1 /\ \A i \in 1 .. n + 1 : mt[i] = Formatted(t[i])
        /\ mt = [i \in 1 .. n + 1 |-> Formatted(t[i])]
    <3> HIDE DEF t, n
    <3>. QED  BY <2>1 DEF MapSeq
  <2>5. InHtml(s) = FlattenSeq(ms) /\ InHtml(t) = FlattenSeq(mt)
    BY DEF InHtml
  <2> DEFINE a == Append(ms, f)
  <2> HIDE DEF t, f, ms, mt, n
  <2>6. Len(ms) = n
    <3>1. Len(ms) \in Nat /\ DOMAIN ms = 1 .. Len(ms)
      BY <2>2
    <3> DEFINE l == Len(ms)
    <3>2. l \in Nat /\ 1 .. l = 1 .. n /\ n \in Nat
      BY <2>1, <2>4, <3>1
    <3> HIDE DEF l
    <3>3. l = n
      BY <3>2
    <3>. QED  BY <3>3 DEF l
  <2>7. /\ a \in Seq(Seq(Pieces)) /\ Len(a) = n + 1
        /\ \A i \in 1 .. n : a[i] = ms[i]
        /\ a[n + 1] = f
    <3>1. f \in Seq(Pieces)
      BY <2>3
    <3>. QED  BY <2>2, <2>6, <3>1, AppendProperties
  <2> HIDE DEF a
  <2>8. mt = a
    <3>1. a = [i \in 1 .. n + 1 |-> a[i]]
      <4>1. a \in [1 .. Len(a) -> Seq(Pieces)]
        BY <2>7, LenProperties
      <4>. QED  BY <2>7, <4>1
    <3>2. \A i \in 1 .. n + 1 : a[i] = Formatted(t[i])
      <4>1. \A i \in 1 .. n : a[i] = Formatted(t[i])
        BY <2>1, <2>4, <2>7
      <4>2. a[n + 1] = Formatted(t[n + 1])
        BY <2>1, <2>7 DEF f
      <4>3. \A i \in 1 .. n + 1 : i \in 1 .. n \/ i = n + 1
        BY <2>1
      <4>. QED  BY <4>1, <4>2, <4>3
    <3>. QED  BY <2>4, <3>1, <3>2
  <2>9. InHtml(t) = Glue(InHtml(s), f)
    BY <2>2, <2>3, <2>5, <2>8, FlattenAppend DEF a
  <2>10. InHtml(t) \in Seq(Pieces)
    BY <2>2, <2>3, <2>9, GlueHas
  <2>11. Shown(InHtml(t)) = Glue(Stems(s), <<x[1]>>)
    BY <2>2, <2>3, <2>9, ShownGlue
  <2>12. Stems(t) = Append(Stems(s), x[1])
    <3> DEFINE b == Append(Stems(s), x[1])
    <3>1. /\ Stems(s) \in Seq(STRING) /\ Len(Stems(s)) = n
          /\ \A i \in 1 .. n : Stems(s)[i] = s[i][1]
      BY StemsAre DEF n
    <3>2. /\ Stems(t) \in Seq(STRING) /\ Len(Stems(t)) = n + 1
          /\ \A i \in 1 .. n + 1 : Stems(t)[i] = t[i][1]
      BY <2>1, StemsAre
    <3>3. /\ b \in Seq(STRING) /\ Len(b) = n + 1
          /\ \A i \in 1 .. n : b[i] = Stems(s)[i]
          /\ b[n + 1] = x[1]
      BY <2>3, <3>1, AppendProperties
    <3> HIDE DEF b
    <3>4. \A i \in 1 .. n + 1 : i \in 1 .. n \/ i = n + 1
      BY <2>1
    <3>5. \A i \in 1 .. n + 1 : Stems(t)[i] = b[i]
      <4>1. \A i \in 1 .. n : Stems(t)[i] = b[i]
        BY <2>1, <3>1, <3>2, <3>3, <3>4
      <4>2. Stems(t)[n + 1] = b[n + 1]
        BY <2>1, <3>2, <3>3
      <4>. QED  BY <3>4, <4>1, <4>2
    <3>6. Stems(t) = b
      BY <3>2, <3>3, <3>5, SeqEqual
    <3>. QED  BY <3>6 DEF b
  <2>13. Append(Stems(s), x[1]) = Glue(Stems(s), <<x[1]>>)
    BY <2>3, StemsAre, AppendIs
  <2>14. mt \in Seq(Seq(Pieces))
    BY <2>7, <2>8
  <2>. QED  BY <2>1, <2>10, <2>11, <2>12, <2>13, <2>14 DEF t, mt
<1>3. \A s \in Seq(SampleFiles) : s \in Q
  <2> HIDE DEF Q
  <2>. QED  BY <1>1, <1>2, SeqInduction
<1>. QED  BY <1>3

(* The states of the loop of inject_samples, turn by turn.                 *)
Injects(f, html, samples, N) ==
  f = [n \in 0 .. N |->
         IF n = 0 THEN Rendering(html, samples) ELSE InjectAtMarker(f[n - 1])]

(* The recursion of inject_samples has a solution.                         *)
LEMMA InjectExists ==
  ASSUME NEW html, NEW samples
  PROVE  \A N \in Nat : \E f : Injects(f, html, samples, N)
<1> DEFINE S == {n \in Nat : \E f : Injects(f, html, samples, n)}
           r == Rendering(html, samples)
<1>1. 0 \in S
  <2> DEFINE f == [n \in 0 .. 0 |-> r]
  <2>1. f = [n \in 0 .. 0 |-> IF n = 0 THEN r ELSE InjectAtMarker(f[n - 1])]
    <3> HIDE DEF r
    <3>. QED  OBVIOUS
  <2>. QED  BY <2>1 DEF Injects
<1>2. ASSUME NEW n \in Nat, n \in S
      PROVE  n + 1 \in S
  <2>1. PICK f : Injects(f, html, samples, n)
    BY <1>2
  <2> DEFINE last == InjectAtMarker(f[n])
             g == [i \in 0 .. n + 1 |-> IF i = n + 1 THEN last ELSE f[i]]
  <2>2. \A i \in 0 .. n : f[i] = IF i = 0 THEN r ELSE InjectAtMarker(f[i - 1])
    BY <2>1 DEF Injects
  <2> HIDE DEF r
  <2>3. g[n + 1] = last /\ \A i \in 0 .. n : g[i] = f[i]
    <3> HIDE DEF last
    <3>. QED  OBVIOUS
  <2>4. \A i \in 0 .. n + 1 : g[i] = IF i = 0 THEN r ELSE InjectAtMarker(g[i - 1])
    <3> HIDE DEF g
    <3> TAKE i \in 0 .. n + 1
    <3>1. CASE i = n + 1
      <4>1. i # 0 /\ i - 1 = n /\ n \in 0 .. n
        BY <3>1
      <4>. QED  BY <2>3, <3>1, <4>1
    <3>2. CASE i # n + 1
      <4>1. i \in 0 .. n /\ (i # 0 => i - 1 \in 0 .. n)
        BY <3>2
      <4>. QED  BY <2>2, <2>3, <4>1
    <3>. QED  BY <3>1, <3>2
  <2>5. g = [i \in 0 .. n + 1 |-> g[i]]
    OBVIOUS
  <2> HIDE DEF g
  <2>6. g = [i \in 0 .. n + 1 |-> IF i = 0 THEN r ELSE InjectAtMarker(g[i - 1])]
    BY <2>4, <2>5
  <2>7. Injects(g, html, samples, n + 1)
    BY <2>6 DEF Injects, r
  <2>. QED  BY <2>7
<1>3. \A n \in Nat : n \in S
  <2> HIDE DEF S
  <2>. QED  BY <1>1, <1>2, SetInduction
<1>. QED  BY <1>3

(* The turns of the loop.                                                  *)
LEMMA InjectSteps ==
  ASSUME NEW html, NEW samples, Len(html) \in Nat, Len(samples) \in Nat
  PROVE  \E f : LET N == Len(html) + Len(samples)
                IN  /\ inject_samples(html, samples) = f[N]
                    /\ f[0] = Rendering(html, samples)
                    /\ \A n \in Nat : n + 1 <= N => f[n + 1] = InjectAtMarker(f[n])
<1> DEFINE N == Len(html) + Len(samples)
           h == CHOOSE f : Injects(f, html, samples, N)
<1>1. N \in Nat
  OBVIOUS
<1>2. inject_samples(html, samples) = h[N]
  BY DEF inject_samples, Injects
<1>3. Injects(h, html, samples, N)
  <2>1. \E f : Injects(f, html, samples, N)
    BY <1>1, InjectExists
  <2>. QED  BY <2>1
<1> HIDE DEF h, N
<1>4. \A i \in 0 .. N : h[i] = IF i = 0 THEN Rendering(html, samples) ELSE InjectAtMarker(h[i - 1])
  BY <1>3 DEF Injects
<1>5. h[0] = Rendering(html, samples)
  BY <1>1, <1>4
<1>6. ASSUME NEW n \in Nat, n + 1 <= N
      PROVE  h[n + 1] = InjectAtMarker(h[n])
  <2>1. n + 1 \in 0 .. N /\ n + 1 # 0 /\ (n + 1) - 1 = n
    BY <1>1, <1>6
  <2>. QED  BY <1>4, <2>1
<1>. QED  BY <1>2, <1>5, <1>6 DEF N

(* The fields of the state that the loop begins with.                      *)
LEMMA RenderingHas ==
  ASSUME NEW html, NEW rest
  PROVE  /\ Rendering(html, rest).html = html /\ Rendering(html, rest).rest = rest
         /\ Rendering(html, rest).raised = FALSE
BY DEF Rendering

(* Without markers nothing is done.                                        *)
LEMMA NothingInjected ==
  ASSUME NEW html, NEW samples, Len(html) \in Nat, Len(samples) \in Nat,
         FirstAt(html, Markers) = 0
  PROVE  inject_samples(html, samples) = Rendering(html, samples)
<1> DEFINE N == Len(html) + Len(samples)
           r == Rendering(html, samples)
<1>1. PICK f : /\ inject_samples(html, samples) = f[N]
               /\ f[0] = r
               /\ \A n \in Nat : n + 1 <= N => f[n + 1] = InjectAtMarker(f[n])
  BY InjectSteps
<1>2. InjectAtMarker(r) = r
  <2>1. r.html = html
    BY RenderingHas
  <2> HIDE DEF r
  <2>. QED  BY <2>1 DEF InjectAtMarker
<1> DEFINE S == {n \in Nat : n <= N => f[n] = r}
<1> HIDE DEF r
<1>3. N \in Nat
  OBVIOUS
<1> HIDE DEF N
<1>4. 0 \in S
  BY <1>1
<1>5. ASSUME NEW n \in Nat, n \in S PROVE n + 1 \in S
  BY <1>1, <1>2, <1>3, <1>5
<1>6. \A n \in Nat : n \in S
  <2> HIDE DEF S
  <2>. QED  BY <1>4, <1>5, SetInduction
<1>. QED  BY <1>1, <1>3, <1>6 DEF r

-----------------------------------------------------------------------------
(* The HTML, cut at its first piece of S, and how this cuts the tail of it *)
(* that is not done yet.                                                   *)
SplitsAt(T, S, done, tail, html, j) ==
  \E a \in Seq(T), c \in Seq(T), p \in T :
         /\ tail = Glue(Glue(a, <<p>>), c) /\ p \in S /\ ToSet(a) \intersect S = {}
         /\ html[j] = p
         /\ SubSeq(html, 1, j - 1) = Glue(done, a)
         /\ SubSeq(html, j + 1, Len(html)) = c

(* What comes before and after the first piece of a kind, when a beginning *)
(* has none of them.                                                       *)
LEMMA SplitInTail ==
  ASSUME NEW T, NEW done \in Seq(T), NEW tail \in Seq(T), NEW S, ToSet(done) \intersect S = {},
         FirstAt(Glue(done, tail), S) # 0
  PROVE  SplitsAt(T, S, done, tail, Glue(done, tail), FirstAt(Glue(done, tail), S))
<1> DEFINE html == Glue(done, tail)
           i == FirstAt(html, S)
           m == Len(done)
           n == Len(tail)
           j == i - m
           a == SubSeq(tail, 1, j - 1)
           c == SubSeq(tail, j + 1, n)
           p == html[i]
<1>1. html \in Seq(T) /\ Len(html) = m + n /\ m \in Nat /\ n \in Nat
  BY GlueHas
<1>2. (\A k \in 1 .. m : html[k] = done[k])
  BY GlueHas
<1>3. (\A k \in 1 .. n : html[m + k] = tail[k])
  BY GlueHas
<1>4. /\ i \in 1 .. m + n /\ html[i] \in S
      /\ \A k \in 1 .. i - 1 : html[k] \notin S
  <2>1. /\ i \in 1 .. Len(html) /\ html[i] \in S
        /\ \A k \in 1 .. i - 1 : html[k] \notin S
    <3> DEFINE k0 == FirstAt(html, S)
    <3>0. html \in Seq(T) /\ k0 # 0
      BY <1>1
    <3> HIDE DEF html, k0
    <3>1. /\ k0 \in 1 .. Len(html) /\ html[k0] \in S
          /\ \A k \in 1 .. k0 - 1 : html[k] \notin S
      <4>1. html \in Seq(T)
        BY <3>0
      <4>. QED  BY <3>0, <4>1, FirstAtIs DEF k0
    <3>. QED  BY <3>1 DEF k0
  <2> HIDE DEF i, html, m, n
  <2>. QED  BY <1>1, <2>1
<1>5. \A k \in 1 .. m : done[k] \notin S
  BY DEF ToSet
<1>6. \A k \in 1 .. n : tail[k] \in T
  OBVIOUS
<1>7. \A k \in 1 .. m : done[k] \in T
  OBVIOUS
<1> HIDE DEF html, i, m, n
<1>8. /\ j \in 1 .. n /\ i = m + j /\ i \in Nat /\ p = tail[j] /\ p \in T /\ p \in S
      /\ j - 1 \in Nat /\ i - 1 \in Nat
  <2>1. i \notin 1 .. m
    BY <1>2, <1>4, <1>5
  <2>2. j \in 1 .. n /\ i = m + j /\ i \in Nat /\ j - 1 \in Nat /\ i - 1 \in Nat
    BY <1>1, <1>4, <2>1
  <2> HIDE DEF j
  <2>. QED  BY <1>3, <1>4, <1>6, <2>2
<1> HIDE DEF p, j
<1>9. /\ a \in Seq(T) /\ Len(a) = j - 1
      /\ \A k \in 1 .. j - 1 : a[k] = tail[k]
  <2>1. \A k \in 1 .. j - 1 : tail[k] \in T
    BY <1>1, <1>6, <1>8
  <2>2. /\ a \in Seq(T) /\ Len(a) = IF 1 <= j - 1 THEN (j - 1) - 1 + 1 ELSE 0
        /\ \A k \in 1 .. (j - 1) - 1 + 1 : a[k] = tail[1 + k - 1]
    BY <1>8, <2>1, SubSeqProperties
  <2> HIDE DEF a
  <2>3. (j - 1) - 1 + 1 = j - 1
    BY <1>8
  <2>4. \A k \in 1 .. j - 1 : 1 + k - 1 = k
    BY <1>8
  <2>. QED  BY <1>8, <2>2, <2>3, <2>4
<1>10. /\ c \in Seq(T) /\ Len(c) = n - j
       /\ \A k \in 1 .. n - j : c[k] = tail[j + k]
  <2>1. \A k \in j + 1 .. n : tail[k] \in T
    BY <1>1, <1>6, <1>8
  <2>2. /\ c \in Seq(T) /\ Len(c) = IF j + 1 <= n THEN n - (j + 1) + 1 ELSE 0
        /\ \A k \in 1 .. n - (j + 1) + 1 : c[k] = tail[(j + 1) + k - 1]
    BY <1>1, <1>8, <2>1, SubSeqProperties
  <2> HIDE DEF c
  <2>3. n - (j + 1) + 1 = n - j
    BY <1>1, <1>8
  <2>4. \A k \in 1 .. n - j : (j + 1) + k - 1 = j + k
    BY <1>1, <1>8
  <2>. QED  BY <1>1, <1>8, <2>2, <2>3, <2>4
<1> HIDE DEF a, c
<1>11. ToSet(a) \intersect S = {}
  <2>1. ASSUME NEW k \in 1 .. j - 1 PROVE a[k] \notin S
    <3>1. k \in 1 .. n /\ m + k \in 1 .. i - 1
      BY <1>1, <1>8
    <3>. QED  BY <1>3, <1>4, <1>9, <3>1
  <2>2. DOMAIN a = 1 .. j - 1
    BY <1>9
  <2>. QED  BY <2>1, <2>2 DEF ToSet
<1> DEFINE e == <<p>>
           b == Glue(a, e)
           t == Glue(b, c)
<1>12. e \in Seq(T) /\ Len(e) = 1 /\ e[1] = p
  BY <1>8
<1> HIDE DEF e
<1>13. b \in Seq(T) /\ Len(b) = j
  <2>0. a \in Seq(T) /\ e \in Seq(T)
    BY <1>9, <1>12
  <2>1. b \in Seq(T) /\ Len(b) = Len(a) + Len(e)
    BY <2>0, GlueHas
  <2> HIDE DEF b
  <2>. QED  BY <1>8, <1>9, <1>12, <2>1
<1>14. \A k \in 1 .. j : b[k] = tail[k]
  <2>0. a \in Seq(T) /\ e \in Seq(T)
    BY <1>9, <1>12
  <2>1. \A k \in 1 .. Len(a) : b[k] = a[k]
    BY <2>0, GlueHas
  <2>2. \A k \in 1 .. Len(e) : b[Len(a) + k] = e[k]
    BY <2>0, GlueHas
  <2> HIDE DEF b
  <2>3. 1 \in 1 .. 1 /\ (j - 1) + 1 = j
    BY <1>8
  <2>4. b[j] = p
    BY <1>9, <1>12, <2>2, <2>3
  <2>5. \A k \in 1 .. j : k = j \/ k \in 1 .. j - 1
    BY <1>8
  <2>. QED  BY <1>8, <1>9, <2>1, <2>4, <2>5
<1>15. t \in Seq(T) /\ Len(t) = n
  <2>1. t \in Seq(T) /\ Len(t) = Len(b) + Len(c)
    BY <1>10, <1>13, GlueHas
  <2> HIDE DEF t, b
  <2>. QED  BY <1>1, <1>8, <1>10, <1>13, <2>1
<1>16. tail = t
  <2>0. b \in Seq(T) /\ c \in Seq(T)
    BY <1>10, <1>13
  <2> HIDE DEF b
  <2>1. \A k \in 1 .. Len(b) : t[k] = b[k]
    BY <2>0, GlueHas
  <2>2. \A k \in 1 .. Len(c) : t[Len(b) + k] = c[k]
    BY <2>0, GlueHas
  <2> HIDE DEF t
  <2>3. ASSUME NEW k \in 1 .. n PROVE tail[k] = t[k]
    <3>1. CASE k \in 1 .. j
      BY <1>13, <1>14, <2>1, <3>1
    <3>2. CASE k \notin 1 .. j
      <4> DEFINE l == k - j
      <4>1. l \in 1 .. n - j /\ k = j + l
        BY <1>1, <1>8, <3>2
      <4> HIDE DEF l
      <4>. QED  BY <1>10, <1>13, <2>2, <4>1
    <3>. QED  BY <3>1, <3>2
  <2>. QED  BY <1>15, <2>3, SeqEqual DEF n
<1>17. SubSeq(html, 1, i - 1) = Glue(done, a)
  <2> DEFINE x == SubSeq(html, 1, i - 1)
             y == Glue(done, a)
  <2>1. \A k \in 1 .. i - 1 : html[k] \in T
    BY <1>1, <1>4
  <2>2. /\ x \in Seq(T) /\ Len(x) = IF 1 <= i - 1 THEN (i - 1) - 1 + 1 ELSE 0
        /\ \A k \in 1 .. (i - 1) - 1 + 1 : x[k] = html[1 + k - 1]
    BY <1>8, <2>1, SubSeqProperties
  <2>0. a \in Seq(T)
    BY <1>9
  <2>3. y \in Seq(T) /\ Len(y) = Len(done) + Len(a)
    BY <2>0, GlueHas
  <2>4. \A k \in 1 .. Len(done) : y[k] = done[k]
    BY <2>0, GlueHas
  <2>5. \A k \in 1 .. Len(a) : y[Len(done) + k] = a[k]
    BY <2>0, GlueHas
  <2> HIDE DEF x, y
  <2>6. (i - 1) - 1 + 1 = i - 1 /\ \A k \in 1 .. i - 1 : 1 + k - 1 = k
    BY <1>8
  <2>7. Len(x) = i - 1 /\ \A k \in 1 .. i - 1 : x[k] = html[k]
    BY <1>8, <2>2, <2>6
  <2>8. Len(y) = i - 1
    BY <1>1, <1>8, <1>9, <2>3 DEF m
  <2>9. ASSUME NEW k \in 1 .. i - 1 PROVE x[k] = y[k]
    <3>1. CASE k \in 1 .. m
      BY <1>2, <2>4, <2>7, <3>1 DEF m
    <3>2. CASE k \notin 1 .. m
      <4> DEFINE l == k - m
      <4>1. l \in 1 .. j - 1 /\ k = m + l /\ l \in 1 .. n
        BY <1>1, <1>8, <3>2
      <4> HIDE DEF l
      <4>2. y[k] = a[l]
        BY <1>9, <2>5, <4>1 DEF m
      <4>. QED  BY <1>3, <1>9, <2>7, <4>1, <4>2
    <3>. QED  BY <3>1, <3>2
  <2>10. x = y
    BY <2>2, <2>3, <2>7, <2>8, <2>9, SeqEqual
  <2>. QED  BY <2>10 DEF x, y
<1>18. SubSeq(html, i + 1, Len(html)) = c
  <2> DEFINE x == SubSeq(html, i + 1, m + n)
  <2>1. \A k \in i + 1 .. m + n : html[k] \in T
    BY <1>1, <1>4, <1>8
  <2>2. /\ x \in Seq(T) /\ Len(x) = IF i + 1 <= m + n THEN (m + n) - (i + 1) + 1 ELSE 0
        /\ \A k \in 1 .. (m + n) - (i + 1) + 1 : x[k] = html[(i + 1) + k - 1]
    BY <1>1, <1>8, <2>1, SubSeqProperties
  <2> HIDE DEF x
  <2>3. (m + n) - (i + 1) + 1 = n - j
    BY <1>1, <1>8
  <2>4. Len(x) = n - j
    BY <1>1, <1>8, <2>2, <2>3
  <2>5. ASSUME NEW k \in 1 .. n - j PROVE x[k] = c[k]
    <3>1. (i + 1) + k - 1 = m + (j + k) /\ j + k \in 1 .. n
      BY <1>1, <1>8
    <3>. QED  BY <1>3, <1>10, <2>2, <2>3, <3>1
  <2>6. x = c
    BY <1>10, <2>2, <2>4, <2>5, SeqEqual
  <2>. QED  BY <1>1, <2>6 DEF x
<1>19. tail = Glue(Glue(a, <<p>>), c)
  BY <1>16 DEF t, b, e
<1>20. html[i] = p
  BY DEF p
<1>21. SplitsAt(T, S, done, tail, html, i)
  BY <1>8, <1>9, <1>10, <1>11, <1>17, <1>18, <1>19, <1>20 DEF SplitsAt
<1>. QED  BY <1>21 DEF html, i

(* The samples of two sequences of files in a row.                         *)
LEMMA StemsGlue ==
  ASSUME NEW s \in Seq(SampleFiles), NEW t \in Seq(SampleFiles)
  PROVE  Stems(Glue(s, t)) = Glue(Stems(s), Stems(t))
<1> DEFINE u == Glue(s, t)
           a == Stems(u)
           b == Glue(Stems(s), Stems(t))
           m == Len(s)
           n == Len(t)
<1>1. /\ u \in Seq(SampleFiles) /\ Len(u) = m + n /\ m \in Nat /\ n \in Nat
      /\ \A i \in 1 .. m : u[i] = s[i]
      /\ \A i \in 1 .. n : u[m + i] = t[i]
  <2>1. u \in Seq(SampleFiles) /\ Len(u) = m + n /\ m \in Nat /\ n \in Nat
    BY GlueHas
  <2>2. \A i \in 1 .. m : u[i] = s[i]
    BY GlueHas
  <2>3. \A i \in 1 .. n : u[m + i] = t[i]
    BY GlueHas
  <2>. QED  BY <2>1, <2>2, <2>3
<1>2. /\ Stems(s) \in Seq(STRING) /\ Len(Stems(s)) = m
      /\ \A i \in 1 .. m : Stems(s)[i] = s[i][1]
  BY StemsAre
<1>3. /\ Stems(t) \in Seq(STRING) /\ Len(Stems(t)) = n
      /\ \A i \in 1 .. n : Stems(t)[i] = t[i][1]
  BY StemsAre
<1> HIDE DEF u, m, n
<1>4. /\ a \in Seq(STRING) /\ Len(a) = m + n
      /\ \A i \in 1 .. m + n : a[i] = u[i][1]
  BY <1>1, StemsAre
<1>5. b \in Seq(STRING) /\ Len(b) = m + n
  BY <1>2, <1>3, GlueHas
<1>6. /\ \A i \in 1 .. m : b[i] = Stems(s)[i]
      /\ \A i \in 1 .. n : b[m + i] = Stems(t)[i]
  <2> DEFINE c == Stems(s)
             d == Stems(t)
  <2>1. c \in Seq(STRING) /\ d \in Seq(STRING) /\ Len(c) = m /\ Len(d) = n /\ b = Glue(c, d)
    BY <1>2, <1>3
  <2>0. c \in Seq(STRING) /\ d \in Seq(STRING)
    BY <2>1
  <2> HIDE DEF b, c, d
  <2>2. \A i \in 1 .. Len(c) : Glue(c, d)[i] = c[i]
    BY <2>0, GlueHas
  <2>3. \A i \in 1 .. Len(d) : Glue(c, d)[Len(c) + i] = d[i]
    BY <2>0, GlueHas
  <2>4. \A i \in 1 .. m : b[i] = c[i]
    BY <2>1, <2>2
  <2>5. \A i \in 1 .. n : b[m + i] = d[i]
    BY <2>1, <2>3
  <2>. QED  BY <2>4, <2>5 DEF c, d
<1> HIDE DEF a, b
<1>8. ASSUME NEW i \in 1 .. m + n PROVE a[i] = b[i]
  <2>1. CASE i \in 1 .. m
    BY <1>1, <1>2, <1>4, <1>6, <2>1
  <2>2. CASE i \notin 1 .. m
    <3> DEFINE j == i - m
    <3>1. j \in 1 .. n /\ i = m + j
      BY <1>1, <2>2
    <3> HIDE DEF j
    <3>2. b[i] = t[j][1] /\ u[i] = t[j]
      BY <1>1, <1>3, <1>6, <3>1
    <3>. QED  BY <1>4, <3>2
  <2>. QED  BY <2>1, <2>2
<1>9. a = b
  BY <1>4, <1>5, <1>8, SeqEqual
<1>. QED  BY <1>9 DEF a, b, u

(* A sequence is its first n items and the rest.                           *)
LEMMA SplitAt ==
  ASSUME NEW T, NEW s \in Seq(T), NEW n \in 0 .. Len(s)
  PROVE  /\ SubSeq(s, 1, n) \in Seq(T) /\ SubSeq(s, n + 1, Len(s)) \in Seq(T)
         /\ Glue(SubSeq(s, 1, n), SubSeq(s, n + 1, Len(s))) = s
<1>1. Len(s) \in Nat /\ n \in Nat /\ n <= Len(s) /\ \A i \in 1 .. Len(s) : s[i] \in T
  OBVIOUS
<1>2. SubSeq(s, 1, n) \in Seq(T)
  BY <1>1, SubSeqProperties
<1>3. SubSeq(s, n + 1, Len(s)) \in Seq(T)
  BY <1>1, SubSeqProperties
<1>4. 1 \in 1 .. Len(s) + 1 /\ n \in 1 - 1 .. Len(s) /\ Len(s) \in n .. Len(s)
  BY <1>1
<1>5. SubSeq(s, 1, n) \o SubSeq(s, n + 1, Len(s)) = SubSeq(s, 1, Len(s))
  BY <1>4, ConcatAdjacentSubSeq
<1>6. SubSeq(s, 1, Len(s)) = s
  BY SubSeqFull
<1>. QED  BY <1>2, <1>3, <1>5, <1>6 DEF Glue

(* Samples whose text holds no marker bring none.                          *)
LEMMA InHtmlPlain ==
  ASSUME NEW rest \in Seq(SampleFiles), ToSet(rest) \intersect Quoting = {}
  PROVE  ToSet(InHtml(rest)) \subseteq SamplePieces
<1> DEFINE m == MapSeq(Formatted, rest)
<1>1. Len(rest) \in Nat /\ DOMAIN rest = 1 .. Len(rest)
      /\ \A i \in 1 .. Len(rest) : rest[i] \in SampleFiles /\ rest[i] \notin Quoting
  BY DEF ToSet
<1>2. DOMAIN m = 1 .. Len(rest) /\ \A i \in 1 .. Len(rest) : m[i] = Formatted(rest[i])
  BY <1>1 DEF MapSeq
<1>3. \A i \in 1 .. Len(rest) : Formatted(rest[i]) = <<Sample(rest[i])>>
  BY <1>1 DEF Formatted
<1>4. \A i \in 1 .. Len(rest) : Sample(rest[i]) \in SamplePieces
  BY <1>1, PiecesAre
<1> HIDE DEF m
<1>5. \A i \in 1 .. Len(rest) : m[i] \in Seq(SamplePieces)
  <2> TAKE i \in 1 .. Len(rest)
  <2> DEFINE x == Sample(rest[i])
  <2>1. m[i] = <<x>> /\ x \in SamplePieces
    BY <1>2, <1>3, <1>4
  <2> HIDE DEF x, m
  <2>2. <<x>> \in Seq(SamplePieces)
    BY <2>1
  <2>. QED  BY <2>1, <2>2
<1>6. m \in Seq(Seq(SamplePieces))
  <2>1. m = [i \in 1 .. Len(rest) |-> m[i]]
    BY <1>1 DEF m, MapSeq
  <2>2. m \in [1 .. Len(rest) -> Seq(SamplePieces)]
    BY <1>5, <2>1
  <2>. QED  BY <1>1, <2>2, SeqDef
<1>7. FlattenSeq(m) \in Seq(SamplePieces)
  BY <1>6, FlattenHolds
<1>8. InHtml(rest) = FlattenSeq(m)
  BY DEF InHtml, m
<1>. QED  BY <1>7, <1>8 DEF ToSet

-----------------------------------------------------------------------------
(* Whether a marker comes behind the footnotes: the samples that are left  *)
(* are put in front of these, so they could be shown out of order.         *)
Behind(body) == MarkerBehindFootnotes(body)

(* How far the loop has come after n turns: the beginning of the text is   *)
(* done, and shows the samples taken so far.                               *)
Injected(body, fs, r, n) ==
  \/ r = NoSamplesLeft
  \/ /\ r.rest \in Seq(SampleFiles) /\ ToSet(r.rest) \subseteq ToSet(fs)
     /\ \E head \in Seq(Pieces), done \in Seq(Pieces), tail \in Seq(Pieces) :
          /\ body = Glue(head, tail)
          /\ r.html = Glue(done, tail)
          /\ ToSet(done) \intersect (Markers \union {Footnotes}) = {}
          /\ Glue(Shown(done), Stems(r.rest)) = Stems(fs)
          /\ FirstAt(r.html, Markers) = 0 \/ Len(head) >= n

(* No piece before a marker is the footnotes.                              *)
LEMMA NoFootnotesBefore ==
  ASSUME NEW head \in Seq(Pieces), NEW a \in Seq(Pieces), NEW p \in Markers, NEW c \in Seq(Pieces),
         ~ Behind(Glue(head, Glue(Glue(a, <<p>>), c)))
  PROVE  Footnotes \notin ToSet(a)
<1> DEFINE e == <<p>>
           ae == Glue(a, e)
           t == Glue(ae, c)
           body == Glue(head, t)
           m == Len(head)
           n == Len(a)
<1>0. p \in Pieces
  BY PiecesAre
<1>1. e \in Seq(Pieces) /\ Len(e) = 1 /\ e[1] = p
  BY <1>0
<1> HIDE DEF e
<1>2. a \in Seq(Pieces) /\ e \in Seq(Pieces)
  BY <1>1
<1>3. ae \in Seq(Pieces) /\ Len(ae) = Len(a) + Len(e)
  BY <1>2, GlueHas
<1>4. \A i \in 1 .. Len(a) : ae[i] = a[i]
  BY <1>2, GlueHas
<1>5. \A i \in 1 .. Len(e) : ae[Len(a) + i] = e[i]
  BY <1>2, GlueHas
<1> HIDE DEF ae
<1>6. ae \in Seq(Pieces) /\ c \in Seq(Pieces)
  BY <1>3
<1>7. t \in Seq(Pieces) /\ Len(t) = Len(ae) + Len(c)
  BY <1>6, GlueHas
<1>8. \A i \in 1 .. Len(ae) : t[i] = ae[i]
  BY <1>6, GlueHas
<1> HIDE DEF t
<1>9. head \in Seq(Pieces) /\ t \in Seq(Pieces)
  BY <1>7
<1>10. body \in Seq(Pieces) /\ Len(body) = Len(head) + Len(t)
  BY <1>9, GlueHas
<1>11. \A i \in 1 .. Len(t) : body[Len(head) + i] = t[i]
  BY <1>9, GlueHas
<1>12. DOMAIN body = 1 .. Len(body)
  BY <1>10
<1> HIDE DEF body
<1>13. m \in Nat /\ n \in Nat /\ Len(c) \in Nat /\ DOMAIN a = 1 .. n
  OBVIOUS
<1>14. Len(ae) = n + 1 /\ Len(t) = (n + 1) + Len(c) /\ DOMAIN body = 1 .. m + ((n + 1) + Len(c))
  BY <1>1, <1>3, <1>7, <1>10, <1>12
<1>15. ASSUME NEW k \in 1 .. n, a[k] = Footnotes PROVE FALSE
  <2>1. body[m + k] = Footnotes
    <3>1. k \in 1 .. Len(t) /\ k \in 1 .. Len(ae) /\ k \in 1 .. Len(a)
      BY <1>13, <1>14
    <3>. QED  BY <1>4, <1>8, <1>11, <1>15, <3>1
  <2>2. body[m + (n + 1)] = p
    <3>1. n + 1 \in 1 .. Len(t) /\ n + 1 \in 1 .. Len(ae) /\ 1 \in 1 .. Len(e)
      BY <1>1, <1>13, <1>14
    <3>. QED  BY <1>1, <1>5, <1>8, <1>11, <3>1
  <2>3. m + k \in DOMAIN body /\ m + (n + 1) \in DOMAIN body /\ m + k < m + (n + 1)
    BY <1>13, <1>14
  <2>4. Behind(body)
    BY <2>1, <2>2, <2>3 DEF Behind, MarkerBehindFootnotes
  <2>. QED  BY <2>4 DEF body, t, ae, e
<1>. QED  BY <1>13, <1>15 DEF ToSet

(* The elements of two sequences in a row.                                 *)
LEMMA GlueToSet ==
  ASSUME NEW T, NEW s \in Seq(T), NEW t \in Seq(T)
  PROVE  ToSet(Glue(s, t)) = ToSet(s) \union ToSet(t)
BY GlueHas

(* The length of two sequences in a row.                                   *)
LEMMA GlueIn ==
  ASSUME NEW T, NEW s \in Seq(T), NEW t \in Seq(T)
  PROVE  Glue(s, t) \in Seq(T) /\ Len(Glue(s, t)) = Len(s) + Len(t)
BY GlueHas

(* What a turn of the loop at a marker gives.                              *)
TurnResult(r, rest1, rest2, x, c) ==
  Rendering(Glue(Glue(x, InHtml(rest1)), c), rest2)

(* A turn at a marker puts in the next sample, or all that are left.       *)
LEMMA TurnIs ==
  ASSUME NEW r, FirstAt(r.html, Markers) # 0, NEW i, i = FirstAt(r.html, Markers),
         ~ (r.html[i] = Next1 /\ r.rest = <<>>),
         NEW n, n = IF r.html[i] = Next1 THEN 1 ELSE Len(r.rest)
  PROVE  InjectAtMarker(r) =
           TurnResult(r, SubSeq(r.rest, 1, n), SubSeq(r.rest, n + 1, Len(r.rest)),
                      SubSeq(r.html, 1, i - 1), SubSeq(r.html, i + 1, Len(r.html)))
BY DEF InjectAtMarker, TurnResult, Replace, Glue, InHtml

(* A turn at a marker takes the loop one step on: what is done shows the   *)
(* samples taken.                                                          *)
LEMMA TurnAtMarker ==
  ASSUME NEW body \in Seq(Pieces), NEW fs \in Seq(SampleFiles), ToSet(fs) \intersect Quoting = {},
         ToSet(body) \intersect SamplePieces = {}, ~ Behind(body),
         NEW r, NEW n \in Nat,
         NEW head \in Seq(Pieces), NEW done \in Seq(Pieces), NEW tail \in Seq(Pieces),
         body = Glue(head, tail), r.html = Glue(done, tail),
         ToSet(done) \intersect (Markers \union {Footnotes}) = {},
         Glue(Shown(done), Stems(r.rest)) = Stems(fs), Len(head) >= n,
         r.rest \in Seq(SampleFiles), ToSet(r.rest) \subseteq ToSet(fs),
         FirstAt(r.html, Markers) # 0,
         ~ (r.html[FirstAt(r.html, Markers)] = Next1 /\ r.rest = <<>>)
  PROVE  Injected(body, fs, InjectAtMarker(r), n + 1)
<1> DEFINE i == FirstAt(r.html, Markers)
           x == SubSeq(r.html, 1, i - 1)
           y == SubSeq(r.html, i + 1, Len(r.html))
           k == IF r.html[i] = Next1 THEN 1 ELSE Len(r.rest)
           f == SubSeq(r.rest, 1, k)
           g == SubSeq(r.rest, k + 1, Len(r.rest))
           in == InHtml(f)
<1>1. PICK a \in Seq(Pieces), c \in Seq(Pieces), p \in Pieces :
         /\ tail = Glue(Glue(a, <<p>>), c) /\ p \in Markers /\ ToSet(a) \intersect Markers = {}
         /\ x = Glue(done, a) /\ y = c
  <2> DEFINE html == Glue(done, tail)
             j == FirstAt(html, Markers)
  <2>1. ToSet(done) \intersect Markers = {} /\ FirstAt(html, Markers) # 0
    OBVIOUS
  <2>4. SplitsAt(Pieces, Markers, done, tail, Glue(done, tail), FirstAt(Glue(done, tail), Markers))
    BY <2>1, SplitInTail
  <2>2. \E a \in Seq(Pieces), c \in Seq(Pieces), p \in Pieces :
         /\ tail = Glue(Glue(a, <<p>>), c) /\ p \in Markers /\ ToSet(a) \intersect Markers = {}
         /\ html[j] = p
         /\ SubSeq(html, 1, j - 1) = Glue(done, a)
         /\ SubSeq(html, j + 1, Len(html)) = c
    BY <2>4 DEF SplitsAt
  <2> HIDE DEF html
  <2>3. r.html = html
    BY DEF html
  <2>. QED  BY <2>2, <2>3
<1>2. Footnotes \notin ToSet(a)
  BY <1>1, NoFootnotesBefore
<1>3. InjectAtMarker(r) = TurnResult(r, f, g, x, y)
  BY TurnIs
<1>4. k \in 0 .. Len(r.rest)
  <2>1. Len(r.rest) \in Nat
    OBVIOUS
  <2>2. r.rest # <<>> => Len(r.rest) >= 1
    BY <2>1, EmptySeq
  <2>. QED  BY <2>1, <2>2
<1> HIDE DEF k
<1>5. f \in Seq(SampleFiles) /\ g \in Seq(SampleFiles) /\ Glue(f, g) = r.rest
  BY <1>4, SplitAt
<1> HIDE DEF f, g, x, y, i
<1>6. ToSet(f) \subseteq ToSet(r.rest) /\ ToSet(g) \subseteq ToSet(r.rest)
  <2>1. ToSet(Glue(f, g)) = ToSet(f) \union ToSet(g)
    BY <1>5, GlueToSet
  <2>. QED  BY <1>5, <2>1
<1>7. in \in Seq(Pieces) /\ Shown(in) = Stems(f)
  BY <1>5, ShownInHtml
<1>8. ToSet(in) \subseteq SamplePieces
  <2>1. ToSet(f) \intersect Quoting = {}
    BY <1>6
  <2>. QED  BY <1>5, <2>1, InHtmlPlain
<1> HIDE DEF in
<1> DEFINE da == Glue(done, a)
           new == Glue(da, in)
           e == <<p>>
           ae == Glue(a, e)
           top == Glue(head, ae)
<1>9. e \in Seq(Pieces) /\ Len(e) = 1
  OBVIOUS
<1> HIDE DEF e
<1>10. da \in Seq(Pieces) /\ ToSet(da) = ToSet(done) \union ToSet(a)
  BY GlueHas
<1>11. Shown(da) = Glue(Shown(done), Shown(a))
  BY ShownGlue
<1> HIDE DEF da
<1>12. new \in Seq(Pieces) /\ ToSet(new) = ToSet(da) \union ToSet(in)
  <2>1. da \in Seq(Pieces) /\ in \in Seq(Pieces)
    BY <1>7, <1>10
  <2>2. new \in Seq(Pieces)
    BY <2>1, GlueIn
  <2>3. ToSet(new) = ToSet(da) \union ToSet(in)
    BY <2>1, GlueToSet
  <2>. QED  BY <2>2, <2>3
<1>13. Shown(new) = Glue(Shown(da), Shown(in))
  BY <1>7, <1>10, ShownGlue
<1> HIDE DEF new
<1>14. ae \in Seq(Pieces) /\ Len(ae) = Len(a) + 1 /\ ToSet(ae) = ToSet(a) \union ToSet(e)
  <2>1. e \in Seq(Pieces)
    BY <1>9
  <2>2. ae \in Seq(Pieces) /\ Len(ae) = Len(a) + Len(e)
    BY <2>1, GlueIn
  <2>3. ToSet(ae) = ToSet(a) \union ToSet(e)
    BY <2>1, GlueToSet
  <2>. QED  BY <1>9, <2>2, <2>3
<1>15. tail = Glue(ae, c)
  BY <1>1 DEF e
<1> HIDE DEF ae
<1>16. top \in Seq(Pieces) /\ Len(top) = Len(head) + Len(ae)
  BY <1>14, GlueIn
<1>17. body = Glue(top, c)
  BY <1>14, <1>15, GlueGlue
<1> HIDE DEF top
<1>18. Len(top) >= n + 1
  <2>1. Len(a) \in Nat /\ Len(head) \in Nat
    OBVIOUS
  <2>. QED  BY <1>14, <1>16, <2>1
<1>19. ToSet(new) \intersect (Markers \union {Footnotes}) = {}
  <2>1. SamplePieces \intersect (Markers \union {Footnotes}) = {}
    BY PiecesAre
  <2>. QED  BY <1>1, <1>2, <1>8, <1>10, <1>12, <2>1
<1>20. Shown(a) = <<>>
  <2>1. ToSet(tail) = ToSet(ae) \union ToSet(c)
    BY <1>14, <1>15, GlueToSet
  <2>2. ToSet(body) = ToSet(head) \union ToSet(tail)
    BY GlueToSet
  <2>3. ToSet(a) \intersect SamplePieces = {}
    BY <1>14, <2>1, <2>2
  <2>. QED  BY <2>3, ShownNothing
<1>21. Glue(Shown(new), Stems(g)) = Stems(fs)
  <2> DEFINE sd == Shown(done)
             sf == Stems(f)
             sg == Stems(g)
             sr == Stems(r.rest)
  <2>1. sd \in Seq(STRING)
    BY ShownIs
  <2>2. sf \in Seq(STRING) /\ sg \in Seq(STRING)
    BY <1>5, StemsAre
  <2>3. sr = Glue(sf, sg)
    BY <1>5, StemsGlue
  <2>4. Glue(sd, sr) = Stems(fs)
    OBVIOUS
  <2>5. Shown(new) = Glue(Glue(sd, <<>>), sf)
    BY <1>7, <1>11, <1>13, <1>20
  <2> HIDE DEF sd, sf, sg, sr
  <2>6. Glue(sd, <<>>) = sd
    BY <2>1, GlueEmpty
  <2>7. Glue(Glue(sd, sf), sg) = Glue(sd, Glue(sf, sg))
    BY <2>1, <2>2, GlueGlue
  <2>. QED  BY <2>3, <2>4, <2>5, <2>6, <2>7 DEF sg
<1>22. InjectAtMarker(r) = Rendering(Glue(new, c), g)
  BY <1>1, <1>3 DEF TurnResult, new, da, in
<1> DEFINE q == InjectAtMarker(r)
<1>23. q.html = Glue(new, c) /\ q.rest = g
  <2> DEFINE h == Glue(new, c)
  <2>1. q = Rendering(h, g)
    BY <1>22
  <2> HIDE DEF h, q
  <2>2. q.html = h /\ q.rest = g
    BY <2>1, RenderingHas
  <2>. QED  BY <2>2 DEF h
<1> HIDE DEF q
<1>24. ToSet(g) \subseteq ToSet(fs)
  BY <1>6
<1>. QED  BY <1>5, <1>12, <1>16, <1>17, <1>18, <1>19, <1>21, <1>23, <1>24 DEF Injected, q

(* A turn of the loop keeps what has been reached, and gets further.       *)
LEMMA TurnKeeps ==
  ASSUME NEW body \in Seq(Pieces), NEW fs \in Seq(SampleFiles), ToSet(fs) \intersect Quoting = {},
         ToSet(body) \intersect SamplePieces = {}, ~ Behind(body),
         NEW r, NEW n \in Nat, Injected(body, fs, r, n)
  PROVE  Injected(body, fs, InjectAtMarker(r), n + 1)
<1> DEFINE i == FirstAt(r.html, Markers)
<1>1. CASE r = NoSamplesLeft
  <2>1. FirstAt(<<>>, Markers) = 0
    <3> DEFINE z == <<>>
    <3>1. z \in Seq(Pieces) /\ Len(z) = 0
      OBVIOUS
    <3> HIDE DEF z
    <3>2. FirstAt(z, Markers) = 0 \/ FirstAt(z, Markers) \in 1 .. Len(z)
      BY <3>1, FirstAtIs
    <3>3. FirstAt(z, Markers) = 0
      BY <3>1, <3>2
    <3>. QED  BY <3>3 DEF z
  <2>2. r.html = <<>>
    BY <1>1 DEF NoSamplesLeft
  <2>3. InjectAtMarker(r) = r
    BY <2>1, <2>2 DEF InjectAtMarker
  <2>. QED  BY <1>1, <2>3 DEF Injected
<1>2. CASE r # NoSamplesLeft /\ i = 0
  <2>1. InjectAtMarker(r) = r
    BY <1>2 DEF InjectAtMarker
  <2>. QED  BY <1>2, <2>1 DEF Injected
<1>3. CASE i # 0 /\ r.html[i] = Next1 /\ r.rest = <<>>
  <2>1. InjectAtMarker(r) = NoSamplesLeft
    BY <1>3 DEF InjectAtMarker
  <2>. QED  BY <2>1 DEF Injected
<1>4. CASE r # NoSamplesLeft /\ i # 0 /\ ~ (r.html[i] = Next1 /\ r.rest = <<>>)
  <2>1. PICK head \in Seq(Pieces), done \in Seq(Pieces), tail \in Seq(Pieces) :
          /\ body = Glue(head, tail)
          /\ r.html = Glue(done, tail)
          /\ ToSet(done) \intersect (Markers \union {Footnotes}) = {}
          /\ Glue(Shown(done), Stems(r.rest)) = Stems(fs)
          /\ Len(head) >= n
    BY <1>4 DEF Injected
  <2>2. r.rest \in Seq(SampleFiles) /\ ToSet(r.rest) \subseteq ToSet(fs)
    BY <1>4 DEF Injected
  <2>. QED  BY <1>4, <2>1, <2>2, TurnAtMarker
<1>. QED  BY <1>1, <1>2, <1>3, <1>4

(* There is no first piece of S only where there is none.                  *)
LEMMA NoneFirst ==
  ASSUME NEW T, NEW s \in Seq(T), NEW S
  PROVE  FirstAt(s, S) = 0 <=> ToSet(s) \intersect S = {}
<1> DEFINE j == FirstAt(s, S)
<1>1. \/ j = 0 /\ ToSet(s) \intersect S = {}
      \/ j \in 1 .. Len(s) /\ s[j] \in S
  BY FirstAtIs
<1> HIDE DEF j
<1>2. j \in 1 .. Len(s) => s[j] \in ToSet(s) /\ j # 0
  BY DEF ToSet
<1>3. j = 0 <=> ToSet(s) \intersect S = {}
  BY <1>1, <1>2
<1>. QED  BY <1>3 DEF j

(* When the loop has ended, all markers are replaced.                      *)
AllInjected(body, fs, r) ==
  /\ r.rest \in Seq(SampleFiles) /\ ToSet(r.rest) \subseteq ToSet(fs)
  /\ \E head \in Seq(Pieces), done \in Seq(Pieces), tail \in Seq(Pieces) :
       /\ body = Glue(head, tail)
       /\ r.html = Glue(done, tail)
       /\ ToSet(done) \intersect (Markers \union {Footnotes}) = {}
       /\ Glue(Shown(done), Stems(r.rest)) = Stems(fs)
       /\ ToSet(tail) \intersect Markers = {}

(* Before the first turn nothing is done.                                  *)
LEMMA InjectedAtFirst ==
  ASSUME NEW body \in Seq(Pieces), NEW fs \in Seq(SampleFiles)
  PROVE  Injected(body, fs, Rendering(body, fs), 0)
<1> DEFINE r == Rendering(body, fs)
           z == <<>>
<1>1. r.html = body /\ r.rest = fs
  BY RenderingHas
<1>2. z \in Seq(Pieces) /\ ToSet(z) = {} /\ Len(z) >= 0
  BY DEF ToSet
<1>3. body = Glue(z, body)
  BY GlueEmpty
<1>4. Shown(z) = <<>>
  BY <1>2, ShownNothing
<1>5. Glue(Shown(z), Stems(fs)) = Stems(fs)
  <2> DEFINE st == Stems(fs)
  <2>1. st \in Seq(STRING)
    BY StemsAre
  <2> HIDE DEF st
  <2>2. Glue(<<>>, st) = st
    BY <2>1, GlueEmpty
  <2>. QED  BY <1>4, <2>2 DEF st
<1> HIDE DEF r, z
<1>6. ToSet(z) \intersect (Markers \union {Footnotes}) = {}
  BY <1>2
<1>7. Injected(body, fs, r, 0)
  BY <1>1, <1>2, <1>3, <1>5, <1>6 DEF Injected
<1>. QED  BY <1>7 DEF r

(* After as many turns as the body has pieces no marker is left.           *)
LEMMA InjectedAtLast ==
  ASSUME NEW body \in Seq(Pieces), NEW fs \in Seq(SampleFiles), NEW r, NEW n \in Nat,
         n >= Len(body), Injected(body, fs, r, n), r # NoSamplesLeft
  PROVE  AllInjected(body, fs, r)
<1>1. r.rest \in Seq(SampleFiles) /\ ToSet(r.rest) \subseteq ToSet(fs)
  BY DEF Injected
<1>2. PICK head \in Seq(Pieces), done \in Seq(Pieces), tail \in Seq(Pieces) :
        /\ body = Glue(head, tail)
        /\ r.html = Glue(done, tail)
        /\ ToSet(done) \intersect (Markers \union {Footnotes}) = {}
        /\ Glue(Shown(done), Stems(r.rest)) = Stems(fs)
        /\ FirstAt(r.html, Markers) = 0 \/ Len(head) >= n
  BY DEF Injected
<1>3. ToSet(tail) \intersect Markers = {}
  <2>1. CASE FirstAt(r.html, Markers) = 0
    <3> DEFINE h == Glue(done, tail)
    <3>1. h \in Seq(Pieces)
      BY GlueIn
    <3>2. ToSet(h) = ToSet(done) \union ToSet(tail)
      BY GlueToSet
    <3>3. h = r.html
      BY <1>2
    <3> HIDE DEF h
    <3>4. FirstAt(h, Markers) = 0 <=> ToSet(h) \intersect Markers = {}
      BY <3>1, NoneFirst
    <3>. QED  BY <2>1, <3>2, <3>3, <3>4
  <2>2. CASE Len(head) >= n
    <3>1. Len(body) = Len(head) + Len(tail)
      BY <1>2, GlueIn
    <3>2. Len(tail) \in Nat /\ Len(head) \in Nat /\ DOMAIN tail = 1 .. Len(tail)
      OBVIOUS
    <3>3. Len(tail) = 0
      BY <2>2, <3>1, <3>2
    <3>. QED  BY <3>2, <3>3 DEF ToSet
  <2>. QED  BY <1>2, <2>1, <2>2
<1>. QED  BY <1>1, <1>2, <1>3 DEF AllInjected

(* inject_samples, where it does not fail, replaces every marker, and      *)
(* shows samples in their order.                                           *)
LEMMA InjectIs ==
  ASSUME NEW body \in Seq(Pieces), NEW fs \in Seq(SampleFiles), ToSet(fs) \intersect Quoting = {},
         ToSet(body) \intersect SamplePieces = {}, ~ Behind(body),
         inject_samples(body, fs) # NoSamplesLeft
  PROVE  AllInjected(body, fs, inject_samples(body, fs))
<1> DEFINE N == Len(body) + Len(fs)
<1>1. Len(body) \in Nat /\ Len(fs) \in Nat
  OBVIOUS
<1>2. PICK f : /\ inject_samples(body, fs) = f[N]
               /\ f[0] = Rendering(body, fs)
               /\ \A n \in Nat : n + 1 <= N => f[n + 1] = InjectAtMarker(f[n])
  BY <1>1, InjectSteps
<1> DEFINE Q == {n \in Nat : n <= N => Injected(body, fs, f[n], n)}
<1>3. N \in Nat /\ N >= Len(body)
  BY <1>1
<1> HIDE DEF N
<1>4. 0 \in Q
  BY <1>2, InjectedAtFirst
<1>5. ASSUME NEW n \in Nat, n \in Q PROVE n + 1 \in Q
  <2> SUFFICES ASSUME n + 1 <= N PROVE Injected(body, fs, f[n + 1], n + 1)
    OBVIOUS
  <2>1. Injected(body, fs, f[n], n)
    BY <1>3, <1>5
  <2>2. Injected(body, fs, InjectAtMarker(f[n]), n + 1)
    BY <2>1, TurnKeeps
  <2>. QED  BY <1>2, <2>2
<1>6. N \in Q
  <2> HIDE DEF Q
  <2>1. \A n \in Nat : n \in Q
    BY <1>4, <1>5, SetInduction
  <2>. QED  BY <1>3, <2>1
<1>7. Injected(body, fs, f[N], N)
  BY <1>3, <1>6
<1>. QED  BY <1>2, <1>3, <1>7, InjectedAtLast

-----------------------------------------------------------------------------
(* What is left is shown behind what has been put in.                      *)
RemainingShown(r, done, html) ==
  /\ html \in Seq(Pieces)
  /\ Shown(html) = Glue(Shown(done), Stems(r.rest))
  /\ ToSet(r.rest) \intersect Quoting = {} => ToSet(html) \intersect Markers = {}

(* What is left is shown in its order when it is put at the end of the     *)
(* text.                                                                   *)
LEMMA RemainingAtEnd ==
  ASSUME NEW r, NEW done \in Seq(Pieces), NEW tail \in Seq(Pieces),
         r.html = Glue(done, tail), r.rest \in Seq(SampleFiles),
         ToSet(done) \intersect Markers = {},
         ToSet(tail) \intersect (SamplePieces \union Markers) = {}
  PROVE  RemainingShown(r, done, Glue(r.html, InHtml(r.rest)))
<1> DEFINE h == Glue(done, tail)
           in == InHtml(r.rest)
           u == Glue(h, in)
           sd == Shown(done)
           sr == Stems(r.rest)
           P == ToSet(r.rest) \intersect Quoting = {}
<1>1. in \in Seq(Pieces) /\ Shown(in) = sr /\ (P => ToSet(in) \subseteq SamplePieces)
  BY ShownInHtml, InHtmlPlain
<1>2. h \in Seq(Pieces) /\ ToSet(h) = ToSet(done) \union ToSet(tail)
  BY GlueIn, GlueToSet
<1>3. Shown(h) = Glue(sd, Shown(tail))
  BY ShownGlue
<1>4. Shown(tail) = <<>>
  BY ShownNothing
<1>5. Glue(sd, <<>>) = sd
  <2>1. sd \in Seq(STRING)
    BY ShownIs
  <2> HIDE DEF sd
  <2>. QED  BY <2>1, GlueEmpty
<1>6. r.html = h
  OBVIOUS
<1> HIDE DEF h, in, sd, sr, P
<1>7. h \in Seq(Pieces) /\ in \in Seq(Pieces)
  BY <1>1, <1>2
<1>8. u \in Seq(Pieces)
  BY <1>7, GlueIn
<1>9. ToSet(u) = ToSet(h) \union ToSet(in)
  BY <1>7, GlueToSet
<1>10. Shown(u) = Glue(Shown(h), Shown(in))
  BY <1>7, ShownGlue
<1> HIDE DEF u
<1>11. SamplePieces \intersect Markers = {}
  BY PiecesAre
<1>12. P => ToSet(u) \intersect Markers = {}
  BY <1>1, <1>2, <1>9, <1>11
<1>13. Shown(u) = Glue(sd, sr)
  BY <1>1, <1>3, <1>4, <1>5, <1>10
<1>14. RemainingShown(r, done, u)
  BY <1>8, <1>12, <1>13 DEF RemainingShown, sd, sr, P
<1>. QED  BY <1>6, <1>14 DEF u, in

(* What is left is shown in its order, in front of the footnotes or at the *)
(* end.                                                                    *)
LEMMA RemainingShownIs ==
  ASSUME NEW r, NEW done \in Seq(Pieces), NEW tail \in Seq(Pieces),
         r.html = Glue(done, tail), r.rest \in Seq(SampleFiles),
         ToSet(done) \intersect (Markers \union {Footnotes}) = {},
         ToSet(tail) \intersect (SamplePieces \union Markers) = {}
  PROVE  RemainingShown(r, done, WithRemaining(r))
<1> DEFINE h == Glue(done, tail)
           S == {Footnotes}
           i == FirstAt(h, S)
           in == InHtml(r.rest)
<1>0. r.html = h
  OBVIOUS
<1>1. WithRemaining(r) = IF i = 0 THEN Glue(h, in)
                         ELSE Replace(h, i, Append(in, Footnotes))
  <2> HIDE DEF h
  <2>. QED  BY <1>0 DEF WithRemaining, InHtml, Glue
<1>2. CASE i = 0
  <2>1. ToSet(done) \intersect Markers = {}
    OBVIOUS
  <2>2. RemainingShown(r, done, Glue(r.html, in))
    BY <2>1, RemainingAtEnd
  <2>3. WithRemaining(r) = Glue(r.html, in)
    BY <1>0, <1>1, <1>2
  <2>. QED  BY <2>2, <2>3
<1>3. CASE i # 0
  <2>1. SplitsAt(Pieces, S, done, tail, h, i)
    <3>1. ToSet(done) \intersect S = {} /\ FirstAt(Glue(done, tail), S) # 0
      BY <1>3
    <3> HIDE DEF S
    <3>. QED  BY <3>1, SplitInTail
  <2> HIDE DEF h, i
  <2>2. PICK a \in Seq(Pieces), c \in Seq(Pieces), p \in Pieces :
          /\ tail = Glue(Glue(a, <<p>>), c) /\ p \in S
          /\ SubSeq(h, 1, i - 1) = Glue(done, a)
          /\ SubSeq(h, i + 1, Len(h)) = c
    BY <2>1 DEF SplitsAt
  <2> DEFINE e == <<p>>
             ae == Glue(a, e)
             r1 == [html |-> Glue(done, a), rest |-> r.rest, raised |-> FALSE]
             w == Glue(Glue(done, a), in)
             ec == Glue(e, c)
             we == Glue(w, ec)
  <2>3. p = Footnotes
    BY <2>2
  <2>4. e \in Seq(Pieces) /\ ToSet(e) = {p}
    <3>1. e \in Seq(Pieces) /\ DOMAIN e = {1} /\ e[1] = p
      OBVIOUS
    <3> HIDE DEF e
    <3>. QED  BY <3>1 DEF ToSet
  <2> HIDE DEF e
  <2>5. ToSet(a) \union ToSet(c) \union {p} = ToSet(tail)
    <3>1. e \in Seq(Pieces)
      BY <2>4
    <3>2. ae \in Seq(Pieces) /\ tail = Glue(ae, c)
      BY <2>2, <3>1, GlueIn DEF e
    <3>3. ToSet(ae) = ToSet(a) \union ToSet(e)
      BY <3>1, GlueToSet
    <3> HIDE DEF ae
    <3>4. ToSet(tail) = ToSet(ae) \union ToSet(c)
      BY <3>2, GlueToSet
    <3>. QED  BY <2>4, <3>3, <3>4
  <2>6. RemainingShown(r1, done, w)
    <3>1. ToSet(a) \intersect (SamplePieces \union Markers) = {}
      BY <2>5
    <3>2. ToSet(done) \intersect Markers = {}
      OBVIOUS
    <3>3. r1.html = Glue(done, a) /\ r1.rest = r.rest
      BY Zenon
    <3> HIDE DEF r1
    <3>4. RemainingShown(r1, done, Glue(r1.html, InHtml(r1.rest)))
      BY <3>1, <3>2, <3>3, RemainingAtEnd
    <3>. QED  BY <3>3, <3>4
  <2> DEFINE P == ToSet(r.rest) \intersect Quoting = {}
  <2>7. w \in Seq(Pieces) /\ (P => ToSet(w) \intersect Markers = {})
        /\ Shown(w) = Glue(Shown(done), Stems(r.rest))
    <3>1. r1.rest = r.rest
      BY Zenon
    <3> HIDE DEF r1, w
    <3>. QED  BY <2>6, <3>1 DEF RemainingShown
  <2>8. ec \in Seq(Pieces) /\ ToSet(ec) = ToSet(e) \union ToSet(c)
    <3>1. e \in Seq(Pieces)
      BY <2>4
    <3>2. ec \in Seq(Pieces)
      BY <3>1, GlueIn
    <3>3. ToSet(ec) = ToSet(e) \union ToSet(c)
      BY <3>1, GlueToSet
    <3>. QED  BY <3>2, <3>3
  <2>9. Replace(h, i, Append(in, Footnotes)) = we
    <3>1. in \in Seq(Pieces) /\ Footnotes \in Pieces
      BY ShownInHtml, PiecesAre
    <3> DEFINE da == Glue(done, a)
    <3>2. da \in Seq(Pieces)
      BY GlueIn
    <3> HIDE DEF in, da
    <3>3. Append(in, Footnotes) = Glue(in, e)
      BY <2>3, <3>1, AppendIs DEF e
    <3>4. Replace(h, i, Append(in, Footnotes)) = Glue(Glue(da, Glue(in, e)), c)
      BY <2>2, <3>3 DEF Replace, Glue, da
    <3>5. in \in Seq(Pieces) /\ e \in Seq(Pieces)
      BY <2>4, <3>1
    <3>6. Glue(Glue(da, in), e) = Glue(da, Glue(in, e))
      BY <3>2, <3>5, GlueGlue
    <3> DEFINE di == Glue(da, in)
    <3>7. di \in Seq(Pieces)
      BY <3>2, <3>5, GlueIn
    <3> HIDE DEF di
    <3>8. Glue(Glue(di, e), c) = Glue(di, Glue(e, c))
      BY <3>5, <3>7, GlueGlue
    <3>. QED  BY <3>4, <3>6, <3>8 DEF di, da
  <2> HIDE DEF w, ec
  <2>10. w \in Seq(Pieces) /\ ec \in Seq(Pieces)
    BY <2>7, <2>8
  <2>11. we \in Seq(Pieces)
    BY <2>10, GlueIn
  <2>12. ToSet(we) = ToSet(w) \union ToSet(ec)
    BY <2>10, GlueToSet
  <2>13. Shown(we) = Glue(Shown(w), Shown(ec))
    BY <2>10, ShownGlue
  <2> HIDE DEF we
  <2>14. ToSet(ec) \intersect (SamplePieces \union Markers) = {}
    BY <2>4, <2>5, <2>8
  <2>15. Shown(ec) = <<>>
    BY <2>10, <2>14, ShownNothing
  <2>16. Glue(Shown(w), <<>>) = Shown(w)
    <3> DEFINE sw == Shown(w)
    <3>1. sw \in Seq(STRING)
      BY <2>10, ShownIs
    <3> HIDE DEF sw
    <3>2. Glue(sw, <<>>) = sw
      BY <3>1, GlueEmpty
    <3>. QED  BY <3>2 DEF sw
  <2>17. WithRemaining(r) = we
    BY <1>1, <1>3, <2>9
  <2>. QED  BY <2>7, <2>11, <2>12, <2>13, <2>14, <2>15, <2>16, <2>17 DEF RemainingShown
<1>. QED  BY <1>2, <1>3

(* The samples of an HTML statement are sample files.                      *)
LEMMA FormattedAre ==
  ASSUME NEW samples
  PROVE  /\ format_samples(samples) \in Seq(SampleFiles)
         /\ ToSet(format_samples(samples)) \subseteq samples
<1> DEFINE S == {s \in samples :
                   \/ s[2] = "interaction"
                   \/ /\ s[2] = "in"
                      /\ <<s[1], "interaction">> \notin samples
                      /\ <<s[1], "ans">> \in samples}
           k == Kept(FileOrder, S)
<1>1. FileOrder \in Seq(SampleFiles)
  <2>1. Len(FileOrder) \in Nat /\ FileOrder \in [1 .. Len(FileOrder) -> SampleFiles]
    BY OrderAssumption, LenProperties DEF SampleFiles, ToSet
  <2>. QED  BY <2>1, SeqDef
<1>2. format_samples(samples) = k
  BY DEF format_samples
<1>3. S \subseteq samples
  OBVIOUS
<1> HIDE DEF S
<1>4. k \in Seq(SampleFiles) /\ ToSet(k) = ToSet(FileOrder) \intersect S
  BY <1>1, KeptIs
<1>. QED  BY <1>2, <1>3, <1>4

(* A Markdown statement shows the samples, each once and in order.         *)
LEMMA StatementShows ==
  ASSUME NEW f, NEW samples, f.body \in Seq({Text, Footnotes} \union Markers),
         md2html(f, samples) # Null, samples \intersect Quoting = {},
         ~ MarkerBehindFootnotes(f.body)
  PROVE  /\ ShownIn(md2html(f, samples)) = Stems(format_samples(samples))
         /\ FirstAt(md2html(f, samples), Markers) = 0
<1> DEFINE body == f.body
           fs == format_samples(samples)
           r == inject_samples(body, fs)
           html == md2html(f, samples)
<1>1. fs \in Seq(SampleFiles) /\ ToSet(fs) \intersect Quoting = {}
  BY FormattedAre
<1>2. /\ body \in Seq(Pieces) /\ ToSet(body) \intersect SamplePieces = {} /\ ~ Behind(body)
  <2> DEFINE T == {Text, Footnotes} \union Markers
  <2>1. T \subseteq Pieces /\ T \intersect SamplePieces = {}
    BY PiecesAre
  <2>2. ToSet(body) \subseteq T
    BY DEF ToSet
  <2>3. body \in Seq(Pieces)
    <3> HIDE DEF T
    <3>. QED  BY <2>1, SeqMonotonic DEF T
  <2>. QED  BY <2>1, <2>2, <2>3 DEF Behind
<1>3. html = IF r.raised THEN Null ELSE WithRemaining(r)
  BY DEF md2html
<1>4. html = WithRemaining(r) /\ r # NoSamplesLeft
  <2>1. NoSamplesLeft.raised
    BY DEF NoSamplesLeft
  <2> HIDE DEF r
  <2>. QED  BY <1>3, <2>1
<1> HIDE DEF fs, body, html
<1>5. AllInjected(body, fs, r)
  BY <1>1, <1>2, <1>4, InjectIs
<1> HIDE DEF r
<1>6. PICK head \in Seq(Pieces), done \in Seq(Pieces), tail \in Seq(Pieces) :
        /\ body = Glue(head, tail)
        /\ r.html = Glue(done, tail)
        /\ ToSet(done) \intersect (Markers \union {Footnotes}) = {}
        /\ Glue(Shown(done), Stems(r.rest)) = Stems(fs)
        /\ ToSet(tail) \intersect Markers = {}
  BY <1>5 DEF AllInjected
<1>7. r.rest \in Seq(SampleFiles) /\ ToSet(r.rest) \intersect Quoting = {}
  BY <1>1, <1>5 DEF AllInjected
<1>8. ToSet(tail) \intersect (SamplePieces \union Markers) = {}
  <2>1. ToSet(body) = ToSet(head) \union ToSet(tail)
    BY <1>6, GlueToSet
  <2>. QED  BY <1>2, <1>6, <2>1
<1>9. RemainingShown(r, done, html)
  BY <1>4, <1>6, <1>7, <1>8, RemainingShownIs
<1>10. html \in Seq(Pieces) /\ Shown(html) = Stems(fs) /\ ToSet(html) \intersect Markers = {}
  BY <1>6, <1>7, <1>9 DEF RemainingShown
<1>11. ShownIn(html) = Shown(html)
  BY <1>10, ShownIs
<1>12. FirstAt(html, Markers) = 0
  BY <1>10, NoneFirst
<1>. QED  BY <1>10, <1>11, <1>12 DEF html, fs

(* A statement in Markdown that renders shows, in HTML, the samples of the *)
(* package, each once and in order, and no marker is left: however the     *)
(* markers and the footnotes are arranged (but for markers behind the      *)
(* footnotes), how many samples there are, and which of them the markers   *)
(* take before the rest is added (inject_samples and md2html).             *)
THEOREM SamplesAreShown == LoadSpec => []SamplesShownOnceInOrder
<1>1. LInv => SamplesShownOnceInOrder
  <2> SUFFICES ASSUME LInv, NEW f \in ToSet(pkg.statements),
                      md2html(f, pkg.samples) # Null, pkg.samples \intersect Quoting = {},
                      ~ MarkerBehindFootnotes(f.body)
               PROVE  /\ ShownIn(md2html(f, pkg.samples)) =
                           MapSeq(LAMBDA s : s[1], format_samples(pkg.samples))
                      /\ FirstAt(md2html(f, pkg.samples), Markers) = 0
    BY DEF SamplesShownOnceInOrder
  <2>1. f.body \in Seq({Text, Footnotes} \union Markers)
    BY PackagesAssumption DEF LInv
  <2>. QED  BY <2>1, StatementShows DEF Stems
<1>. QED  BY <1>1, LInvHolds, PTL

(* Without markers, a Markdown statement shows all samples.                *)
LEMMA PlainStatementShows ==
  ASSUME NEW f, NEW samples, f.body \in Seq({Text, Footnotes} \union Markers),
         md2html(f, samples) # Null, FirstAt(f.body, Markers) = 0
  PROVE  ShownIn(md2html(f, samples)) = Stems(format_samples(samples))
<1> DEFINE body == f.body
           fs == format_samples(samples)
           r == Rendering(body, fs)
           html == md2html(f, samples)
           z == <<>>
<1>1. fs \in Seq(SampleFiles) /\ Len(fs) \in Nat
  BY FormattedAre
<1>2. body \in Seq(Pieces) /\ ToSet(body) \intersect SamplePieces = {} /\ Len(body) \in Nat
  <2> DEFINE T == {Text, Footnotes} \union Markers
  <2>1. T \subseteq Pieces /\ T \intersect SamplePieces = {}
    BY PiecesAre
  <2>2. ToSet(body) \subseteq T
    BY DEF ToSet
  <2>3. body \in Seq(Pieces)
    <3> HIDE DEF T
    <3>. QED  BY <2>1, SeqMonotonic DEF T
  <2>. QED  BY <2>1, <2>2, <2>3
<1>3. ToSet(body) \intersect Markers = {}
  <2> HIDE DEF body
  <2>1. FirstAt(body, Markers) = 0
    BY DEF body
  <2>. QED  BY <1>2, <2>1, NoneFirst
<1>4. inject_samples(body, fs) = r
  <2> HIDE DEF fs, body
  <2>1. FirstAt(body, Markers) = 0
    BY DEF body
  <2>. QED  BY <1>1, <1>2, <2>1, NothingInjected
<1>5. html = IF r.raised THEN Null ELSE WithRemaining(r)
  BY <1>4 DEF md2html
<1> HIDE DEF fs, body
<1>6. r.html = body /\ r.rest = fs
  BY RenderingHas
<1> HIDE DEF r
<1>7. html = WithRemaining(r)
  BY <1>5
<1> HIDE DEF html
<1>8. z \in Seq(Pieces) /\ ToSet(z) = {}
  BY DEF ToSet
<1>9. Shown(z) = <<>>
  BY <1>8, ShownNothing
<1>10. r.html = Glue(z, body)
  BY <1>2, <1>6, GlueEmpty
<1> HIDE DEF z
<1>11. RemainingShown(r, z, html)
  <2>1. /\ r.rest \in Seq(SampleFiles)
        /\ ToSet(z) \intersect (Markers \union {Footnotes}) = {}
        /\ ToSet(body) \intersect (SamplePieces \union Markers) = {}
    BY <1>1, <1>2, <1>3, <1>6, <1>8
  <2>2. RemainingShown(r, z, WithRemaining(r))
    BY <1>2, <1>8, <1>10, <2>1, RemainingShownIs
  <2>. QED  BY <1>7, <2>2
<1>12. html \in Seq(Pieces) /\ Shown(html) = Glue(<<>>, Stems(fs))
  BY <1>6, <1>9, <1>11 DEF RemainingShown
<1>13. Glue(<<>>, Stems(fs)) = Stems(fs)
  <2> DEFINE st == Stems(fs)
  <2>1. st \in Seq(STRING)
    BY <1>1, StemsAre
  <2> HIDE DEF st
  <2>2. Glue(<<>>, st) = st
    BY <2>1, GlueEmpty
  <2>. QED  BY <2>2 DEF st
<1>14. ShownIn(html) = Shown(html)
  BY <1>12, ShownIs
<1>. QED  BY <1>12, <1>13, <1>14 DEF html, fs

(* The samples as problem2html shows them if the statement names none.     *)
FormattedOf(samples) ==
  {s \in samples :
     \/ s[2] = "interaction"
     \/ /\ s[2] = "in"
        /\ <<s[1], "interaction">> \notin samples
        /\ <<s[1], "ans">> \in samples}

(* The samples of Markdown and those of LaTeX are the same, unless their   *)
(* files sort otherwise than their stems.                                  *)
LEMMA SameSamples ==
  ASSUME NEW samples, samples \subseteq ToSet(FileOrder), ~ LatexMisses(samples),
         \A s, t \in ToSet(format_samples(samples)) : ~ SortDifferently(s, t)
  PROVE  Stems(format_samples(samples)) = TemplateSamples(samples)
<1> DEFINE S == FormattedOf(samples)
           fs == Kept(FileOrder, S)
           U == {stem \in ToSet(StemOrder) :
                   <<stem, "in">> \in samples \/ <<stem, "interaction">> \in samples}
           ts == Kept(StemOrder, U)
           st == Stems(fs)
<1>1. format_samples(samples) = fs /\ TemplateSamples(samples) = ts
  BY DEF format_samples, TemplateSamples, FormattedOf
<1>2. FileOrder \in Seq(SampleFiles) /\ IsInjective(FileOrder)
  <2>1. Len(FileOrder) \in Nat /\ FileOrder \in [1 .. Len(FileOrder) -> SampleFiles]
    BY OrderAssumption, LenProperties DEF SampleFiles, ToSet
  <2>. QED  BY <2>1, SeqDef, OrderAssumption
<1>3. /\ \A s \in SampleFiles : s[1] \in ToSet(StemOrder) /\ s = <<s[1], s[2]>>
      /\ StemOrder \in Seq(STRING) /\ IsInjective(StemOrder)
  <2>1. FileOrder \in Seq(STRING \X STRING)
    BY OrderAssumption
  <2>2. SampleFiles \subseteq STRING \X STRING
    BY <2>1 DEF SampleFiles, ToSet
  <2>. QED  BY <2>2, OrderAssumption DEF SampleFiles
<1>4. /\ fs \in Seq(SampleFiles) /\ ToSet(fs) = S
      /\ \A i, j \in DOMAIN fs : i < j => Before(FileOrder, fs[i], fs[j])
  <2>1. S \subseteq SampleFiles
    BY DEF FormattedOf, SampleFiles
  <2> HIDE DEF S
  <2>2. fs \in Seq(SampleFiles) /\ ToSet(fs) = ToSet(FileOrder) \intersect S
    BY <1>2, KeptIs
  <2>3. \A i, j \in DOMAIN fs : i < j => Before(FileOrder, fs[i], fs[j])
    BY <1>2, KeptBefore
  <2>. QED  BY <2>1, <2>2, <2>3 DEF SampleFiles
<1>5. /\ ts \in Seq(STRING) /\ ToSet(ts) = U /\ IsOrdered(StemOrder, ts)
  <2>1. U \subseteq ToSet(StemOrder)
    OBVIOUS
  <2> HIDE DEF U
  <2>2. ts \in Seq(STRING) /\ ToSet(ts) = ToSet(StemOrder) \intersect U
    BY <1>3, KeptIs
  <2>3. \A i, j \in DOMAIN ts : i < j => Before(StemOrder, ts[i], ts[j])
    BY <1>3, KeptBefore
  <2>. QED  BY <2>1, <2>2, <2>3 DEF IsOrdered
<1> HIDE DEF fs, ts
<1>6. /\ st \in Seq(STRING) /\ Len(st) = Len(fs)
      /\ \A i \in 1 .. Len(fs) : st[i] = fs[i][1]
  BY <1>4, StemsAre
<1>7. Len(fs) \in Nat /\ DOMAIN fs = 1 .. Len(fs) /\ DOMAIN st = 1 .. Len(fs)
  BY <1>4, <1>6
<1> HIDE DEF st
<1>8. ToSet(st) = {s[1] : s \in S}
  <2>1. ToSet(st) = {fs[i][1] : i \in 1 .. Len(fs)}
    BY <1>6, <1>7 DEF ToSet
  <2>2. S = {fs[i] : i \in 1 .. Len(fs)}
    BY <1>4, <1>7 DEF ToSet
  <2> HIDE DEF S
  <2>. QED  BY <2>1, <2>2
<1>9. ToSet(st) = U
  <2>1. ASSUME NEW s \in S PROVE s[1] \in U
    <3>1. s \in SampleFiles /\ s \in samples /\ s = <<s[1], s[2]>> /\ s[1] \in ToSet(StemOrder)
      BY <1>3 DEF FormattedOf, SampleFiles
    <3>2. s[2] = "in" \/ s[2] = "interaction"
      BY DEF FormattedOf
    <3>3. <<s[1], "in">> \in samples \/ <<s[1], "interaction">> \in samples
      BY <3>1, <3>2
    <3>. QED  BY <3>1, <3>3
  <2>2. ASSUME NEW stem \in U PROVE \E s \in S : s[1] = stem
    <3>1. CASE <<stem, "interaction">> \in samples
      <4>1. <<stem, "interaction">> \in S
        BY <3>1 DEF FormattedOf
      <4>. QED  BY <4>1
    <3>2. CASE <<stem, "interaction">> \notin samples
      <4>1. <<stem, "in">> \in samples
        BY <3>2
      <4>2. <<stem, "ans">> \in samples
        <5>1. {<<stem, "ans">>, <<stem, "interaction">>} \intersect samples # {}
          BY <1>1, <1>5 DEF LatexMisses
        <5>. QED  BY <3>2, <5>1
      <4>3. <<stem, "in">> \in S
        BY <3>2, <4>1, <4>2 DEF FormattedOf
      <4>. QED  BY <4>3
    <3>. QED  BY <3>1, <3>2
  <2> HIDE DEF S, U
  <2>. QED  BY <1>8, <2>1, <2>2
<1>10. IsOrdered(StemOrder, st)
  <2> SUFFICES ASSUME NEW i \in 1 .. Len(fs), NEW j \in 1 .. Len(fs), i < j
               PROVE  Before(StemOrder, st[i], st[j])
    BY <1>7 DEF IsOrdered
  <2> DEFINE s == fs[i]
             t == fs[j]
  <2>1. s \in ToSet(fs) /\ t \in ToSet(fs) /\ Before(FileOrder, s, t)
    BY <1>4, <1>7 DEF ToSet
  <2>2. st[i] = s[1] /\ st[j] = t[1]
    BY <1>6
  <2> HIDE DEF s, t
  <2>3. s \in S /\ t \in S /\ s \in SampleFiles /\ t \in SampleFiles
    BY <1>4, <2>1 DEF FormattedOf, SampleFiles
  <2>4. ~ Before(StemOrder, t[1], s[1])
    BY <1>1, <2>1 DEF SortDifferently
  <2>5. s # t
    BY <1>2, <2>1, BeforeIs
  <2>6. s[1] # t[1]
    <3> SUFFICES ASSUME s[1] = t[1] PROVE FALSE
      OBVIOUS
    <3>1. s = <<s[1], s[2]>> /\ t = <<s[1], t[2]>> /\ s \in samples /\ t \in samples
      BY <1>3, <2>3 DEF FormattedOf
    <3>2. s[2] # t[2]
      BY <2>5, <3>1
    <3>3. s[2] = "interaction" \/ (s[2] = "in" /\ <<s[1], "interaction">> \notin samples)
      BY <2>3 DEF FormattedOf
    <3>4. t[2] = "interaction" \/ (t[2] = "in" /\ <<s[1], "interaction">> \notin samples)
      BY <2>3 DEF FormattedOf
    <3>. QED  BY <3>1, <3>2, <3>3, <3>4
  <2>7. s[1] \in ToSet(StemOrder) /\ t[1] \in ToSet(StemOrder)
    BY <1>3, <2>3
  <2>8. Before(StemOrder, s[1], t[1])
    BY <1>3, <2>4, <2>6, <2>7, BeforeIs
  <2>. QED  BY <2>2, <2>8
<1>11. st = ts
  <2> HIDE DEF U
  <2>. QED  BY <1>3, <1>5, <1>6, <1>9, <1>10, SameOrder
<1>. QED  BY <1>1, <1>11 DEF st

(* Sequences of reports, however they are put together.                    *)
LEMMA SeqsGlue ==
  ASSUME NEW s, NEW t, IsSeq(s), IsSeq(t)
  PROVE  IsSeq(s \o t) /\ ToSet(s \o t) = ToSet(s) \union ToSet(t)
<1> DEFINE T == ToSet(s) \union ToSet(t)
           u == s \o t
<1>1. s \in Seq(T) /\ t \in Seq(T)
  <2>1. ToSet(s) \subseteq T /\ ToSet(t) \subseteq T
    OBVIOUS
  <2>2. s \in Seq(ToSet(s)) /\ t \in Seq(ToSet(t))
    BY DEF IsSeq
  <2> HIDE DEF T
  <2>. QED  BY <2>1, <2>2, SeqMonotonic
<1>2. u = Glue(s, t)
  BY DEF Glue
<1> HIDE DEF T, u
<1>3. u \in Seq(T) /\ ToSet(u) = ToSet(s) \union ToSet(t)
  BY <1>1, <1>2, GlueIs
<1>4. IsSeq(u)
  BY <1>3, InSeqIs
<1>. QED  BY <1>3, <1>4 DEF u

(* Reports put together from several checks are a sequence with all of     *)
(* theirs.                                                                 *)
LEMMA SeqsFlatten ==
  ASSUME NEW ss, NEW n \in Nat, DOMAIN ss = 1 .. n, IsFunction(ss),
         \A i \in 1 .. n : IsSeq(ss[i])
  PROVE  /\ IsSeq(FlattenSeq(ss))
         /\ \A i \in 1 .. n : ToSet(ss[i]) \subseteq ToSet(FlattenSeq(ss))
<1> DEFINE T == UNION {ToSet(ss[i]) : i \in 1 .. n}
           f == FlattenSeq(ss)
<1>1. \A i \in 1 .. n : ss[i] \in Seq(T)
  <2> TAKE i \in 1 .. n
  <2>1. ss[i] \in Seq(ToSet(ss[i])) /\ ToSet(ss[i]) \subseteq T
    BY DEF IsSeq
  <2> HIDE DEF T
  <2>. QED  BY <2>1, SeqMonotonic
<1> HIDE DEF T
<1>2. ss \in [1 .. n -> Seq(T)]
  BY <1>1 DEF IsFunction
<1>3. ss \in Seq(Seq(T))
  BY <1>2, SeqDef
<1>4. f \in Seq(T) /\ ToSet(f) = UNION {ToSet(ss[i]) : i \in DOMAIN ss}
  BY <1>3, FlattenHolds
<1> HIDE DEF f
<1>5. IsSeq(f)
  BY <1>4, InSeqIs
<1>. QED  BY <1>4, <1>5 DEF f

(* A report is made if its condition holds.                                *)
LEMMA WhenIs ==
  ASSUME NEW r
  PROVE  /\ \A c : IsSeq(When(c, r))
         /\ \A c : c => r \in ToSet(When(c, r))
<1>1. IsSeq(<<>>) /\ IsSeq(<<r>>)
  BY ShortSeqs
<1>2. r \in ToSet(<<r>>)
  <2>1. 1 \in DOMAIN <<r>> /\ <<r>>[1] = r
    OBVIOUS
  <2>. QED  BY <2>1 DEF ToSet
<1>3. \A c : When(c, r) \in {<<>>, <<r>>} /\ (c => When(c, r) = <<r>>)
  BY DEF When
<1>. QED  BY <1>1, <1>2, <1>3

(* The reports on each element of a finite set, in some order.             *)
LEMMA EachIs ==
  ASSUME NEW S, IsFiniteSet(S), NEW r
  PROVE  IsSeq([i \in DOMAIN SetToSeq(S) |-> r])
<1> DEFINE s == SetToSeq(S)
           ss == [i \in DOMAIN s |-> r]
           n == Len(s)
<1>1. s \in Seq(S)
  BY SetToSeqIs
<1> HIDE DEF s
<1>2. n \in Nat /\ DOMAIN s = 1 .. n
  BY <1>1
<1> HIDE DEF n
<1>3. DOMAIN ss = 1 .. n /\ IsFunction(ss)
  BY <1>2 DEF IsFunction
<1> HIDE DEF ss
<1>4. IsSeq(ss)
  BY <1>2, <1>3, SeqIs
<1>. QED  BY <1>4 DEF ss, s

(* What is reported of each element of a set is among the reports.         *)
LEMMA EachIn ==
  ASSUME NEW S, IsFiniteSet(S), NEW f, \A x \in S : IsSeq(f[x]),
         NEW ss, ss = [i \in DOMAIN SetToSeq(S) |-> f[SetToSeq(S)[i]]]
  PROVE  /\ IsSeq(FlattenSeq(ss))
         /\ \A x \in S : ToSet(f[x]) \subseteq ToSet(FlattenSeq(ss))
<1> DEFINE s == SetToSeq(S)
           n == Len(s)
<1>1. s \in Seq(S) /\ ToSet(s) = S
  BY SetToSeqIs
<1>0. ss = [i \in DOMAIN s |-> f[s[i]]]
  OBVIOUS
<1> HIDE DEF s
<1>2. n \in Nat /\ DOMAIN s = 1 .. n /\ \A i \in 1 .. n : s[i] \in S
  BY <1>1
<1> HIDE DEF n
<1>3. DOMAIN ss = 1 .. n /\ IsFunction(ss) /\ \A i \in 1 .. n : ss[i] = f[s[i]]
  BY <1>0, <1>2 DEF IsFunction
<1>4. \A i \in 1 .. n : IsSeq(ss[i])
  BY <1>2, <1>3
<1>5. /\ IsSeq(FlattenSeq(ss))
      /\ \A i \in 1 .. n : ToSet(ss[i]) \subseteq ToSet(FlattenSeq(ss))
  BY <1>2, <1>3, <1>4, SeqsFlatten
<1>6. \A x \in S : \E i \in 1 .. n : s[i] = x
  BY <1>1, <1>2 DEF ToSet
<1>. QED  BY <1>3, <1>5, <1>6

(* A report on some elements of a sequence.                                *)
LEMMA SomeIs ==
  ASSUME NEW s, IsSeq(s), NEW r,
         NEW ss, IsFunction(ss), DOMAIN ss = DOMAIN s,
         \A i \in DOMAIN s : ss[i] \in {<<>>, <<r>>}
  PROVE  IsSeq(FlattenSeq(ss))
<1> DEFINE n == Len(s)
<1>1. n \in Nat /\ DOMAIN s = 1 .. n
  BY SeqHas
<1> HIDE DEF n
<1>2. IsSeq(<<>>) /\ IsSeq(<<r>>)
  BY ShortSeqs
<1>3. DOMAIN ss = 1 .. n /\ \A i \in 1 .. n : IsSeq(ss[i])
  BY <1>1, <1>2
<1>. QED  BY <1>1, <1>3, SeqsFlatten

-----------------------------------------------------------------------------
(* The checks of the configuration, one after another, give sequences of   *)
(* reports.                                                                *)
LEMMA RightsReports == \A m : IsSeq(CheckRights(m))
<1> DEFINE r1 == Error("rights_owner in public domain")
           r2 == Error("nobody holds the rights")
<1> SUFFICES ASSUME NEW m PROVE IsSeq(CheckRights(m))
  OBVIOUS
<1>1. \/ \E c : CheckRights(m) = When(c, r1)
      \/ \E c : CheckRights(m) = When(c, r2)
  BY DEF CheckRights
<1> HIDE DEF r1, r2
<1>. QED  BY <1>1, WhenIs

(* So does the check of the authors,                                       *)
LEMMA AuthorReports ==
  ASSUME NEW s, IsSeq(s)
  PROVE  IsSeq(FlattenSeq(MapSeq(LAMBDA a : When(a.name \in Separators, Warning("author name")), s)))
<1> DEFINE r == Warning("author name")
           ss == MapSeq(LAMBDA a : When(a.name \in Separators, r), s)
<1>1. ss = [i \in DOMAIN s |-> When(s[i].name \in Separators, r)]
  BY DEF MapSeq
<1> HIDE DEF ss, r
<1>2. IsFunction(ss) /\ DOMAIN ss = DOMAIN s
  BY <1>1 DEF IsFunction
<1>3. \A i \in DOMAIN s : ss[i] \in {<<>>, <<r>>}
  BY <1>1 DEF When
<1>4. IsSeq(FlattenSeq(ss))
  BY <1>2, <1>3, SomeIs
<1>. QED  BY <1>4 DEF ss, r

(* that of the validation,                                                 *)
LEMMA ValidationReports ==
  ASSUME NEW validation, IsSeq(validation)
  PROVE  IsSeq(CheckValidation(validation))
<1>1. CASE validation = <<>>
  <2>1. CheckValidation(validation) = <<>>
    BY <1>1 DEF CheckValidation
  <2>. QED  BY <2>1, ShortSeqs
<1>2. CASE validation # <<>>
  <2> DEFINE kind == validation[1]
             params == Tail(validation)
             r == Error("validation")
             e == Error("validation parameter")
             c1 == kind \notin {"default", "custom"}
             c2 == kind = "default" /\ params # <<>>
             p1 == When(c1, r)
             p2 == When(c2, r)
             ss == MapSeq(LAMBDA p : When(p \notin {"score", "interactive"}, e), params)
             p3 == IF kind # "custom" THEN <<>> ELSE FlattenSeq(ss)
  <2>1. CheckValidation(validation) = p1 \o p2 \o p3
    <3>1. validation # <<>>
      BY <1>2
    <3>. QED  BY <3>1 DEF CheckValidation
  <2>2. IsSeq(params)
    <3>1. params \in Seq(ToSet(validation))
      BY <1>2, HeadTailProperties DEF IsSeq
    <3>. QED  BY <3>1, InSeqIs
  <2>3. ss = [i \in DOMAIN params |-> When(params[i] \notin {"score", "interactive"}, e)]
    BY DEF MapSeq
  <2> HIDE DEF ss, r, e, params, c1, c2
  <2>4. IsFunction(ss) /\ DOMAIN ss = DOMAIN params
    BY <2>3 DEF IsFunction
  <2>5. \A i \in DOMAIN params : ss[i] \in {<<>>, <<e>>}
    BY <2>3 DEF When
  <2>6. IsSeq(FlattenSeq(ss))
    BY <2>2, <2>4, <2>5, SomeIs
  <2>7. IsSeq(p3)
    BY <2>6, ShortSeqs
  <2>8. IsSeq(p1) /\ IsSeq(p2)
    BY WhenIs
  <2> HIDE DEF p1, p2, p3
  <2>9. IsSeq(p1 \o p2)
    BY <2>8, SeqsGlue
  <2>10. IsSeq(p1 \o p2 \o p3)
    BY <2>7, <2>9, SeqsGlue
  <2>. QED  BY <2>1, <2>10
<1>. QED  BY <1>1, <1>2

(* and that of the grading.                                                *)
LEMMA GradingReports ==
  \A m, v, groups : IsSeq(CheckGrading(m, v, groups))
<1> SUFFICES ASSUME NEW m, NEW v, NEW groups PROVE IsSeq(CheckGrading(m, v, groups))
  OBVIOUS
<1> DEFINE g == m.legacy_grading
           r1 == Error("groups shown in pass-fail")
           r2 == Warning("show_test_data_groups not given")
           r3 == Error("on_reject in pass-fail")
           r4 == Warning("deprecated grading key")
           c1 == g.show_test_data_groups /\ is_pass_fail(m)
           c2 == /\ is_scoring(m) /\ groups /\ v = LEGACY
                 /\ ~ m.show_test_data_groups_explicitly_set
           c3 == is_pass_fail(m) /\ g.on_reject = "grade"
           S == {k \in {"accept_score", "reject_score", "range", "on_reject"} : g[k] # Null}
           p1 == When(c1, r1)
           p2 == When(c2, r2)
           p3 == When(c3, r3)
           p4 == [i \in DOMAIN SetToSeq(S) |-> r4]
<1>1. CheckGrading(m, v, groups) = p1 \o p2 \o p3 \o p4
  BY DEF CheckGrading, ForEach, MapSeq
<1>2. IsFiniteSet(S)
  <2> DEFINE U == {"accept_score", "reject_score", "range", "on_reject"}
  <2>1. IsFiniteSet(U)
    <3>1. \A a, b, c, d : IsFiniteSet({a, b, c, d})
      <4> TAKE a, b, c, d
      <4>1. IsFiniteSet({a}) /\ IsFiniteSet({b}) /\ IsFiniteSet({c}) /\ IsFiniteSet({d})
        BY FS_EmptySet, FS_AddElement
      <4>2. IsFiniteSet({a} \union {b})
        BY <4>1, FS_Union
      <4>3. IsFiniteSet(({a} \union {b}) \union {c})
        BY <4>1, <4>2, FS_Union
      <4>4. IsFiniteSet((({a} \union {b}) \union {c}) \union {d})
        BY <4>1, <4>3, FS_Union
      <4>5. {a, b, c, d} = (({a} \union {b}) \union {c}) \union {d}
        OBVIOUS
      <4>. QED  BY <4>4, <4>5
    <3>. QED  BY <3>1
  <2>2. S \subseteq U
    OBVIOUS
  <2> HIDE DEF U, S
  <2>. QED  BY <2>1, <2>2, FS_Subset
<1> HIDE DEF S, r1, r2, r3, r4, c1, c2, c3
<1>3. IsSeq(p4)
  BY <1>2, EachIs
<1>4. IsSeq(p1) /\ IsSeq(p2) /\ IsSeq(p3)
  BY WhenIs
<1> HIDE DEF p1, p2, p3, p4
<1>5. IsSeq(p1 \o p2)
  BY <1>4, SeqsGlue
<1>6. IsSeq(p1 \o p2 \o p3)
  BY <1>4, <1>5, SeqsGlue
<1>7. IsSeq(p1 \o p2 \o p3 \o p4)
  BY <1>3, <1>6, SeqsGlue
<1>. QED  BY <1>1, <1>7

(* check_config gives a sequence of reports, with an error if a language   *)
(* has a name and no statement.                                            *)
LEMMA ConfigReports ==
  ASSUME NEW m, IsLoaded(m), NEW v, NEW langs, NEW groups
  PROVE  /\ IsSeq(check_config(m, v, langs, groups))
         /\ ~ DOMAIN m.name \subseteq langs =>
              Error("name without statement") \in ToSet(check_config(m, v, langs, groups))
<1> DEFINE S == {pair \in INCOMPATIBLE : pair \subseteq m.type}
           r1 == Error("incompatible types")
           r2 == Warning("submit-answer")
           r5 == Warning("license")
           r6 == error_in_2023_07(v, "uuid")
           r7 == Error("name without statement")
           r10 == Warning("time limit")
           r11 == Warning("time resolution")
           c2 == is_submit_answer(m)
           c5 == m.license = "unknown"
           c6 == m.uuid = Null
           c7 == ~ DOMAIN m.name \subseteq langs
           c10 == m.limits.time_limit # Null /\ ~ IsInteger(m.limits.time_limit)
           c11 == ~ IsInteger(m.limits.time_resolution)
           p1 == [i \in DOMAIN SetToSeq(S) |-> r1]
           p2 == When(c2, r2)
           p3 == CheckRights(m)
           p4 == FlattenSeq(MapSeq(LAMBDA a : When(a.name \in Separators, Warning("author name")),
                                   m.credits.authors))
           p5 == When(c5, r5)
           p6 == When(c6, r6)
           p7 == When(c7, r7)
           p8 == CheckGrading(m, v, groups)
           p9 == CheckValidation(m.legacy_validation)
           p10 == When(c10, r10)
           p11 == When(c11, r11)
<1>1. check_config(m, v, langs, groups) =
        p1 \o p2 \o p3 \o p4 \o p5 \o p6 \o p7 \o p8 \o p9 \o p10 \o p11
  BY DEF check_config, ForEach, MapSeq
<1>2. IsFiniteSet(S)
  <2>1. IsFiniteSet(INCOMPATIBLE)
    <3>1. \A a, b, c : IsFiniteSet({a, b, c})
      <4> TAKE a, b, c
      <4>1. IsFiniteSet({a}) /\ IsFiniteSet({b}) /\ IsFiniteSet({c})
        BY FS_EmptySet, FS_AddElement
      <4>2. IsFiniteSet({a} \union {b})
        BY <4>1, FS_Union
      <4>3. IsFiniteSet(({a} \union {b}) \union {c})
        BY <4>1, <4>2, FS_Union
      <4>5. {a, b, c} = ({a} \union {b}) \union {c}
        OBVIOUS
      <4>. QED  BY <4>3, <4>5
    <3>. QED  BY <3>1 DEF INCOMPATIBLE
  <2>2. S \subseteq INCOMPATIBLE
    OBVIOUS
  <2> HIDE DEF S
  <2>. QED  BY <2>1, <2>2, FS_Subset
<1>3. IsSeq(p4)
  <2>1. IsSeq(m.credits.authors)
    BY DEF IsLoaded
  <2>. QED  BY <2>1, AuthorReports
<1>4. IsSeq(p9)
  <2>1. IsSeq(m.legacy_validation)
    BY DEF IsLoaded
  <2>. QED  BY <2>1, ValidationReports
<1>5. IsSeq(p3) /\ IsSeq(p8)
  BY RightsReports, GradingReports
<1> HIDE DEF S, r1, r2, r5, r6, r7, r10, r11, c2, c5, c6, c7, c10, c11
<1>6. IsSeq(p1)
  BY <1>2, EachIs
<1>7. IsSeq(p2) /\ IsSeq(p5) /\ IsSeq(p6) /\ IsSeq(p7) /\ IsSeq(p10) /\ IsSeq(p11)
  BY WhenIs
<1>8. c7 => r7 \in ToSet(p7)
  BY WhenIs
<1> HIDE DEF p1, p2, p3, p4, p5, p6, p7, p8, p9, p10, p11
<1> DEFINE q2 == p1 \o p2
           q3 == q2 \o p3
           q4 == q3 \o p4
           q5 == q4 \o p5
           q6 == q5 \o p6
           q7 == q6 \o p7
           q8 == q7 \o p8
           q9 == q8 \o p9
           q10 == q9 \o p10
           q11 == q10 \o p11
<1>9. check_config(m, v, langs, groups) = q11
  BY <1>1
<1>12. IsSeq(q2)
  BY <1>6, <1>7, SeqsGlue
<1> HIDE DEF q2
<1>13. IsSeq(q3)
  BY <1>5, <1>12, SeqsGlue
<1> HIDE DEF q3
<1>14. IsSeq(q4)
  BY <1>3, <1>13, SeqsGlue
<1> HIDE DEF q4
<1>15. IsSeq(q5)
  BY <1>7, <1>14, SeqsGlue
<1> HIDE DEF q5
<1>16. IsSeq(q6)
  BY <1>7, <1>15, SeqsGlue
<1> HIDE DEF q6
<1>17. IsSeq(q7) /\ ToSet(p7) \subseteq ToSet(q7)
  BY <1>7, <1>16, SeqsGlue
<1> HIDE DEF q7
<1>18. IsSeq(q8) /\ ToSet(q7) \subseteq ToSet(q8)
  BY <1>5, <1>17, SeqsGlue
<1> HIDE DEF q8
<1>19. IsSeq(q9) /\ ToSet(q8) \subseteq ToSet(q9)
  BY <1>4, <1>18, SeqsGlue
<1> HIDE DEF q9
<1>20. IsSeq(q10) /\ ToSet(q9) \subseteq ToSet(q10)
  BY <1>7, <1>19, SeqsGlue
<1> HIDE DEF q10
<1>21. IsSeq(q11) /\ ToSet(q10) \subseteq ToSet(q11)
  BY <1>7, <1>20, SeqsGlue
<1> HIDE DEF q11
<1>22. c7 => r7 \in ToSet(q11)
  BY <1>8, <1>17, <1>18, <1>19, <1>20, <1>21
<1>. QED  BY <1>9, <1>21, <1>22 DEF r7, c7

(* The errors of a statement that the theorem below relies on.             *)
TwoStatements == Error("two statements in a language")
NoName == Error("no name")
EmptyName == Error("name is empty")
PdfFails == Error("pdf")
HtmlFails == Error("html")

(* The check of a name reports one that is missing and one that is empty.  *)
LEMMA NameReports ==
  ASSUME NEW m, NEW v, NEW l
  PROVE  /\ IsSeq(CheckName(m, v, l))
         /\ l \notin DOMAIN m.name => NoName \in ToSet(CheckName(m, v, l))
         /\ l \in DOMAIN m.name /\ m.name[l] = "" => EmptyName \in ToSet(CheckName(m, v, l))
<1> DEFINE r2 == Warning("name looks like LaTeX")
           c1 == m.name[l] \in {"", " "}
           c2 == v = LEGACY /\ m.name[l] = "$x$"
           p1 == When(c1, EmptyName)
           p2 == When(c2, r2)
           r == CheckName(m, v, l)
<1>1. r = IF l \notin DOMAIN m.name THEN <<NoName>> ELSE p1 \o p2
  BY DEF CheckName, NoName, EmptyName
<1>2. m.name[l] = "" => c1
  BY Zenon
<1> HIDE DEF r2, c2, c1, r
<1>3. IsSeq(p1) /\ IsSeq(p2) /\ (c1 => EmptyName \in ToSet(p1))
  BY WhenIs
<1> HIDE DEF p1, p2
<1>4. IsSeq(p1 \o p2) /\ ToSet(p1) \subseteq ToSet(p1 \o p2)
  BY <1>3, SeqsGlue
<1>5. IsSeq(<<NoName>>) /\ NoName \in ToSet(<<NoName>>)
  <2> DEFINE e == NoName
  <2> HIDE DEF e
  <2>1. 1 \in DOMAIN <<e>> /\ <<e>>[1] = e
    OBVIOUS
  <2>2. e \in ToSet(<<e>>)
    BY <2>1 DEF ToSet
  <2>3. IsSeq(<<e>>)
    BY ShortSeqs
  <2>. QED  BY <2>2, <2>3 DEF e
<1>. QED  BY <1>1, <1>2, <1>3, <1>4, <1>5 DEF r

(* The conversions to HTML and PDF are reported when they fail.            *)
LEMMA ConversionReports ==
  ASSUME NEW f, NEW samples, NEW m, NEW l, NEW bail
  PROVE  LET rs == CheckConversions(f, samples, m, l, bail)
         IN  /\ IsSeq(rs)
             /\ ~ pdf_succeeds(f, samples, m, l) => PdfFails \in ToSet(rs)
             /\ ~ html_succeeds(f, samples, m, l) => HtmlFails \in ToSet(rs)
<1> DEFINE pdf == pdf_succeeds(f, samples, m, l)
           html == html_succeeds(f, samples, m, l)
           c == ~ pdf /\ bail /\ ~ (f.ext = "md" /\ get_yaml_problem_name(m, l) = Null)
           r == Caught("pdf")
           rs == CheckConversions(f, samples, m, l, bail)
           p1 == When(c, r)
           p2 == When(~ pdf, PdfFails)
           p3 == When(~ html, HtmlFails)
<1>1. rs = p1 \o p2 \o p3
  BY DEF CheckConversions, PdfFails, HtmlFails
<1> HIDE DEF pdf, html, c, r, rs
<1>2. /\ IsSeq(p1) /\ IsSeq(p2) /\ IsSeq(p3)
      /\ ~ pdf => PdfFails \in ToSet(p2)
      /\ ~ html => HtmlFails \in ToSet(p3)
  BY WhenIs
<1> HIDE DEF p1, p2, p3
<1>3. IsSeq(p1 \o p2) /\ ToSet(p2) \subseteq ToSet(p1 \o p2)
  BY <1>2, SeqsGlue
<1> DEFINE q == p1 \o p2
           t == q \o p3
<1>4. rs = t
  BY <1>1
<1> HIDE DEF q
<1>5. IsSeq(t) /\ ToSet(q) \subseteq ToSet(t) /\ ToSet(p3) \subseteq ToSet(t)
  BY <1>2, <1>3, SeqsGlue DEF q
<1> HIDE DEF t
<1>6. IsSeq(rs) /\ (~ pdf => PdfFails \in ToSet(rs)) /\ (~ html => HtmlFails \in ToSet(rs))
  BY <1>2, <1>3, <1>4, <1>5 DEF q
<1>. QED  BY <1>6 DEF rs, pdf, html

(* The checks of the interactions give a sequence of reports.              *)
LEMMA InteractionReports ==
  ASSUME NEW samples, IsFiniteSet(samples), NEW m
  PROVE  IsSeq(CheckInteractions(samples, m))
<1> DEFINE S == {s \in samples : s[2] = "interaction"}
           r1 == Error("interaction sample")
           r2 == Error("interaction line")
           one(s) ==
             When(~ is_interactive(m) /\ ~ is_multi_pass(m), r1) \o
             When(/\ s \in DOMAIN OddLine
                  /\ ~ (OddLine[s] = "---" /\ is_multi_pass(m)), r2)
           f == [s \in S |-> one(s)]
           ss == [i \in DOMAIN SetToSeq(S) |-> one(SetToSeq(S)[i])]
<1>1. CheckInteractions(samples, m) = FlattenSeq(ss)
  BY DEF CheckInteractions, ForEach, MapSeq
<1>2. IsFiniteSet(S)
  BY FS_Subset
<1>3. \A s : IsSeq(one(s))
  <2> TAKE s
  <2> DEFINE c1 == ~ is_interactive(m) /\ ~ is_multi_pass(m)
             c2 == s \in DOMAIN OddLine /\ ~ (OddLine[s] = "---" /\ is_multi_pass(m))
             p1 == When(c1, r1)
             p2 == When(c2, r2)
  <2>1. one(s) = p1 \o p2
    OBVIOUS
  <2> HIDE DEF r1, r2, c1, c2, one
  <2>2. IsSeq(p1) /\ IsSeq(p2)
    BY WhenIs
  <2> HIDE DEF p1, p2
  <2>3. IsSeq(p1 \o p2)
    BY <2>2, SeqsGlue
  <2>. QED  BY <2>1, <2>3
<1> HIDE DEF one, S
<1>4. ss = [i \in DOMAIN SetToSeq(S) |-> f[SetToSeq(S)[i]]]
  <2>1. \A i \in DOMAIN SetToSeq(S) : SetToSeq(S)[i] \in S
    BY <1>2, SetToSeqIs
  <2>. QED  BY <2>1
<1>5. \A s \in S : IsSeq(f[s])
  BY <1>3
<1> HIDE DEF ss, f
<1>6. IsSeq(FlattenSeq(ss))
  BY <1>2, <1>4, <1>5, EachIn
<1>. QED  BY <1>1, <1>6

(* The errors that are reported of a language.                             *)
ErrorsReported(statements, samples, m, l, R) ==
  /\ Len(statements[l]) > 1 => TwoStatements \in R
  /\ l \notin DOMAIN m.name => NoName \in R
  /\ l \in DOMAIN m.name /\ m.name[l] = "" => EmptyName \in R
  /\ \A i \in DOMAIN statements[l] :
       /\ ~ pdf_succeeds(statements[l][i], samples, m, l) => PdfFails \in R
       /\ ~ html_succeeds(statements[l][i], samples, m, l) => HtmlFails \in R

(* What is reported of a language: the number of its statements, its name, *)
(* the conversions.                                                        *)
LanguageReports(statements, samples, m, v, bail, l) ==
  When(Len(statements[l]) > 1, TwoStatements) \o
  CheckName(m, v, l) \o
  FlattenSeq(MapSeq(LAMBDA f : CheckConversions(f, samples, m, l, bail), statements[l]))

(* Every error of a language is among its reports.                         *)
LEMMA LanguageReported ==
  ASSUME NEW statements, NEW samples, NEW m, NEW v, NEW bail, NEW l, IsSeq(statements[l])
  PROVE  LET rs == LanguageReports(statements, samples, m, v, bail, l)
         IN  IsSeq(rs) /\ ErrorsReported(statements, samples, m, l, ToSet(rs))
<1> DEFINE rs == LanguageReports(statements, samples, m, v, bail, l)
           s == statements[l]
           n == Len(s)
           ss == MapSeq(LAMBDA f : CheckConversions(f, samples, m, l, bail), s)
           c == Len(s) > 1
           p1 == When(c, TwoStatements)
           p2 == CheckName(m, v, l)
           p3 == FlattenSeq(ss)
<1>1. rs = p1 \o p2 \o p3
  BY DEF LanguageReports
<1>2. n \in Nat /\ DOMAIN s = 1 .. n
  BY SeqHas
<1>3. ss = [i \in DOMAIN s |-> CheckConversions(s[i], samples, m, l, bail)]
  BY DEF MapSeq
<1> HIDE DEF s, n, ss
<1>4. /\ DOMAIN ss = 1 .. n /\ IsFunction(ss)
      /\ \A i \in 1 .. n : ss[i] = CheckConversions(s[i], samples, m, l, bail)
  BY <1>2, <1>3 DEF IsFunction
<1>5. \A i \in 1 .. n :
        /\ IsSeq(ss[i])
        /\ ~ pdf_succeeds(s[i], samples, m, l) => PdfFails \in ToSet(ss[i])
        /\ ~ html_succeeds(s[i], samples, m, l) => HtmlFails \in ToSet(ss[i])
  BY <1>4, ConversionReports
<1>6. IsSeq(p3) /\ \A i \in 1 .. n : ToSet(ss[i]) \subseteq ToSet(p3)
  BY <1>2, <1>4, <1>5, SeqsFlatten
<1> HIDE DEF p3, c
<1>7. IsSeq(p1) /\ (c => TwoStatements \in ToSet(p1))
  BY WhenIs
<1>8. /\ IsSeq(p2)
      /\ l \notin DOMAIN m.name => NoName \in ToSet(p2)
      /\ l \in DOMAIN m.name /\ m.name[l] = "" => EmptyName \in ToSet(p2)
  BY NameReports
<1> HIDE DEF p1, p2
<1> DEFINE q == p1 \o p2
           t == q \o p3
<1>9. IsSeq(q) /\ ToSet(p1) \subseteq ToSet(q) /\ ToSet(p2) \subseteq ToSet(q)
  BY <1>7, <1>8, SeqsGlue
<1>10. rs = t
  BY <1>1
<1> HIDE DEF q, rs
<1>11. IsSeq(t) /\ ToSet(q) \subseteq ToSet(t) /\ ToSet(p3) \subseteq ToSet(t)
  BY <1>6, <1>9, SeqsGlue
<1> HIDE DEF t
<1> DEFINE R == ToSet(rs)
<1>12. ToSet(p1) \subseteq R /\ ToSet(p2) \subseteq R /\ ToSet(p3) \subseteq R
  BY <1>9, <1>10, <1>11
<1> HIDE DEF R
<1>13. /\ c => TwoStatements \in R
       /\ l \notin DOMAIN m.name => NoName \in R
       /\ l \in DOMAIN m.name /\ m.name[l] = "" => EmptyName \in R
  BY <1>7, <1>8, <1>12
<1>14. \A i \in 1 .. n :
         /\ ~ pdf_succeeds(s[i], samples, m, l) => PdfFails \in R
         /\ ~ html_succeeds(s[i], samples, m, l) => HtmlFails \in R
  BY <1>5, <1>6, <1>12
<1>15. ErrorsReported(statements, samples, m, l, R)
  BY <1>2, <1>13, <1>14 DEF ErrorsReported, s, c
<1>. QED  BY <1>10, <1>11, <1>15 DEF R, rs

(* check_statements reports every error of every language.                 *)
LEMMA StatementReports ==
  ASSUME NEW statements, IsFiniteSet(DOMAIN statements),
         \A l \in DOMAIN statements : IsSeq(statements[l]),
         NEW samples, IsFiniteSet(samples), NEW m, NEW v, NEW bail
  PROVE  LET rs == check_statements(statements, samples, m, v, bail)
         IN  \A l \in DOMAIN statements : ErrorsReported(statements, samples, m, l, ToSet(rs))
<1> DEFINE D == DOMAIN statements
           rs == check_statements(statements, samples, m, v, bail)
           one(l) == LanguageReports(statements, samples, m, v, bail, l)
           f == [l \in D |-> one(l)]
           ss == [i \in DOMAIN SetToSeq(D) |-> one(SetToSeq(D)[i])]
           r == Error("no statement")
           c == D = {}
           p1 == CheckInteractions(samples, m)
           p2 == When(c, r)
           p3 == FlattenSeq(ss)
<1>1. rs = p1 \o p2 \o p3
  BY DEF check_statements, ForEach, MapSeq, LanguageReports, TwoStatements
<1>2. IsSeq(p1)
  BY InteractionReports
<1> HIDE DEF rs, r, c
<1>3. IsSeq(p2)
  BY WhenIs
<1>4. \A l \in D : IsSeq(one(l)) /\ ErrorsReported(statements, samples, m, l, ToSet(one(l)))
  BY LanguageReported
<1> HIDE DEF one
<1>5. ss = [i \in DOMAIN SetToSeq(D) |-> f[SetToSeq(D)[i]]]
  <2>1. \A i \in DOMAIN SetToSeq(D) : SetToSeq(D)[i] \in D
    BY SetToSeqIs
  <2> HIDE DEF D
  <2>. QED  BY <2>1
<1>6. \A l \in D : IsSeq(f[l]) /\ f[l] = one(l)
  BY <1>4
<1>0. IsFiniteSet(D)
  OBVIOUS
<1> HIDE DEF ss, f, D
<1>7. IsSeq(p3) /\ \A l \in D : ToSet(f[l]) \subseteq ToSet(p3)
  BY <1>0, <1>5, <1>6, EachIn
<1> HIDE DEF p1, p2, p3
<1> DEFINE q == p1 \o p2
           t == q \o p3
<1>8. IsSeq(q)
  BY <1>2, <1>3, SeqsGlue
<1>9. rs = t
  BY <1>1
<1> HIDE DEF q
<1>10. ToSet(p3) \subseteq ToSet(t)
  BY <1>7, <1>8, SeqsGlue
<1> HIDE DEF t
<1>11. ASSUME NEW l \in D PROVE ErrorsReported(statements, samples, m, l, ToSet(rs))
  <2>1. ToSet(one(l)) \subseteq ToSet(rs)
    BY <1>6, <1>7, <1>9, <1>10
  <2>2. ErrorsReported(statements, samples, m, l, ToSet(one(l)))
    BY <1>4
  <2>. QED  BY <2>1, <2>2 DEF ErrorsReported
<1>. QED  BY <1>11 DEF D, rs

(* No name in the metadata is missing.                                     *)
NamesGiven(names) == \A l \in DOMAIN names : names[l] # Null

(* No name that parse_metadata gives is missing.                           *)
LEMMA LoadedNames ==
  ASSUME NEW v \in {LEGACY, V_2023_07}, NEW yaml, NEW names, NoneIsFunction, IsYaml(v, yaml),
         NamesGiven(names), parse_metadata(v, yaml, names) # Rejected
  PROVE  NamesGiven(parse_metadata(v, yaml, names).name)
<1> DEFINE d == Filled(v, yaml)
           m == parse_metadata(v, yaml, names)
<1>0. LEGACY # V_2023_07
  BY DEF LEGACY, V_2023_07
<1>1. /\ Valid(v, yaml)
      /\ m = IF v = LEGACY THEN from_legacy(d, names) ELSE from_2023_07(d)
  BY Zenon DEF parse_metadata, Filled
<1>2. \A x : x # Null => NamesGiven(English(x))
  BY DEF NamesGiven, English
<1>3. CASE v = LEGACY
  <2>1. m.name = LegacyNames(d, names)
    <3>1. from_legacy(d, names) # Rejected /\ m = from_legacy(d, names)
      BY <1>1, <1>3
    <3> HIDE DEF d, m
    <3>2. from_legacy(d, names).name = LegacyNames(d, names)
      BY <3>1, OldFormIs
    <3>. QED  BY <3>1, <3>2
  <2>2. NamesGiven(<<>>)
    BY DEF NamesGiven
  <2> HIDE DEF d, m
  <2>3. d.name # Null => NamesGiven(English(d.name))
    BY <1>2
  <2> DEFINE n == m.name
             e == English(d.name)
  <2>4. \/ n = names \/ n = <<>> \/ (d.name # Null /\ n = e)
    <3> HIDE DEF e
    <3>1. n = LegacyNames(d, names)
      BY <2>1
    <3> HIDE DEF n
    <3>. QED  BY <3>1 DEF LegacyNames, e
  <2> HIDE DEF n, e
  <2>5. NamesGiven(n)
    BY <2>2, <2>3, <2>4 DEF e
  <2>. QED  BY <2>5 DEF n, m
<1>4. CASE v = V_2023_07
  <2>1. m.name = IF d.name.form = "string" THEN English(d.name.of) ELSE d.name.of
    <3>1. m = from_2023_07(d)
      BY <1>0, <1>1, <1>4
    <3> HIDE DEF d, m
    <3>. QED  BY <3>1, NewFormIs
  <2>2. "name" \in DOMAIN yaml
    <3>1. Mandatory(v) \subseteq DOMAIN yaml /\ Mandatory(v) = {"name"}
      BY <1>0, <1>1, <1>4 DEF Valid, Mandatory
    <3>. QED  BY <3>1
  <2>3. d.name = yaml.name /\ yaml.name # WrongType
    <3>1. \A k \in DOMAIN yaml \ {"limits"} : d[k] = yaml[k] /\ yaml[k] # WrongType
      BY <1>1, FilledIs
    <3>. QED  BY <2>2, <3>1
  <2>4. IF yaml.name.form = "string" THEN yaml.name.of # Null ELSE NamesGiven(yaml.name.of)
    BY <1>0, <1>4, <2>2, <2>3 DEF IsYaml, NamesGiven
  <2> HIDE DEF d, m
  <2> DEFINE n == m.name
             e == English(yaml.name.of)
  <2>5. yaml.name.of # Null => NamesGiven(e)
    BY <1>2
  <2>6. n = IF yaml.name.form = "string" THEN e ELSE yaml.name.of
    BY <2>1, <2>3
  <2> HIDE DEF n, e
  <2>7. NamesGiven(n)
    BY <2>4, <2>5, <2>6
  <2>. QED  BY <2>7 DEF n, m
<1>. QED  BY <1>3, <1>4

(* The statements found in a listing.                                      *)
LEMMA StatementsFound ==
  ASSUME NEW listing, IsSeq(listing), NEW v
  PROVE  LET s == find_statements(listing, v)
         IN  /\ IsFiniteSet(DOMAIN s)
             /\ \A l \in DOMAIN s : /\ IsSeq(s[l]) /\ s[l] # <<>>
                                    /\ ToSet(s[l]) \subseteq ToSet(listing)
<1> DEFINE T == ToSet(listing)
           all == {f \in T : /\ f.dir = statement_directory(v)
                             /\ f.ext \in statement_extensions(v)
                             /\ f.lang = Null => v = LEGACY}
           D == {LanguageOf(f) : f \in all}
           s == find_statements(listing, v)
<1>1. s = [l \in D |-> Kept(listing, {f \in all : LanguageOf(f) = l})]
  BY DEF find_statements
<1>2. IsFiniteSet(all)
  <2>1. IsFiniteSet(T) /\ all \subseteq T
    BY SeqHas
  <2> HIDE DEF T, all
  <2>. QED  BY <2>1, FS_Subset
<1>3. all \subseteq T /\ listing \in Seq(T)
  BY DEF IsSeq
<1> HIDE DEF all, s, T
<1>4. IsFiniteSet(D)
  <2> DEFINE g == [f \in all |-> LanguageOf(f)]
  <2>1. g \in Surjection(all, D)
    BY DEF Surjection
  <2> HIDE DEF g, D
  <2>. QED  BY <1>2, <2>1, FS_Surjection
<1>5. ASSUME NEW l \in D
      PROVE  IsSeq(s[l]) /\ s[l] # <<>> /\ ToSet(s[l]) \subseteq T
  <2> DEFINE S == {f \in all : LanguageOf(f) = l}
             k == Kept(listing, S)
  <2>1. s[l] = k
    BY <1>1
  <2>2. S # {} /\ S \subseteq T
    BY <1>3
  <2> HIDE DEF S
  <2>3. k \in Seq(T) /\ ToSet(k) = ToSet(listing) \intersect S
    BY <1>3, KeptIs
  <2> HIDE DEF k
  <2>4. IsSeq(k)
    BY <2>3, InSeqIs
  <2>5. ToSet(<<>>) = {}
    BY DEF ToSet
  <2>. QED  BY <2>1, <2>2, <2>3, <2>4, <2>5 DEF T
<1>6. DOMAIN s = D
  BY <1>1
<1>. QED  BY <1>4, <1>5, <1>6 DEF s, T

(* No name found in a statement is missing.                                *)
LEMMA TitlesGiven ==
  ASSUME NEW listing
  PROVE  NamesGiven(load_names_from_statements(listing))
<1> DEFINE s == find_statements(listing, LEGACY)
           D == {l \in DOMAIN s : s[l][1].title # Null}
<1>1. load_names_from_statements(listing) = [l \in D |-> s[l][1].title]
  BY DEF load_names_from_statements
<1> HIDE DEF s
<1>. QED  BY <1>1 DEF NamesGiven

(* The name of a language.                                                 *)
LEMMA NameIs ==
  ASSUME NEW m, NEW l \in DOMAIN m.name, IsFiniteSet(DOMAIN m.name)
  PROVE  get_yaml_problem_name(m, l) = m.name[l]
<1> DEFINE D == DOMAIN m.name
<1>1. CASE Cardinality(D) = 1
  <2>1. l \in D
    OBVIOUS
  <2>2. \A x \in D : x = l
    <3>2. \E x : D = {x}
      BY <1>1, FS_Singleton
    <3>. QED  BY <2>1, <3>2
  <2>3. (CHOOSE x \in D : TRUE) = l
    BY <2>1, <2>2
  <2>. QED  BY <1>1, <2>3 DEF get_yaml_problem_name
<1>2. CASE Cardinality(D) # 1
  BY <1>2 DEF get_yaml_problem_name
<1>. QED  BY <1>1, <1>2

-----------------------------------------------------------------------------
(* What a check has found is reported from then on.                        *)
ConfigReported ==
  pc \in {"statement", "attachments", "graders", "includes", "verified"} =>
    ToSet(check_config(md, version, DOMAIN by_language, pkg.custom_groups)) \subseteq reports

(* So is what the check of the statements has found.                       *)
StatementsReported ==
  pc \in {"attachments", "graders", "includes", "verified"} =>
    ToSet(check_statements(by_language, pkg.samples, md, version, pkg.bail)) \subseteq reports

(* The errors of both checks are among the reports once they have run.     *)
EInv == ConfigReported /\ StatementsReported

(* The checks of configuration and statements add their reports, and none  *)
(* is taken away.                                                          *)
LEMMA EInvHolds == LoadSpec => []EInv
<1>1. LoadInit => EInv
  BY DEF LoadInit, EInv, ConfigReported, StatementsReported
<1>2. EInv /\ [LoadNext]_loadVars => EInv'
  <2> SUFFICES ASSUME EInv, [LoadNext]_loadVars PROVE EInv'
    OBVIOUS
  <2> DEFINE configs == check_config(md, version, DOMAIN by_language, pkg.custom_groups)
             stmts == check_statements(by_language, pkg.samples, md, version, pkg.bail)
             late == {"statement", "attachments", "graders", "includes", "verified"}
  <2>0. ASSUME pc' \notin late PROVE EInv'
    BY <2>0 DEF EInv, ConfigReported, StatementsReported
  <2>1. CASE LoadLanguages
    <3>1. pc' \in {"metadata", "stopped"}
      BY <2>1, ReportLeads DEF LoadLanguages, LoadFails, Goto
    <3>. QED  BY <2>0, <3>1
  <2>2. CASE LoadMetadata
    <3>1. pc' \in {"programs", "stopped"}
      BY <2>2, ReportLeads DEF LoadMetadata, LoadFails, Goto
    <3>. QED  BY <2>0, <3>1
  <2>3. CASE TakeAsItIs
    <3>1. pc' = "programs"
      BY <2>3 DEF TakeAsItIs
    <3>. QED  BY <2>0, <3>1
  <2>4. CASE LookAtFiles
    <3>1. pc' = "detecting"
      BY <2>4 DEF LookAtFiles, Goto
    <3>. QED  BY <2>0, <3>1
  <2>5. CASE DetectOne
    <3>1. pc' = "detecting"
      BY <2>5 DEF DetectOne
    <3>. QED  BY <2>0, <3>1
  <2>6. CASE EndDetection
    <3>1. pc' = "programs"
      BY <2>6 DEF EndDetection, Goto
    <3>. QED  BY <2>0, <3>1
  <2>7. CASE EndLoading
    <3>1. pc' = "package"
      BY <2>7 DEF EndLoading, Goto
    <3>. QED  BY <2>0, <3>1
  <2>8. ASSUME NEW label, NEW rs, NEW next, Check(label, rs, next)
        PROVE  /\ pc = label /\ pc' \in {next, "stopped"}
               /\ configs' = configs /\ stmts' = stmts
               /\ pc' # "stopped" => reports' = reports \union ToSet(rs)
    <3>1. pc = label /\ UNCHANGED <<pkg, md>> /\ Report(rs, next)
      BY <2>8 DEF Check
    <3>2. configs' = configs /\ stmts' = stmts
      BY <3>1 DEF version, by_language
    <3> HIDE DEF configs, stmts
    <3>. QED  BY <3>1, <3>2, ReportLeads
  <2>9. CASE UNCHANGED loadVars
    BY <2>9 DEF loadVars, EInv, ConfigReported, StatementsReported, version, by_language
  <2>10. CASE CheckPackage
    <3> DEFINE rs == When(pkg.shortname = "Bad-Name", Error("shortname")) \o
                     When(version = V_2023_07, Warning("2023-07 is incomplete")) \o
                     check_problem_package(pkg, version)
    <3>1. Check("package", rs, "config")
      BY <2>10 DEF CheckPackage
    <3> HIDE DEF rs
    <3>2. pc' \in {"config", "stopped"}
      BY <2>8, <3>1
    <3>. QED  BY <2>0, <3>2
  <2>11. CASE CheckConfig
    <3>1. Check("config", configs, "statement")
      BY <2>11 DEF CheckConfig
    <3>2. /\ pc' \in {"statement", "stopped"} /\ configs' = configs
          /\ pc' # "stopped" => reports' = reports \union ToSet(configs)
      BY <2>8, <3>1
    <3>3. pc' # "stopped" => ToSet(configs') \subseteq reports'
      <4> HIDE DEF configs
      <4>. QED  BY <3>2
    <3>4. ConfigReported'
      BY <3>2, <3>3 DEF ConfigReported
    <3>5. StatementsReported'
      BY <3>2 DEF StatementsReported
    <3>. QED  BY <3>4, <3>5 DEF EInv
  <2>12. ASSUME NEW label, NEW rs, NEW next, Check(label, rs, next),
                \/ label = "statement" /\ rs = stmts
                \/ label \in {"attachments", "graders", "includes"}
         PROVE  EInv'
    <3>1. /\ pc = label /\ configs' = configs /\ stmts' = stmts
          /\ pc' # "stopped" => reports' = reports \union ToSet(rs)
      BY <2>8, <2>12
    <3>2. ToSet(configs) \subseteq reports
      BY <2>12, <3>1 DEF EInv, ConfigReported
    <3>3. label # "statement" => ToSet(stmts) \subseteq reports
      BY <2>12, <3>1 DEF EInv, StatementsReported
    <3>4. /\ pc' # "stopped" => ToSet(configs') \subseteq reports'
          /\ pc' # "stopped" => ToSet(stmts') \subseteq reports'
      <4> HIDE DEF configs, stmts
      <4>. QED  BY <2>12, <3>1, <3>2, <3>3
    <3>5. ConfigReported'
      BY <3>4 DEF ConfigReported
    <3>6. StatementsReported'
      BY <3>4 DEF StatementsReported
    <3>. QED  BY <3>5, <3>6 DEF EInv
  <2>13. CASE CheckStatements
    <3>1. Check("statement", stmts, "attachments")
      BY <2>13 DEF CheckStatements
    <3> HIDE DEF stmts
    <3>. QED  BY <2>12, <3>1
  <2>14. CASE CheckAttachments
    BY <2>12, <2>14 DEF CheckAttachments
  <2>15. CASE CheckGraders
    BY <2>12, <2>15 DEF CheckGraders
  <2>16. CASE CheckIncludes
    BY <2>12, <2>16 DEF CheckIncludes
  <2>. QED  BY <2>1, <2>2, <2>3, <2>4, <2>5, <2>6, <2>7, <2>9, <2>10, <2>11,
               <2>13, <2>14, <2>15, <2>16
            DEF LoadNext
<1>. QED  BY <1>1, <1>2, PTL DEF LoadSpec

(* What is true of the languages of a package without errors.              *)
LanguagesFit(statements, m, samples) ==
  /\ DOMAIN m.name = DOMAIN statements
  /\ \A l \in DOMAIN statements :
       /\ Len(statements[l]) = 1
       /\ m.name[l] # ""
       /\ \A i \in DOMAIN statements[l] : /\ pdf_succeeds(statements[l][i], samples, m, l)
                                          /\ html_succeeds(statements[l][i], samples, m, l)

(* Without errors, each language has one statement and a name, and its     *)
(* conversions succeed.                                                    *)
LEMMA ErrorFreeFits ==
  ASSUME NoneIsFunction, MInv, EInv, Verified
  PROVE  /\ LanguagesFit(by_language, md, pkg.samples)
         /\ IsFiniteSet(DOMAIN by_language)
         /\ \A l \in DOMAIN by_language : /\ IsSeq(by_language[l])
                                          /\ ToSet(by_language[l]) \subseteq ToSet(pkg.statements)
         /\ NamesGiven(md.name)
<1>1. pc = "verified" /\ \A r \in reports : ~ IsError(r)
  BY DEF Verified
<1>2. md # Null /\ VersionOf(pkg.version) \in {LEGACY, V_2023_07}
      /\ md = MetadataOf(pkg) /\ MetadataOf(pkg) # Rejected
      /\ IsYaml(VersionOf(pkg.version), pkg.yaml)
  BY <1>1, PackagesAssumption DEF MInv
<1>3. \A x : Error(x) \notin reports
  <2>1. \A x : Error(x)[1] # "warning"
    BY DEF Error
  <2>. QED  BY <1>1, <2>1 DEF IsError
<1>4. IsLoaded(md)
  BY <1>2, LoadedMetadata
<1>5. NamesGiven(md.name)
  <2>1. NamesGiven(NamesFound(pkg))
    <3>1. NamesGiven(<<>>)
      BY DEF NamesGiven
    <3>. QED  BY <3>1, TitlesGiven DEF NamesFound
  <2>. QED  BY <1>2, <2>1, LoadedNames DEF MetadataOf
<1> DEFINE s == by_language
<1>6. /\ IsFiniteSet(DOMAIN s)
      /\ \A l \in DOMAIN s : /\ IsSeq(s[l]) /\ s[l] # <<>>
                             /\ ToSet(s[l]) \subseteq ToSet(pkg.statements)
  <2>1. IsSeq(pkg.statements)
    BY PackagesAssumption DEF MInv, IsSeq
  <2>. QED  BY <2>1, StatementsFound DEF by_language
<1>7. IsFiniteSet(pkg.samples)
  <2>1. pkg.samples \subseteq ToSet(FileOrder)
    BY PackagesAssumption DEF MInv
  <2>2. IsFiniteSet(ToSet(FileOrder))
    BY OrderAssumption, InSeqIs, SeqHas
  <2>. QED  BY <2>1, <2>2, FS_Subset
<1> HIDE DEF s
<1>8. DOMAIN md.name \subseteq DOMAIN s
  <2> DEFINE rs == check_config(md, version, DOMAIN s, pkg.custom_groups)
             e == Error("name without statement")
  <2>1. ~ DOMAIN md.name \subseteq DOMAIN s => e \in ToSet(rs)
    BY <1>4, ConfigReports
  <2>2. ToSet(rs) \subseteq reports
    BY <1>1 DEF EInv, ConfigReported, s
  <2>3. e \notin reports
    BY <1>3
  <2> HIDE DEF rs, e
  <2>. QED  BY <2>1, <2>2, <2>3
<1>9. ASSUME NEW l \in DOMAIN s
      PROVE  ErrorsReported(s, pkg.samples, md, l, reports)
  <2> DEFINE rs == check_statements(s, pkg.samples, md, version, pkg.bail)
  <2>1. ErrorsReported(s, pkg.samples, md, l, ToSet(rs))
    BY <1>6, <1>7, StatementReports
  <2>2. ToSet(rs) \subseteq reports
    BY <1>1 DEF EInv, StatementsReported, s
  <2> HIDE DEF rs
  <2>. QED  BY <2>1, <2>2 DEF ErrorsReported
<1>10. {TwoStatements, NoName, EmptyName, PdfFails, HtmlFails} \intersect reports = {}
  BY <1>3 DEF TwoStatements, NoName, EmptyName, PdfFails, HtmlFails
<1>11. ASSUME NEW l \in DOMAIN s
       PROVE  /\ l \in DOMAIN md.name /\ Len(s[l]) = 1 /\ md.name[l] # ""
              /\ \A i \in DOMAIN s[l] : /\ pdf_succeeds(s[l][i], pkg.samples, md, l)
                                        /\ html_succeeds(s[l][i], pkg.samples, md, l)
  <2>1. ~ (Len(s[l]) > 1)
    BY <1>9, <1>10 DEF ErrorsReported
  <2>2. l \in DOMAIN md.name /\ md.name[l] # ""
    BY <1>9, <1>10 DEF ErrorsReported
  <2>3. \A i \in DOMAIN s[l] : /\ pdf_succeeds(s[l][i], pkg.samples, md, l)
                               /\ html_succeeds(s[l][i], pkg.samples, md, l)
    BY <1>9, <1>10 DEF ErrorsReported
  <2>4. Len(s[l]) \in Nat /\ Len(s[l]) # 0
    <3> DEFINE k == s[l]
    <3>1. k \in Seq(ToSet(k)) /\ k # <<>>
      BY <1>6 DEF IsSeq
    <3> HIDE DEF k
    <3>2. Len(k) \in Nat /\ Len(k) # 0
      BY <3>1, EmptySeq
    <3>. QED  BY <3>2 DEF k
  <2>5. Len(s[l]) = 1
    <3> DEFINE n == Len(s[l])
    <3>1. n \in Nat /\ n # 0 /\ ~ (n > 1)
      BY <2>1, <2>4
    <3> HIDE DEF n
    <3>2. n = 1
      BY <3>1
    <3>. QED  BY <3>2 DEF n
  <2>. QED  BY <2>2, <2>3, <2>5
<1>12. LanguagesFit(s, md, pkg.samples)
  BY <1>8, <1>11 DEF LanguagesFit
<1>. QED  BY <1>5, <1>6, <1>12 DEF s

(* For every package in which verifyproblem finds no error (run to its     *)
(* end): every language that has a name has exactly one statement and      *)
(* every language with a statement a name that is not empty; problem2html  *)
(* and problem2pdf succeed on each of them (find_statement,                *)
(* get_yaml_problem_name, md2html, inject_samples); and the statements, in *)
(* whichever format, show the same samples in the same order, unless two   *)
(* samples' files sort otherwise than their stems.                         *)
THEOREM ErrorFreeIsRenderable ==
  ASSUME NoneIsFunction PROVE LoadSpec => []ErrorFreePackagesRender
<1>1. LInv /\ MInv /\ EInv => ErrorFreePackagesRender
  <2> SUFFICES ASSUME LInv, MInv, EInv, Verified
               PROVE  /\ DOMAIN md.name = DOMAIN by_language
                      /\ \A l \in DOMAIN md.name :
                           LET f == find_statement(pkg.statements, version, l)
                           IN  /\ f # Null
                               /\ get_yaml_problem_name(md, l) \notin {Null, ""}
                               /\ html_succeeds(f, pkg.samples, md, l)
                               /\ pdf_succeeds(f, pkg.samples, md, l)
                               /\ \/ html_samples(f, pkg.samples) = TemplateSamples(pkg.samples)
                                  \/ \E s, t \in ToSet(format_samples(pkg.samples)) :
                                       SortDifferently(s, t)
    BY DEF ErrorFreePackagesRender
  <2> DEFINE samples == pkg.samples
  <2>1. /\ LanguagesFit(by_language, md, samples)
        /\ IsFiniteSet(DOMAIN by_language)
        /\ \A l \in DOMAIN by_language : /\ IsSeq(by_language[l])
                                         /\ ToSet(by_language[l]) \subseteq ToSet(pkg.statements)
        /\ NamesGiven(md.name)
    BY ErrorFreeFits
  <2>2. DOMAIN md.name = DOMAIN by_language
    BY <2>1 DEF LanguagesFit
  <2>3. samples \subseteq ToSet(FileOrder)
    BY PackagesAssumption DEF LInv
  <2>4. ASSUME NEW l \in DOMAIN md.name, NEW f, f = find_statement(pkg.statements, version, l)
        PROVE  /\ f # Null
               /\ get_yaml_problem_name(md, l) \notin {Null, ""}
               /\ html_succeeds(f, samples, md, l)
               /\ pdf_succeeds(f, samples, md, l)
               /\ \/ html_samples(f, samples) = TemplateSamples(samples)
                  \/ \E s, t \in ToSet(format_samples(samples)) : SortDifferently(s, t)
    <3>1. l \in DOMAIN by_language /\ Len(by_language[l]) = 1
      BY <2>1, <2>2 DEF LanguagesFit
    <3>2. f = by_language[l][1]
      BY <2>4, <3>1 DEF find_statement, by_language
    <3>3. 1 \in DOMAIN by_language[l] /\ f \in ToSet(pkg.statements)
      <4>1. DOMAIN by_language[l] = 1 .. Len(by_language[l])
        BY <2>1, <3>1, SeqHas
      <4>2. 1 \in DOMAIN by_language[l]
        BY <3>1, <4>1
      <4>3. f \in ToSet(by_language[l])
        BY <3>2, <4>2 DEF ToSet
      <4>. QED  BY <2>1, <3>1, <4>2, <4>3
    <3>4. f # Null /\ f.body \in Seq({Text, Footnotes} \union Markers)
      BY <3>3, PackagesAssumption DEF LInv
    <3>5. html_succeeds(f, samples, md, l) /\ pdf_succeeds(f, samples, md, l)
      BY <2>1, <3>1, <3>2, <3>3 DEF LanguagesFit
    <3>6. get_yaml_problem_name(md, l) = md.name[l]
      BY <2>1, <2>2, NameIs
    <3>7. md.name[l] # Null /\ md.name[l] # ""
      BY <2>1, <2>2 DEF NamesGiven, LanguagesFit
    <3>8. \/ html_samples(f, samples) = TemplateSamples(samples)
          \/ \E s, t \in ToSet(format_samples(samples)) : SortDifferently(s, t)
      <4> SUFFICES ASSUME f.ext = "md",
                          \A s, t \in ToSet(format_samples(samples)) : ~ SortDifferently(s, t)
                   PROVE  html_samples(f, samples) = TemplateSamples(samples)
        BY DEF html_samples
      <4>1. /\ ~ LatexMisses(samples) /\ FirstAt(f.body, Markers) = 0
            /\ md2html(f, samples) # Null
        BY <3>5 DEF html_succeeds, pdf_succeeds
      <4>2. ShownIn(md2html(f, samples)) = Stems(format_samples(samples))
        BY <3>4, <4>1, PlainStatementShows
      <4>3. Stems(format_samples(samples)) = TemplateSamples(samples)
        BY <2>3, <4>1, SameSamples
      <4>. QED  BY <4>2, <4>3 DEF html_samples
    <3>. QED  BY <3>4, <3>5, <3>6, <3>7, <3>8
  <2>. QED  BY <2>2, <2>4
<1>. QED  BY <1>1, LInvHolds, MInvHolds, EInvHolds, PTL

===============================================================================
