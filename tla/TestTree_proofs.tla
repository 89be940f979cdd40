---------------------------- MODULE TestTree_proofs ----------------------------
(***************************************************************************)
(* Lemmas about the tree of test data groups, for any tree, graders and    *)
(* results of the test cases: what judging one test case after the other   *)
(* answers is defined for every group, is a sequence, is not empty if the  *)
(* filter selects a test case, and stays the same, runtimes apart, when    *)
(* only results change that are not in it; a group is as slow as the       *)
(* slowest of its test cases; and under a strict grader an accepted group  *)
(* has accepted test cases only.                                           *)
(*                                                                         *)
(* First lemmas about sequences and about joining them, for a list of      *)
(* results is the lists of the groups below, one after the other.          *)
(* FlattenSeq and the like are recursive functions, so what they give is   *)
(* described by Joins, the sequence of what is joined so far.              *)
(***************************************************************************)
EXTENDS TestTree, SequenceTheorems, FiniteSetTheorems, WellFoundedInduction, TLAPS

(* A set of naturals that is not empty has a least element, and Min is it. *)
LEMMA MinIsLeast ==
  ASSUME NEW S \in SUBSET Nat, S # {}
  PROVE  Min(S) \in S /\ \A x \in S : Min(S) <= x
<1>1. PICK m \in S : \A y \in S : ~ (<<y, m>> \in OpToRel(<, Nat))
  BY NatLessThanWellFounded, WFMin
<1>2. \A y \in S : ~ (y < m)
  BY <1>1 DEF OpToRel
<1>3. \A y \in S : m <= y
  BY <1>2
<1>. QED  BY <1>3 DEF Min

(* Sequences, whatever their elements are.                                 *)
IsSeq(s) == s \in Seq(Range(s))

(* What is a sequence of anything is a sequence.                           *)
LEMMA SeqIsSeq ==
  ASSUME NEW S, NEW s \in Seq(S)
  PROVE  IsSeq(s) /\ Len(s) \in Nat /\ DOMAIN s = 1 .. Len(s)
BY SeqOfRange, LenProperties DEF IsSeq

(* A function on 1 .. n is a sequence.                                     *)
LEMMA FunctionIsSeq ==
  ASSUME NEW n \in Nat, NEW f, DOMAIN f = 1 .. n, f = [i \in 1 .. n |-> f[i]]
  PROVE  IsSeq(f) /\ Len(f) = n
<1>1. f \in [1 .. n -> Range(f)]
  BY DEF Range
<1>. QED  BY <1>1, SeqDef, LenProperties DEF IsSeq

(* A sequence is a function.                                               *)
LEMMA SeqIsFunction ==
  ASSUME NEW s, IsSeq(s)
  PROVE  s = [i \in DOMAIN s |-> s[i]]
<1>1. s \in Seq(Range(s))
  BY DEF IsSeq
<1>. QED  BY <1>1

(* The empty sequence, and sequences of one element.                       *)
LEMMA ShortSeqs ==
  /\ IsSeq(<<>>) /\ DOMAIN <<>> = {} /\ Len(<<>>) = 0
  /\ \A e : IsSeq(<<e>>) /\ DOMAIN <<e>> = {1} /\ <<e>>[1] = e
<1>1. <<>> \in Seq({})
  BY EmptySeq
<1>2. ASSUME NEW e
      PROVE  IsSeq(<<e>>) /\ DOMAIN <<e>> = {1} /\ <<e>>[1] = e
  <2>1. <<e>> \in Seq({e})
    OBVIOUS
  <2>2. Len(<<e>>) = 1 /\ <<e>>[1] = e /\ 1 .. 1 = {1}
    OBVIOUS
  <2>. QED  BY <2>1, <2>2, SeqIsSeq
<1>3. IsSeq(<<>>) /\ DOMAIN <<>> = {} /\ Len(<<>>) = 0
  BY <1>1, SeqIsSeq, EmptySeq, 1 .. 0 = {}
<1>. QED  BY <1>2, <1>3

(* One element more at the end of a sequence.                              *)
LEMMA AppendIsSeq ==
  ASSUME NEW s, NEW e, IsSeq(s)
  PROVE  /\ IsSeq(Append(s, e))
         /\ Append(s, e) # <<>>
         /\ DOMAIN s = 1 .. Len(s) /\ Len(s) \in Nat
         /\ DOMAIN Append(s, e) = 1 .. Len(s) + 1
         /\ Len(Append(s, e)) = Len(s) + 1
         /\ \A i \in DOMAIN Append(s, e) :
              Append(s, e)[i] = IF i = Len(s) + 1 THEN e ELSE s[i]
<1> DEFINE S == Range(s) \union {e}
<1>1. s \in Seq(S)
  BY SeqMonotonic, Range(s) \subseteq S DEF IsSeq
<1>2. e \in S
  OBVIOUS
<1> HIDE DEF S
<1>3. Append(s, e) \in Seq(S)
  BY <1>1, <1>2, AppendProperties
<1>4. Len(s) \in Nat /\ DOMAIN s = 1 .. Len(s)
  BY SeqIsSeq DEF IsSeq
<1>5. /\ Append(s, e) # <<>>
      /\ Len(Append(s, e)) = Len(s) + 1
      /\ \A i \in 1 .. Len(s) : Append(s, e)[i] = s[i]
      /\ Append(s, e)[Len(s) + 1] = e
  BY <1>1, <1>2, AppendProperties
<1>6. IsSeq(Append(s, e)) /\ DOMAIN Append(s, e) = 1 .. Len(s) + 1
  BY <1>3, <1>5, SeqIsSeq
<1>7. \A i \in 1 .. Len(s) + 1 : i = Len(s) + 1 \/ i \in 1 .. Len(s)
  BY <1>4
<1>. QED  BY <1>4, <1>5, <1>6, <1>7

(* The elements of two sequences, one after the other.                     *)
LEMMA ConcatIsSeq ==
  ASSUME NEW s, NEW t, IsSeq(s), IsSeq(t)
  PROVE  /\ IsSeq(s \o t)
         /\ Len(s) \in Nat /\ Len(t) \in Nat
         /\ DOMAIN s = 1 .. Len(s) /\ DOMAIN t = 1 .. Len(t)
         /\ DOMAIN (s \o t) = 1 .. Len(s) + Len(t)
         /\ Len(s \o t) = Len(s) + Len(t)
         /\ \A i \in DOMAIN (s \o t) :
              (s \o t)[i] = IF i <= Len(s) THEN s[i] ELSE t[i - Len(s)]
<1> DEFINE S == Range(s) \union Range(t)
<1>1. s \in Seq(S) /\ t \in Seq(S)
  BY SeqMonotonic, Range(s) \subseteq S, Range(t) \subseteq S DEF IsSeq
<1> HIDE DEF S
<1>2. s \o t \in Seq(S)
  BY <1>1, ConcatProperties
<1>3. Len(s) \in Nat /\ DOMAIN s = 1 .. Len(s) /\ Len(t) \in Nat /\ DOMAIN t = 1 .. Len(t)
  BY SeqIsSeq DEF IsSeq
<1>4. /\ Len(s \o t) = Len(s) + Len(t)
      /\ \A i \in 1 .. Len(s) + Len(t) :
           (s \o t)[i] = IF i <= Len(s) THEN s[i] ELSE t[i - Len(s)]
  BY <1>1, ConcatProperties
<1>5. IsSeq(s \o t) /\ DOMAIN (s \o t) = 1 .. Len(s) + Len(t)
  BY <1>2, <1>4, SeqIsSeq
<1>. QED  BY <1>3, <1>4, <1>5

(* The first elements of a sequence.                                       *)
LEMMA SubSeqIsSeq ==
  ASSUME NEW s, IsSeq(s), NEW n \in 0 .. Len(s)
  PROVE  /\ IsSeq(SubSeq(s, 1, n))
         /\ DOMAIN s = 1 .. Len(s) /\ Len(s) \in Nat
         /\ DOMAIN SubSeq(s, 1, n) = 1 .. n
         /\ Len(SubSeq(s, 1, n)) = n
         /\ \A i \in 1 .. n : SubSeq(s, 1, n)[i] = s[i]
<1>1. s \in Seq(Range(s)) /\ DOMAIN s = 1 .. Len(s) /\ Len(s) \in Nat
  BY SeqIsSeq DEF IsSeq
<1>2. \A i \in 1 .. n : s[i] \in Range(s)
  BY <1>1, ElementOfSeq
<1>3. /\ SubSeq(s, 1, n) \in Seq(Range(s))
      /\ Len(SubSeq(s, 1, n)) = n
      /\ \A i \in 1 .. n : SubSeq(s, 1, n)[i] = s[i]
  BY <1>1, <1>2, SubSeqProperties
<1>. QED  BY <1>1, <1>3, SeqIsSeq

(* Induction over the naturals, for a set of them.                         *)
LEMMA SetInduction ==
  ASSUME NEW S, 0 \in S, \A n \in Nat : n \in S => n + 1 \in S
  PROVE  \A n \in Nat : n \in S
<1> DEFINE out == {n \in Nat : n \notin S}
<1>1. ASSUME out # {}
      PROVE  FALSE
  <2>1. out \in SUBSET Nat
    OBVIOUS
  <2>2. Min(out) \in out /\ \A x \in out : Min(out) <= x
    BY <1>1, <2>1, MinIsLeast
  <2>3. PICK m \in Nat : m \notin S /\ \A x \in out : m <= x
    BY <2>2
  <2>4. m # 0 /\ m - 1 \in Nat
    BY <2>3
  <2>5. m - 1 \in S
    BY <2>3, <2>4
  <2>. QED  BY <2>3, <2>4, <2>5
<1>. QED  BY <1>1

(* s \o t, under a name the provers leave alone.                           *)
Glue(s, t) == s \o t

(* Sequences that are put together from pieces: joined[n] is the first n.  *)
Joins(joined, pieces, N) ==
  joined = [n \in 0 .. N |-> IF n = 0 THEN <<>> ELSE Glue(joined[n - 1], pieces[n])]

(* There is such a sequence of joined pieces.                              *)
LEMMA JoinsExist ==
  ASSUME NEW pieces, NEW N \in Nat
  PROVE  \E joined : Joins(joined, pieces, N)
<1> DEFINE S == {n \in Nat : \E joined : Joins(joined, pieces, n)}
<1>1. 0 \in S
  <2> DEFINE joined == [n \in 0 .. 0 |-> <<>>]
  <2>1. joined = [n \in 0 .. 0 |-> IF n = 0 THEN <<>> ELSE Glue(joined[n - 1], pieces[n])]
    OBVIOUS
  <2>. QED  BY <2>1 DEF Joins
<1>2. ASSUME NEW m \in Nat, m \in S
      PROVE  m + 1 \in S
  <2>1. PICK j : Joins(j, pieces, m)
    BY <1>2
  <2> DEFINE k == [n \in 0 .. m + 1 |-> IF n <= m THEN j[n] ELSE Glue(j[m], pieces[m + 1])]
  <2>2. \A n \in 0 .. m : k[n] = j[n]
    OBVIOUS
  <2>3. k[m + 1] = Glue(k[m], pieces[m + 1])
    OBVIOUS
  <2>4. \A n \in 0 .. m : j[n] = IF n = 0 THEN <<>> ELSE Glue(j[n - 1], pieces[n])
    BY <2>1 DEF Joins
  <2>5. \A n \in 0 .. m + 1 : k[n] = IF n = 0 THEN <<>> ELSE Glue(k[n - 1], pieces[n])
    <3> TAKE n \in 0 .. m + 1
    <3>1. CASE n = m + 1
      BY <2>3, <3>1
    <3>2. CASE n # m + 1
      BY <2>2, <2>4, <3>2
    <3>. QED  BY <3>1, <3>2
  <2> HIDE DEF k
  <2>6. k = [n \in 0 .. m + 1 |-> k[n]]
    BY DEF k
  <2>7. k = [n \in 0 .. m + 1 |-> IF n = 0 THEN <<>> ELSE Glue(k[n - 1], pieces[n])]
    BY <2>5, <2>6
  <2>. QED  BY <2>7 DEF Joins
<1>3. \A n \in Nat : n \in S
  <2> HIDE DEF S
  <2>. QED  BY <1>1, <1>2, SetInduction
<1>. QED  BY <1>3

(* The steps of a joined sequence; two of them agree as far as both go.    *)
LEMMA JoinsSteps ==
  ASSUME NEW N \in Nat, NEW pieces, NEW joined, Joins(joined, pieces, N)
  PROVE  /\ joined[0] = <<>>
         /\ \A n \in 1 .. N : joined[n] = Glue(joined[n - 1], pieces[n])
         /\ \A n \in Nat : n + 1 <= N => joined[n + 1] = Glue(joined[n], pieces[n + 1])
<1>1. \A n \in 0 .. N : joined[n] = IF n = 0 THEN <<>> ELSE Glue(joined[n - 1], pieces[n])
  BY DEF Joins
<1>2. ASSUME NEW n \in Nat, n + 1 <= N
      PROVE  joined[n + 1] = Glue(joined[n], pieces[n + 1])
  <2>1. n + 1 \in 0 .. N /\ n + 1 # 0 /\ (n + 1) - 1 = n
    BY <1>2
  <2>. QED  BY <1>1, <2>1
<1>. QED  BY <1>1, <1>2

(* Two of them agree as far as their pieces do.                            *)
LEMMA JoinsAgree ==
  ASSUME NEW N \in Nat, NEW M \in Nat, NEW pieces, NEW parts,
         NEW j, Joins(j, pieces, N), NEW k, Joins(k, parts, M),
         \A n \in 1 .. N : n <= M => pieces[n] = parts[n]
  PROVE  \A n \in 0 .. N : n <= M => j[n] = k[n]
<1> DEFINE S == {n \in Nat : n <= N /\ n <= M => j[n] = k[n]}
<1>1. 0 \in S
  BY JoinsSteps
<1>2. ASSUME NEW n \in Nat, n \in S
      PROVE  n + 1 \in S
  <2>1. SUFFICES ASSUME n + 1 <= N, n + 1 <= M
                 PROVE  j[n + 1] = k[n + 1]
    OBVIOUS
  <2>5. n + 1 \in 1 .. N
    BY <2>1
  <2>2. j[n + 1] = Glue(j[n], pieces[n + 1])
    BY <2>1, JoinsSteps
  <2>3. k[n + 1] = Glue(k[n], parts[n + 1])
    BY <2>1, JoinsSteps
  <2>4. j[n] = k[n] /\ pieces[n + 1] = parts[n + 1]
    BY <1>2, <2>1, <2>5
  <2>. QED  BY <2>2, <2>3, <2>4
<1>3. \A n \in Nat : n \in S
  <2> HIDE DEF S
  <2>. QED  BY <1>1, <1>2, SetInduction
<1>. QED  BY <1>3

(* Joined sequences are sequences, of what their pieces are sequences of;  *)
(* a longer one begins with a shorter one.                                 *)
LEMMA JoinsAreSeqs ==
  ASSUME NEW N \in Nat, NEW pieces, NEW joined, Joins(joined, pieces, N),
         \A n \in 1 .. N : IsSeq(pieces[n])
  PROVE  \A n \in 0 .. N : IsSeq(joined[n])
<1> DEFINE S == {n \in Nat : n <= N => IsSeq(joined[n])}
<1>1. 0 \in S
  BY JoinsSteps, ShortSeqs
<1>2. ASSUME NEW n \in Nat, n \in S
      PROVE  n + 1 \in S
  <2>1. SUFFICES ASSUME n + 1 <= N
                 PROVE  IsSeq(joined[n + 1])
    OBVIOUS
  <2>2. joined[n + 1] = Glue(joined[n], pieces[n + 1])
    BY <2>1, JoinsSteps
  <2>3. IsSeq(joined[n]) /\ IsSeq(pieces[n + 1])
    BY <1>2, <2>1
  <2>. QED  BY <2>2, <2>3, ConcatIsSeq DEF Glue
<1>3. \A n \in Nat : n \in S
  <2> HIDE DEF S
  <2>. QED  BY <1>1, <1>2, SetInduction
<1>. QED  BY <1>3

(* They hold what their pieces hold.                                       *)
LEMMA JoinsTyped ==
  ASSUME NEW N \in Nat, NEW pieces, NEW joined, Joins(joined, pieces, N),
         NEW T, \A n \in 1 .. N : pieces[n] \in Seq(T)
  PROVE  \A n \in 0 .. N : joined[n] \in Seq(T)
<1> DEFINE S == {n \in Nat : n <= N => joined[n] \in Seq(T)}
<1>1. 0 \in S
  BY JoinsSteps, EmptySeq
<1>2. ASSUME NEW n \in Nat, n \in S
      PROVE  n + 1 \in S
  <2>1. SUFFICES ASSUME n + 1 <= N
                 PROVE  joined[n + 1] \in Seq(T)
    OBVIOUS
  <2>2. joined[n + 1] = Glue(joined[n], pieces[n + 1])
    BY <2>1, JoinsSteps
  <2>3. joined[n] \in Seq(T) /\ pieces[n + 1] \in Seq(T)
    BY <1>2, <2>1
  <2>. QED  BY <2>2, <2>3, ConcatProperties DEF Glue
<1>3. \A n \in Nat : n \in S
  <2> HIDE DEF S
  <2>. QED  BY <1>1, <1>2, SetInduction
<1>. QED  BY <1>3

(* A longer one begins with a shorter one.                                 *)
LEMMA JoinsGrow ==
  ASSUME NEW N \in Nat, NEW pieces, NEW joined, Joins(joined, pieces, N),
         \A n \in 1 .. N : IsSeq(pieces[n]), NEW m \in 0 .. N
  PROVE  \A n \in m .. N : /\ Len(joined[m]) <= Len(joined[n])
                           /\ \A i \in 1 .. Len(joined[m]) : joined[n][i] = joined[m][i]
<1> DEFINE Grown(n) == /\ Len(joined[m]) <= Len(joined[n])
                       /\ \A i \in 1 .. Len(joined[m]) : joined[n][i] = joined[m][i]
           S == {d \in Nat : m + d <= N => Grown(m + d)}
<1>0. \A n \in 0 .. N : IsSeq(joined[n]) /\ Len(joined[n]) \in Nat
  BY JoinsAreSeqs, SeqIsSeq DEF IsSeq
<1>1. 0 \in S
  BY <1>0
<1>2. ASSUME NEW d \in Nat, d \in S
      PROVE  d + 1 \in S
  <2>1. SUFFICES ASSUME m + d + 1 <= N
                 PROVE  Grown(m + d + 1)
    OBVIOUS
  <2> DEFINE n == m + d
             s == joined[n]
             t == pieces[n + 1]
  <2>2. n \in 0 .. N /\ n + 1 \in 1 .. N /\ n < N
    BY <2>1
  <2>3. joined[n + 1] = Glue(s, t) /\ IsSeq(s) /\ IsSeq(t) /\ Grown(n)
    BY <1>0, <1>2, <2>2, JoinsSteps
  <2> HIDE DEF s, t
  <2>4. /\ Len(s) \in Nat /\ Len(t) \in Nat /\ Len(s \o t) = Len(s) + Len(t)
        /\ \A i \in 1 .. Len(s) : (s \o t)[i] = s[i]
    BY <2>3, ConcatIsSeq
  <2>7. joined[n + 1] = s \o t
    BY <2>3 DEF Glue
  <2>5. Len(joined[m]) \in Nat
    BY <1>0
  <2> HIDE DEF n
  <2>6. Grown(n + 1)
    BY <2>3, <2>4, <2>5, <2>7 DEF s
  <2>. QED  BY <2>6 DEF n
<1>3. \A d \in Nat : d \in S
  BY <1>1, <1>2, SetInduction
<1>. QED
  <2>1. \A d \in Nat : m + d <= N => Grown(m + d)
    BY <1>3
  <2> HIDE DEF Grown, S
  <2>2. ASSUME NEW n \in m .. N
        PROVE  Grown(n)
    <3>1. n - m \in Nat /\ m + (n - m) = n /\ n <= N
      OBVIOUS
    <3>2. Grown(m + (n - m))
      BY <2>1, <3>1
    <3>. QED  BY <3>1, <3>2
  <2>. QED  BY <2>2 DEF Grown

-----------------------------------------------------------------------------
(* FlattenSeq joins the elements of a sequence of sequences.               *)
LEMMA FlattenJoins ==
  ASSUME NEW s, IsSeq(s), \A i \in DOMAIN s : IsSeq(s[i])
  PROVE  \E joined : Joins(joined, s, Len(s)) /\ FlattenSeq(s) = joined[Len(s)]
<1> DEFINE N == Len(s)
<1>0. N \in Nat /\ DOMAIN s = 1 .. N
  BY SeqIsSeq DEF IsSeq
<1>1. PICK j : Joins(j, s, N)
  BY <1>0, JoinsExist
<1>2. CASE N = 0
  BY <1>0, <1>1, <1>2, JoinsSteps, EmptySeq DEF FlattenSeq, IsSeq
<1>3. CASE N # 0
  <2> DEFINE Flat(f) == f = [i \in 1 .. N |-> IF i = 1 THEN s[i] ELSE Glue(f[i - 1], s[i])]
             h == CHOOSE f : Flat(f)
             S == {n \in Nat : n + 1 <= N => h[n + 1] = j[n + 1]}
             k == [i \in 1 .. N |-> j[i]]
  <2>1. FlattenSeq(s) = h[N]
    BY <1>0, <1>3 DEF FlattenSeq, Glue
  <2>2. \A n \in 1 .. N : j[n] = IF n = 1 THEN s[n] ELSE Glue(j[n - 1], s[n])
    <3> TAKE n \in 1 .. N
    <3>1. j[n] = Glue(j[n - 1], s[n])
      BY <1>0, <1>1, JoinsSteps
    <3>2. CASE n = 1
      <4>1. j[n - 1] = <<>>
        BY <1>0, <1>1, <3>2, JoinsSteps
      <4>2. s[n] \in Seq(Range(s[n]))
        BY <1>0 DEF IsSeq
      <4>. QED  BY <3>1, <3>2, <4>1, <4>2, ConcatEmptySeq DEF Glue
    <3>. QED  BY <3>1, <3>2
  <2>3. Flat(k)
    <3>1. \A n \in 1 .. N : k[n] = IF n = 1 THEN s[n] ELSE Glue(k[n - 1], s[n])
      BY <1>0, <2>2
    <3>2. k = [i \in 1 .. N |-> k[i]]
      OBVIOUS
    <3> HIDE DEF k
    <3>. QED  BY <3>1, <3>2
  <2>4. Flat(h)
    <3> HIDE DEF k, Flat
    <3>. QED  BY <2>3
  <2> HIDE DEF h
  <2>5. \A n \in 1 .. N : h[n] = IF n = 1 THEN s[n] ELSE Glue(h[n - 1], s[n])
    BY <2>4
  <2>6. 0 \in S
    BY <1>0, <2>2, <2>5
  <2>7. ASSUME NEW n \in Nat, n \in S
        PROVE  n + 1 \in S
    BY <1>0, <2>2, <2>5, <2>7
  <2>8. \A n \in Nat : n \in S
    BY <2>6, <2>7, SetInduction
  <2>9. N - 1 \in Nat
    BY <1>0, <1>3
  <2>10. h[N] = j[N]
    <3>0. N - 1 \in S
      <4> HIDE DEF S
      <4>. QED  BY <2>8, <2>9
    <3>1. (N - 1) + 1 = N /\ N - 1 \in S
      BY <1>0, <3>0
    <3>2. (N - 1) + 1 <= N => h[(N - 1) + 1] = j[(N - 1) + 1]
      BY <3>1
    <3>. QED  BY <1>0, <3>1, <3>2
  <2>. QED  BY <1>1, <2>1, <2>10
<1>. QED  BY <1>2, <1>3

(* What is flattened holds what its pieces hold.                           *)
LEMMA FlattenTyped ==
  ASSUME NEW T, NEW s \in Seq(Seq(T))
  PROVE  FlattenSeq(s) \in Seq(T)
<1>1. IsSeq(s) /\ Len(s) \in Nat /\ DOMAIN s = 1 .. Len(s)
  BY SeqIsSeq
<1>2. \A i \in 1 .. Len(s) : s[i] \in Seq(T)
  BY <1>1
<1>3. \A i \in DOMAIN s : IsSeq(s[i])
  BY <1>1, <1>2, SeqIsSeq
<1>4. PICK j : Joins(j, s, Len(s)) /\ FlattenSeq(s) = j[Len(s)]
  BY <1>1, <1>3, FlattenJoins
<1>. QED  BY <1>1, <1>2, <1>4, JoinsTyped

(* One more piece comes at the end.                                        *)
LEMMA FlattenAppend ==
  ASSUME NEW s, IsSeq(s), \A i \in DOMAIN s : IsSeq(s[i]), NEW t, IsSeq(t)
  PROVE  FlattenSeq(Append(s, t)) = FlattenSeq(s) \o t
<1> DEFINE u == Append(s, t)
           N == Len(s)
<1>1. /\ IsSeq(u) /\ N \in Nat /\ Len(u) = N + 1
      /\ DOMAIN s = 1 .. N /\ DOMAIN u = 1 .. N + 1
      /\ u[N + 1] = t /\ \A i \in 1 .. N : u[i] = s[i]
  BY AppendIsSeq
<1> HIDE DEF u
<1>2. \A i \in DOMAIN u : IsSeq(u[i])
  BY <1>1
<1>3. PICK j : Joins(j, s, N) /\ FlattenSeq(s) = j[N]
  BY FlattenJoins
<1>4. PICK k : Joins(k, u, N + 1) /\ FlattenSeq(u) = k[N + 1]
  BY <1>1, <1>2, FlattenJoins
<1>5. k[N + 1] = Glue(k[N], t)
  BY <1>1, <1>4, JoinsSteps
<1>6. j[N] = k[N]
  BY <1>1, <1>3, <1>4, JoinsAgree
<1>. QED  BY <1>3, <1>4, <1>5, <1>6 DEF u, Glue

(* A list of lists that all have something in them is empty iff what they  *)
(* are joined to is.                                                       *)
LEMMA FlattenEmpty ==
  ASSUME NEW L, \A l \in L : IsSeq(l) /\ l # <<>>, NEW s \in Seq(L)
  PROVE  FlattenSeq(s) = <<>> <=> s = <<>>
<1>1. IsSeq(s) /\ DOMAIN s = 1 .. Len(s) /\ Len(s) \in Nat
  BY SeqIsSeq
<1>2. \A i \in DOMAIN s : IsSeq(s[i]) /\ s[i] # <<>>
  BY <1>1
<1>3. PICK j : Joins(j, s, Len(s)) /\ FlattenSeq(s) = j[Len(s)]
  BY <1>1, <1>2, FlattenJoins
<1>4. CASE s = <<>>
  BY <1>4, ShortSeqs DEF FlattenSeq
<1>5. CASE s # <<>>
  <2>1. Len(s) >= 1
    BY <1>1, <1>5, EmptySeq
  <2>2. j[1] = Glue(j[0], s[1]) /\ j[0] = <<>>
    BY <1>1, <1>3, <2>1, JoinsSteps
  <2>3. s[1] \in Seq(Range(s[1])) /\ s[1] # <<>>
    BY <1>1, <1>2, <2>1 DEF IsSeq
  <2>4. j[1] = s[1]
    BY <2>2, <2>3, ConcatEmptySeq DEF Glue
  <2>5. Len(j[1]) \in Nat \ {0}
    BY <2>3, <2>4, EmptySeq
  <2>6. Len(j[1]) <= Len(j[Len(s)])
    <3>1. 1 \in 0 .. Len(s) /\ Len(s) \in 1 .. Len(s)
      BY <1>1, <2>1
    <3>2. \A n \in 1 .. Len(s) : Len(j[1]) <= Len(j[n])
      BY <1>1, <1>2, <1>3, <3>1, JoinsGrow
    <3>. QED  BY <3>1, <3>2
  <2>7. Len(<<>>) = 0
    BY ShortSeqs
  <2>8. j[Len(s)] # <<>>
    BY <2>5, <2>6, <2>7
  <2>. QED  BY <1>3, <1>5, <2>8
<1>. QED  BY <1>4, <1>5

-----------------------------------------------------------------------------
(* The items of a group that are judged are its groups and the test cases  *)
(* the filter selects.                                                     *)
LEMMA SelectedItems ==
  ASSUME NEW T, NEW nodes \in Seq(T)
  PROVE  Selected(nodes) \in Seq(ToSet(nodes) \intersect (Groups \union Matching))
<1> DEFINE S == ToSet(nodes) \intersect (Groups \union Matching)
           parts == [i \in DOMAIN nodes |->
                       IF nodes[i] \in Groups \union Matching THEN <<nodes[i]>> ELSE <<>>]
<1>1. DOMAIN nodes = 1 .. Len(nodes) /\ Len(nodes) \in Nat
  BY SeqIsSeq
<1>2. ASSUME NEW i \in DOMAIN nodes
      PROVE  parts[i] \in Seq(S)
  <2>1. nodes[i] \in ToSet(nodes)
    BY DEF ToSet
  <2>2. CASE nodes[i] \in Groups \union Matching
    <3>1. nodes[i] \in S
      BY <2>1, <2>2
    <3> HIDE DEF S
    <3>2. <<nodes[i]>> \in Seq(S)
      BY <3>1
    <3>. QED  BY <2>2, <3>2
  <2>3. CASE nodes[i] \notin Groups \union Matching
    BY <2>3, EmptySeq
  <2>. QED  BY <2>2, <2>3
<1> HIDE DEF S
<1>3. parts \in Seq(Seq(S))
  <2>1. parts \in [1 .. Len(nodes) -> Seq(S)]
    BY <1>1, <1>2
  <2>. QED  BY <1>1, <2>1, SeqDef
<1>. QED  BY <1>3, FlattenTyped DEF Selected, S

(* A height of the groups, and a bound on it.                              *)
Heights == {height \in [Groups -> Nat] :
              \A g \in Groups : \A n \in ToSet(Items[g]) \intersect Groups :
                height[n] < height[g]}

(* The tree has heights, and they are bounded.                             *)
LEMMA HeightsExist ==
  \E height \in Heights : \E bound \in Nat : \A g \in Groups : height[g] < bound
<1>1. Cardinality(Groups) \in Nat
  BY TreeAssumption, FS_CardinalityType
<1>2. PICK height \in [Groups -> 0 .. Cardinality(Groups)] :
        \A g \in Groups : \A n \in ToSet(Items[g]) \intersect Groups : height[n] < height[g]
  BY FiniteTreeAssumption
<1>3. height \in Heights
  BY <1>1, <1>2 DEF Heights
<1>4. \A g \in Groups : height[g] < Cardinality(Groups) + 1
  BY <1>1, <1>2
<1>. QED  BY <1>1, <1>3, <1>4

(* The items of a group, as they are and as they are selected.             *)
LEMMA ItemsTyped ==
  ASSUME NEW g \in Groups
  PROVE  /\ Items[g] \in Seq(Tests \union Groups)
         /\ Len(Items[g]) \in Nat /\ DOMAIN Items[g] = 1 .. Len(Items[g])
         /\ \A i \in DOMAIN Items[g] :
              /\ Items[g][i] \in Tests \union Groups
              /\ Items[g][i] \in ToSet(Items[g])
<1>1. Items[g] \in Seq(Tests \union Groups)
  BY TreeAssumption
<1>. QED  BY <1>1, SeqIsSeq DEF ToSet

(* A selected item is one of the group's, and it is a group or a test      *)
(* case.                                                                   *)
LEMMA SelectedTyped ==
  ASSUME NEW g \in Groups
  PROVE  LET items == Selected(Items[g])
         IN  /\ items \in Seq(Tests \union Groups)
             /\ Len(items) \in Nat /\ DOMAIN items = 1 .. Len(items)
             /\ \A n \in 1 .. Len(items) :
                  /\ items[n] \in ToSet(Items[g])
                  /\ items[n] \in Groups \/ (items[n] \in Tests /\ items[n] \notin Groups)
<1> DEFINE items == Selected(Items[g])
           S == ToSet(Items[g]) \intersect (Groups \union Matching)
<1>1. items \in Seq(S)
  BY ItemsTyped, SelectedItems
<1>2. Len(items) \in Nat /\ DOMAIN items = 1 .. Len(items)
  <2> HIDE DEF S, items
  <2>. QED  BY <1>1, SeqIsSeq
<1>3. \A n \in 1 .. Len(items) : items[n] \in S
  <2> HIDE DEF S, items
  <2>. QED  BY <1>1
<1>4. S \subseteq Tests \union Groups
  BY TreeAssumption
<1>5. items \in Seq(Tests \union Groups)
  <2> HIDE DEF S, items
  <2>. QED  BY <1>1, <1>4, SeqMonotonic
<1>6. \A t \in S : t \in Groups \/ (t \in Tests /\ t \notin Groups)
  BY TreeAssumption
<1>7. \A n \in 1 .. Len(items) :
        /\ items[n] \in ToSet(Items[g])
        /\ items[n] \in Groups \/ (items[n] \in Tests /\ items[n] \notin Groups)
  <2> HIDE DEF items
  <2>. QED  BY <1>3, <1>6
<1>. QED  BY <1>2, <1>5, <1>7, Zenon

-----------------------------------------------------------------------------
(* The test cases of a subtree.                                            *)
Below(all, g) ==
  FlattenSeq([i \in DOMAIN Items[g] |->
                IF Items[g][i] \in Tests THEN <<Items[g][i]>> ELSE all[Items[g][i]]])

(* It depends on the test cases of the groups in the group only.           *)
LEMMA BelowAgrees ==
  ASSUME NEW g \in Groups, NEW all, NEW every,
         \A n \in ToSet(Items[g]) \intersect Groups : all[n] = every[n]
  PROVE  Below(all, g) = Below(every, g)
<1>1. \A i \in DOMAIN Items[g] :
        (IF Items[g][i] \in Tests THEN <<Items[g][i]>> ELSE all[Items[g][i]])
          = (IF Items[g][i] \in Tests THEN <<Items[g][i]>> ELSE every[Items[g][i]])
  BY ItemsTyped
<1>2. [i \in DOMAIN Items[g] |->
         IF Items[g][i] \in Tests THEN <<Items[g][i]>> ELSE all[Items[g][i]]]
       = [i \in DOMAIN Items[g] |->
            IF Items[g][i] \in Tests THEN <<Items[g][i]>> ELSE every[Items[g][i]]]
  BY <1>1
<1>. QED  BY <1>2 DEF Below

(* The recursion over the tree defines the test cases of every subtree: by *)
(* induction on the height up to which it does.                            *)
LEMMA AllTestcasesDef ==
  \A g \in Groups : AllTestcases[g] = Below(AllTestcases, g)
<1>1. PICK height \in Heights, bound \in Nat : \A g \in Groups : height[g] < bound
  BY HeightsExist
<1> DEFINE Upto(n, all) == \A g \in Groups : height[g] < n => all[g] = Below(all, g)
           S == {n \in Nat : \E all : Upto(n, all)}
<1>2. 0 \in S
  <2>1. \A g \in Groups : ~ (height[g] < 0)
    BY DEF Heights
  <2>. QED  BY <2>1
<1>3. ASSUME NEW n \in Nat, n \in S
      PROVE  n + 1 \in S
  <2>1. PICK all : Upto(n, all)
    BY <1>3
  <2> DEFINE every == [g \in Groups |-> Below(all, g)]
  <2>2. ASSUME NEW g \in Groups, height[g] < n + 1
        PROVE  every[g] = Below(every, g)
    <3>1. ASSUME NEW c \in ToSet(Items[g]) \intersect Groups
          PROVE  all[c] = every[c]
      <4>1. height[c] < height[g] /\ height[c] \in Nat /\ height[g] \in Nat
        BY DEF Heights
      <4>. QED  BY <2>1, <2>2, <4>1
    <3>. QED  BY <3>1, BelowAgrees
  <2> HIDE DEF every
  <2>3. Upto(n + 1, every)
    BY <2>2
  <2>. QED  BY <2>3
<1>4. bound \in S
  <2>1. \A n \in Nat : n \in S
    <3> HIDE DEF S
    <3>. QED  BY <1>2, <1>3, SetInduction
  <2> HIDE DEF S
  <2>. QED  BY <2>1
<1>5. PICK all : Upto(bound, all)
  BY <1>4
<1> DEFINE every == [g \in Groups |-> Below(all, g)]
<1>6. every = [g \in Groups |-> Below(every, g)]
  <2>1. ASSUME NEW g \in Groups
        PROVE  Below(all, g) = Below(every, g)
    <3>1. \A c \in Groups : all[c] = every[c]
      BY <1>1, <1>5
    <3> HIDE DEF every
    <3>. QED  BY <3>1, BelowAgrees
  <2>. QED  BY <2>1
<1>7. AllTestcases = [g \in Groups |-> Below(AllTestcases, g)]
  <2>1. AllTestcases = CHOOSE f : f = [g \in Groups |-> Below(f, g)]
    BY DEF AllTestcases, Below
  <2> HIDE DEF every
  <2>. QED  BY <1>6, <2>1
<1>. QED  BY <1>7

(* A subtree's test cases are test cases.                                  *)
LEMMA AllTestcasesTyped == \A g \in Groups : AllTestcases[g] \in Seq(Tests)
<1>1. PICK height \in Heights, bound \in Nat : \A g \in Groups : height[g] < bound
  BY HeightsExist
<1> DEFINE S == {n \in Nat : \A g \in Groups :
                                height[g] < n => AllTestcases[g] \in Seq(Tests)}
<1>2. 0 \in S
  <2>1. \A g \in Groups : ~ (height[g] < 0)
    BY DEF Heights
  <2>. QED  BY <2>1
<1>3. ASSUME NEW n \in Nat, n \in S
      PROVE  n + 1 \in S
  <2>1. ASSUME NEW g \in Groups, height[g] < n + 1
        PROVE  AllTestcases[g] \in Seq(Tests)
    <3> DEFINE parts == [i \in DOMAIN Items[g] |->
                           IF Items[g][i] \in Tests THEN <<Items[g][i]>>
                           ELSE AllTestcases[Items[g][i]]]
    <3>1. ASSUME NEW i \in DOMAIN Items[g]
          PROVE  parts[i] \in Seq(Tests)
      <4>1. CASE Items[g][i] \in Tests
        BY <4>1
      <4>2. CASE Items[g][i] \notin Tests
        <5>1. Items[g][i] \in ToSet(Items[g]) \intersect Groups
          BY <4>2, ItemsTyped
        <5>2. /\ height[Items[g][i]] < height[g]
              /\ height[Items[g][i]] \in Nat /\ height[g] \in Nat
          BY <5>1 DEF Heights
        <5>3. height[Items[g][i]] < n
          BY <2>1, <5>2
        <5>. QED  BY <1>3, <4>2, <5>1, <5>3
      <4>. QED  BY <4>1, <4>2
    <3>2. parts \in Seq(Seq(Tests))
      <4>1. parts \in [1 .. Len(Items[g]) -> Seq(Tests)]
        BY <3>1, ItemsTyped
      <4>2. Len(Items[g]) \in Nat
        BY ItemsTyped
      <4> HIDE DEF parts
      <4>. QED  BY <4>1, <4>2, SeqDef
    <3>. QED  BY <3>2, FlattenTyped, AllTestcasesDef DEF Below
  <2>. QED  BY <2>1
<1>4. bound \in S
  <2>1. \A n \in Nat : n \in S
    <3> HIDE DEF S
    <3>. QED  BY <1>2, <1>3, SetInduction
  <2> HIDE DEF S
  <2>. QED  BY <2>1
<1>. QED  BY <1>1, <1>4

-----------------------------------------------------------------------------
(* The children of a group, item by item.                                  *)
Pieces(out, run, g) ==
  [n \in 1 .. Len(Selected(Items[g])) |-> Child(ListOf(out, run, g, Selected(Items[g])[n]))]

(* They are the non-empty pieces, one after the other.                     *)
LEMMA ChildrenJoin ==
  ASSUME NEW out, NEW run, NEW g \in Groups
  PROVE  \E joined : /\ Joins(joined, Pieces(out, run, g), Len(Selected(Items[g])))
                     /\ Children(out, run, g) = joined[Len(Selected(Items[g]))]
<1> DEFINE items == Selected(Items[g])
           N == Len(items)
           e(n) == Child(ListOf(out, run, g, items[n]))
           First(f) == f = [n \in 0 .. N |-> IF n = 0 THEN <<>> ELSE f[n - 1] \o e(n)]
           first == CHOOSE f : First(f)
<1>1. N \in Nat
  BY SelectedTyped
<1>2. Children(out, run, g) = first[N]
  BY DEF Children
<1>3. PICK j : Joins(j, Pieces(out, run, g), N)
  BY <1>1, JoinsExist
<1>4. First(j)
  <2>1. j = [n \in 0 .. N |-> IF n = 0 THEN <<>> ELSE Glue(j[n - 1], Pieces(out, run, g)[n])]
    BY <1>3 DEF Joins
  <2>2. \A n \in 0 .. N : n # 0 => Pieces(out, run, g)[n] = e(n)
    BY <1>1 DEF Pieces
  <2> HIDE DEF N, e
  <2>3. [n \in 0 .. N |-> IF n = 0 THEN <<>> ELSE Glue(j[n - 1], Pieces(out, run, g)[n])]
        = [n \in 0 .. N |-> IF n = 0 THEN <<>> ELSE Glue(j[n - 1], e(n))]
    BY <2>2
  <2>. QED  BY <2>1, <2>3 DEF Glue
<1>5. First(first)
  <2> HIDE DEF First
  <2>. QED  BY <1>4
<1> HIDE DEF first
<1>6. first = [n \in 0 .. N |->
                 IF n = 0 THEN <<>> ELSE Glue(first[n - 1], Pieces(out, run, g)[n])]
  <2>2. \A n \in 0 .. N : n # 0 => Pieces(out, run, g)[n] = e(n)
    BY <1>1 DEF Pieces
  <2>1. first = [n \in 0 .. N |-> IF n = 0 THEN <<>> ELSE Glue(first[n - 1], e(n))]
    BY <1>5 DEF Glue
  <2> HIDE DEF N, e
  <2>3. [n \in 0 .. N |-> IF n = 0 THEN <<>> ELSE Glue(first[n - 1], Pieces(out, run, g)[n])]
        = [n \in 0 .. N |-> IF n = 0 THEN <<>> ELSE Glue(first[n - 1], e(n))]
    BY <2>2
  <2>. QED  BY <2>1, <2>3
<1>7. Joins(first, Pieces(out, run, g), N)
  BY <1>6 DEF Joins
<1>. QED  BY <1>2, <1>7

(* What a group answers depends on what the groups in it answer only.      *)
LEMMA GroupAnswerAgrees ==
  ASSUME NEW out, NEW others, NEW run, NEW g \in Groups,
         \A c \in ToSet(Items[g]) \intersect Groups : out[c] = others[c]
  PROVE  GroupAnswer(out, run, g) = GroupAnswer(others, run, g)
<1> DEFINE N == Len(Selected(Items[g]))
<1>1. PICK j : Joins(j, Pieces(out, run, g), N) /\ Children(out, run, g) = j[N]
  BY ChildrenJoin
<1>2. PICK k : Joins(k, Pieces(others, run, g), N) /\ Children(others, run, g) = k[N]
  BY ChildrenJoin
<1>3. \A n \in 1 .. N : Pieces(out, run, g)[n] = Pieces(others, run, g)[n]
  <2> TAKE n \in 1 .. N
  <2>1. Selected(Items[g])[n] \in ToSet(Items[g])
    BY SelectedTyped
  <2>. QED  BY <2>1 DEF Pieces, ListOf
<1>4. N \in Nat
  BY SelectedTyped
<1> HIDE DEF N
<1>5. j[N] = k[N]
  BY <1>1, <1>2, <1>3, <1>4, JoinsAgree
<1>. QED  BY <1>1, <1>2, <1>5 DEF GroupAnswer

(* What every group answers.                                               *)
AnswersOf(run) == LET out[g \in Groups] == GroupAnswer(out, run, g) IN out

(* The recursion over the tree defines an answer for every group.          *)
LEMMA AnswersDef ==
  ASSUME NEW run
  PROVE  /\ Answer(run) = AnswersOf(run)[Root]
         /\ \A g \in Groups : AnswersOf(run)[g] = GroupAnswer(AnswersOf(run), run, g)
<1>1. PICK height \in Heights, bound \in Nat : \A g \in Groups : height[g] < bound
  BY HeightsExist
<1> DEFINE Upto(n, out) == \A g \in Groups :
                              height[g] < n => out[g] = GroupAnswer(out, run, g)
           S == {n \in Nat : \E out : Upto(n, out)}
<1>2. 0 \in S
  <2>1. \A g \in Groups : ~ (height[g] < 0)
    BY DEF Heights
  <2>. QED  BY <2>1
<1>3. ASSUME NEW n \in Nat, n \in S
      PROVE  n + 1 \in S
  <2>1. PICK out : Upto(n, out)
    BY <1>3
  <2> DEFINE next == [g \in Groups |-> GroupAnswer(out, run, g)]
  <2>2. ASSUME NEW g \in Groups, height[g] < n + 1
        PROVE  next[g] = GroupAnswer(next, run, g)
    <3>1. ASSUME NEW c \in ToSet(Items[g]) \intersect Groups
          PROVE  out[c] = next[c]
      <4>1. height[c] < height[g] /\ height[c] \in Nat /\ height[g] \in Nat
        BY DEF Heights
      <4>. QED  BY <2>1, <2>2, <4>1
    <3>2. next[g] = GroupAnswer(out, run, g)
      OBVIOUS
    <3> HIDE DEF next
    <3>. QED  BY <3>1, <3>2, GroupAnswerAgrees
  <2> HIDE DEF next
  <2>3. Upto(n + 1, next)
    BY <2>2
  <2>. QED  BY <2>3
<1>4. bound \in S
  <2>1. \A n \in Nat : n \in S
    <3> HIDE DEF S
    <3>. QED  BY <1>2, <1>3, SetInduction
  <2> HIDE DEF S
  <2>. QED  BY <2>1
<1>5. PICK out : Upto(bound, out)
  BY <1>4
<1> DEFINE next == [g \in Groups |-> GroupAnswer(out, run, g)]
           Is(f) == f = [g \in Groups |-> GroupAnswer(f, run, g)]
<1>6. Is(next)
  <2>1. ASSUME NEW g \in Groups
        PROVE  GroupAnswer(out, run, g) = GroupAnswer(next, run, g)
    <3>1. \A c \in Groups : out[c] = next[c]
      BY <1>1, <1>5
    <3> HIDE DEF next
    <3>. QED  BY <3>1, GroupAnswerAgrees
  <2>. QED  BY <2>1
<1>7. AnswersOf(run) = CHOOSE f : Is(f)
  BY DEF AnswersOf
<1>8. Is(AnswersOf(run))
  <2> HIDE DEF next, Is
  <2>. QED  BY <1>6, <1>7
<1>9. Answer(run) = AnswersOf(run)[Root]
  BY DEF Answer, AnswersOf
<1>. QED  BY <1>8, <1>9

-----------------------------------------------------------------------------
(* The lists a group's items answer, but the empty ones.                   *)
Lists(out, run, g) ==
  {ListOf(out, run, g, item) : item \in ToSet(Items[g])} \ {<<>>}

(* Every piece holds such lists.                                           *)
LEMMA PiecesTyped ==
  ASSUME NEW out, NEW run, NEW g \in Groups
  PROVE  \A n \in 1 .. Len(Selected(Items[g])) :
           Pieces(out, run, g)[n] \in Seq(Lists(out, run, g))
<1> TAKE n \in 1 .. Len(Selected(Items[g]))
<1> DEFINE list == ListOf(out, run, g, Selected(Items[g])[n])
<1>1. Pieces(out, run, g)[n] = Child(list)
  BY DEF Pieces
<1>2. CASE list = <<>>
  BY <1>1, <1>2, EmptySeq DEF Child
<1>3. CASE list # <<>>
  <2>1. list \in Lists(out, run, g)
    BY <1>3, SelectedTyped DEF Lists
  <2>. QED  BY <1>1, <1>3, <2>1 DEF Child
<1>. QED  BY <1>2, <1>3

(* What is up to the first break is part of the children.                  *)
LEMMA UpToBreakTyped ==
  ASSUME NEW g, NEW L, NEW children \in Seq(L)
  PROVE  UpToBreak(g, children) \in Seq(L)
<1> DEFINE stops == {i \in DOMAIN children : Breaks(g, Last(children[i]).result)}
<1>1. DOMAIN children = 1 .. Len(children) /\ Len(children) \in Nat
  BY SeqIsSeq
<1>2. CASE stops = {}
  BY <1>2 DEF UpToBreak
<1>3. CASE stops # {}
  <2>1. stops \in SUBSET Nat
    BY <1>1
  <2>2. Min(stops) \in stops
    BY <1>3, <2>1, MinIsLeast
  <2>3. Min(stops) \in 1 .. Len(children)
    BY <1>1, <2>2
  <2>4. UpToBreak(g, children) = SubSeq(children, 1, Min(stops))
    BY <1>3 DEF UpToBreak
  <2>5. \A i \in 1 .. Min(stops) : children[i] \in L
    BY <1>1, <2>3
  <2>. QED  BY <2>3, <2>4, <2>5, SubSeqProperties
<1>. QED  BY <1>2, <1>3

(* What a group answers for is made of such lists.                         *)
LEMMA ChildrenAreLists ==
  ASSUME NEW out, NEW run, NEW g \in Groups
  PROVE  UpToBreak(g, Children(out, run, g)) \in Seq(Lists(out, run, g))
<1> DEFINE L == Lists(out, run, g)
<1>1. PICK j : /\ Joins(j, Pieces(out, run, g), Len(Selected(Items[g])))
               /\ Children(out, run, g) = j[Len(Selected(Items[g]))]
  BY ChildrenJoin
<1>2. Len(Selected(Items[g])) \in Nat
  BY SelectedTyped
<1>3. \A m \in 1 .. Len(Selected(Items[g])) : Pieces(out, run, g)[m] \in Seq(L)
  BY PiecesTyped
<1> HIDE DEF L
<1>4. Children(out, run, g) \in Seq(L)
  BY <1>1, <1>2, <1>3, JoinsTyped
<1>. QED  BY <1>4, UpToBreakTyped DEF L

(* What a group answers is a sequence.                                     *)
LEMMA AnswersAreSeqs ==
  ASSUME NEW run
  PROVE  \A g \in Groups : IsSeq(AnswersOf(run)[g])
<1>1. PICK height \in Heights, bound \in Nat : \A g \in Groups : height[g] < bound
  BY HeightsExist
<1> DEFINE out == AnswersOf(run)
           S == {n \in Nat : \A g \in Groups : height[g] < n => IsSeq(out[g])}
<1> HIDE DEF out
<1>2. 0 \in S
  <2>1. \A g \in Groups : ~ (height[g] < 0)
    BY DEF Heights
  <2>. QED  BY <2>1
<1>3. ASSUME NEW n \in Nat, n \in S
      PROVE  n + 1 \in S
  <2>1. ASSUME NEW g \in Groups, height[g] < n + 1
        PROVE  IsSeq(out[g])
    <3> DEFINE N == Len(Selected(Items[g]))
               L == Lists(out, run, g)
               children == UpToBreak(g, Children(out, run, g))
    <3>1. PICK j : Joins(j, Pieces(out, run, g), N) /\ Children(out, run, g) = j[N]
      BY ChildrenJoin
    <3>2. N \in Nat
      BY SelectedTyped
    <3>3. \A m \in 1 .. N : Pieces(out, run, g)[m] \in Seq(L)
      BY PiecesTyped
    <3> HIDE DEF N, L
    <3>4. j[N] \in Seq(L)
      BY <3>1, <3>2, <3>3, JoinsTyped
    <3>5. children \in Seq(L)
      BY <3>1, <3>4, UpToBreakTyped
    <3>6. \A l \in L : IsSeq(l)
      <4>1. ASSUME NEW item \in ToSet(Items[g])
            PROVE  IsSeq(ListOf(out, run, g, item))
        <5>1. CASE item \in Groups
          <6>1. height[item] < height[g] /\ height[item] \in Nat /\ height[g] \in Nat
            BY <5>1 DEF Heights
          <6>2. height[item] < n
            BY <2>1, <6>1
          <6>. QED  BY <1>3, <5>1, <6>2 DEF ListOf
        <5>2. CASE item \notin Groups
          BY <5>2, ShortSeqs DEF ListOf
        <5>. QED  BY <5>1, <5>2
      <4>. QED  BY <4>1 DEF L, Lists
    <3> HIDE DEF children
    <3>7. IsSeq(FlattenSeq(children))
      <4>1. IsSeq(children) /\ DOMAIN children = 1 .. Len(children) /\ Len(children) \in Nat
        BY <3>5, SeqIsSeq
      <4>2. \A i \in DOMAIN children : IsSeq(children[i])
        BY <3>5, <3>6, <4>1
      <4>3. PICK k : /\ Joins(k, children, Len(children))
                     /\ FlattenSeq(children) = k[Len(children)]
        BY <4>1, <4>2, FlattenJoins
      <4>. QED  BY <4>1, <4>2, <4>3, JoinsAreSeqs
    <3>8. out[g] = GroupAnswer(out, run, g)
      BY AnswersDef DEF out
    <3>9. CASE children = <<>>
      BY <3>8, <3>9, ShortSeqs DEF GroupAnswer, children
    <3>10. CASE children # <<>>
      BY <3>7, <3>8, <3>10, AppendIsSeq DEF GroupAnswer, children
    <3>. QED  BY <3>9, <3>10
  <2>. QED  BY <2>1
<1>4. bound \in S
  <2>1. \A n \in Nat : n \in S
    <3> HIDE DEF S
    <3>. QED  BY <1>2, <1>3, SetInduction
  <2> HIDE DEF S
  <2>. QED  BY <2>1
<1>. QED  BY <1>1, <1>4 DEF out

(* The lists a group is put together from are sequences with something in  *)
(* them.                                                                   *)
LEMMA ListsAreSeqs ==
  ASSUME NEW run, NEW g \in Groups, NEW list \in Lists(AnswersOf(run), run, g)
  PROVE  IsSeq(list) /\ list # <<>>
<1>1. PICK item \in ToSet(Items[g]) : list = ListOf(AnswersOf(run), run, g, item)
  BY DEF Lists
<1>2. IsSeq(list)
  BY <1>1, AnswersAreSeqs, ShortSeqs DEF ListOf
<1>. QED  BY <1>2 DEF Lists

-----------------------------------------------------------------------------
(* What a list holds, the lists it is joined with hold it, too.            *)
LEMMA FlattenHas ==
  ASSUME NEW s, IsSeq(s), \A i \in DOMAIN s : IsSeq(s[i])
  PROVE  /\ IsSeq(FlattenSeq(s))
         /\ \A i \in DOMAIN s : \A k \in DOMAIN s[i] :
              \E q \in DOMAIN FlattenSeq(s) : FlattenSeq(s)[q] = s[i][k]
<1> DEFINE N == Len(s)
<1>1. N \in Nat /\ DOMAIN s = 1 .. N
  BY SeqIsSeq DEF IsSeq
<1>2. PICK j : Joins(j, s, N) /\ FlattenSeq(s) = j[N]
  BY FlattenJoins
<1>3. \A n \in 0 .. N : IsSeq(j[n])
  BY <1>1, <1>2, JoinsAreSeqs
<1>4. ASSUME NEW i \in DOMAIN s, NEW k \in DOMAIN s[i]
      PROVE  \E q \in DOMAIN j[N] : j[N][q] = s[i][k]
  <2> DEFINE a == j[i - 1]
             b == s[i]
             q == Len(a) + k
  <2>1. i - 1 \in 0 .. N /\ i \in 0 .. N /\ N \in i .. N /\ i \in 1 .. N
    BY <1>1
  <2>2. IsSeq(a) /\ IsSeq(b) /\ IsSeq(j[i]) /\ IsSeq(j[N])
    BY <1>1, <1>3, <2>1
  <2>3. j[i] = a \o b
    <3>1. j[i] = Glue(j[i - 1], s[i])
      BY <1>1, <1>2, <2>1, JoinsSteps
    <3>. QED  BY <3>1 DEF Glue
  <2> HIDE DEF a, b
  <2>4. /\ Len(a) \in Nat /\ Len(b) \in Nat /\ DOMAIN b = 1 .. Len(b)
        /\ Len(a \o b) = Len(a) + Len(b)
        /\ DOMAIN (a \o b) = 1 .. Len(a) + Len(b)
        /\ \A m \in DOMAIN (a \o b) : (a \o b)[m] = IF m <= Len(a) THEN a[m] ELSE b[m - Len(a)]
    BY <2>2, ConcatIsSeq
  <2>5. k \in 1 .. Len(b)
    BY <2>4 DEF b
  <2>6. q \in DOMAIN (a \o b) /\ ~ (q <= Len(a)) /\ q - Len(a) = k
    BY <2>4, <2>5
  <2>7. j[i][q] = b[k] /\ q \in 1 .. Len(j[i])
    BY <2>3, <2>4, <2>6
  <2>8. Len(j[i]) <= Len(j[N]) /\ j[N][q] = j[i][q]
    <3>1. \A n \in 1 .. N : IsSeq(s[n])
      BY <1>1
    <3>0. N \in Nat /\ i \in 0 .. N /\ Joins(j, s, N)
      BY <1>1, <1>2, <2>1
    <3> HIDE DEF N, q
    <3>2. \A n \in i .. N : /\ Len(j[i]) <= Len(j[n])
                            /\ \A x \in 1 .. Len(j[i]) : j[n][x] = j[i][x]
      BY <3>0, <3>1, JoinsGrow
    <3>. QED  BY <2>1, <2>7, <3>2
  <2>9. DOMAIN j[N] = 1 .. Len(j[N]) /\ Len(j[N]) \in Nat /\ Len(j[i]) \in Nat
    BY <2>2, SeqIsSeq DEF IsSeq
  <2>. QED  BY <2>7, <2>8, <2>9 DEF b
<1>5. IsSeq(j[N])
  BY <1>1, <1>3
<1>. QED  BY <1>2, <1>4, <1>5

-----------------------------------------------------------------------------
(* What the groups see of a result.                                        *)
Judgements == [verdict : Verdict, runtime : Int, score : Int \union {NoScore}]

(* Two results a group cannot tell apart, and lists of such results.       *)
Alike(r, q) == r.verdict = q.verdict /\ r.score = q.score

AlikeLists(a, b) ==
  /\ Len(a) = Len(b)
  /\ \A i \in 1 .. Len(a) : a[i].node = b[i].node /\ Alike(a[i].result, b[i].result)

(* A run accepted within a limit is the same at a higher one.              *)
LEMMA DirectHigher ==
  ASSUME NEW b \in Behaviour, NEW limit \in Int, NEW higher \in Int, limit <= higher,
         Direct(b, limit).verdict = "AC"
  PROVE  Alike(Direct(b, limit), Direct(b, higher))
<1>1. b.time \in Int
  BY DEF Behaviour
<1>2. ~ ValidatorDecides(b)
  BY DEF Direct, ValidatorDecides
<1>3. ~ (b.time > limit)
  BY <1>2 DEF Direct
<1>4. ~ (b.time > higher)
  BY <1>1, <1>3
<1>. QED  BY <1>2, <1>3, <1>4 DEF Direct, Alike

(* A group of children alike gets results alike.                           *)
LEMMA AggregateAlike ==
  ASSUME NEW grader, NEW flags, NEW scoring, NEW a, NEW b, IsSeq(a), IsSeq(b),
         Len(a) = Len(b), \A i \in 1 .. Len(a) : Alike(a[i], b[i])
  PROVE  Alike(AggregateGroupResult(grader, flags, scoring, a),
               AggregateGroupResult(grader, flags, scoring, b))
<1> DEFINE errors(c) == {i \in DOMAIN c : c[i].verdict = "JE"}
<1>1. Len(a) \in Nat /\ DOMAIN a = 1 .. Len(a) /\ DOMAIN b = 1 .. Len(a)
  BY SeqIsSeq DEF IsSeq
<1>2. errors(a) = errors(b) /\ errors(a) \subseteq Nat
  BY <1>1 DEF Alike
<1>3. Lines(a) = Lines(b)
  BY <1>1 DEF Lines, Alike
<1>4. a = <<>> <=> b = <<>>
  BY <1>1, EmptySeq DEF IsSeq
<1>5. GradeGroup(grader, flags, a) = GradeGroup(grader, flags, b)
  BY <1>3, <1>4 DEF GradeGroup
<1>6. CASE errors(a) # {}
  <2>1. Min(errors(a)) \in 1 .. Len(a)
    BY <1>1, <1>2, <1>6, MinIsLeast
  <2>2. AggregateGroupResult(grader, flags, scoring, a) = a[Min(errors(a))]
    BY <1>6 DEF AggregateGroupResult
  <2>3. AggregateGroupResult(grader, flags, scoring, b) = b[Min(errors(a))]
    BY <1>2, <1>6 DEF AggregateGroupResult
  <2> HIDE DEF errors
  <2>. QED  BY <2>1, <2>2, <2>3
<1>7. CASE errors(a) = {}
  BY <1>2, <1>5, <1>7 DEF AggregateGroupResult, Alike
<1>. QED  BY <1>6, <1>7

(* Lists alike, one after the other, are lists alike.                      *)
LEMMA FlattenAlike ==
  ASSUME NEW s, IsSeq(s), NEW t, IsSeq(t), Len(s) = Len(t),
         \A i \in 1 .. Len(s) : IsSeq(s[i]) /\ IsSeq(t[i]) /\ AlikeLists(s[i], t[i])
  PROVE  AlikeLists(FlattenSeq(s), FlattenSeq(t))
<1> DEFINE N == Len(s)
<1>1. N \in Nat /\ DOMAIN s = 1 .. N /\ DOMAIN t = 1 .. N
  BY SeqIsSeq DEF IsSeq
<1>2. PICK j : Joins(j, s, N) /\ FlattenSeq(s) = j[N]
  BY <1>1, FlattenJoins
<1>3. PICK k : Joins(k, t, N) /\ FlattenSeq(t) = k[N]
  BY <1>1, FlattenJoins
<1> HIDE DEF N
<1>4. \A n \in 0 .. N : IsSeq(j[n]) /\ IsSeq(k[n])
  BY <1>1, <1>2, <1>3, JoinsAreSeqs DEF N
<1> DEFINE S == {n \in Nat : n <= N => AlikeLists(j[n], k[n])}
<1>5. 0 \in S
  <2>1. j[0] = <<>> /\ k[0] = <<>> /\ Len(<<>>) = 0
    BY <1>1, <1>2, <1>3, JoinsSteps, ShortSeqs
  <2>. QED  BY <2>1 DEF AlikeLists
<1>6. ASSUME NEW n \in Nat, n \in S
      PROVE  n + 1 \in S
  <2> SUFFICES ASSUME n + 1 <= N
               PROVE  AlikeLists(j[n + 1], k[n + 1])
    OBVIOUS
  <2> DEFINE a == j[n]
             b == s[n + 1]
             c == k[n]
             d == t[n + 1]
  <2>1. n \in 0 .. N /\ n + 1 \in 1 .. N
    BY <1>1
  <2>2. j[n + 1] = a \o b /\ k[n + 1] = c \o d
    <3>1. j[n + 1] = Glue(a, b)
      BY <1>1, <1>2, JoinsSteps
    <3>2. k[n + 1] = Glue(c, d)
      BY <1>1, <1>3, JoinsSteps
    <3>. QED  BY <3>1, <3>2 DEF Glue
  <2>3. IsSeq(a) /\ IsSeq(b) /\ IsSeq(c) /\ IsSeq(d) /\ AlikeLists(a, c) /\ AlikeLists(b, d)
    BY <1>1, <1>4, <1>6, <2>1 DEF N
  <2> HIDE DEF a, b, c, d
  <2>4. /\ Len(a) \in Nat /\ Len(b) \in Nat /\ Len(a) = Len(c) /\ Len(b) = Len(d)
        /\ Len(a \o b) = Len(a) + Len(b) /\ Len(c \o d) = Len(a) + Len(b)
    <3>1. Len(a) = Len(c) /\ Len(b) = Len(d)
      BY <2>3 DEF AlikeLists
    <3>2. Len(a) \in Nat /\ Len(b) \in Nat /\ Len(a \o b) = Len(a) + Len(b)
      BY <2>3, ConcatIsSeq
    <3>3. Len(c \o d) = Len(c) + Len(d)
      BY <2>3, ConcatIsSeq
    <3>. QED  BY <3>1, <3>2, <3>3
  <2>5. \A m \in 1 .. Len(a) + Len(b) :
          /\ (a \o b)[m] = IF m <= Len(a) THEN a[m] ELSE b[m - Len(a)]
          /\ (c \o d)[m] = IF m <= Len(a) THEN c[m] ELSE d[m - Len(a)]
    BY <2>3, <2>4, ConcatIsSeq
  <2>6. ASSUME NEW m \in 1 .. Len(a) + Len(b)
        PROVE  /\ (a \o b)[m].node = (c \o d)[m].node
               /\ Alike((a \o b)[m].result, (c \o d)[m].result)
    <3>1. CASE m <= Len(a)
      <4>1. m \in 1 .. Len(a)
        BY <2>4, <3>1
      <4>. QED  BY <2>3, <2>5, <3>1, <4>1 DEF AlikeLists
    <3>2. CASE ~ (m <= Len(a))
      <4>1. m - Len(a) \in 1 .. Len(b)
        BY <2>4, <3>2
      <4>. QED  BY <2>3, <2>5, <3>2, <4>1 DEF AlikeLists
    <3>. QED  BY <3>1, <3>2
  <2>. QED  BY <2>2, <2>4, <2>6 DEF AlikeLists
<1>7. \A n \in Nat : n \in S
  <2> HIDE DEF S
  <2>. QED  BY <1>5, <1>6, SetInduction
<1>8. AlikeLists(j[N], k[N])
  BY <1>1, <1>7
<1>. QED  BY <1>2, <1>3, <1>8

-----------------------------------------------------------------------------
(* A group breaks at this child.                                           *)
BreaksAt(g, children, i) == Breaks(g, Last(children[i]).result)

(* The first break, or the end.                                            *)
StopsAt(g, children, K) ==
  /\ K \in 0 .. Len(children)
  /\ \A i \in 1 .. K - 1 : ~ BreaksAt(g, children, i)
  /\ K = Len(children) \/ (K # 0 /\ BreaksAt(g, children, K))

(* The children of a group end there.                                      *)
LEMMA UpToBreakEnds ==
  ASSUME NEW g, NEW children, IsSeq(children)
  PROVE  /\ \E K \in 0 .. Len(children) : StopsAt(g, children, K)
         /\ \A K : StopsAt(g, children, K) => UpToBreak(g, children) = SubSeq(children, 1, K)
<1> DEFINE stops == {i \in DOMAIN children : BreaksAt(g, children, i)}
           end == Len(children)
           whole == SubSeq(children, 1, end)
<1>1. end \in Nat /\ DOMAIN children = 1 .. end
  BY SeqIsSeq DEF IsSeq
<1>2. UpToBreak(g, children) = IF stops = {} THEN children ELSE SubSeq(children, 1, Min(stops))
  BY DEF UpToBreak, BreaksAt
<1>3. whole = children
  <2>1. IsSeq(whole) /\ DOMAIN whole = 1 .. end /\ \A i \in 1 .. end : whole[i] = children[i]
    BY <1>1, SubSeqIsSeq
  <2>2. whole = [i \in 1 .. end |-> whole[i]] /\ children = [i \in 1 .. end |-> children[i]]
    BY <1>1, <2>1, SeqIsFunction
  <2> HIDE DEF whole
  <2>. QED  BY <2>1, <2>2
<1>4. stops # {} => Min(stops) \in stops /\ \A x \in stops : Min(stops) <= x
  <2>1. stops \subseteq Nat
    BY <1>1
  <2> HIDE DEF stops
  <2>. QED  BY <2>1, MinIsLeast
<1>5. \A i : i \in stops <=> i \in 1 .. end /\ BreaksAt(g, children, i)
  BY <1>1
<1> HIDE DEF stops, whole
<1>6. \E K \in 0 .. end : StopsAt(g, children, K)
  <2>1. CASE stops = {}
    <3>1. \A i \in 1 .. end - 1 : ~ BreaksAt(g, children, i)
      BY <1>1, <1>5, <2>1
    <3>2. StopsAt(g, children, end)
      BY <1>1, <3>1 DEF StopsAt
    <3>. QED  BY <1>1, <3>2
  <2>2. CASE stops # {}
    <3> DEFINE K == Min(stops)
    <3>1. K \in 1 .. end /\ BreaksAt(g, children, K) /\ \A x \in stops : K <= x
      BY <1>4, <1>5, <2>2
    <3> HIDE DEF K
    <3>2. \A i \in 1 .. K - 1 : i \in 1 .. end /\ ~ (K <= i)
      BY <1>1, <3>1
    <3>3. \A i \in 1 .. K - 1 : ~ BreaksAt(g, children, i)
      BY <1>5, <3>1, <3>2
    <3>4. K \in 0 .. end /\ K # 0
      BY <1>1, <3>1
    <3>5. StopsAt(g, children, K)
      BY <3>1, <3>3, <3>4 DEF StopsAt
    <3>. QED  BY <3>4, <3>5
  <2>. QED  BY <2>1, <2>2
<1>7. ASSUME NEW K, StopsAt(g, children, K)
      PROVE  UpToBreak(g, children) = SubSeq(children, 1, K)
  <2>0. /\ K \in 0 .. end
        /\ \A i \in 1 .. K - 1 : ~ BreaksAt(g, children, i)
        /\ K = end \/ (K # 0 /\ BreaksAt(g, children, K))
    BY <1>7 DEF StopsAt
  <2>1. CASE stops = {}
    <3>1. K = end
      <4>1. CASE K # end
        <5>1. K \in 1 .. end
          <6> HIDE DEF end
          <6>1. K \in 0 .. end /\ K # 0
            BY <2>0, <4>1
          <6>. QED  BY <1>1, <6>1
        <5>. QED  BY <1>5, <2>0, <2>1, <4>1, <5>1
      <4>. QED  BY <4>1
    <3>. QED  BY <1>2, <1>3, <2>1, <3>1 DEF whole
  <2>2. CASE stops # {}
    <3> DEFINE m == Min(stops)
    <3>1. m \in 1 .. end /\ BreaksAt(g, children, m) /\ \A x \in stops : m <= x
      BY <1>4, <1>5, <2>2
    <3>2. UpToBreak(g, children) = SubSeq(children, 1, m)
      BY <1>2, <2>2
    <3> HIDE DEF m
    <3> HIDE DEF end
    <3>3. ~ (m \in 1 .. K - 1)
      BY <2>0, <3>1
    <3>4. K = end \/ m <= K
      <4>1. CASE K # end
        <5>1. K \in stops
          BY <1>1, <1>5, <2>0, <4>1
        <5>. QED  BY <3>1, <5>1
      <4>. QED  BY <4>1
    <3>5. m = K
      BY <1>1, <2>0, <3>1, <3>3, <3>4
    <3>. QED  BY <3>2, <3>5
  <2>. QED  BY <2>1, <2>2
<1>. QED  BY <1>6, <1>7

-----------------------------------------------------------------------------
(* Nobody sees a difference in the results of the test cases in a list.    *)
SeenAlike(run, other, list) ==
  \A i \in DOMAIN list : list[i].node \in Tests =>
    Alike(run[list[i].node], other[list[i].node])

(* What an item of a group answers, when nobody sees a difference.         *)
ItemAlike(out, run, others, other, g, item) ==
  LET list == ListOf(out, run, g, item)
      another == ListOf(others, other, g, item)
  IN  /\ IsSeq(list) /\ IsSeq(another)
      /\ SeenAlike(run, other, list) => AlikeLists(list, another)

(* It holds of a test case.                                                *)
LEMMA TestAlike ==
  ASSUME NEW run \in [Tests -> Judgements], NEW other \in [Tests -> Judgements],
         NEW out, NEW others, NEW g \in Groups, NEW t \in Tests, t \notin Groups
  PROVE  ItemAlike(out, run, others, other, g, t)
<1> DEFINE r == WithDefaultScore(run[t], g)
           q == WithDefaultScore(other[t], g)
<1>1. ListOf(out, run, g, t) = <<At(t, r)>> /\ ListOf(others, other, g, t) = <<At(t, q)>>
  BY DEF ListOf
<1>2. ASSUME Alike(run[t], other[t])
      PROVE  Alike(r, q)
  <2>1. run[t] \in Judgements /\ other[t] \in Judgements
    OBVIOUS
  <2>. QED  BY <1>2, <2>1 DEF Alike, WithDefaultScore, Judgements
<1> HIDE DEF r, q
<1>3. \A x : IsSeq(<<x>>) /\ DOMAIN <<x>> = {1} /\ <<x>>[1] = x /\ Len(<<x>>) = 1 /\ 1 .. 1 = {1}
  <2>1. \A x : Len(<<x>>) = 1 /\ 1 .. 1 = {1}
    OBVIOUS
  <2>. QED  BY <2>1, ShortSeqs
<1>4. At(t, r).node = t /\ At(t, r).result = r /\ At(t, q).node = t /\ At(t, q).result = q
  BY DEF At
<1>5. ASSUME SeenAlike(run, other, <<At(t, r)>>)
      PROVE  AlikeLists(<<At(t, r)>>, <<At(t, q)>>)
  <2>1. Alike(run[t], other[t])
    BY <1>3, <1>4, <1>5 DEF SeenAlike
  <2>. QED  BY <1>2, <1>3, <1>4, <2>1 DEF AlikeLists
<1>. QED  BY <1>1, <1>3, <1>5 DEF ItemAlike

(* One more item of a group, in a run where its list is still part of what *)
(* the group answers.                                                      *)
LEMMA OneMoreAlike ==
  ASSUME NEW list, NEW another, IsSeq(list), IsSeq(another), AlikeLists(list, another)
  PROVE  \/ Child(list) = <<>> /\ Child(another) = <<>>
         \/ Child(list) = <<list>> /\ Child(another) = <<another>>
<1>1. Len(list) = Len(another)
  BY DEF AlikeLists
<1>2. list = <<>> <=> another = <<>>
  BY <1>1, EmptySeq DEF IsSeq
<1>. QED  BY <1>2 DEF Child

-----------------------------------------------------------------------------
(* Pieces of at most one list each: p joins to j, for the lists a.         *)
OneEach(j, p, a, N) ==
  Joins(j, p, N) /\ \A n \in 1 .. N : IsSeq(a[n]) /\ p[n] = Child(a[n])

(* Such pieces are joined one list at a time, or none.                     *)
LEMMA OneEachSteps ==
  ASSUME NEW N \in Nat, NEW p, NEW a, NEW j, OneEach(j, p, a, N)
  PROVE  /\ \A n \in 0 .. N : IsSeq(j[n]) /\ Len(j[n]) \in Nat /\ DOMAIN j[n] = 1 .. Len(j[n])
         /\ j[0] = <<>> /\ Len(j[0]) = 0
         /\ \A n \in Nat : n + 1 <= N =>
              \/ a[n + 1] = <<>> /\ j[n + 1] = j[n]
              \/ /\ a[n + 1] # <<>>
                 /\ Len(j[n + 1]) = Len(j[n]) + 1
                 /\ j[n + 1][Len(j[n]) + 1] = a[n + 1]
                 /\ \A i \in 1 .. Len(j[n]) : j[n + 1][i] = j[n][i]
<1>1. Joins(j, p, N) /\ \A n \in 1 .. N : IsSeq(a[n]) /\ p[n] = Child(a[n])
  BY DEF OneEach
<1>2. \A n \in 1 .. N : IsSeq(p[n])
  BY <1>1, ShortSeqs DEF Child
<1>3. \A n \in 0 .. N : IsSeq(j[n]) /\ Len(j[n]) \in Nat /\ DOMAIN j[n] = 1 .. Len(j[n])
  <2>1. \A n \in 0 .. N : IsSeq(j[n])
    BY <1>1, <1>2, JoinsAreSeqs
  <2>. QED  BY <2>1, SeqIsSeq DEF IsSeq
<1>4. j[0] = <<>> /\ Len(j[0]) = 0
  BY <1>1, JoinsSteps, ShortSeqs
<1>5. ASSUME NEW n \in Nat, n + 1 <= N
      PROVE  \/ a[n + 1] = <<>> /\ j[n + 1] = j[n]
             \/ /\ a[n + 1] # <<>>
                /\ Len(j[n + 1]) = Len(j[n]) + 1
                /\ j[n + 1][Len(j[n]) + 1] = a[n + 1]
                /\ \A i \in 1 .. Len(j[n]) : j[n + 1][i] = j[n][i]
  <2> DEFINE s == j[n]
             l == a[n + 1]
  <2>1. n \in 0 .. N /\ n + 1 \in 1 .. N
    BY <1>5
  <2>2. j[n + 1] = s \o Child(l)
    <3>1. j[n + 1] = Glue(j[n], p[n + 1])
      BY <1>1, <1>5, JoinsSteps
    <3>. QED  BY <1>1, <2>1, <3>1 DEF Glue
  <2>3. IsSeq(s) /\ Len(s) \in Nat
    BY <1>3, <2>1
  <2> HIDE DEF s, l
  <2>4. CASE l = <<>>
    <3>1. s \in Seq(Range(s))
      BY <2>3 DEF IsSeq
    <3>2. s \o <<>> = s
      BY <3>1, ConcatEmptySeq
    <3>. QED  BY <2>2, <2>4, <3>2 DEF Child, s, l
  <2>5. CASE l # <<>>
    <3> DEFINE t == <<l>>
    <3>1. IsSeq(t) /\ t[1] = l /\ Len(t) = 1
      BY ShortSeqs
    <3>2. j[n + 1] = s \o t
      BY <2>2, <2>5 DEF Child
    <3> HIDE DEF t
    <3>3. /\ Len(s \o t) = Len(s) + 1
          /\ DOMAIN (s \o t) = 1 .. Len(s) + 1
          /\ \A i \in DOMAIN (s \o t) : (s \o t)[i] = IF i <= Len(s) THEN s[i] ELSE t[i - Len(s)]
      <4>1. /\ Len(s \o t) = Len(s) + Len(t)
            /\ DOMAIN (s \o t) = 1 .. Len(s) + Len(t)
            /\ \A i \in DOMAIN (s \o t) :
                 (s \o t)[i] = IF i <= Len(s) THEN s[i] ELSE t[i - Len(s)]
        BY <2>3, <3>1, ConcatIsSeq
      <4>. QED  BY <3>1, <4>1
    <3>4. (s \o t)[Len(s) + 1] = l
      <4>1. Len(s) + 1 \in 1 .. Len(s) + 1 /\ ~ (Len(s) + 1 <= Len(s)) /\ (Len(s) + 1) - Len(s) = 1
        BY <2>3
      <4>. QED  BY <3>1, <3>3, <4>1
    <3>5. \A i \in 1 .. Len(s) : (s \o t)[i] = s[i]
      <4>1. \A i \in 1 .. Len(s) : i \in 1 .. Len(s) + 1 /\ i <= Len(s)
        BY <2>3
      <4>. QED  BY <3>3, <4>1
    <3>. QED  BY <2>5, <3>2, <3>3, <3>4, <3>5 DEF s, l
  <2>. QED  BY <2>4, <2>5
<1>. QED  BY <1>3, <1>4, <1>5

(* Every number of lists up to the last is reached.                        *)
LEMMA OneEachReaches ==
  ASSUME NEW N \in Nat, NEW p, NEW a, NEW j, OneEach(j, p, a, N), NEW K \in 0 .. Len(j[N])
  PROVE  \E m \in 0 .. N : Len(j[m]) = K
<1> DEFINE S == {n \in 0 .. N : K <= Len(j[n])}
           m == Min(S)
<1>0. \A n \in 0 .. N : Len(j[n]) \in Nat
  BY OneEachSteps
<1>1. N \in S
  BY <1>0
<1>2. S \subseteq Nat
  OBVIOUS
<1>3. m \in 0 .. N /\ K <= Len(j[m]) /\ \A n \in S : m <= n
  <2>1. m \in S /\ \A n \in S : m <= n
    <3> HIDE DEF S
    <3>. QED  BY <1>1, <1>2, MinIsLeast
  <2>. QED  BY <2>1
<1> HIDE DEF m
<1>4. CASE m = 0
  BY <1>0, <1>3, <1>4, OneEachSteps
<1>5. CASE m # 0
  <2>1. m - 1 \in 0 .. N /\ m - 1 \in Nat /\ (m - 1) + 1 = m /\ m <= N
    BY <1>3, <1>5
  <2>2. ~ (K <= Len(j[m - 1]))
    <3>1. m - 1 \notin S
      BY <1>3, <2>1
    <3>. QED  BY <2>1, <3>1
  <2> DEFINE before == m - 1
  <2>3. Len(j[before + 1]) = Len(j[before]) \/ Len(j[before + 1]) = Len(j[before]) + 1
    <3>1. before \in Nat /\ before + 1 <= N
      BY <2>1
    <3> HIDE DEF before
    <3>. QED  BY <3>1, OneEachSteps
  <2>4. Len(j[m]) = K
    BY <1>0, <1>3, <2>1, <2>2, <2>3
  <2>. QED  BY <1>3, <2>4
<1>. QED  BY <1>4, <1>5

(* If the lists among the first K joined ones have likes, the first K      *)
(* joined ones are alike, and there are no more if there were no more.     *)
LEMMA JoinsAlike ==
  ASSUME NEW N \in Nat, NEW p, NEW a, NEW j, OneEach(j, p, a, N),
         NEW q, NEW b, NEW k, OneEach(k, q, b, N), NEW K \in 0 .. Len(j[N]),
         \A n \in 1 .. N : a[n] = <<>> \/ (\E i \in 1 .. K : j[N][i] = a[n])
                             => AlikeLists(a[n], b[n])
  PROVE  /\ K <= Len(k[N])
         /\ K = Len(j[N]) => Len(k[N]) = K
         /\ \A i \in 1 .. K : AlikeLists(j[N][i], k[N][i])
<1> DEFINE Good(n) == /\ Len(k[n]) = Len(j[n])
                      /\ \A i \in 1 .. Len(j[n]) : AlikeLists(j[n][i], k[n][i])
           S == {n \in Nat : n <= N /\ Len(j[n]) <= K => Good(n)}
<1>0. /\ \A n \in 0 .. N : IsSeq(j[n]) /\ Len(j[n]) \in Nat
      /\ \A n \in 0 .. N : IsSeq(k[n]) /\ Len(k[n]) \in Nat
  <2>1. \A n \in 0 .. N : IsSeq(j[n]) /\ Len(j[n]) \in Nat
    BY OneEachSteps
  <2>2. \A n \in 0 .. N : IsSeq(k[n]) /\ Len(k[n]) \in Nat
    BY OneEachSteps
  <2>. QED  BY <2>1, <2>2
<1>g. ASSUME NEW m \in 0 .. N
      PROVE  /\ Len(j[m]) <= Len(j[N]) /\ \A i \in 1 .. Len(j[m]) : j[N][i] = j[m][i]
             /\ Len(k[m]) <= Len(k[N]) /\ \A i \in 1 .. Len(k[m]) : k[N][i] = k[m][i]
  <2>1. N \in m .. N
    OBVIOUS
  <2>2. \A l : IsSeq(Child(l))
    BY ShortSeqs DEF Child
  <2>5. \A n \in 1 .. N : IsSeq(p[n])
    BY <2>2 DEF OneEach
  <2>6. \A n \in 1 .. N : IsSeq(q[n])
    BY <2>2 DEF OneEach
  <2>3. Len(j[m]) <= Len(j[N]) /\ \A i \in 1 .. Len(j[m]) : j[N][i] = j[m][i]
    BY <2>1, <2>5, JoinsGrow DEF OneEach
  <2>4. Len(k[m]) <= Len(k[N]) /\ \A i \in 1 .. Len(k[m]) : k[N][i] = k[m][i]
    BY <2>1, <2>6, JoinsGrow DEF OneEach
  <2>. QED  BY <2>3, <2>4
<1>1. 0 \in S
  <2>1. Len(j[0]) = 0
    <3>1. Joins(j, p, N)
      BY DEF OneEach
    <3>. QED  BY <3>1, JoinsSteps, ShortSeqs
  <2>2. Len(k[0]) = 0
    <3>1. Joins(k, q, N)
      BY DEF OneEach
    <3>. QED  BY <3>1, JoinsSteps, ShortSeqs
  <2>. QED  BY <2>1, <2>2
<1>2. ASSUME NEW n \in Nat, n \in S
      PROVE  n + 1 \in S
  <2>1. SUFFICES ASSUME n + 1 <= N, Len(j[n + 1]) <= K
                 PROVE  Good(n + 1)
    OBVIOUS
  <2> DEFINE l == a[n + 1]
             o == b[n + 1]
             u == Len(j[n])
  <2>2. n \in 0 .. N /\ n + 1 \in 0 .. N /\ n + 1 \in 1 .. N /\ n <= N
    BY <2>1
  <2>3. \/ l = <<>> /\ j[n + 1] = j[n]
        \/ /\ l # <<>> /\ Len(j[n + 1]) = u + 1 /\ j[n + 1][u + 1] = l
           /\ \A i \in 1 .. u : j[n + 1][i] = j[n][i]
    BY <2>1, OneEachSteps
  <2>4. \/ o = <<>> /\ k[n + 1] = k[n]
        \/ /\ o # <<>> /\ Len(k[n + 1]) = Len(k[n]) + 1 /\ k[n + 1][Len(k[n]) + 1] = o
           /\ \A i \in 1 .. Len(k[n]) : k[n + 1][i] = k[n][i]
    BY <2>1, OneEachSteps
  <2>5. u \in Nat /\ u <= K /\ Len(j[n + 1]) \in Nat
    BY <1>0, <2>1, <2>2, <2>3
  <2>6. Good(n)
    BY <1>2, <2>2, <2>5
  <2>7. AlikeLists(l, o)
    <3>1. CASE l = <<>>
      BY <2>2, <3>1
    <3>2. CASE l # <<>>
      <4>1. j[N][u + 1] = l
        <5>1. u + 1 \in 1 .. Len(j[n + 1]) /\ j[n + 1][u + 1] = l
          BY <2>3, <2>5, <3>2
        <5>. QED  BY <1>g, <2>2, <5>1
      <4>2. u + 1 \in 1 .. K
        BY <2>1, <2>3, <2>5, <3>2
      <4>. QED  BY <2>2, <4>1, <4>2
    <3>. QED  BY <3>1, <3>2
  <2>8. l = <<>> <=> o = <<>>
    <3>1. IsSeq(l) /\ IsSeq(o) /\ Len(l) = Len(o)
      BY <2>2, <2>7 DEF OneEach, AlikeLists
    <3> HIDE DEF l, o
    <3>. QED  BY <3>1, EmptySeq DEF IsSeq
  <2> HIDE DEF l, o
  <2>9. CASE l = <<>>
    BY <2>3, <2>4, <2>6, <2>8, <2>9
  <2>10. CASE l # <<>>
    <3>1. /\ Len(j[n + 1]) = u + 1 /\ j[n + 1][u + 1] = l
          /\ Len(k[n + 1]) = u + 1 /\ k[n + 1][u + 1] = o
          /\ \A i \in 1 .. u : j[n + 1][i] = j[n][i] /\ k[n + 1][i] = k[n][i]
      BY <2>3, <2>4, <2>6, <2>8, <2>10
    <3>2. \A i \in 1 .. u : AlikeLists(j[n][i], k[n][i])
      BY <2>6
    <3>3. \A i \in 1 .. u + 1 : i \in 1 .. u \/ i = u + 1
      BY <2>5
    <3> HIDE DEF u
    <3>. QED  BY <2>7, <3>1, <3>2, <3>3
  <2>. QED  BY <2>9, <2>10
<1>3. \A n \in Nat : n \in S
  <2> HIDE DEF S
  <2>. QED  BY <1>1, <1>2, SetInduction
<1>4. ASSUME NEW m \in 0 .. N, Len(j[m]) = K
      PROVE  K <= Len(k[N]) /\ \A i \in 1 .. K : AlikeLists(j[N][i], k[N][i])
  <2>1. m \in S /\ m <= N /\ Len(j[m]) <= K
    <3> HIDE DEF S
    <3>. QED  BY <1>0, <1>3, <1>4
  <2>2. Good(m)
    BY <2>1
  <2>. QED  BY <1>g, <1>4, <2>2
<1>5. \E m \in 0 .. N : Len(j[m]) = K
  BY OneEachReaches
<1>6. ASSUME K = Len(j[N])
      PROVE  Len(k[N]) = K
  <2>1. N \in S /\ Len(j[N]) <= K
    <3> HIDE DEF S
    <3>. QED  BY <1>0, <1>3, <1>6
  <2>. QED  BY <1>6, <2>1
<1> HIDE DEF S
<1>. QED  BY <1>4, <1>5, <1>6

-----------------------------------------------------------------------------
(* The last results of lists alike are alike.                              *)
LEMMA LastAlike ==
  ASSUME NEW a, NEW b, IsSeq(a), IsSeq(b), AlikeLists(a, b), a # <<>>
  PROVE  Alike(Last(a).result, Last(b).result)
<1>1. Len(a) \in Nat \ {0}
  BY EmptySeq DEF IsSeq
<1>2. Len(a) \in 1 .. Len(a)
  BY <1>1
<1>. QED  BY <1>2 DEF AlikeLists, Last

(* The pieces of a group are one list each, or none.                       *)
LEMMA PiecesAreOneEach ==
  ASSUME NEW out, NEW run, NEW g \in Groups,
         \A item \in ToSet(Items[g]) : IsSeq(ListOf(out, run, g, item))
  PROVE  LET N == Len(Selected(Items[g]))
             a == [n \in 1 .. N |-> ListOf(out, run, g, Selected(Items[g])[n])]
         IN  \E j : OneEach(j, Pieces(out, run, g), a, N) /\ Children(out, run, g) = j[N]
<1> DEFINE N == Len(Selected(Items[g]))
           a == [n \in 1 .. N |-> ListOf(out, run, g, Selected(Items[g])[n])]
<1>1. PICK j : Joins(j, Pieces(out, run, g), N) /\ Children(out, run, g) = j[N]
  BY ChildrenJoin
<1>2. \A n \in 1 .. N : Selected(Items[g])[n] \in ToSet(Items[g])
  BY SelectedTyped
<1>3. \A n \in 1 .. N : IsSeq(a[n]) /\ Pieces(out, run, g)[n] = Child(a[n])
  BY <1>2 DEF Pieces
<1> HIDE DEF a, N
<1>4. OneEach(j, Pieces(out, run, g), a, N)
  BY <1>1, <1>3 DEF OneEach
<1>. QED  BY <1>1, <1>4 DEF a, N

(* What the children of a group answer are sequences, with something in    *)
(* them.                                                                   *)
LEMMA ChildrenTyped ==
  ASSUME NEW out, NEW run, NEW g \in Groups,
         \A item \in ToSet(Items[g]) : IsSeq(ListOf(out, run, g, item))
  PROVE  /\ IsSeq(Children(out, run, g))
         /\ \A i \in DOMAIN Children(out, run, g) :
              IsSeq(Children(out, run, g)[i]) /\ Children(out, run, g)[i] # <<>>
<1> DEFINE N == Len(Selected(Items[g]))
           L == Lists(out, run, g)
           children == Children(out, run, g)
<1>1. PICK j : Joins(j, Pieces(out, run, g), N) /\ children = j[N]
  BY ChildrenJoin
<1>2. N \in Nat
  BY SelectedTyped
<1>3. \A m \in 1 .. N : Pieces(out, run, g)[m] \in Seq(L)
  BY PiecesTyped
<1>4. \A l \in L : IsSeq(l) /\ l # <<>>
  BY DEF Lists
<1> HIDE DEF N, L
<1>5. j[N] \in Seq(L)
  BY <1>1, <1>2, <1>3, JoinsTyped
<1> HIDE DEF children
<1>6. children \in Seq(L)
  BY <1>1, <1>5
<1>7. IsSeq(children) /\ DOMAIN children = 1 .. Len(children)
  BY <1>6, SeqIsSeq
<1>8. \A i \in 1 .. Len(children) : children[i] \in L
  BY <1>6
<1>. QED  BY <1>4, <1>7, <1>8 DEF children

(* What a group answers: the lists of its children up to the first break,  *)
(* and its own result.                                                     *)
Answered(g, some) ==
  IF some = <<>> THEN <<>>
  ELSE Append(FlattenSeq(some), At(g, GroupResult(g, OwnResults(some))))

(* Children alike make answers alike.                                      *)
LEMMA AnsweredAlike ==
  ASSUME NEW g, NEW s, NEW t, IsSeq(s), IsSeq(t), Len(s) = Len(t),
         \A i \in 1 .. Len(s) : IsSeq(s[i]) /\ s[i] # <<>> /\ IsSeq(t[i]) /\ AlikeLists(s[i], t[i])
  PROVE  AlikeLists(Answered(g, s), Answered(g, t))
<1>1. Len(s) \in Nat /\ DOMAIN s = 1 .. Len(s) /\ DOMAIN t = 1 .. Len(s)
  BY SeqIsSeq DEF IsSeq
<1>2. s = <<>> <=> t = <<>>
  BY <1>1, EmptySeq DEF IsSeq
<1>3. CASE s = <<>>
  <2>1. Len(<<>>) = 0
    BY ShortSeqs
  <2>. QED  BY <1>2, <1>3, <2>1 DEF Answered, AlikeLists
<1>4. CASE s # <<>>
  <2> DEFINE a == FlattenSeq(s)
             b == FlattenSeq(t)
             x == At(g, GroupResult(g, OwnResults(s)))
             y == At(g, GroupResult(g, OwnResults(t)))
  <2>1. IsSeq(a) /\ IsSeq(b) /\ AlikeLists(a, b)
    <3>1. \A i \in DOMAIN s : IsSeq(s[i])
      BY <1>1
    <3>2. \A i \in DOMAIN t : IsSeq(t[i])
      BY <1>1
    <3>3. IsSeq(a)
      BY <3>1, FlattenHas
    <3>4. IsSeq(b)
      BY <3>2, FlattenHas
    <3>. QED  BY <3>3, <3>4, FlattenAlike
  <2>2. x.node = g /\ y.node = g /\ Alike(x.result, y.result)
    <3>1. /\ IsSeq(OwnResults(s)) /\ Len(OwnResults(s)) = Len(s)
          /\ \A i \in 1 .. Len(s) : OwnResults(s)[i] = Last(s[i]).result
      BY <1>1, FunctionIsSeq DEF OwnResults
    <3>2. /\ IsSeq(OwnResults(t)) /\ Len(OwnResults(t)) = Len(s)
          /\ \A i \in 1 .. Len(s) : OwnResults(t)[i] = Last(t[i]).result
      BY <1>1, FunctionIsSeq DEF OwnResults
    <3>3. \A i \in 1 .. Len(s) : Alike(OwnResults(s)[i], OwnResults(t)[i])
      BY <3>1, <3>2, LastAlike
    <3>4. Alike(GroupResult(g, OwnResults(s)), GroupResult(g, OwnResults(t)))
      BY <3>1, <3>2, <3>3, AggregateAlike DEF GroupResult
    <3>. QED  BY <3>4 DEF At
  <2> HIDE DEF a, b, x, y
  <2>3. Len(a) \in Nat /\ Len(a) = Len(b) /\ 1 .. Len(a) + 1 = DOMAIN Append(a, x)
    BY <2>1, AppendIsSeq DEF AlikeLists
  <2>4. \A i \in 1 .. Len(a) + 1 :
          Append(a, x)[i] = IF i = Len(a) + 1 THEN x ELSE a[i]
    BY <2>1, AppendIsSeq
  <2>5. \A i \in 1 .. Len(b) + 1 :
          Append(b, y)[i] = IF i = Len(b) + 1 THEN y ELSE b[i]
    BY <2>1, AppendIsSeq
  <2>6. Len(Append(a, x)) = Len(a) + 1
    BY <2>1, AppendIsSeq
  <2>6b. Len(Append(b, y)) = Len(b) + 1
    BY <2>1, AppendIsSeq
  <2>7. \A i \in 1 .. Len(a) + 1 : i = Len(a) + 1 \/ i \in 1 .. Len(a)
    BY <2>3
  <2>8. AlikeLists(Append(a, x), Append(b, y))
    BY <2>1, <2>2, <2>3, <2>4, <2>5, <2>6, <2>6b, <2>7 DEF AlikeLists
  <2>9. Answered(g, s) = Append(a, x) /\ Answered(g, t) = Append(b, y)
    BY <1>2, <1>4 DEF Answered, a, b, x, y
  <2>. QED  BY <2>8, <2>9
<1>. QED  BY <1>3, <1>4

(* If nobody sees a difference in what a group answers, and the same holds *)
(* of its items, the group answers alike.                                  *)
LEMMA GroupAnswerAlike ==
  ASSUME NEW run, NEW other, NEW out, NEW others, NEW g \in Groups,
         \A item \in ToSet(Items[g]) : ItemAlike(out, run, others, other, g, item),
         SeenAlike(run, other, GroupAnswer(out, run, g))
  PROVE  AlikeLists(GroupAnswer(out, run, g), GroupAnswer(others, other, g))
<1> DEFINE N == Len(Selected(Items[g]))
           a == [n \in 1 .. N |-> ListOf(out, run, g, Selected(Items[g])[n])]
           b == [n \in 1 .. N |-> ListOf(others, other, g, Selected(Items[g])[n])]
           C == Children(out, run, g)
           D == Children(others, other, g)
           p == Pieces(out, run, g)
           q == Pieces(others, other, g)
<1>0. \A item \in ToSet(Items[g]) :
        IsSeq(ListOf(out, run, g, item)) /\ IsSeq(ListOf(others, other, g, item))
  BY DEF ItemAlike
<1>1. PICK j : OneEach(j, p, a, N) /\ C = j[N]
  BY <1>0, PiecesAreOneEach
<1>2. PICK k : OneEach(k, q, b, N) /\ D = k[N]
  BY <1>0, PiecesAreOneEach
<1>3. IsSeq(C) /\ \A i \in DOMAIN C : IsSeq(C[i]) /\ C[i] # <<>>
  BY <1>0, ChildrenTyped
<1>4. IsSeq(D) /\ \A i \in DOMAIN D : IsSeq(D[i]) /\ D[i] # <<>>
  BY <1>0, ChildrenTyped
<1>5. \A n \in 1 .. N : SeenAlike(run, other, a[n]) => AlikeLists(a[n], b[n])
  BY SelectedTyped DEF ItemAlike
<1>6. N \in Nat
  BY SelectedTyped
<1>7. /\ GroupAnswer(out, run, g) = Answered(g, UpToBreak(g, C))
      /\ GroupAnswer(others, other, g) = Answered(g, UpToBreak(g, D))
  BY DEF GroupAnswer, Answered
<1> HIDE DEF a, b, C, D, p, q, N
<1>8. PICK K \in 0 .. Len(C) : StopsAt(g, C, K)
  BY <1>3, UpToBreakEnds
<1> DEFINE s == SubSeq(C, 1, K)
           t == SubSeq(D, 1, K)
<1>9. UpToBreak(g, C) = s
  BY <1>3, <1>8, UpToBreakEnds
<1>10. /\ IsSeq(s) /\ DOMAIN s = 1 .. K /\ Len(s) = K /\ DOMAIN C = 1 .. Len(C) /\ Len(C) \in Nat
       /\ \A i \in 1 .. K : s[i] = C[i]
  BY <1>3, <1>8, SubSeqIsSeq
<1>11. K \in Nat /\ \A i \in 1 .. K : i \in DOMAIN C
  BY <1>8, <1>10
<1> HIDE DEF s
<1>12. ASSUME NEW i \in 1 .. K
       PROVE  SeenAlike(run, other, C[i])
  <2> DEFINE flat == FlattenSeq(s)
  <2>1. /\ IsSeq(flat)
        /\ \A x \in DOMAIN s[i] : \E y \in DOMAIN flat : flat[y] = s[i][x]
    <3>1. \A n \in DOMAIN s : IsSeq(s[n])
      BY <1>3, <1>10, <1>11
    <3>2. i \in DOMAIN s
      BY <1>10
    <3>3. IsSeq(s)
      BY <1>10
    <3>4. /\ IsSeq(flat)
          /\ \A n \in DOMAIN s : \A x \in DOMAIN s[n] :
               \E y \in DOMAIN flat : flat[y] = s[n][x]
      BY <3>1, <3>3, FlattenHas
    <3> HIDE DEF flat
    <3>. QED  BY <3>2, <3>4
  <2>2. s # <<>>
    BY <1>10, ShortSeqs
  <2> HIDE DEF flat
  <2>3. PICK e : Answered(g, s) = Append(flat, e)
    BY <2>2 DEF Answered, flat
  <2>4. \A y \in DOMAIN flat : y \in DOMAIN Append(flat, e) /\ Append(flat, e)[y] = flat[y]
    <3>1. /\ DOMAIN flat = 1 .. Len(flat) /\ Len(flat) \in Nat
          /\ DOMAIN Append(flat, e) = 1 .. Len(flat) + 1
          /\ \A y \in DOMAIN Append(flat, e) :
               Append(flat, e)[y] = IF y = Len(flat) + 1 THEN e ELSE flat[y]
      BY <2>1, AppendIsSeq
    <3>2. \A y \in 1 .. Len(flat) : y \in 1 .. Len(flat) + 1 /\ y # Len(flat) + 1
      BY <3>1
    <3>. QED  BY <3>1, <3>2
  <2>5. SeenAlike(run, other, Append(flat, e))
    BY <1>7, <1>9, <2>3
  <2>6. \A x \in DOMAIN C[i] : \E y \in DOMAIN Append(flat, e) : Append(flat, e)[y] = C[i][x]
    BY <1>10, <2>1, <2>4
  <2>. QED  BY <2>5, <2>6 DEF SeenAlike
<1>13. \A n \in 1 .. N : a[n] = <<>> \/ (\E i \in 1 .. K : j[N][i] = a[n]) => AlikeLists(a[n], b[n])
  <2>1. SeenAlike(run, other, <<>>)
    BY ShortSeqs DEF SeenAlike
  <2>. QED  BY <1>1, <1>5, <1>12, <2>1
<1>14. K \in 0 .. Len(j[N])
  BY <1>1, <1>8
<1>15. /\ K <= Len(D)
       /\ K = Len(C) => Len(D) = K
       /\ \A i \in 1 .. K : AlikeLists(C[i], D[i])
  <2>1. /\ K <= Len(k[N])
        /\ K = Len(j[N]) => Len(k[N]) = K
        /\ \A i \in 1 .. K : AlikeLists(j[N][i], k[N][i])
    <3>1. OneEach(j, p, a, N) /\ OneEach(k, q, b, N)
      BY <1>1, <1>2
    <3>. QED  BY <1>6, <1>13, <1>14, <3>1, JoinsAlike, SMTT(30)
  <2>. QED  BY <1>1, <1>2, <2>1
<1>16. DOMAIN D = 1 .. Len(D) /\ Len(D) \in Nat
  BY <1>4, SeqIsSeq DEF IsSeq
<1>17. K \in 0 .. Len(D) /\ \A i \in 1 .. K : i \in DOMAIN D
  <2>1. K \in Nat /\ Len(D) \in Nat /\ K <= Len(D)
    BY <1>11, <1>15, <1>16
  <2>2. K \in 0 .. Len(D) /\ \A i \in 1 .. K : i \in 1 .. Len(D)
    BY <2>1
  <2>. QED  BY <1>16, <2>2
<1>18. \A i \in 1 .. K : BreaksAt(g, C, i) <=> BreaksAt(g, D, i)
  <2>1. \A i \in 1 .. K : Alike(Last(C[i]).result, Last(D[i]).result)
    BY <1>3, <1>4, <1>11, <1>15, <1>17, LastAlike
  <2>. QED  BY <2>1 DEF BreaksAt, Breaks, Alike
<1>19. StopsAt(g, D, K)
  <2>1. K \in 0 .. Len(D)
    BY <1>17
  <2>2. \A i \in 1 .. K - 1 : ~ BreaksAt(g, D, i)
    <3>1. \A i \in 1 .. K - 1 : i \in 1 .. K
      BY <1>11
    <3>. QED  BY <1>8, <1>18, <3>1 DEF StopsAt
  <2>3. K = Len(D) \/ (K # 0 /\ BreaksAt(g, D, K))
    <3>1. CASE K = Len(C)
      BY <1>15, <3>1
    <3>2. CASE K # Len(C)
      <4>1. K # 0 /\ BreaksAt(g, C, K)
        BY <1>8, <3>2 DEF StopsAt
      <4>2. K \in 1 .. K
        BY <1>11, <4>1
      <4>. QED  BY <1>18, <4>1, <4>2
    <3>. QED  BY <3>1, <3>2
  <2>. QED  BY <2>1, <2>2, <2>3 DEF StopsAt
<1>20. UpToBreak(g, D) = t
  BY <1>4, <1>19, UpToBreakEnds
<1>21. IsSeq(t) /\ Len(t) = K /\ \A i \in 1 .. K : t[i] = D[i]
  <2>1. K \in 0 .. Len(D)
    BY <1>19 DEF StopsAt
  <2>. QED  BY <1>4, <2>1, SubSeqIsSeq
<1> HIDE DEF t
<1>22. AlikeLists(Answered(g, s), Answered(g, t))
  <2>1. \A i \in 1 .. Len(s) :
          IsSeq(s[i]) /\ s[i] # <<>> /\ IsSeq(t[i]) /\ AlikeLists(s[i], t[i])
    BY <1>3, <1>4, <1>10, <1>11, <1>15, <1>17, <1>21
  <2>. QED  BY <1>10, <1>21, <2>1, AnsweredAlike
<1>. QED  BY <1>7, <1>9, <1>20, <1>22

(* If nobody sees a difference in what a group answers, it answers alike.  *)
LEMMA AnswersAlike ==
  ASSUME NEW run \in [Tests -> Judgements], NEW other \in [Tests -> Judgements]
  PROVE  \A g \in Groups : SeenAlike(run, other, AnswersOf(run)[g]) =>
                             AlikeLists(AnswersOf(run)[g], AnswersOf(other)[g])
<1>1. PICK height \in Heights, bound \in Nat : \A g \in Groups : height[g] < bound
  BY HeightsExist
<1> DEFINE out == AnswersOf(run)
           others == AnswersOf(other)
           Good(g) == SeenAlike(run, other, out[g]) => AlikeLists(out[g], others[g])
           S == {n \in Nat : \A g \in Groups : height[g] < n => Good(g)}
<1>2. 0 \in S
  <2>1. \A g \in Groups : ~ (height[g] < 0)
    BY DEF Heights
  <2>. QED  BY <2>1
<1>3. ASSUME NEW n \in Nat, n \in S
      PROVE  n + 1 \in S
  <2>1. ASSUME NEW g \in Groups, height[g] < n + 1
        PROVE  Good(g)
    <3>1. ASSUME NEW item \in ToSet(Items[g])
          PROVE  ItemAlike(out, run, others, other, g, item)
      <4>1. CASE item \in Groups
        <5>1. height[item] < height[g] /\ height[item] \in Nat /\ height[g] \in Nat
          BY <4>1 DEF Heights
        <5>2. Good(item)
          BY <1>3, <2>1, <4>1, <5>1
        <5>3. IsSeq(out[item]) /\ IsSeq(others[item])
          BY <4>1, AnswersAreSeqs
        <5> HIDE DEF out, others
        <5>. QED  BY <4>1, <5>2, <5>3 DEF ItemAlike, ListOf
      <4>2. CASE item \notin Groups
        <5>1. item \in Tests
          <6>1. \A i \in DOMAIN Items[g] : Items[g][i] \in Tests \union Groups
            BY ItemsTyped
          <6>. QED  BY <4>2, <6>1 DEF ToSet
        <5> HIDE DEF out, others
        <5>. QED  BY <4>2, <5>1, TestAlike
      <4>. QED  BY <4>1, <4>2
    <3>2. out[g] = GroupAnswer(out, run, g) /\ others[g] = GroupAnswer(others, other, g)
      BY AnswersDef
    <3> HIDE DEF out, others
    <3>. QED  BY <3>1, <3>2, GroupAnswerAlike
  <2> HIDE DEF Good
  <2>. QED  BY <2>1
<1>4. bound \in S
  <2>1. \A n \in Nat : n \in S
    <3> HIDE DEF S
    <3>. QED  BY <1>2, <1>3, SetInduction
  <2> HIDE DEF S
  <2>. QED  BY <2>1
<1> HIDE DEF Good
<1>5. \A g \in Groups : Good(g)
  BY <1>1, <1>4
<1>. QED  BY <1>5 DEF Good

-----------------------------------------------------------------------------
(* The values of a sequence of integers have a greatest, and Max is it.    *)
LEMMA MaxIsGreatest ==
  ASSUME NEW N \in Nat \ {0}, NEW f, \A i \in 1 .. N : f[i] \in Int
  PROVE  LET S == {f[i] : i \in 1 .. N}
         IN  Max(S) \in S /\ \A x \in S : x <= Max(S)
<1> DEFINE S == {f[i] : i \in 1 .. N}
           Tops(n) == \E m \in 1 .. n : \A i \in 1 .. n : f[i] <= f[m]
           G == {n \in Nat : n + 1 <= N => Tops(n + 1)}
<1>1. 0 \in G
  BY 1 .. 1 = {1}
<1>2. ASSUME NEW n \in Nat, n \in G
      PROVE  n + 1 \in G
  <2> SUFFICES ASSUME n + 2 <= N
               PROVE  Tops(n + 2)
    OBVIOUS
  <2>1. PICK m \in 1 .. n + 1 : \A i \in 1 .. n + 1 : f[i] <= f[m]
    BY <1>2
  <2>2. n + 2 \in 1 .. N /\ m \in 1 .. N /\ m \in 1 .. n + 2 /\ n + 2 \in 1 .. n + 2
    BY <2>1
  <2>3. \A i \in 1 .. n + 2 : i \in 1 .. N /\ (i \in 1 .. n + 1 \/ i = n + 2)
    OBVIOUS
  <2>4. f[m] \in Int /\ f[n + 2] \in Int
    BY <2>2
  <2>5. CASE f[n + 2] <= f[m]
    BY <2>1, <2>2, <2>3, <2>5
  <2>6. CASE ~ (f[n + 2] <= f[m])
    <3>1. \A i \in 1 .. n + 2 : f[i] <= f[n + 2]
      BY <2>1, <2>3, <2>4, <2>6
    <3>. QED  BY <2>2, <3>1
  <2>. QED  BY <2>5, <2>6
<1>3. \A n \in Nat : n \in G
  <2> HIDE DEF G
  <2>. QED  BY <1>1, <1>2, SetInduction
<1>4. N - 1 \in Nat /\ (N - 1) + 1 = N
  OBVIOUS
<1>5. Tops(N)
  <2>1. N - 1 \in G
    <3> HIDE DEF G
    <3>. QED  BY <1>3, <1>4
  <2>. QED  BY <1>4, <2>1
<1>6. PICK m \in 1 .. N : \A i \in 1 .. N : f[i] <= f[m]
  BY <1>5
<1>7. f[m] \in S /\ \A x \in S : f[m] >= x
  BY <1>6
<1>8. S \subseteq Int
  OBVIOUS
<1> HIDE DEF S
<1>9. Max(S) \in S /\ \A x \in S : Max(S) >= x
  BY <1>7 DEF Max
<1>10. \A x \in S : x <= Max(S)
  BY <1>8, <1>9
<1>. QED  BY <1>9, <1>10 DEF S

(* The runtime of a group is one of its children's, or -1.                 *)
LEMMA AggregateRuntime ==
  ASSUME NEW grader, NEW flags, NEW scoring, NEW a, IsSeq(a), a # <<>>,
         \A i \in DOMAIN a : a[i].runtime \in Int
  PROVE  AggregateGroupResult(grader, flags, scoring, a).runtime \in Int
<1> DEFINE errors == {i \in DOMAIN a : a[i].verdict = "JE"}
           f == [i \in DOMAIN a |-> a[i].runtime]
           S == {f[i] : i \in DOMAIN a}
<1>1. DOMAIN a = 1 .. Len(a) /\ Len(a) \in Nat \ {0}
  BY SeqIsSeq, EmptySeq DEF IsSeq
<1>2. \A i \in 1 .. Len(a) : f[i] \in Int
  BY <1>1
<1>3. Max(S) \in S
  <2> HIDE DEF f
  <2>. QED  BY <1>1, <1>2, MaxIsGreatest
<1>4. Slowest(a) = Max(S)
  <2>1. {a[i].runtime : i \in DOMAIN a} = S
    OBVIOUS
  <2> HIDE DEF S
  <2>. QED  BY <2>1 DEF Slowest
<1>5. Slowest(a) \in Int
  <2>1. S \subseteq Int
    BY <1>1, <1>2
  <2> HIDE DEF S
  <2>. QED  BY <1>3, <1>4, <2>1
<1>6. CASE errors # {}
  <2>1. errors \subseteq Nat
    BY <1>1
  <2>2. Min(errors) \in DOMAIN a
    BY <1>6, <2>1, MinIsLeast
  <2>3. AggregateGroupResult(grader, flags, scoring, a) = a[Min(errors)]
    BY <1>6 DEF AggregateGroupResult
  <2> HIDE DEF errors
  <2>. QED  BY <2>2, <2>3
<1>7. CASE errors = {}
  <2>1. Judgement(NewResult("JE")).runtime \in Int
    BY DEF Judgement, NewResult
  <2> HIDE DEF S
  <2>. QED  BY <1>5, <1>7, <2>1 DEF AggregateGroupResult
<1>. QED  BY <1>6, <1>7

(* A line of a list: its runtime is a number, and that of the test case if *)
(* it is one's.                                                            *)
Timed(run, line) ==
  /\ line.result.runtime \in Int
  /\ line.node \in Tests => line.result.runtime = run[line.node].runtime

(* What all lines of some lists have in common, the lines of the lists one  *)
(* after the other have.                                                    *)
LEMMA FlattenKeeps ==
  ASSUME NEW s, IsSeq(s), NEW T,
         \A i \in DOMAIN s : IsSeq(s[i]) /\ \A k \in DOMAIN s[i] : s[i][k] \in T
  PROVE  IsSeq(FlattenSeq(s)) /\ \A k \in DOMAIN FlattenSeq(s) : FlattenSeq(s)[k] \in T
<1>1. DOMAIN s = 1 .. Len(s) /\ Len(s) \in Nat
  BY SeqIsSeq DEF IsSeq
<1>2. ASSUME NEW i \in DOMAIN s
      PROVE  s[i] \in Seq(T)
  <2>1. s[i] \in Seq(Range(s[i]))
    BY DEF IsSeq
  <2>2. Range(s[i]) \subseteq T
    BY DEF Range
  <2>. QED  BY <2>1, <2>2, SeqMonotonic
<1>3. s \in Seq(Seq(T))
  <2>1. s \in [1 .. Len(s) -> Seq(T)]
    BY <1>1, <1>2, SeqIsFunction
  <2>. QED  BY <1>1, <2>1, SeqDef
<1>. QED  BY <1>3, FlattenTyped, SeqIsSeq

(* The lines of some lists.                                                *)
LinesOf(s) == UNION {Range(s[i]) : i \in DOMAIN s}

LEMMA LinesAreOf ==
  ASSUME NEW s
  PROVE  \A i \in DOMAIN s : \A k \in DOMAIN s[i] : s[i][k] \in LinesOf(s)
BY DEF LinesOf, Range

(* Lists of such lines, one after the other.                               *)
LEMMA FlattenTimed ==
  ASSUME NEW run, NEW s, IsSeq(s),
         \A i \in DOMAIN s : IsSeq(s[i]) /\ \A k \in DOMAIN s[i] : Timed(run, s[i][k])
  PROVE  /\ IsSeq(FlattenSeq(s))
         /\ \A k \in DOMAIN FlattenSeq(s) : Timed(run, FlattenSeq(s)[k])
<1> DEFINE T == {line \in LinesOf(s) : Timed(run, line)}
<1>1. \A i \in DOMAIN s : \A k \in DOMAIN s[i] : s[i][k] \in T
  BY LinesAreOf
<1>2. \A line \in T : Timed(run, line)
  OBVIOUS
<1> HIDE DEF T
<1>. QED  BY <1>1, <1>2, FlattenKeeps

(* One of them is added to a list of them.                                 *)
LEMMA AppendTimed ==
  ASSUME NEW run, NEW s, IsSeq(s), \A k \in DOMAIN s : Timed(run, s[k]), NEW e, Timed(run, e)
  PROVE  \A k \in DOMAIN Append(s, e) : Timed(run, Append(s, e)[k])
<1>1. /\ DOMAIN s = 1 .. Len(s) /\ Len(s) \in Nat
      /\ DOMAIN Append(s, e) = 1 .. Len(s) + 1
      /\ \A i \in DOMAIN Append(s, e) :
           Append(s, e)[i] = IF i = Len(s) + 1 THEN e ELSE s[i]
  BY AppendIsSeq
<1>2. \A i \in 1 .. Len(s) + 1 : i = Len(s) + 1 \/ i \in 1 .. Len(s)
  BY <1>1
<1>. QED  BY <1>1, <1>2

(* Every line a group answers is one.                                      *)
LEMMA AnswersTimed ==
  ASSUME NEW run \in [Tests -> Judgements]
  PROVE  \A g \in Groups : \A k \in DOMAIN AnswersOf(run)[g] : Timed(run, AnswersOf(run)[g][k])
<1>1. PICK height \in Heights, bound \in Nat : \A g \in Groups : height[g] < bound
  BY HeightsExist
<1> DEFINE out == AnswersOf(run)
           Good(g) == \A k \in DOMAIN out[g] : Timed(run, out[g][k])
           S == {n \in Nat : \A g \in Groups : height[g] < n => Good(g)}
<1>2. 0 \in S
  <2>1. \A g \in Groups : ~ (height[g] < 0)
    BY DEF Heights
  <2>. QED  BY <2>1
<1>3. ASSUME NEW n \in Nat, n \in S
      PROVE  n + 1 \in S
  <2>1. ASSUME NEW g \in Groups, height[g] < n + 1
        PROVE  Good(g)
    <3> DEFINE L == Lists(out, run, g)
               children == UpToBreak(g, Children(out, run, g))
    <3>1. ASSUME NEW item \in ToSet(Items[g])
          PROVE  /\ IsSeq(ListOf(out, run, g, item))
                 /\ \A k \in DOMAIN ListOf(out, run, g, item) :
                      Timed(run, ListOf(out, run, g, item)[k])
      <4>1. CASE item \in Groups
        <5>1. height[item] < height[g] /\ height[item] \in Nat /\ height[g] \in Nat
          BY <4>1 DEF Heights
        <5>2. Good(item)
          BY <1>3, <2>1, <4>1, <5>1
        <5>3. IsSeq(out[item])
          BY <4>1, AnswersAreSeqs
        <5> HIDE DEF out
        <5>. QED  BY <4>1, <5>2, <5>3 DEF ListOf
      <4>2. CASE item \notin Groups
        <5>1. item \in Tests
          <6>1. \A i \in DOMAIN Items[g] : Items[g][i] \in Tests \union Groups
            BY ItemsTyped
          <6>. QED  BY <4>2, <6>1 DEF ToSet
        <5> DEFINE r == WithDefaultScore(run[item], g)
                   line == At(item, r)
        <5>2. r.runtime = run[item].runtime /\ r.runtime \in Int
          <6>1. run[item] \in Judgements
            BY <5>1
          <6>. QED  BY <6>1 DEF WithDefaultScore, Judgements
        <5> HIDE DEF r
        <5>3. Timed(run, line)
          BY <5>2 DEF Timed, At
        <5>4. ListOf(out, run, g, item) = <<line>>
          BY <4>2 DEF ListOf, r
        <5> HIDE DEF line
        <5>. QED  BY <5>3, <5>4, ShortSeqs
      <4>. QED  BY <4>1, <4>2
    <3>2. \A l \in L : IsSeq(l) /\ l # <<>> /\ \A k \in DOMAIN l : Timed(run, l[k])
      BY <3>1 DEF Lists
    <3>3. children \in Seq(L)
      BY ChildrenAreLists
    <3>4. out[g] = Answered(g, children)
      BY AnswersDef DEF GroupAnswer, Answered
    <3>5. g \notin Tests
      BY TreeAssumption
    <3> HIDE DEF L, children, out
    <3>6. IsSeq(children) /\ DOMAIN children = 1 .. Len(children) /\ Len(children) \in Nat
      BY <3>3, SeqIsSeq
    <3>7. \A i \in DOMAIN children : children[i] \in L
      BY <3>3, <3>6
    <3>8. CASE children = <<>>
      BY <3>4, <3>8, ShortSeqs DEF Answered
    <3>9. CASE children # <<>>
      <4> DEFINE own == OwnResults(children)
                 line == At(g, GroupResult(g, own))
                 flat == FlattenSeq(children)
      <4>1. IsSeq(flat) /\ \A k \in DOMAIN flat : Timed(run, flat[k])
        BY <3>2, <3>6, <3>7, FlattenTimed
      <4>2. /\ IsSeq(own) /\ Len(own) = Len(children) /\ DOMAIN own = DOMAIN children
            /\ \A i \in DOMAIN own : own[i] = Last(children[i]).result
        BY <3>6, FunctionIsSeq DEF OwnResults
      <4>3. ASSUME NEW i \in DOMAIN children
            PROVE  own[i].runtime \in Int
        <5> DEFINE l == children[i]
        <5>1. IsSeq(l) /\ l # <<>> /\ \A k \in DOMAIN l : Timed(run, l[k])
          BY <3>2, <3>7
        <5>2. own[i] = Last(l).result
          BY <4>2
        <5> HIDE DEF l, own
        <5>3. Len(l) \in DOMAIN l
          BY <5>1, SeqIsSeq, EmptySeq DEF IsSeq
        <5>. QED  BY <5>1, <5>2, <5>3 DEF Timed, Last
      <4>4. own # <<>>
        BY <3>6, <3>9, <4>2, ShortSeqs, EmptySeq DEF IsSeq
      <4> HIDE DEF own
      <4>5. GroupResult(g, own).runtime \in Int
        BY <4>2, <4>3, <4>4, AggregateRuntime DEF GroupResult
      <4>6. Timed(run, line)
        BY <3>5, <4>5 DEF Timed, At
      <4>7. out[g] = Append(flat, line)
        BY <3>4, <3>9 DEF Answered, own
      <4> HIDE DEF flat, line
      <4>. QED  BY <4>1, <4>6, <4>7, AppendTimed
    <3>. QED  BY <3>8, <3>9
  <2> HIDE DEF Good
  <2>. QED  BY <2>1
<1>4. bound \in S
  <2>1. \A n \in Nat : n \in S
    <3> HIDE DEF S
    <3>. QED  BY <1>2, <1>3, SetInduction
  <2> HIDE DEF S
  <2>. QED  BY <2>1
<1> HIDE DEF Good
<1>5. \A g \in Groups : Good(g)
  BY <1>1, <1>4
<1>. QED  BY <1>5 DEF Good

(* A group that does not end in a judge error has none among its children, *)
(* and takes the runtime of the slowest.                                   *)
LEMMA AggregateSlowest ==
  ASSUME NEW grader, NEW flags, NEW scoring, NEW a, IsSeq(a), a # <<>>,
         \A i \in DOMAIN a : a[i].runtime \in Int,
         AggregateGroupResult(grader, flags, scoring, a).verdict # "JE"
  PROVE  /\ \A i \in DOMAIN a :
              /\ a[i].verdict # "JE"
              /\ a[i].runtime <= AggregateGroupResult(grader, flags, scoring, a).runtime
         /\ \E i \in DOMAIN a :
              a[i].runtime = AggregateGroupResult(grader, flags, scoring, a).runtime
<1> DEFINE errors == {i \in DOMAIN a : a[i].verdict = "JE"}
           f == [i \in DOMAIN a |-> a[i].runtime]
           S == {f[i] : i \in DOMAIN a}
<1>1. DOMAIN a = 1 .. Len(a) /\ Len(a) \in Nat \ {0}
  BY SeqIsSeq, EmptySeq DEF IsSeq
<1>2. \A i \in 1 .. Len(a) : f[i] \in Int
  BY <1>1
<1>3. Max(S) \in S /\ \A x \in S : x <= Max(S)
  <2> HIDE DEF f
  <2>. QED  BY <1>1, <1>2, MaxIsGreatest
<1>4. Slowest(a) = Max(S)
  <2>1. {a[i].runtime : i \in DOMAIN a} = S
    OBVIOUS
  <2> HIDE DEF S
  <2>. QED  BY <2>1 DEF Slowest
<1>5. errors = {}
  <2>1. errors \subseteq Nat /\ errors \subseteq DOMAIN a
    BY <1>1
  <2>2. CASE errors # {}
    <3>1. Min(errors) \in errors
      BY <2>1, <2>2, MinIsLeast
    <3>2. AggregateGroupResult(grader, flags, scoring, a) = a[Min(errors)]
      BY <2>2 DEF AggregateGroupResult
    <3>. QED  BY <3>1, <3>2
  <2>. QED  BY <2>2
<1>6. AggregateGroupResult(grader, flags, scoring, a).runtime = Slowest(a)
  <2>1. Judgement(NewResult("JE")).verdict = "JE"
    BY DEF Judgement, NewResult
  <2>. QED  BY <1>5, <2>1 DEF AggregateGroupResult
<1>7. \A i \in DOMAIN a : a[i].runtime <= Slowest(a)
  <2>1. \A i \in DOMAIN a : a[i].runtime \in S
    OBVIOUS
  <2> HIDE DEF S
  <2>. QED  BY <1>3, <1>4, <2>1
<1>8. \E i \in DOMAIN a : a[i].runtime = Slowest(a)
  <2>1. PICK i \in DOMAIN a : Max(S) = f[i]
    BY <1>3
  <2> HIDE DEF S
  <2>. QED  BY <1>4, <2>1
<1>. QED  BY <1>5, <1>6, <1>7, <1>8

(* A list of which no line is slower than a result.                        *)
NoneSlower(list, r) == \A k \in DOMAIN list : list[k].result.runtime <= r.runtime

(* A list on which a test case took as long as a result says.              *)
SomeTestTook(list, r) ==
  \E k \in DOMAIN list : list[k].node \in Tests /\ list[k].result.runtime = r.runtime

(* Unless it ends in a judge error, no line is slower than the last, and   *)
(* the last has its runtime from a test case.                              *)
LastIsSlowest(list) ==
  list # <<>> /\ Last(list).result.verdict # "JE" =>
    NoneSlower(list, Last(list).result) /\ SomeTestTook(list, Last(list).result)

(* One after the other, lists of lines no slower than a result.            *)
LEMMA FlattenNoneSlower ==
  ASSUME NEW s, IsSeq(s), NEW r, \A i \in DOMAIN s : IsSeq(s[i]) /\ NoneSlower(s[i], r)
  PROVE  IsSeq(FlattenSeq(s)) /\ NoneSlower(FlattenSeq(s), r)
<1> DEFINE T == {line \in LinesOf(s) : line.result.runtime <= r.runtime}
<1>1. \A i \in DOMAIN s : \A k \in DOMAIN s[i] : s[i][k] \in T
  BY LinesAreOf DEF NoneSlower
<1>2. \A line \in T : line.result.runtime <= r.runtime
  OBVIOUS
<1> HIDE DEF T
<1>. QED  BY <1>1, <1>2, FlattenKeeps DEF NoneSlower

(* A group whose items end with their slowest line does, too.              *)
LEMMA AnsweredSlowest ==
  ASSUME NEW g, NEW s, IsSeq(s),
         \A i \in DOMAIN s : /\ IsSeq(s[i]) /\ s[i] # <<>> /\ LastIsSlowest(s[i])
                             /\ \A k \in DOMAIN s[i] : s[i][k].result.runtime \in Int
  PROVE  LastIsSlowest(Answered(g, s))
<1>1. DOMAIN s = 1 .. Len(s) /\ Len(s) \in Nat
  BY SeqIsSeq DEF IsSeq
<1>2. SUFFICES ASSUME s # <<>>
               PROVE  LastIsSlowest(Answered(g, s))
  BY DEF Answered, LastIsSlowest
<1> DEFINE own == OwnResults(s)
           r == GroupResult(g, own)
           line == At(g, r)
           flat == FlattenSeq(s)
<1>3. /\ IsSeq(own) /\ Len(own) = Len(s) /\ DOMAIN own = DOMAIN s
      /\ \A i \in DOMAIN own : own[i] = Last(s[i]).result
  BY <1>1, FunctionIsSeq DEF OwnResults
<1>4. \A i \in DOMAIN s : Len(s[i]) \in DOMAIN s[i]
  BY SeqIsSeq, EmptySeq DEF IsSeq
<1>5. own # <<>>
  BY <1>1, <1>2, <1>3, ShortSeqs, EmptySeq DEF IsSeq
<1> HIDE DEF own
<1>6. \A i \in DOMAIN own : own[i].runtime \in Int
  BY <1>3, <1>4 DEF Last
<1>7. r.runtime \in Int
  BY <1>3, <1>5, <1>6, AggregateRuntime DEF GroupResult
<1>8. line.result = r
  BY DEF At
<1>9. Answered(g, s) = Append(flat, line)
  BY <1>2 DEF Answered, own
<1>10. IsSeq(flat)
  BY <1>1, FlattenHas
<1> HIDE DEF r, line, flat
<1>11. /\ Len(flat) \in Nat /\ DOMAIN Append(flat, line) = 1 .. Len(flat) + 1
       /\ Len(Append(flat, line)) = Len(flat) + 1
       /\ \A i \in DOMAIN Append(flat, line) :
            Append(flat, line)[i] = IF i = Len(flat) + 1 THEN line ELSE flat[i]
       /\ DOMAIN flat = 1 .. Len(flat)
  BY <1>10, AppendIsSeq, SeqIsSeq DEF IsSeq
<1>12. Last(Append(flat, line)) = line
  BY <1>11 DEF Last
<1>13. ASSUME r.verdict # "JE"
       PROVE  NoneSlower(Append(flat, line), r) /\ SomeTestTook(Append(flat, line), r)
  <2>1. /\ \A i \in DOMAIN own : own[i].verdict # "JE" /\ own[i].runtime <= r.runtime
        /\ \E i \in DOMAIN own : own[i].runtime = r.runtime
    BY <1>3, <1>5, <1>6, <1>13, AggregateSlowest DEF GroupResult, r
  <2>2. ASSUME NEW i \in DOMAIN s
        PROVE  NoneSlower(s[i], r)
    <3>1. NoneSlower(s[i], own[i])
      BY <1>3, <2>1 DEF LastIsSlowest
    <3>2. own[i].runtime \in Int /\ own[i].runtime <= r.runtime
      BY <1>3, <1>6, <2>1
    <3>3. \A k \in DOMAIN s[i] : s[i][k].result.runtime \in Int
      OBVIOUS
    <3>. QED  BY <1>7, <3>1, <3>2, <3>3 DEF NoneSlower
  <2>3. NoneSlower(flat, r)
    BY <2>2, FlattenNoneSlower DEF flat
  <2>4. r.runtime <= r.runtime
    BY <1>7
  <2>5. \A i \in 1 .. Len(flat) + 1 : i = Len(flat) + 1 \/ i \in 1 .. Len(flat)
    BY <1>11
  <2>6. NoneSlower(Append(flat, line), r)
    BY <1>8, <1>11, <2>3, <2>4, <2>5 DEF NoneSlower
  <2>7. SomeTestTook(Append(flat, line), r)
    <3>1. PICK i \in DOMAIN s : own[i].runtime = r.runtime
      BY <1>3, <2>1
    <3>2. SomeTestTook(s[i], own[i])
      BY <1>3, <2>1 DEF LastIsSlowest
    <3>3. PICK k \in DOMAIN s[i] : s[i][k].node \in Tests /\ s[i][k].result.runtime = r.runtime
      BY <3>1, <3>2 DEF SomeTestTook
    <3>4. PICK q \in DOMAIN flat : flat[q] = s[i][k]
      BY <3>3, FlattenHas DEF flat
    <3>5. q \in DOMAIN Append(flat, line) /\ Append(flat, line)[q] = flat[q]
      BY <1>11
    <3>. QED  BY <3>3, <3>4, <3>5 DEF SomeTestTook
  <2>. QED  BY <2>6, <2>7
<1>. QED  BY <1>8, <1>9, <1>12, <1>13 DEF LastIsSlowest

(* Every group's answer does.                                              *)
LEMMA AnswersSlowest ==
  ASSUME NEW run \in [Tests -> Judgements]
  PROVE  \A g \in Groups : LastIsSlowest(AnswersOf(run)[g])
<1>1. PICK height \in Heights, bound \in Nat : \A g \in Groups : height[g] < bound
  BY HeightsExist
<1> DEFINE out == AnswersOf(run)
           Good(g) == LastIsSlowest(out[g])
           S == {n \in Nat : \A g \in Groups : height[g] < n => Good(g)}
<1>2. 0 \in S
  <2>1. \A g \in Groups : ~ (height[g] < 0)
    BY DEF Heights
  <2>. QED  BY <2>1
<1>3. ASSUME NEW n \in Nat, n \in S
      PROVE  n + 1 \in S
  <2>1. ASSUME NEW g \in Groups, height[g] < n + 1
        PROVE  Good(g)
    <3> DEFINE L == Lists(out, run, g)
               children == UpToBreak(g, Children(out, run, g))
    <3>1. ASSUME NEW item \in ToSet(Items[g])
          PROVE  LET l == ListOf(out, run, g, item)
                 IN  /\ IsSeq(l) /\ LastIsSlowest(l)
                     /\ \A k \in DOMAIN l : l[k].result.runtime \in Int
      <4>1. CASE item \in Groups
        <5>1. height[item] < height[g] /\ height[item] \in Nat /\ height[g] \in Nat
          BY <4>1 DEF Heights
        <5>2. Good(item)
          BY <1>3, <2>1, <4>1, <5>1
        <5>3. IsSeq(out[item])
          BY <4>1, AnswersAreSeqs
        <5>4. \A k \in DOMAIN out[item] : out[item][k].result.runtime \in Int
          BY <4>1, AnswersTimed DEF Timed
        <5> HIDE DEF out
        <5>. QED  BY <4>1, <5>2, <5>3, <5>4 DEF ListOf
      <4>2. CASE item \notin Groups
        <5>1. item \in Tests
          <6>1. \A i \in DOMAIN Items[g] : Items[g][i] \in Tests \union Groups
            BY ItemsTyped
          <6>. QED  BY <4>2, <6>1 DEF ToSet
        <5> DEFINE r == WithDefaultScore(run[item], g)
                   line == At(item, r)
        <5>2. r.runtime \in Int
          <6>1. run[item] \in Judgements
            BY <5>1
          <6>. QED  BY <6>1 DEF WithDefaultScore, Judgements
        <5> HIDE DEF r
        <5>3. line.result = r /\ line.node \in Tests
          BY <5>1 DEF At
        <5>4. ListOf(out, run, g, item) = <<line>>
          BY <4>2 DEF ListOf, r
        <5> HIDE DEF line
        <5>5. IsSeq(<<line>>) /\ DOMAIN <<line>> = {1} /\ Len(<<line>>) = 1 /\ <<line>>[1] = line
          BY ShortSeqs
        <5>6. Last(<<line>>) = line
          BY <5>5 DEF Last
        <5>. QED  BY <5>2, <5>3, <5>4, <5>5, <5>6 DEF LastIsSlowest, NoneSlower, SomeTestTook
      <4>. QED  BY <4>1, <4>2
    <3>2. \A l \in L : /\ IsSeq(l) /\ l # <<>> /\ LastIsSlowest(l)
                       /\ \A k \in DOMAIN l : l[k].result.runtime \in Int
      BY <3>1 DEF Lists
    <3>3. children \in Seq(L)
      BY ChildrenAreLists
    <3>4. out[g] = Answered(g, children)
      BY AnswersDef DEF GroupAnswer, Answered
    <3> HIDE DEF L, children, out
    <3>5. IsSeq(children) /\ \A i \in DOMAIN children : children[i] \in L
      BY <3>3, SeqIsSeq
    <3>. QED  BY <3>2, <3>4, <3>5, AnsweredSlowest
  <2> HIDE DEF Good
  <2>. QED  BY <2>1
<1>4. bound \in S
  <2>1. \A n \in Nat : n \in S
    <3> HIDE DEF S
    <3>. QED  BY <1>2, <1>3, SetInduction
  <2> HIDE DEF S
  <2>. QED  BY <2>1
<1> HIDE DEF Good
<1>5. \A g \in Groups : Good(g)
  BY <1>1, <1>4
<1>. QED  BY <1>5 DEF Good

-----------------------------------------------------------------------------
(* The trees in which a group is accepted only if all its children are:    *)
(* those of the default grader without always_accept, ignore_sample and     *)
(* accept_if_any_accepted, and of graders as strict as it.                  *)
StrictGraders ==
  \A g \in Groups : \A results :
    (IsSeq(results) /\ results # <<>> /\ \A i \in DOMAIN results : results[i].verdict \in Verdict)
    => /\ GroupResult(g, results).verdict \in Verdict
       /\ GroupResult(g, results).verdict = "AC" =>
            \A i \in DOMAIN results : results[i].verdict = "AC"

(* The verdicts, worst first, and AC is the last.                          *)
LEMMA VerdictsSorted ==
  /\ DOMAIN SortingOrder = 1 .. 7
  /\ \A v \in Verdict : \E i \in 1 .. 7 : SortingOrder[i] = v
  /\ \A i \in 1 .. 7 : SortingOrder[i] \in Verdict /\ (SortingOrder[i] = "AC" <=> i = 7)
<1>1. DOMAIN SortingOrder = 1 .. 7
  BY DEF SortingOrder
<1>2. 1 .. 7 = {1, 2, 3, 4, 5, 6, 7}
  OBVIOUS
<1>3. /\ SortingOrder[1] = "JE" /\ SortingOrder[2] = "RTE" /\ SortingOrder[3] = "MLE"
      /\ SortingOrder[4] = "TLE" /\ SortingOrder[5] = "OLE" /\ SortingOrder[6] = "WA"
      /\ SortingOrder[7] = "AC"
  BY DEF SortingOrder
<1>. QED  BY <1>1, <1>2, <1>3 DEF Verdict

(* The worst error is AC only if there is none.                            *)
LEMMA WorstErrorIsStrict ==
  ASSUME NEW verdicts, \A i \in DOMAIN verdicts : verdicts[i] \in Verdict
  PROVE  /\ WorstError(verdicts) \in Verdict
         /\ WorstError(verdicts) = "AC" => \A i \in DOMAIN verdicts : verdicts[i] = "AC"
<1> DEFINE I == {i \in DOMAIN SortingOrder : SortingOrder[i] \in ToSet(verdicts) \union {"AC"}}
<1>1. I \subseteq 1 .. 7 /\ I \subseteq Nat /\ 7 \in I
  BY VerdictsSorted
<1>2. Min(I) \in I /\ \A i \in I : Min(I) <= i
  <2> HIDE DEF I
  <2>. QED  BY <1>1, MinIsLeast
<1>3. WorstError(verdicts) = SortingOrder[Min(I)]
  BY DEF WorstError
<1>4. ASSUME NEW k \in DOMAIN verdicts, verdicts[k] # "AC"
      PROVE  WorstError(verdicts) # "AC"
  <2>1. verdicts[k] \in ToSet(verdicts)
    BY DEF ToSet
  <2>2. PICK i \in 1 .. 7 : SortingOrder[i] = verdicts[k]
    BY VerdictsSorted
  <2>3. i \in I /\ i # 7
    BY <1>4, <2>1, <2>2, VerdictsSorted
  <2> HIDE DEF I
  <2>4. Min(I) \in 1 .. 7 /\ Min(I) # 7
    <3> DEFINE m == Min(I)
    <3>1. m \in 1 .. 7 /\ m <= i
      BY <1>1, <1>2, <2>3
    <3> HIDE DEF m
    <3>2. m # 7
      BY <2>2, <2>3, <3>1
    <3>. QED  BY <3>1, <3>2 DEF m
  <2>. QED  BY <1>3, <2>4, VerdictsSorted
<1> HIDE DEF I
<1>. QED  BY <1>1, <1>2, <1>3, <1>4, VerdictsSorted

(* So is the first error.                                                  *)
LEMMA FirstErrorIsStrict ==
  ASSUME NEW verdicts, DOMAIN verdicts \subseteq Nat,
         \A i \in DOMAIN verdicts : verdicts[i] \in Verdict
  PROVE  /\ FirstError(verdicts) \in Verdict
         /\ FirstError(verdicts) = "AC" => \A i \in DOMAIN verdicts : verdicts[i] = "AC"
<1> DEFINE errors == {i \in DOMAIN verdicts : verdicts[i] # "AC"}
<1>1. CASE errors = {}
  BY <1>1 DEF FirstError, Verdict
<1>2. CASE errors # {}
  <2>1. errors \subseteq Nat
    OBVIOUS
  <2>2. Min(errors) \in errors
    <3> HIDE DEF errors
    <3>. QED  BY <1>2, <2>1, MinIsLeast
  <2>3. FirstError(verdicts) = verdicts[Min(errors)]
    BY <1>2 DEF FirstError
  <2>. QED  BY <2>2, <2>3
<1>. QED  BY <1>1, <1>2

(* The last flag of a kind is one of the flags.                            *)
LEMMA LastFlagIsFlag ==
  ASSUME NEW S, NEW flags \in Seq(S), NEW kind, NEW default
  PROVE  \/ LastFlag(flags, kind, default) = default
         \/ LastFlag(flags, kind, default) \in kind /\ Contains(flags, LastFlag(flags, kind, default))
<1> DEFINE I == {i \in 1 .. Len(flags) : flags[i] \in kind}
<1>0. Len(flags) \in Nat /\ I \subseteq 1 .. Len(flags)
  BY LenProperties
<1>1. SelectLastInSeq(flags, LAMBDA f : f \in kind) = IF I # {} THEN Max(I) ELSE 0
  BY DEF SelectLastInSeq
<1>2. CASE I = {}
  BY <1>1, <1>2 DEF LastFlag
<1>3. CASE I # {}
  <2>1. Max(I) \in I
    <3>1. \E m \in I : \A i \in I : m >= i
      <4> DEFINE n == Len(flags)
                 D == {n - i : i \in I}
      <4>1. D \subseteq Nat /\ D # {}
        BY <1>0, <1>3
      <4>2. Min(D) \in D /\ \A d \in D : Min(D) <= d
        <5> HIDE DEF D
        <5>. QED  BY <4>1, MinIsLeast
      <4>3. PICK m \in I : Min(D) = n - m
        BY <4>2
      <4>4. \A i \in I : n - m <= n - i
        BY <4>2, <4>3
      <4>5. \A i \in I : i \in Int
        BY <1>0
      <4> HIDE DEF n, D, I
      <4>6. \A i \in I : m >= i
        BY <1>0, <4>4, <4>5 DEF n
      <4>. QED  BY <4>6
    <3> HIDE DEF I
    <3>. QED  BY <3>1 DEF Max
  <2>2. SelectLastInSeq(flags, LAMBDA f : f \in kind) = Max(I)
    BY <1>1, <1>3
  <2>3. Max(I) # 0 /\ Max(I) \in 1 .. Len(flags) /\ flags[Max(I)] \in kind
    BY <1>0, <2>1
  <2>4. LastFlag(flags, kind, default) = flags[Max(I)]
    BY <2>2, <2>3 DEF LastFlag
  <2>. QED  BY <2>3, <2>4 DEF Contains
<1>. QED  BY <1>2, <1>3

(* The default grader is strict where none of the three flags is given.    *)
PlainFlags(flags) ==
  \A f \in {"always_accept", "ignore_sample", "accept_if_any_accepted"} : ~ Contains(flags, f)

LEMMA DefaultIsStrict ==
  ASSUME NEW S, NEW flags \in Seq(S), PlainFlags(flags), NEW lines, DOMAIN lines \subseteq Nat,
         \A i \in DOMAIN lines : lines[i].verdict \in Verdict
  PROVE  /\ DefaultGrader(flags, lines)[1] \in Verdict
         /\ DefaultGrader(flags, lines)[1] = "AC" =>
              \A i \in DOMAIN lines : lines[i].verdict = "AC"
<1> DEFINE verdicts == Verdicts(lines)
           how == LastFlag(flags, VerdictFlags, "worst_error")
           score == AggregateScores(LastFlag(flags, ScoreFlags, "sum"), Scores(lines))
           v == AggregateVerdicts(how, verdicts)
<1>1. ~ Contains(flags, "ignore_sample") /\ ~ Contains(flags, "accept_if_any_accepted")
      /\ ~ Contains(flags, "always_accept")
  BY DEF PlainFlags
<1>2. DefaultGrader(flags, lines) = <<v, score>>
  BY <1>1 DEF DefaultGrader
<1>3. how \in {"worst_error", "no_errors", "first_error"}
  BY <1>1, LastFlagIsFlag DEF VerdictFlags
<1>4. /\ DOMAIN verdicts = DOMAIN lines
      /\ \A i \in DOMAIN verdicts : verdicts[i] = lines[i].verdict /\ verdicts[i] \in Verdict
  BY DEF Verdicts
<1> HIDE DEF verdicts, how, score
<1>5. v \in Verdict /\ (v = "AC" => \A i \in DOMAIN verdicts : verdicts[i] = "AC")
  <2>1. CASE how = "first_error"
    <3>1. v = FirstError(verdicts)
      BY <2>1 DEF AggregateVerdicts
    <3>. QED  BY <1>4, <3>1, FirstErrorIsStrict
  <2>2. CASE how \in {"worst_error", "no_errors"}
    <3>1. v = WorstError(verdicts)
      BY <2>2 DEF AggregateVerdicts
    <3>. QED  BY <1>4, <3>1, WorstErrorIsStrict
  <2>. QED  BY <1>3, <2>1, <2>2
<1>. QED  BY <1>2, <1>4, <1>5

(* The default grader is strict in every group that has none of the flags  *)
(* always_accept, ignore_sample and accept_if_any_accepted.                *)
THEOREM DefaultGradersAreStrict ==
  ASSUME NEW S, \A g \in Groups : /\ Config[g].grader = "default"
                                  /\ Config[g].flags \in Seq(S) /\ PlainFlags(Config[g].flags)
  PROVE  StrictGraders
<1> SUFFICES ASSUME NEW g \in Groups, NEW a, IsSeq(a), a # <<>>,
                    \A i \in DOMAIN a : a[i].verdict \in Verdict
             PROVE  /\ GroupResult(g, a).verdict \in Verdict
                    /\ GroupResult(g, a).verdict = "AC" =>
                         \A i \in DOMAIN a : a[i].verdict = "AC"
  BY DEF StrictGraders
<1> DEFINE errors == {i \in DOMAIN a : a[i].verdict = "JE"}
           flags == Config[g].flags
           lines == Lines(a)
           graded == DefaultGrader(flags, lines)
<1>1. DOMAIN a \subseteq Nat
  BY SeqIsSeq DEF IsSeq
<1>2. GradeGroup(Config[g].grader, flags, a) = graded
  BY DEF GradeGroup
<1>3. DOMAIN lines = DOMAIN a /\ \A i \in DOMAIN a : lines[i].verdict = a[i].verdict
  BY DEF Lines
<1> HIDE DEF lines
<1>4. graded[1] \in Verdict /\ (graded[1] = "AC" => \A i \in DOMAIN a : a[i].verdict = "AC")
  BY <1>1, <1>3, DefaultIsStrict
<1> HIDE DEF graded
<1>5. CASE errors # {}
  <2>1. errors \subseteq Nat
    BY <1>1
  <2>2. Min(errors) \in errors
    <3> HIDE DEF errors
    <3>. QED  BY <1>5, <2>1, MinIsLeast
  <2>3. GroupResult(g, a) = a[Min(errors)]
    BY <1>5 DEF GroupResult, AggregateGroupResult
  <2>. QED  BY <2>2, <2>3 DEF Verdict
<1>6. CASE errors = {} /\ Config[g].grader = NoGrader
  <2>1. GroupResult(g, a).verdict = "JE"
    BY <1>6 DEF GroupResult, AggregateGroupResult, Judgement, NewResult
  <2>. QED  BY <2>1 DEF Verdict
<1>7. CASE errors = {} /\ Config[g].grader # NoGrader
  <2>1. GroupResult(g, a).verdict = graded[1]
    BY <1>2, <1>7 DEF GroupResult, AggregateGroupResult
  <2>. QED  BY <1>4, <2>1
<1>. QED  BY <1>5, <1>6, <1>7

(* A test case whose line is in a list has been accepted.                  *)
TestsAccepted(run, list) ==
  \A k \in DOMAIN list : list[k].node \in Tests => run[list[k].node].verdict = "AC"

(* A list accepted as a whole has every test case on it accepted.          *)
AcceptedThroughout(run, list) ==
  list # <<>> => /\ Last(list).result.verdict \in Verdict
                 /\ Last(list).result.verdict = "AC" => TestsAccepted(run, list)

(* One after the other, lists of accepted test cases.                      *)
LEMMA FlattenAccepted ==
  ASSUME NEW run, NEW s, IsSeq(s), \A i \in DOMAIN s : IsSeq(s[i]) /\ TestsAccepted(run, s[i])
  PROVE  IsSeq(FlattenSeq(s)) /\ TestsAccepted(run, FlattenSeq(s))
<1> DEFINE T == {line \in LinesOf(s) : line.node \in Tests => run[line.node].verdict = "AC"}
<1>1. \A i \in DOMAIN s : \A k \in DOMAIN s[i] : s[i][k] \in T
  BY LinesAreOf DEF TestsAccepted
<1>2. \A line \in T : line.node \in Tests => run[line.node].verdict = "AC"
  OBVIOUS
<1> HIDE DEF T
<1>. QED  BY <1>1, <1>2, FlattenKeeps DEF TestsAccepted

(* With strict graders a group keeps that of its items.                    *)
LEMMA AnsweredAccepted ==
  ASSUME StrictGraders, NEW run, NEW g \in Groups, NEW s, IsSeq(s),
         \A i \in DOMAIN s : IsSeq(s[i]) /\ s[i] # <<>> /\ AcceptedThroughout(run, s[i])
  PROVE  AcceptedThroughout(run, Answered(g, s))
<1>1. DOMAIN s = 1 .. Len(s) /\ Len(s) \in Nat
  BY SeqIsSeq DEF IsSeq
<1>2. SUFFICES ASSUME s # <<>>
               PROVE  AcceptedThroughout(run, Answered(g, s))
  BY DEF Answered, AcceptedThroughout
<1> DEFINE own == OwnResults(s)
           r == GroupResult(g, own)
           line == At(g, r)
           flat == FlattenSeq(s)
<1>3. /\ IsSeq(own) /\ Len(own) = Len(s) /\ DOMAIN own = DOMAIN s
      /\ \A i \in DOMAIN own : own[i] = Last(s[i]).result
  BY <1>1, FunctionIsSeq DEF OwnResults
<1>4. own # <<>>
  BY <1>1, <1>2, <1>3, ShortSeqs, EmptySeq DEF IsSeq
<1> HIDE DEF own
<1>5. \A i \in DOMAIN own : own[i].verdict \in Verdict
  BY <1>3 DEF AcceptedThroughout
<1>6. r.verdict \in Verdict /\ (r.verdict = "AC" => \A i \in DOMAIN own : own[i].verdict = "AC")
  BY <1>3, <1>4, <1>5 DEF StrictGraders
<1>7. line.result = r /\ line.node \notin Tests
  BY TreeAssumption DEF At
<1>8. Answered(g, s) = Append(flat, line)
  BY <1>2 DEF Answered, own
<1>9. IsSeq(flat)
  BY <1>1, FlattenHas
<1> HIDE DEF r, line, flat
<1>10. /\ Len(flat) \in Nat /\ DOMAIN Append(flat, line) = 1 .. Len(flat) + 1
       /\ Len(Append(flat, line)) = Len(flat) + 1
       /\ \A i \in DOMAIN Append(flat, line) :
            Append(flat, line)[i] = IF i = Len(flat) + 1 THEN line ELSE flat[i]
       /\ DOMAIN flat = 1 .. Len(flat)
  BY <1>9, AppendIsSeq, SeqIsSeq DEF IsSeq
<1>11. Last(Append(flat, line)) = line
  BY <1>10 DEF Last
<1>12. ASSUME r.verdict = "AC"
       PROVE  TestsAccepted(run, Append(flat, line))
  <2>1. \A i \in DOMAIN s : IsSeq(s[i]) /\ TestsAccepted(run, s[i])
    BY <1>3, <1>6, <1>12 DEF AcceptedThroughout
  <2>2. TestsAccepted(run, flat)
    BY <2>1, FlattenAccepted DEF flat
  <2>3. \A i \in 1 .. Len(flat) + 1 : i = Len(flat) + 1 \/ i \in 1 .. Len(flat)
    BY <1>10
  <2>. QED  BY <1>7, <1>10, <2>2, <2>3 DEF TestsAccepted
<1>. QED  BY <1>6, <1>7, <1>8, <1>11, <1>12 DEF AcceptedThroughout

(* With strict graders, what is accepted has every test case it was judged *)
(* on accepted.                                                            *)
LEMMA AnswersAccepted ==
  ASSUME StrictGraders, NEW run \in [Tests -> Judgements]
  PROVE  \A g \in Groups : AcceptedThroughout(run, AnswersOf(run)[g])
<1>1. PICK height \in Heights, bound \in Nat : \A g \in Groups : height[g] < bound
  BY HeightsExist
<1> DEFINE out == AnswersOf(run)
           Good(g) == AcceptedThroughout(run, out[g])
           S == {n \in Nat : \A g \in Groups : height[g] < n => Good(g)}
<1>2. 0 \in S
  <2>1. \A g \in Groups : ~ (height[g] < 0)
    BY DEF Heights
  <2>. QED  BY <2>1
<1>3. ASSUME NEW n \in Nat, n \in S
      PROVE  n + 1 \in S
  <2>1. ASSUME NEW g \in Groups, height[g] < n + 1
        PROVE  Good(g)
    <3>1. ASSUME NEW item \in ToSet(Items[g])
          PROVE  LET l == ListOf(out, run, g, item)
                 IN  IsSeq(l) /\ AcceptedThroughout(run, l)
      <4>1. CASE item \in Groups
        <5>1. height[item] < height[g] /\ height[item] \in Nat /\ height[g] \in Nat
          BY <4>1 DEF Heights
        <5>2. Good(item)
          BY <1>3, <2>1, <4>1, <5>1
        <5>3. IsSeq(out[item])
          BY <4>1, AnswersAreSeqs
        <5> HIDE DEF out
        <5>. QED  BY <4>1, <5>2, <5>3 DEF ListOf
      <4>2. CASE item \notin Groups
        <5>1. item \in Tests
          <6>1. \A i \in DOMAIN Items[g] : Items[g][i] \in Tests \union Groups
            BY ItemsTyped
          <6>. QED  BY <4>2, <6>1 DEF ToSet
        <5> DEFINE r == WithDefaultScore(run[item], g)
                   line == At(item, r)
        <5>2. r.verdict = run[item].verdict /\ r.verdict \in Verdict
          <6>1. run[item] \in Judgements
            BY <5>1
          <6>. QED  BY <6>1 DEF WithDefaultScore, Judgements
        <5> HIDE DEF r
        <5>3. line.result = r /\ line.node = item
          BY DEF At
        <5>4. ListOf(out, run, g, item) = <<line>>
          BY <4>2 DEF ListOf, r
        <5> HIDE DEF line
        <5>5. IsSeq(<<line>>) /\ DOMAIN <<line>> = {1} /\ Len(<<line>>) = 1 /\ <<line>>[1] = line
          BY ShortSeqs
        <5>6. Last(<<line>>) = line
          BY <5>5 DEF Last
        <5>. QED  BY <5>2, <5>3, <5>4, <5>5, <5>6 DEF AcceptedThroughout, TestsAccepted
      <4>. QED  BY <4>1, <4>2
    <3> DEFINE L == Lists(out, run, g)
               children == UpToBreak(g, Children(out, run, g))
    <3>2. \A l \in L : IsSeq(l) /\ l # <<>> /\ AcceptedThroughout(run, l)
      BY <3>1 DEF Lists
    <3>3. children \in Seq(L)
      BY ChildrenAreLists
    <3>4. out[g] = Answered(g, children)
      BY AnswersDef DEF GroupAnswer, Answered
    <3> HIDE DEF L, children, out
    <3>5. IsSeq(children) /\ \A i \in DOMAIN children : children[i] \in L
      BY <3>3, SeqIsSeq
    <3>. QED  BY <3>2, <3>4, <3>5, AnsweredAccepted
  <2> HIDE DEF Good
  <2>. QED  BY <2>1
<1>4. bound \in S
  <2>1. \A n \in Nat : n \in S
    <3> HIDE DEF S
    <3>. QED  BY <1>2, <1>3, SetInduction
  <2> HIDE DEF S
  <2>. QED  BY <2>1
<1> HIDE DEF Good
<1>5. \A g \in Groups : Good(g)
  BY <1>1, <1>4
<1>. QED  BY <1>5 DEF Good

-----------------------------------------------------------------------------
(* The filter keeps the groups and the test cases it selects.              *)
LEMMA SelectedKeeps ==
  ASSUME NEW T, NEW nodes \in Seq(T), NEW i \in DOMAIN nodes, nodes[i] \in Groups \union Matching
  PROVE  \E n \in DOMAIN Selected(nodes) : Selected(nodes)[n] = nodes[i]
<1> DEFINE parts == [k \in DOMAIN nodes |->
                       IF nodes[k] \in Groups \union Matching THEN <<nodes[k]>> ELSE <<>>]
<1>1. DOMAIN nodes = 1 .. Len(nodes) /\ Len(nodes) \in Nat
  BY SeqIsSeq
<1>2. IsSeq(parts)
  BY <1>1, FunctionIsSeq
<1>3. \A k \in DOMAIN parts : IsSeq(parts[k])
  BY ShortSeqs
<1>4. parts[i] = <<nodes[i]>> /\ i \in DOMAIN parts
  OBVIOUS
<1>5. 1 \in DOMAIN parts[i] /\ parts[i][1] = nodes[i]
  BY <1>4, ShortSeqs
<1>6. Selected(nodes) = FlattenSeq(parts)
  BY DEF Selected
<1> HIDE DEF parts
<1>. QED  BY <1>2, <1>3, <1>4, <1>5, <1>6, FlattenHas

(* A piece with a list in it leaves no empty list of children.             *)
LEMMA NoChildren ==
  ASSUME NEW out, NEW run, NEW g \in Groups,
         \A item \in ToSet(Items[g]) : IsSeq(ListOf(out, run, g, item)),
         GroupAnswer(out, run, g) = <<>>
  PROVE  \A n \in DOMAIN Selected(Items[g]) :
           ListOf(out, run, g, Selected(Items[g])[n]) = <<>>
<1> DEFINE N == Len(Selected(Items[g]))
           a == [n \in 1 .. N |-> ListOf(out, run, g, Selected(Items[g])[n])]
           C == Children(out, run, g)
           p == Pieces(out, run, g)
<1>1. PICK j : OneEach(j, p, a, N) /\ C = j[N]
  BY PiecesAreOneEach
<1>2. IsSeq(C) /\ \A i \in DOMAIN C : IsSeq(C[i]) /\ C[i] # <<>>
  BY ChildrenTyped
<1>3. N \in Nat /\ DOMAIN Selected(Items[g]) = 1 .. N
  BY SelectedTyped
<1>4. GroupAnswer(out, run, g) = Answered(g, UpToBreak(g, C))
  BY DEF GroupAnswer, Answered
<1>5. \A n \in 1 .. N : a[n] = ListOf(out, run, g, Selected(Items[g])[n])
  OBVIOUS
<1> HIDE DEF a, C, p, N
<1>6. UpToBreak(g, C) = <<>>
  <2>1. CASE UpToBreak(g, C) # <<>>
    <3>1. PICK e : GroupAnswer(out, run, g) = Append(FlattenSeq(UpToBreak(g, C)), e)
      BY <1>4, <2>1 DEF Answered
    <3>2. UpToBreak(g, C) \in Seq(Range(C))
      BY <1>2, UpToBreakTyped DEF IsSeq
    <3>3. \A l \in Range(C) : IsSeq(l)
      BY <1>2 DEF Range
    <3>4. IsSeq(FlattenSeq(UpToBreak(g, C)))
      <4>1. IsSeq(UpToBreak(g, C)) /\ \A i \in DOMAIN UpToBreak(g, C) : UpToBreak(g, C)[i] \in Range(C)
        BY <3>2, SeqIsSeq
      <4>. QED  BY <3>3, <4>1, FlattenHas
    <3>. QED  BY <3>1, <3>4, AppendIsSeq
  <2>. QED  BY <2>1
<1>7. Len(C) = 0
  <2>1. PICK K \in 0 .. Len(C) : StopsAt(g, C, K)
    BY <1>2, UpToBreakEnds
  <2>2. SubSeq(C, 1, K) = <<>>
    BY <1>2, <1>6, <2>1, UpToBreakEnds
  <2>3. Len(SubSeq(C, 1, K)) = K
    BY <1>2, SubSeqIsSeq
  <2>4. K = 0
    BY <2>2, <2>3, ShortSeqs
  <2>. QED  BY <2>1, <2>4 DEF StopsAt
<1>8. ASSUME NEW n \in 1 .. N, a[n] # <<>>
      PROVE  FALSE
  <2> DEFINE m == n - 1
  <2>1. m \in Nat /\ m + 1 <= N /\ m + 1 = n /\ n \in 0 .. N /\ m \in 0 .. N
    BY <1>3
  <2> HIDE DEF m
  <2>2. Len(j[m + 1]) = Len(j[m]) + 1
    BY <1>1, <1>3, <1>8, <2>1, OneEachSteps
  <2>3. Len(j[m]) \in Nat
    BY <1>1, <1>3, <2>1, OneEachSteps
  <2>4. Len(j[n]) <= Len(j[N])
    <3>1. \A i \in 1 .. N : IsSeq(p[i])
      BY <1>1, ShortSeqs DEF Child, OneEach
    <3>2. N \in n .. N
      BY <1>3
    <3>. QED  BY <1>1, <1>3, <2>1, <3>1, <3>2, JoinsGrow DEF OneEach
  <2>. QED  BY <1>1, <1>7, <2>1, <2>2, <2>3, <2>4
<1>. QED  BY <1>3, <1>5, <1>8

(* If a group answers nothing, the filter selects none of its test cases.  *)
LEMMA NothingToAnswer ==
  ASSUME NEW run
  PROVE  \A g \in Groups : AnswersOf(run)[g] = <<>> => AllTestcases[g] \in Seq(Tests \ Matching)
<1>1. PICK height \in Heights, bound \in Nat : \A g \in Groups : height[g] < bound
  BY HeightsExist
<1> DEFINE out == AnswersOf(run)
           Good(g) == out[g] = <<>> => AllTestcases[g] \in Seq(Tests \ Matching)
           S == {n \in Nat : \A g \in Groups : height[g] < n => Good(g)}
<1>2. 0 \in S
  <2>1. \A g \in Groups : ~ (height[g] < 0)
    BY DEF Heights
  <2>. QED  BY <2>1
<1>3. ASSUME NEW n \in Nat, n \in S
      PROVE  n + 1 \in S
  <2>1. ASSUME NEW g \in Groups, height[g] < n + 1, out[g] = <<>>
        PROVE  AllTestcases[g] \in Seq(Tests \ Matching)
    <3> DEFINE parts == [i \in DOMAIN Items[g] |->
                           IF Items[g][i] \in Tests THEN <<Items[g][i]>>
                           ELSE AllTestcases[Items[g][i]]]
               items == Selected(Items[g])
    <3>1. \A item \in ToSet(Items[g]) : IsSeq(ListOf(out, run, g, item))
      BY AnswersAreSeqs, ShortSeqs DEF ListOf
    <3>2. \A k \in DOMAIN items : ListOf(out, run, g, items[k]) = <<>>
      <4>1. GroupAnswer(out, run, g) = <<>>
        BY <2>1, AnswersDef
      <4> HIDE DEF out
      <4>. QED  BY <3>1, <4>1, NoChildren
    <3> HIDE DEF out
    <3>3. ASSUME NEW i \in DOMAIN Items[g]
          PROVE  parts[i] \in Seq(Tests \ Matching)
      <4>0. /\ Items[g][i] \in Tests \union Groups /\ Items[g][i] \in ToSet(Items[g])
            /\ Items[g] \in Seq(Tests \union Groups)
        BY ItemsTyped
      <4>1. CASE Items[g][i] \in Tests
        <5>1. CASE Items[g][i] \in Matching
          <6>1. PICK k \in DOMAIN items : items[k] = Items[g][i]
            BY <4>0, <5>1, SelectedKeeps
          <6>2. Items[g][i] \notin Groups
            BY <4>1, TreeAssumption
          <6>3. \A e : <<e>> # <<>>
            OBVIOUS
          <6>4. ListOf(out, run, g, Items[g][i]) # <<>>
            BY <6>2, <6>3 DEF ListOf
          <6>. QED  BY <3>2, <6>1, <6>4
        <5>2. CASE Items[g][i] \notin Matching
          <6>1. \A T : \A t \in T : <<t>> \in Seq(T)
            OBVIOUS
          <6>2. <<Items[g][i]>> \in Seq(Tests \ Matching)
            BY <4>1, <5>2, <6>1
          <6>. QED  BY <4>1, <6>2
        <5>. QED  BY <5>1, <5>2
      <4>2. CASE Items[g][i] \notin Tests
        <5> DEFINE c == Items[g][i]
        <5>1. c \in ToSet(Items[g]) \intersect Groups
          BY <4>0, <4>2
        <5>2. height[c] < height[g] /\ height[c] \in Nat /\ height[g] \in Nat
          BY <5>1 DEF Heights
        <5>3. height[c] < n
          BY <2>1, <5>2
        <5>4. PICK k \in DOMAIN items : items[k] = c
          BY <4>0, <5>1, SelectedKeeps
        <5>5. ListOf(out, run, g, c) = <<>>
          BY <3>2, <5>4
        <5>6. out[c] = <<>>
          BY <5>1, <5>5 DEF ListOf
        <5>7. Good(c)
          BY <1>3, <5>1, <5>3
        <5>. QED  BY <4>2, <5>6, <5>7
      <4>. QED  BY <4>1, <4>2
    <3>4. parts \in Seq(Seq(Tests \ Matching))
      <4>1. parts \in [1 .. Len(Items[g]) -> Seq(Tests \ Matching)]
        BY <3>3, ItemsTyped
      <4>2. Len(Items[g]) \in Nat
        BY ItemsTyped
      <4> HIDE DEF parts
      <4>. QED  BY <4>1, <4>2, SeqDef
    <3>5. AllTestcases[g] = FlattenSeq(parts)
      BY AllTestcasesDef DEF Below
    <3> HIDE DEF parts
    <3>. QED  BY <3>4, <3>5, FlattenTyped
  <2>. QED  BY <2>1
<1>4. bound \in S
  <2>1. \A n \in Nat : n \in S
    <3> HIDE DEF S
    <3>. QED  BY <1>2, <1>3, SetInduction
  <2> HIDE DEF S
  <2>. QED  BY <2>1
<1> HIDE DEF Good
<1>5. \A g \in Groups : Good(g)
  BY <1>1, <1>4
<1>. QED  BY <1>5 DEF Good

(* With a test case selected, the root answers something.                  *)
LEMMA SomethingToAnswer ==
  ASSUME NEW run, Selected(AllTestcases[Root]) # <<>>
  PROVE  Answer(run) # <<>>
<1>1. SUFFICES ASSUME Answer(run) = <<>>
               PROVE  FALSE
  OBVIOUS
<1>2. Root \in Groups
  BY TreeAssumption
<1>3. AllTestcases[Root] \in Seq(Tests \ Matching)
  BY <1>1, <1>2, AnswersDef, NothingToAnswer
<1> DEFINE nodes == AllTestcases[Root]
           S == ToSet(nodes) \intersect (Groups \union Matching)
<1>4. Selected(nodes) \in Seq(S)
  BY <1>3, SelectedItems
<1>5. S = {}
  <2>1. \A i \in DOMAIN nodes : nodes[i] \in Tests \ Matching
    BY <1>3
  <2>2. ToSet(nodes) \subseteq Tests \ Matching
    BY <2>1 DEF ToSet
  <2>. QED  BY <2>2, TreeAssumption
<1> HIDE DEF S, nodes
<1>6. Selected(nodes) = <<>>
  <2> DEFINE s == Selected(nodes)
  <2>1. s \in Seq({})
    BY <1>4, <1>5
  <2> HIDE DEF s
  <2>2. IsSeq(s) /\ DOMAIN s = 1 .. Len(s) /\ Len(s) \in Nat
    BY <2>1, SeqIsSeq
  <2>3. Len(s) = 0
    <3>1. CASE Len(s) # 0
      <4>1. 1 \in 1 .. Len(s)
        BY <2>2, <3>1
      <4>2. s[1] \in {}
        BY <2>1, <4>1, ElementOfSeq
      <4>. QED  BY <4>2
    <3>. QED  BY <3>1
  <2>. QED  BY <2>1, <2>3, EmptySeq DEF s
<1>. QED  BY <1>6 DEF nodes
===============================================================================
