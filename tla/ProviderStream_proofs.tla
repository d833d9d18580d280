------------------------- MODULE ProviderStream_proofs -------------------------
(***************************************************************************)
(* Theorems about ProviderStream, for every body a server may send, every  *)
(* way the network may cut it and every limit.                             *)
(*                                                                         *)
(* The body is read twice: by the program, unit by unit and fragment by    *)
(* fragment, and by the reference (Meaning), all at once.  The proof walks *)
(* the program's way: a delta more (Words, Stops, Args, CallsMeant), a     *)
(* line more (Said, TwoInOne, Big), a unit more (TakeByteStep), a chunk    *)
(* more (PushIs, ConvertIs), an event more (EmitStep).  At each of them    *)
(* what the program keeps is what the reference makes of the beginning     *)
(* that has been taken in.  Loops and FlattenSeq are recursive functions   *)
(* on intervals: the first part proves that they exist and what a step of  *)
(* them does, by well-founded induction.                                   *)
(***************************************************************************)
EXTENDS ProviderStream, SequenceTheorems, WellFoundedInduction, TLAPS

-----------------------------------------------------------------------------
(* loops: functions defined by recursion on how far they have come *)

\* A set of numbers that has a member has a least one.
LEMMA Least ==
  ASSUME NEW T, T \subseteq Nat, T # {}
  PROVE  \E x \in T : \A y \in T : x <= y
<1>1. \E x \in T : \A y \in T : ~(<<y, x>> \in OpToRel(<, Nat))
  BY NatLessThanWellFounded, WFMin
<1>2. PICK x \in T : \A y \in T : ~(<<y, x>> \in OpToRel(<, Nat))
  BY <1>1
<1>3. \A y \in T : ~(y < x)
  BY <1>2 DEF OpToRel
<1>4. QED
  BY <1>3

\* What a set has at m and keeps from one number to the next it has up to n.
LEMMA UpTo ==
  ASSUME NEW m \in Nat, NEW n \in Nat, m <= n, NEW T, m \in T,
         \A i \in m .. n - 1 : i \in T => i + 1 \in T
  PROVE  \A i \in m .. n : i \in T
<1> DEFINE Bad == {i \in m .. n : i \notin T}
<1>1. SUFFICES ASSUME Bad # {}
               PROVE  FALSE
  OBVIOUS
<1>2. Bad \subseteq Nat
  OBVIOUS
<1>3. PICK x \in Bad : \A y \in Bad : x <= y
  <2> HIDE DEF Bad
  <2>1. QED
    BY <1>1, <1>2, Least
<1>4. x \in Nat /\ m < x /\ x <= n /\ x \notin T
  BY <1>3
<1>5. x - 1 \in m .. n - 1 /\ (x - 1) + 1 = x /\ ~(x <= x - 1)
  BY <1>4
<1>6. x - 1 \in T
  BY <1>3, <1>5
<1>7. QED
  BY <1>4, <1>5, <1>6

\* f is the loop over m .. n that starts with base and goes on by step.
Loops(m, n, base, step, f) ==
  \A i \in m .. n : f[i] = IF i = m THEN base ELSE step[<<f[i - 1], i>>]

\* The results of a loop exist.
LEMMA LoopExists ==
  ASSUME NEW S, NEW m \in Nat, NEW n \in Nat, m <= n, NEW base \in S,
         NEW step \in [S \X (m .. n) -> S]
  PROVE  \E f \in [m .. n -> S] : Loops(m, n, base, step, f)
<1> DEFINE Value(g, i) == IF i = m THEN base ELSE step[<<g[i - 1], i>>]
           Good(k, g) == g \in [m .. k -> S] /\ \A i \in m .. k : g[i] = Value(g, i)
           T == {k \in m .. n : \E g : Good(k, g)}
<1>1. m \in T
  <2> DEFINE g == [i \in m .. m |-> base]
  <2>1. g \in [m .. m -> S] /\ \A i \in m .. m : i = m /\ g[i] = base
    OBVIOUS
  <2> HIDE DEF g
  <2>2. Good(m, g) /\ m \in m .. n
    BY <2>1
  <2>3. QED
    BY <2>2
<1>2. ASSUME NEW k \in m .. n - 1, k \in T
      PROVE  k + 1 \in T
  <2>0. k \in Nat /\ k + 1 \in m .. n /\ k \in m .. k
    OBVIOUS
  <2>1. PICK g : Good(k, g)
    BY <1>2
  <2> DEFINE h == [i \in m .. k + 1 |-> IF i <= k THEN g[i] ELSE Value(g, k + 1)]
  <2>2. Value(g, k + 1) \in S
    <3>1. g[k] \in S /\ (k + 1) - 1 = k /\ k + 1 # m
      BY <2>0, <2>1
    <3>2. <<g[k], k + 1>> \in S \X (m .. n)
      BY <2>0, <3>1
    <3>3. step[<<g[k], k + 1>>] \in S
      BY <3>2
    <3>4. QED
      BY <3>1, <3>3
  <2>3. h \in [m .. k + 1 -> S]
    <3> HIDE DEF Value
    <3>1. QED
      BY <2>0, <2>1, <2>2 DEF Good
  <2>4. (\A i \in m .. k : h[i] = g[i]) /\ h[k + 1] = Value(g, k + 1)
    <3> HIDE DEF Value
    <3>1. QED
      BY <2>0
  <2> HIDE DEF h
  <2>5. ASSUME NEW i \in m .. k + 1
        PROVE  h[i] = Value(h, i)
    <3>1. i # m => i - 1 \in m .. k
      BY <2>0
    <3>2. Value(h, i) = Value(g, i)
      BY <2>4, <3>1
    <3>3. CASE i = k + 1
      BY <2>4, <3>2, <3>3
    <3>4. CASE i \in m .. k
      BY <2>1, <2>4, <3>2, <3>4
    <3>5. QED
      BY <2>0, <3>3, <3>4
  <2>6. Good(k + 1, h)
    <3> HIDE DEF Value
    <3>1. QED
      BY <2>3, <2>5 DEF Good
  <2>7. QED
    BY <2>0, <2>6
<1>3. n \in T
  <2> HIDE DEF T
  <2>1. \A i \in m .. n : i \in T
    BY <1>1, <1>2, UpTo
  <2>2. QED
    BY <2>1
<1>4. PICK f : Good(n, f)
  BY <1>3
<1>5. QED
  BY <1>4 DEF Loops

-----------------------------------------------------------------------------
(* sequences *)

\* The beginnings of a sequence.
LEMMA Beginning ==
  ASSUME NEW S, NEW s \in Seq(S), NEW n \in 0 .. Len(s)
  PROVE  /\ SubSeq(s, 1, n) \in Seq(S) /\ Len(SubSeq(s, 1, n)) = n
         /\ DOMAIN SubSeq(s, 1, n) = 1 .. n
         /\ \A i \in 1 .. n : SubSeq(s, 1, n)[i] = s[i]
         /\ n = Len(s) => SubSeq(s, 1, n) = s
         /\ n = 0 => SubSeq(s, 1, n) = <<>>
<1>1. Len(s) \in Nat /\ n \in Nat /\ \A i \in 1 .. n : s[i] \in S
  BY LenProperties
<1>2. /\ SubSeq(s, 1, n) \in Seq(S)
      /\ Len(SubSeq(s, 1, n)) = IF 1 <= n THEN n - 1 + 1 ELSE 0
      /\ \A i \in 1 .. n - 1 + 1 : SubSeq(s, 1, n)[i] = s[1 + i - 1]
  BY <1>1, SubSeqProperties
<1>3. Len(SubSeq(s, 1, n)) = n
  BY <1>1, <1>2
<1>4. DOMAIN SubSeq(s, 1, n) = 1 .. n
  BY <1>2, <1>3, LenProperties
<1>5. n = Len(s) => SubSeq(s, 1, n) = s
  BY SubSeqFull
<1>6. n = 0 => SubSeq(s, 1, n) = <<>>
  BY SubSeqEmpty
<1>7. QED
  BY <1>1, <1>2, <1>3, <1>4, <1>5, <1>6

\* A beginning grows by the next element.
LEMMA BeginningMore ==
  ASSUME NEW S, NEW s \in Seq(S), NEW n \in 0 .. Len(s) - 1
  PROVE  SubSeq(s, 1, n + 1) = Append(SubSeq(s, 1, n), s[n + 1])
<1>1. Len(s) \in Nat /\ n \in 0 .. Len(s) /\ n + 1 \in 0 .. Len(s) /\ n + 1 \in 1 .. Len(s) /\ n \in Nat
  BY LenProperties
<1>2. s[n + 1] \in S
  BY <1>1, ElementOfSeq
<1> DEFINE a == SubSeq(s, 1, n + 1)
           b == SubSeq(s, 1, n)
<1>3. a \in Seq(S) /\ Len(a) = n + 1 /\ \A i \in 1 .. n + 1 : a[i] = s[i]
  BY <1>1, Beginning
<1>4. b \in Seq(S) /\ Len(b) = n /\ \A i \in 1 .. n : b[i] = s[i]
  BY <1>1, Beginning
<1> HIDE DEF a, b
<1> DEFINE c == Append(b, s[n + 1])
<1>5. /\ c \in Seq(S) /\ Len(c) = n + 1 /\ \A i \in 1 .. n : c[i] = b[i]
      /\ c[n + 1] = s[n + 1]
  BY <1>2, <1>4, AppendProperties
<1> HIDE DEF c
<1>6. \A i \in 1 .. n + 1 : a[i] = c[i]
  BY <1>1, <1>3, <1>4, <1>5
<1>7. a = c
  BY <1>3, <1>5, <1>6, SeqEqual
<1>8. QED
  BY <1>7 DEF a, b, c

-----------------------------------------------------------------------------
(* FlattenSeq *)

\* FlattenSeq is a loop that joins one sequence after the other.
Flat(s, f, i) == IF i = 1 THEN s[i] ELSE f[i - 1] \o s[i]
Flattens(s, n, f) == f = [i \in 1 .. n |-> Flat(s, f, i)]

\* The loop of FlattenSeq is defined for sequences of sequences.
LEMMA FlattenExists ==
  ASSUME NEW S, NEW n \in Nat \ {0}, NEW s \in [1 .. n -> Seq(S)]
  PROVE  \E f \in [1 .. n -> Seq(S)] : Flattens(s, n, f)
<1> DEFINE step == [p \in Seq(S) \X (1 .. n) |-> p[1] \o s[p[2]]]
<1>1. ASSUME NEW t \in Seq(S), NEW i \in 1 .. n
      PROVE  step[<<t, i>>] = t \o s[i] /\ t \o s[i] \in Seq(S)
  <2>1. s[i] \in Seq(S)
    OBVIOUS
  <2>2. t \o s[i] \in Seq(S)
    BY <2>1, ConcatProperties
  <2>3. QED
    BY <2>2
<1>2. step \in [Seq(S) \X (1 .. n) -> Seq(S)]
  <2>1. ASSUME NEW p \in Seq(S) \X (1 .. n)
        PROVE  step[p] \in Seq(S)
    <3>1. p = <<p[1], p[2]>> /\ p[1] \in Seq(S) /\ p[2] \in 1 .. n
      OBVIOUS
    <3>2. step[<<p[1], p[2]>>] \in Seq(S)
      BY <1>1, <3>1
    <3>3. QED
      BY <3>1, <3>2
  <2>2. QED
    BY <2>1
<1>3. s[1] \in Seq(S)
  OBVIOUS
<1> DEFINE R == Seq(S)
           base == s[1]
<1> HIDE DEF step, R, base
<1>4. PICK f \in [1 .. n -> R] :
        Loops(1, n, base, step, f)
  <2>1. base \in R /\ step \in [R \X (1 .. n) -> R] /\ 1 \in Nat /\ n \in Nat /\ 1 <= n
    BY <1>2, <1>3 DEF R, base
  <2>2. QED
    BY <2>1, LoopExists
<1> USE DEF R, base
<1>5. ASSUME NEW i \in 1 .. n
      PROVE  f[i] = Flat(s, f, i)
  <2>1. CASE i = 1
    BY <1>4, <2>1 DEF Flat, Loops
  <2>2. CASE i # 1
    <3>1. i - 1 \in 1 .. n
      BY <2>2
    <3>2. f[i - 1] \in Seq(S)
      BY <3>1
    <3>3. f[i] = step[<<f[i - 1], i>>]
      BY <1>4, <2>2 DEF Loops
    <3>4. QED
      BY <1>1, <2>2, <3>2, <3>3 DEF Flat
  <2>3. QED
    BY <2>1, <2>2
<1>6. f = [i \in 1 .. n |-> f[i]]
  OBVIOUS
<1>7. Flattens(s, n, f)
  BY <1>5, <1>6 DEF Flattens
<1>8. QED
  BY <1>7

\* What the loop computes, without the loop.
Chained(s, n, f) == f[1] = s[1] /\ \A i \in 2 .. n : f[i] = f[i - 1] \o s[i]

\* The loop joins the sequences in order.
LEMMA FlattenSteps ==
  ASSUME NEW n \in Nat \ {0}, NEW s, NEW f, Flattens(s, n, f)
  PROVE  Chained(s, n, f)
<1>1. \A i \in 1 .. n : f[i] = Flat(s, f, i)
  BY DEF Flattens
<1>2. 1 \in 1 .. n /\ \A i \in 2 .. n : i \in 1 .. n /\ i # 1
  OBVIOUS
<1>3. QED
  BY <1>1, <1>2 DEF Flat, Chained

\* FlattenSeq is the last value of its loop.
LEMMA FlattenIs ==
  ASSUME NEW S, NEW n \in Nat \ {0}, NEW s \in [1 .. n -> Seq(S)]
  PROVE  \E f \in [1 .. n -> Seq(S)] : Flattens(s, n, f) /\ FlattenSeq(s) = f[n]
<1>1. s \in Seq(Seq(S)) /\ Len(s) = n
  OBVIOUS
<1> DEFINE f == CHOOSE g : Flattens(s, n, g)
<1>2. FlattenSeq(s) = f[n]
  BY <1>1 DEF FlattenSeq, Flattens, Flat
<1>3. PICK g \in [1 .. n -> Seq(S)] : Flattens(s, n, g)
  BY FlattenExists
<1>4. Flattens(s, n, f)
  BY <1>3
<1> HIDE DEF f
<1>5. f[1] = s[1] /\ \A i \in 2 .. n : f[i] = f[i - 1] \o s[i]
  <2>1. Chained(s, n, f)
    BY <1>4, FlattenSteps
  <2>2. QED
    BY <2>1 DEF Chained
<1> DEFINE T == {i \in 1 .. n : f[i] \in Seq(S)}
<1>6. 1 \in T
  BY <1>5
<1>7. \A i \in 1 .. n - 1 : i \in T => i + 1 \in T
  <2>1. SUFFICES ASSUME NEW i \in 1 .. n - 1, f[i] \in Seq(S)
                 PROVE  f[i + 1] \in Seq(S)
    OBVIOUS
  <2>2. i + 1 \in 2 .. n /\ (i + 1) - 1 = i /\ s[i + 1] \in Seq(S)
    OBVIOUS
  <2>3. f[i + 1] = f[i] \o s[i + 1]
    BY <1>5, <2>2
  <2>4. QED
    BY <2>1, <2>2, <2>3, ConcatProperties
<1>8. \A i \in 1 .. n : i \in T
  <2> HIDE DEF T
  <2>1. 1 \in Nat /\ n \in Nat /\ 1 <= n
    OBVIOUS
  <2>2. QED
    BY <1>6, <1>7, <2>1, UpTo
<1>9. f \in [1 .. n -> Seq(S)]
  <2>1. f = [i \in 1 .. n |-> Flat(s, f, i)]
    BY <1>4 DEF Flattens
  <2>2. QED
    BY <1>8, <2>1
<1>10. QED
  BY <1>2, <1>4, <1>9

\* One more sequence at the end.
LEMMA FlattenMore ==
  ASSUME NEW S, NEW n \in Nat, NEW s \in [1 .. n -> Seq(S)], NEW t \in [1 .. n + 1 -> Seq(S)],
         \A i \in 1 .. n : t[i] = s[i]
  PROVE  /\ FlattenSeq(s) \in Seq(S) /\ FlattenSeq(t) \in Seq(S)
         /\ FlattenSeq(t) = FlattenSeq(s) \o t[n + 1]
<1>0. t[n + 1] \in Seq(S) /\ n + 1 \in Nat \ {0}
  OBVIOUS
<1>1. PICK g \in [1 .. n + 1 -> Seq(S)] : Flattens(t, n + 1, g) /\ FlattenSeq(t) = g[n + 1]
  BY <1>0, FlattenIs
<1>2. g[1] = t[1] /\ \A i \in 2 .. n + 1 : g[i] = g[i - 1] \o t[i]
  <2>1. Chained(t, n + 1, g)
    BY <1>0, <1>1, FlattenSteps
  <2>2. QED
    BY <2>1 DEF Chained
<1>3. CASE n = 0
  <2>1. s = <<>> /\ Len(s) = 0
    BY <1>3
  <2>2. FlattenSeq(s) = <<>>
    BY <2>1 DEF FlattenSeq
  <2>3. FlattenSeq(t) = t[n + 1]
    BY <1>1, <1>2, <1>3
  <2>4. <<>> \o t[n + 1] = t[n + 1] /\ <<>> \in Seq(S)
    BY <1>0, ConcatEmptySeq
  <2>5. QED
    BY <1>0, <2>2, <2>3, <2>4
<1>4. CASE n # 0
  <2>0. n \in Nat \ {0}
    BY <1>4
  <2>1. PICK f \in [1 .. n -> Seq(S)] : Flattens(s, n, f) /\ FlattenSeq(s) = f[n]
    BY <2>0, FlattenIs
  <2>2. f[1] = s[1] /\ \A i \in 2 .. n : f[i] = f[i - 1] \o s[i]
    <3>1. Chained(s, n, f)
      BY <2>0, <2>1, FlattenSteps
    <3>2. QED
      BY <3>1 DEF Chained
  <2> DEFINE T == {i \in 1 .. n : f[i] = g[i]}
  <2>3. 1 \in T
    BY <1>2, <2>0, <2>2
  <2>4. \A i \in 1 .. n - 1 : i \in T => i + 1 \in T
    <3>1. SUFFICES ASSUME NEW i \in 1 .. n - 1, f[i] = g[i]
                   PROVE  f[i + 1] = g[i + 1]
      <4>1. \A i \in 1 .. n - 1 : i \in 1 .. n /\ i + 1 \in 1 .. n
        BY <2>0
      <4>2. QED
        BY <4>1
    <3>2. i + 1 \in 2 .. n /\ i + 1 \in 2 .. n + 1 /\ (i + 1) - 1 = i /\ i + 1 \in 1 .. n
      OBVIOUS
    <3>3. f[i + 1] = f[i] \o s[i + 1] /\ g[i + 1] = g[i] \o t[i + 1] /\ s[i + 1] = t[i + 1]
      BY <1>2, <2>2, <3>2
    <3>4. QED
      BY <3>1, <3>3
  <2>5. \A i \in 1 .. n : i \in T
    <3> HIDE DEF T
    <3>1. 1 \in Nat /\ n \in Nat /\ 1 <= n
      BY <2>0
    <3>2. QED
      BY <2>3, <2>4, <3>1, UpTo
  <2>6. f[n] = g[n] /\ g[n + 1] = g[n] \o t[n + 1] /\ f[n] \in Seq(S) /\ g[n + 1] \in Seq(S)
    <3>1. n \in 1 .. n /\ n + 1 \in 2 .. n + 1 /\ (n + 1) - 1 = n /\ n + 1 \in 1 .. n + 1
      BY <2>0
    <3>2. QED
      BY <1>1, <1>2, <2>1, <2>5, <3>1
  <2>7. QED
    BY <1>1, <2>1, <2>6
<1>5. QED
  BY <1>3, <1>4

\* Nothing to join gives nothing.
LEMMA FlattenNothing == FlattenSeq(<<>>) = <<>>
  BY DEF FlattenSeq

-----------------------------------------------------------------------------
(* the deltas of a body, and one more of them *)

\* What each kind of delta carries.
LEMMA DeltaFields ==
  ASSUME NEW e \in Deltas
  PROVE  /\ e.type \in {"usage", "text", "finish", "call"}
         /\ e.type = "usage" => e = Usage
         /\ e.type = "text" => e.text \in STRING
         /\ e.type = "finish" => e.reason \in STRING
         /\ e.type = "call" => /\ e.index \in Nat /\ e.id \in STRING /\ e.name \in STRING
                               /\ e.args \in Seq(STRING)
  BY DEF Deltas, Usage

\* The last of some numbers.
LEMMA LastIs ==
  ASSUME NEW n \in Nat, NEW T, T \subseteq 1 .. n, T # {}
  PROVE  /\ (CHOOSE j \in T : \A i \in T : i <= j) \in T
         /\ \A i \in T : i <= (CHOOSE j \in T : \A i2 \in T : i2 <= j)
<1> DEFINE U == {n - i : i \in T}
<1>1. U \subseteq Nat /\ U # {}
  <2>1. \A i \in T : n - i \in Nat
    OBVIOUS
  <2>2. QED
    BY <2>1
<1>2. PICK x \in U : \A y \in U : x <= y
  <2> HIDE DEF U
  <2>1. QED
    BY <1>1, Least
<1>3. PICK j \in T : x = n - j
  BY <1>2
<1>4. \A i \in T : i <= j
  <2> SUFFICES ASSUME NEW i \in T
               PROVE  i <= j
    OBVIOUS
  <2>1. n - j <= n - i /\ i \in Nat /\ j \in Nat
    BY <1>2, <1>3
  <2>2. QED
    BY <2>1
<1>5. QED
  BY <1>4

\* The elements of a sequence of deltas and of one with a delta more.
LEMMA MoreDelta ==
  ASSUME NEW ds \in Seq(Deltas), NEW e \in Deltas
  PROVE  /\ Append(ds, e) \in Seq(Deltas) /\ Len(Append(ds, e)) = Len(ds) + 1 /\ Len(ds) \in Nat
         /\ DOMAIN ds = 1 .. Len(ds) /\ DOMAIN Append(ds, e) = 1 .. Len(ds) + 1
         /\ \A k \in 1 .. Len(ds) : Append(ds, e)[k] = ds[k] /\ ds[k] \in Deltas
         /\ Append(ds, e)[Len(ds) + 1] = e
<1>1. /\ Append(ds, e) \in Seq(Deltas) /\ Len(Append(ds, e)) = Len(ds) + 1
      /\ \A k \in 1 .. Len(ds) : Append(ds, e)[k] = ds[k]
      /\ Append(ds, e)[Len(ds) + 1] = e
  BY AppendProperties
<1>2. Len(ds) \in Nat /\ DOMAIN ds = 1 .. Len(ds) /\ DOMAIN Append(ds, e) = 1 .. Len(Append(ds, e))
  BY <1>1, LenProperties
<1>3. \A k \in 1 .. Len(ds) : ds[k] \in Deltas
  BY ElementOfSeq
<1>4. QED
  BY <1>1, <1>2, <1>3

\* t begins with s.
Begins(s, t) ==
  /\ s \in Seq(Deltas) /\ t \in Seq(Deltas)
  /\ Len(s) <= Len(t) /\ \A k \in 1 .. Len(s) : t[k] = s[k]

\* What comes later changes the id of no fragment.
LEMMA IdStays ==
  ASSUME NEW s, NEW t, Begins(s, t), NEW k \in 1 .. Len(s)
  PROVE  Given(t, k) = Given(s, k) /\ IdAt(t, k) = IdAt(s, k)
<1>1. /\ Len(s) \in Nat /\ Len(t) \in Nat /\ Len(s) <= Len(t)
      /\ DOMAIN s = 1 .. Len(s) /\ DOMAIN t = 1 .. Len(t) /\ \A j \in 1 .. Len(s) : t[j] = s[j]
  BY LenProperties DEF Begins
<1>2. ASSUME NEW j
      PROVE  j \in Given(t, k) <=> j \in Given(s, k)
  BY <1>1 DEF Given, Fragments
<1>3. Given(t, k) = Given(s, k)
  BY <1>2
<1>4. \A j \in Given(s, k) : j \in 1 .. Len(s)
  BY <1>1 DEF Given, Fragments
<1>5. CASE Given(s, k) = {}
  BY <1>1, <1>3, <1>5 DEF IdAt
<1>6. CASE Given(s, k) # {}
  <2> DEFINE T == Given(s, k)
             last == CHOOSE j \in T : \A i \in T : i <= j
  <2>1. T \subseteq 1 .. Len(s)
    BY <1>4
  <2> HIDE DEF T
  <2>2. last \in T
    BY <1>1, <1>6, <2>1, LastIs DEF T
  <2>3. t[last] = s[last]
    BY <1>1, <2>1, <2>2
  <2>4. IdAt(t, k) = t[last].id /\ IdAt(s, k) = s[last].id
    BY <1>3, <1>6 DEF IdAt, T
  <2>5. QED
    BY <1>3, <2>3, <2>4
<1>7. QED
  BY <1>3, <1>5, <1>6

\* A sequence begins what is appended to it.
LEMMA AppendBegins ==
  ASSUME NEW ds \in Seq(Deltas), NEW e \in Deltas
  PROVE  Begins(ds, Append(ds, e))
  BY MoreDelta DEF Begins

\* The id the new delta gets, if it is a fragment.
NewId(ds, e) == IdAt(Append(ds, e), Len(ds) + 1)
\* Appended to ds, e is a fragment of the call id.
Adds(ds, e, id) == e.type = "call" /\ NewId(ds, e) = id

\* A fragment more belongs to one call and to no other.
LEMMA OfMore ==
  ASSUME NEW ds \in Seq(Deltas), NEW e \in Deltas, NEW id
  PROVE  /\ Of(Append(ds, e), id)
              = Of(ds, id) \union (IF Adds(ds, e, id) THEN {Len(ds) + 1} ELSE {})
         /\ Of(ds, id) \subseteq 1 .. Len(ds)
         /\ Fragments(Append(ds, e))
              = Fragments(ds) \union (IF e.type = "call" THEN {Len(ds) + 1} ELSE {})
         /\ Fragments(ds) \subseteq 1 .. Len(ds)
<1> DEFINE m == Append(ds, e)
           n == Len(ds)
<1>1. /\ n \in Nat /\ DOMAIN ds = 1 .. n /\ DOMAIN m = 1 .. n + 1
      /\ \A k \in 1 .. n : m[k] = ds[k]
      /\ m[n + 1] = e
  BY MoreDelta
<1>2. \A k \in 1 .. n : IdAt(m, k) = IdAt(ds, k)
  BY AppendBegins, IdStays
<1>3. NewId(ds, e) = IdAt(m, n + 1)
  BY DEF NewId
<1> HIDE DEF m, n
<1>4. ASSUME NEW k
      PROVE  k \in Fragments(m) <=> k \in Fragments(ds) \/ (e.type = "call" /\ k = n + 1)
  BY <1>1 DEF Fragments
<1>5. Fragments(ds) \subseteq 1 .. n /\ n + 1 \notin 1 .. n
  BY <1>1 DEF Fragments
<1>6. ASSUME NEW k
      PROVE  k \in Of(m, id) <=> k \in Of(ds, id) \/ (Adds(ds, e, id) /\ k = n + 1)
  BY <1>2, <1>3, <1>4, <1>5 DEF Of, Adds
<1>7. Of(ds, id) \subseteq 1 .. n
  BY <1>5 DEF Of
<1>8. Of(m, id) = Of(ds, id) \union (IF Adds(ds, e, id) THEN {n + 1} ELSE {})
  BY <1>6
<1>9. Fragments(m) = Fragments(ds) \union (IF e.type = "call" THEN {n + 1} ELSE {})
  BY <1>4
<1>10. QED
  BY <1>5, <1>7, <1>8, <1>9 DEF m, n

\* A fragment more adds its name to its call, if it has one.
LEMMA NamesMore ==
  ASSUME NEW ds \in Seq(Deltas), NEW e \in Deltas, NEW id
  PROVE  Names(Append(ds, e), id)
           = Names(ds, id) \union (IF Adds(ds, e, id) THEN {e.name} \ {None} ELSE {})
<1> DEFINE m == Append(ds, e)
           n == Len(ds)
<1>1. /\ \A k \in 1 .. n : m[k] = ds[k]
      /\ m[n + 1] = e /\ n \in Nat
  BY MoreDelta
<1>2. Of(m, id) = Of(ds, id) \union (IF Adds(ds, e, id) THEN {n + 1} ELSE {}) /\ Of(ds, id) \subseteq 1 .. n
  BY OfMore
<1> HIDE DEF m, n
<1>3. Names(m, id) = Names(ds, id) \union (IF Adds(ds, e, id) THEN {e.name} \ {None} ELSE {})
  <2>1. ASSUME NEW x
        PROVE  x \in Names(m, id)
                 <=> x \in Names(ds, id) \/ (Adds(ds, e, id) /\ x = e.name /\ x # None)
    BY <1>1, <1>2 DEF Names
  <2>2. QED
    BY <2>1
<1>4. QED
  BY <1>3 DEF m, n

\* A fragment more adds its arguments to the end of those of its call.
LEMMA ArgsMore ==
  ASSUME NEW ds \in Seq(Deltas), NEW e \in Deltas, NEW id
  PROVE  /\ Args(ds, id) \in Seq(STRING) /\ Args(Append(ds, e), id) \in Seq(STRING)
         /\ Args(Append(ds, e), id) = IF Adds(ds, e, id) THEN Args(ds, id) \o e.args ELSE Args(ds, id)
<1> DEFINE m == Append(ds, e)
           n == Len(ds)
           f == [k \in DOMAIN ds |-> IF k \in Of(ds, id) THEN ds[k].args ELSE <<>>]
           g == [k \in DOMAIN m |-> IF k \in Of(m, id) THEN m[k].args ELSE <<>>]
<1>1. /\ n \in Nat /\ DOMAIN ds = 1 .. n /\ DOMAIN m = 1 .. n + 1
      /\ \A k \in 1 .. n : m[k] = ds[k] /\ ds[k] \in Deltas
      /\ m[n + 1] = e
  BY MoreDelta
<1>2. Of(m, id) = Of(ds, id) \union (IF Adds(ds, e, id) THEN {n + 1} ELSE {}) /\ Of(ds, id) \subseteq 1 .. n
  BY OfMore
<1>3. Args(ds, id) = FlattenSeq(f) /\ Args(m, id) = FlattenSeq(g)
  BY DEF Args
<1> HIDE DEF m, n
<1>4. \A k \in Of(m, id) : m[k].args \in Seq(STRING)
  <2>1. ASSUME NEW k \in Of(m, id)
        PROVE  m[k] \in Deltas /\ m[k].type = "call"
    BY <1>1, <1>2 DEF Of, Fragments
  <2>2. QED
    BY <2>1, DeltaFields
<1>5. <<>> \in Seq(STRING)
  OBVIOUS
<1>6. g \in [1 .. n + 1 -> Seq(STRING)]
  BY <1>1, <1>4, <1>5
<1>7. f \in [1 .. n -> Seq(STRING)] /\ \A k \in 1 .. n : g[k] = f[k]
  <2>1. \A k \in 1 .. n : f[k] = g[k]
    BY <1>1, <1>2
  <2>2. \A k \in 1 .. n : g[k] \in Seq(STRING)
    BY <1>1, <1>6
  <2>3. f = [k \in 1 .. n |-> f[k]]
    BY <1>1
  <2> HIDE DEF f, g
  <2>4. QED
    BY <2>1, <2>2, <2>3
<1>8. g[n + 1] = IF Adds(ds, e, id) THEN e.args ELSE <<>>
  BY <1>1, <1>2
<1> HIDE DEF f, g
<1>9. FlattenSeq(g) = FlattenSeq(f) \o g[n + 1] /\ FlattenSeq(f) \in Seq(STRING) /\ FlattenSeq(g) \in Seq(STRING)
  BY <1>1, <1>6, <1>7, FlattenMore
<1>10. FlattenSeq(f) \o <<>> = FlattenSeq(f)
  BY <1>9, ConcatEmptySeq
<1>11. QED
  BY <1>3, <1>8, <1>9, <1>10 DEF m

\* Two maps into sequences that agree, as functions FlattenSeq can join.
LEMMA Mapped ==
  ASSUME NEW S, NEW n \in Nat, NEW f, f = [k \in 1 .. n |-> f[k]], \A k \in 1 .. n : f[k] \in Seq(S),
         NEW g, g = [k \in 1 .. n + 1 |-> g[k]], \A k \in 1 .. n : g[k] = f[k],
         g[n + 1] \in Seq(S)
  PROVE  f \in [1 .. n -> Seq(S)] /\ g \in [1 .. n + 1 -> Seq(S)]
<1>1. f \in [1 .. n -> Seq(S)]
  OBVIOUS
<1>2. \A k \in 1 .. n + 1 : g[k] \in Seq(S)
  <2>1. \A k \in 1 .. n + 1 : k \in 1 .. n \/ k = n + 1
    OBVIOUS
  <2>2. QED
    BY <2>1
<1>3. QED
  BY <1>1, <1>2

\* A delta more opens a call if it is the first fragment with that id.
LEMMA OpensMore ==
  ASSUME NEW ds \in Seq(Deltas), NEW e \in Deltas
  PROVE  /\ \A k \in 1 .. Len(ds) : Opens(Append(ds, e), k) <=> Opens(ds, k)
         /\ Opens(Append(ds, e), Len(ds) + 1) <=> e.type = "call" /\ Of(ds, NewId(ds, e)) = {}
<1> DEFINE m == Append(ds, e)
           n == Len(ds)
<1>1. n \in Nat /\ DOMAIN m = 1 .. n + 1 /\ DOMAIN ds = 1 .. n
  BY MoreDelta
<1>2. \A k \in 1 .. n : IdAt(m, k) = IdAt(ds, k)
  BY AppendBegins, IdStays
<1>3. \A id : /\ Of(m, id) = Of(ds, id) \union (IF Adds(ds, e, id) THEN {n + 1} ELSE {})
              /\ Of(ds, id) \subseteq 1 .. n
  BY OfMore
<1>4. /\ Fragments(m) = Fragments(ds) \union (IF e.type = "call" THEN {n + 1} ELSE {})
      /\ Fragments(ds) \subseteq 1 .. n
  BY OfMore
<1>5. NewId(ds, e) = IdAt(m, n + 1)
  BY DEF NewId
<1> HIDE DEF m, n
<1>6. ASSUME NEW k \in 1 .. n
      PROVE  Opens(m, k) <=> Opens(ds, k)
  <2>1. k \in Fragments(m) <=> k \in Fragments(ds)
    BY <1>1, <1>4
  <2>2. \A j \in Of(m, IdAt(m, k)) : j \in Of(ds, IdAt(ds, k)) \/ j = n + 1
    BY <1>2, <1>3
  <2>3. \A j \in Of(ds, IdAt(ds, k)) : j \in Of(m, IdAt(m, k))
    BY <1>2, <1>3
  <2>4. QED
    BY <1>1, <2>1, <2>2, <2>3 DEF Opens
<1>7. Opens(m, n + 1) <=> e.type = "call" /\ Of(ds, NewId(ds, e)) = {}
  <2>1. n + 1 \in Fragments(m) <=> e.type = "call"
    BY <1>1, <1>4
  <2>2. ASSUME e.type = "call", Of(ds, NewId(ds, e)) = {}
        PROVE  Opens(m, n + 1)
    <3>1. Of(m, IdAt(m, n + 1)) \subseteq {n + 1}
      BY <1>3, <1>5, <2>2
    <3>2. QED
      BY <1>1, <2>1, <2>2, <3>1 DEF Opens
  <2>3. ASSUME Opens(m, n + 1), NEW j \in Of(ds, NewId(ds, e))
        PROVE  FALSE
    <3>1. j \in 1 .. n /\ j \in Of(m, IdAt(m, n + 1))
      BY <1>3, <1>5, <2>3
    <3>2. n + 1 <= j
      BY <2>3, <3>1 DEF Opens
    <3>3. QED
      BY <1>1, <3>1, <3>2
  <2>4. Opens(m, n + 1) => e.type = "call"
    BY <2>1 DEF Opens
  <2>5. QED
    BY <2>2, <2>3, <2>4
<1>8. QED
  BY <1>6, <1>7 DEF m, n

\* Ids, words and reasons, one delta later.
LEMMA IdsMore ==
  ASSUME NEW ds \in Seq(Deltas), NEW e \in Deltas
  PROVE  Ids(Append(ds, e))
           = IF e.type = "call" /\ Of(ds, NewId(ds, e)) = {}
             THEN Append(Ids(ds), NewId(ds, e)) ELSE Ids(ds)
<1> DEFINE m == Append(ds, e)
           n == Len(ds)
           S == {IdAt(m, k) : k \in 1 .. n + 1}
           f == [k \in DOMAIN ds |-> IF Opens(ds, k) THEN <<IdAt(ds, k)>> ELSE <<>>]
           g == [k \in DOMAIN m |-> IF Opens(m, k) THEN <<IdAt(m, k)>> ELSE <<>>]
<1>1. n \in Nat /\ DOMAIN ds = 1 .. n /\ DOMAIN m = 1 .. n + 1
  BY MoreDelta
<1>2. \A k \in 1 .. n : IdAt(m, k) = IdAt(ds, k)
  BY AppendBegins, IdStays
<1>3. /\ \A k \in 1 .. n : Opens(m, k) <=> Opens(ds, k)
      /\ Opens(m, n + 1) <=> e.type = "call" /\ Of(ds, NewId(ds, e)) = {}
  BY OpensMore
<1>4. Ids(ds) = FlattenSeq(f) /\ Ids(m) = FlattenSeq(g)
  BY DEF Ids
<1>5. NewId(ds, e) = IdAt(m, n + 1)
  BY DEF NewId
<1>6. \A k \in 1 .. n : g[k] = f[k]
  BY <1>1, <1>2, <1>3
<1>7. \A k \in 1 .. n + 1 : g[k] \in Seq(S)
  <2>1. ASSUME NEW k \in 1 .. n + 1
        PROVE  <<IdAt(m, k)>> \in Seq(S) /\ <<>> \in Seq(S)
    <3> HIDE DEF m, n
    <3>1. QED
      OBVIOUS
  <2>2. QED
    BY <1>1, <2>1
<1>8. g[n + 1] = IF Opens(m, n + 1) THEN <<NewId(ds, e)>> ELSE <<>>
  BY <1>1, <1>5
<1>9. f = [k \in 1 .. n |-> f[k]] /\ g = [k \in 1 .. n + 1 |-> g[k]]
  BY <1>1
<1>10. /\ NewId(ds, e) \in S
       /\ n + 1 \in 1 .. n + 1 /\ \A k \in 1 .. n : k \in 1 .. n + 1
  BY <1>1, <1>5
<1> HIDE DEF f, g, S, n
<1>11. FlattenSeq(f) \in Seq(S) /\ FlattenSeq(g) = FlattenSeq(f) \o g[n + 1]
  <2>0. (\A k \in 1 .. n : f[k] \in Seq(S)) /\ g[n + 1] \in Seq(S) /\ n \in Nat
    BY <1>1, <1>6, <1>7, <1>10
  <2>1. f \in [1 .. n -> Seq(S)] /\ g \in [1 .. n + 1 -> Seq(S)]
    BY <1>6, <1>9, <2>0, Mapped
  <2>2. QED
    BY <1>1, <1>6, <2>1, FlattenMore
<1>12. FlattenSeq(f) \o <<>> = FlattenSeq(f)
  BY <1>11, ConcatEmptySeq
<1>13. FlattenSeq(f) \o <<NewId(ds, e)>> = Append(FlattenSeq(f), NewId(ds, e))
  BY <1>10, <1>11, AppendIsConcat
<1>14. QED
  BY <1>3, <1>4, <1>8, <1>11, <1>12, <1>13 DEF m

\* Only a text delta adds to the answer.
LEMMA WordsMore ==
  ASSUME NEW ds \in Seq(Deltas), NEW e \in Deltas
  PROVE  /\ Words(ds) \in Seq(STRING)
         /\ Words(Append(ds, e)) = IF e.type = "text" THEN Append(Words(ds), e.text) ELSE Words(ds)
<1> DEFINE m == Append(ds, e)
           n == Len(ds)
           f == [k \in DOMAIN ds |-> IF ds[k].type = "text" THEN <<ds[k].text>> ELSE <<>>]
           g == [k \in DOMAIN m |-> IF m[k].type = "text" THEN <<m[k].text>> ELSE <<>>]
<1>1. /\ n \in Nat /\ DOMAIN ds = 1 .. n /\ DOMAIN m = 1 .. n + 1
      /\ \A k \in 1 .. n : m[k] = ds[k] /\ ds[k] \in Deltas
      /\ m[n + 1] = e
  BY MoreDelta
<1>2. Words(ds) = FlattenSeq(f) /\ Words(m) = FlattenSeq(g)
  BY DEF Words
<1>3. \A k \in 1 .. n : g[k] = f[k]
  BY <1>1
<1>4. \A d \in Deltas : d.type = "text" => <<d.text>> \in Seq(STRING)
  BY DeltaFields
<1>5. <<>> \in Seq(STRING)
  OBVIOUS
<1>6. \A k \in 1 .. n : f[k] \in Seq(STRING)
  BY <1>1, <1>4, <1>5
<1>7. g[n + 1] = IF e.type = "text" THEN <<e.text>> ELSE <<>>
  BY <1>1
<1>8. g[n + 1] \in Seq(STRING)
  <2>1. CASE e.type = "text"
    BY <1>4, <1>7, <2>1
  <2>2. CASE e.type # "text"
    <3>1. g[n + 1] = <<>>
      BY <1>7, <2>2
    <3>2. QED
      BY <1>5, <3>1, Zenon
  <2>3. QED
    BY <2>1, <2>2
<1>9. f = [k \in 1 .. n |-> f[k]] /\ g = [k \in 1 .. n + 1 |-> g[k]]
  BY <1>1
<1> HIDE DEF f, g, n
<1>10. FlattenSeq(f) \in Seq(STRING) /\ FlattenSeq(g) = FlattenSeq(f) \o g[n + 1]
  <2>1. f \in [1 .. n -> Seq(STRING)] /\ g \in [1 .. n + 1 -> Seq(STRING)]
    BY <1>1, <1>3, <1>6, <1>8, <1>9, Mapped
  <2>2. QED
    BY <1>1, <1>3, <2>1, FlattenMore
<1>11. FlattenSeq(f) \o <<>> = FlattenSeq(f)
  BY <1>10, ConcatEmptySeq
<1>12. e.type = "text" => FlattenSeq(f) \o <<e.text>> = Append(FlattenSeq(f), e.text)
  BY <1>10, AppendIsConcat, DeltaFields
<1>13. QED
  BY <1>2, <1>7, <1>10, <1>11, <1>12 DEF m

\* Only a finish adds a stop reason.
LEMMA StopsMore ==
  ASSUME NEW ds \in Seq(Deltas), NEW e \in Deltas
  PROVE  /\ Stops(ds) \in Seq(STRING)
         /\ Stops(Append(ds, e)) = IF e.type = "finish" THEN Append(Stops(ds), e.reason) ELSE Stops(ds)
<1> DEFINE m == Append(ds, e)
           n == Len(ds)
           f == [k \in DOMAIN ds |-> IF ds[k].type = "finish" THEN <<ds[k].reason>> ELSE <<>>]
           g == [k \in DOMAIN m |-> IF m[k].type = "finish" THEN <<m[k].reason>> ELSE <<>>]
<1>1. /\ n \in Nat /\ DOMAIN ds = 1 .. n /\ DOMAIN m = 1 .. n + 1
      /\ \A k \in 1 .. n : m[k] = ds[k] /\ ds[k] \in Deltas
      /\ m[n + 1] = e
  BY MoreDelta
<1>2. Stops(ds) = FlattenSeq(f) /\ Stops(m) = FlattenSeq(g)
  BY DEF Stops
<1>3. \A k \in 1 .. n : g[k] = f[k]
  BY <1>1
<1>4. \A d \in Deltas : d.type = "finish" => <<d.reason>> \in Seq(STRING)
  BY DeltaFields
<1>5. <<>> \in Seq(STRING)
  OBVIOUS
<1>6. \A k \in 1 .. n : f[k] \in Seq(STRING)
  BY <1>1, <1>4, <1>5
<1>7. g[n + 1] = IF e.type = "finish" THEN <<e.reason>> ELSE <<>>
  BY <1>1
<1>8. g[n + 1] \in Seq(STRING)
  <2>1. CASE e.type = "finish"
    BY <1>4, <1>7, <2>1
  <2>2. CASE e.type # "finish"
    <3>1. g[n + 1] = <<>>
      BY <1>7, <2>2
    <3>2. QED
      BY <1>5, <3>1, Zenon
  <2>3. QED
    BY <2>1, <2>2
<1>9. f = [k \in 1 .. n |-> f[k]] /\ g = [k \in 1 .. n + 1 |-> g[k]]
  BY <1>1
<1> HIDE DEF f, g, n
<1>10. FlattenSeq(f) \in Seq(STRING) /\ FlattenSeq(g) = FlattenSeq(f) \o g[n + 1]
  <2>1. f \in [1 .. n -> Seq(STRING)] /\ g \in [1 .. n + 1 -> Seq(STRING)]
    BY <1>1, <1>3, <1>6, <1>8, <1>9, Mapped
  <2>2. QED
    BY <1>1, <1>3, <2>1, FlattenMore
<1>11. FlattenSeq(f) \o <<>> = FlattenSeq(f)
  BY <1>10, ConcatEmptySeq
<1>12. e.type = "finish" => FlattenSeq(f) \o <<e.reason>> = Append(FlattenSeq(f), e.reason)
  BY <1>10, AppendIsConcat, DeltaFields
<1>13. QED
  BY <1>2, <1>7, <1>10, <1>11, <1>12 DEF m

\* Nothing said means nothing.
LEMMA NoDeltas ==
  /\ Words(<<>>) = <<>> /\ Stops(<<>>) = <<>> /\ Ids(<<>>) = <<>>
  /\ Fragments(<<>>) = {} /\ \A id : Of(<<>>, id) = {} /\ Names(<<>>, id) = {} /\ Args(<<>>, id) = <<>>
<1>1. DOMAIN <<>> = {}
  OBVIOUS
<1>2. \A f : DOMAIN f = {} /\ f = [k \in DOMAIN f |-> f[k]] => f = <<>>
  OBVIOUS
<1>3. Words(<<>>) = <<>>
  BY <1>1, FlattenNothing DEF Words
<1>4. Stops(<<>>) = <<>>
  BY <1>1, FlattenNothing DEF Stops
<1>5. Ids(<<>>) = <<>>
  BY <1>1, FlattenNothing DEF Ids
<1>6. Fragments(<<>>) = {}
  BY <1>1 DEF Fragments
<1>7. ASSUME NEW id
      PROVE  Of(<<>>, id) = {} /\ Names(<<>>, id) = {} /\ Args(<<>>, id) = <<>>
  <2>1. Of(<<>>, id) = {}
    BY <1>6 DEF Of
  <2>2. Names(<<>>, id) = {}
    BY <2>1 DEF Names
  <2>3. Args(<<>>, id) = <<>>
    BY <1>1, FlattenNothing DEF Args
  <2>4. QED
    BY <2>1, <2>2, <2>3
<1>8. QED
  BY <1>3, <1>4, <1>5, <1>6, <1>7

-----------------------------------------------------------------------------
(* which id an index stands for, and which calls have been opened *)

\* The fragments that give index i an id, the last of these ids, and the table index ->
\* id.
Appoints(ds, i) == {j \in Fragments(ds) : ds[j].index = i /\ ds[j].id # None}
Latest(ds, T) == ds[CHOOSE j \in T : \A i \in T : i <= j].id
Indexes(ds) == {ds[k].index : k \in Fragments(ds)}
Appointed(ds, i) == IF Appoints(ds, i) = {} THEN IndexId(i) ELSE Latest(ds, Appoints(ds, i))
Known(ds) == [i \in Indexes(ds) |-> Appointed(ds, i)]

\* A fragment with an id gives its index that id.
LEMMA AppointsMore ==
  ASSUME NEW ds \in Seq(Deltas), NEW e \in Deltas, NEW i
  PROVE  /\ Appoints(ds, i) \subseteq 1 .. Len(ds)
         /\ Appoints(Append(ds, e), i)
              = Appoints(ds, i) \union
                (IF e.type = "call" /\ e.index = i /\ e.id # None THEN {Len(ds) + 1} ELSE {})
<1> DEFINE m == Append(ds, e)
           n == Len(ds)
<1>1. /\ \A k \in 1 .. n : m[k] = ds[k]
      /\ m[n + 1] = e /\ n \in Nat
  BY MoreDelta
<1>2. /\ Fragments(m) = Fragments(ds) \union (IF e.type = "call" THEN {n + 1} ELSE {})
      /\ Fragments(ds) \subseteq 1 .. n
  BY OfMore
<1> HIDE DEF m, n
<1>3. ASSUME NEW j
      PROVE  j \in Appoints(m, i)
               <=> j \in Appoints(ds, i) \/ (e.type = "call" /\ e.index = i /\ e.id # None /\ j = n + 1)
  BY <1>1, <1>2 DEF Appoints
<1>4. Appoints(ds, i) \subseteq 1 .. n
  BY <1>2 DEF Appoints
<1>5. Appoints(m, i) = Appoints(ds, i) \union
        (IF e.type = "call" /\ e.index = i /\ e.id # None THEN {n + 1} ELSE {})
  BY <1>3
<1>6. QED
  BY <1>4, <1>5 DEF m, n

\* The id of an index only changes when a fragment gives it another.
LEMMA AppointedMore ==
  ASSUME NEW ds \in Seq(Deltas), NEW e \in Deltas, NEW i
  PROVE  Appointed(Append(ds, e), i)
           = IF e.type = "call" /\ e.index = i /\ e.id # None THEN e.id ELSE Appointed(ds, i)
<1> DEFINE m == Append(ds, e)
           n == Len(ds)
           A == Appoints(ds, i)
           B == Appoints(m, i)
           last(T) == CHOOSE j \in T : \A i2 \in T : i2 <= j
<1>1. /\ \A k \in 1 .. n : m[k] = ds[k]
      /\ m[n + 1] = e /\ n \in Nat
  BY MoreDelta
<1>2. /\ A \subseteq 1 .. n
      /\ B = A \union (IF e.type = "call" /\ e.index = i /\ e.id # None THEN {n + 1} ELSE {})
  BY AppointsMore
<1>3. /\ Appointed(ds, i) = IF A = {} THEN IndexId(i) ELSE ds[last(A)].id
      /\ Appointed(m, i) = IF B = {} THEN IndexId(i) ELSE m[last(B)].id
  BY DEF Appointed, Latest
<1> HIDE DEF A, B, m, n
<1>4. CASE e.type = "call" /\ e.index = i /\ e.id # None
  <2>1. B # {} /\ B \subseteq 1 .. n + 1 /\ n + 1 \in B /\ n + 1 \in Nat
    BY <1>1, <1>2, <1>4
  <2>2. last(B) \in B /\ \A j \in B : j <= last(B)
    BY <2>1, LastIs
  <2> HIDE DEF last
  <2>3. last(B) = n + 1
    <3>1. last(B) \in 1 .. n + 1 /\ n + 1 <= last(B)
      BY <2>1, <2>2
    <3>2. QED
      BY <1>1, <3>1
  <2>4. QED
    BY <1>1, <1>3, <1>4, <2>1, <2>3 DEF m
<1>5. CASE ~(e.type = "call" /\ e.index = i /\ e.id # None)
  <2>1. B = A
    BY <1>2, <1>5
  <2>2. A # {} => last(A) \in A
    BY <1>1, <1>2, LastIs
  <2> HIDE DEF last
  <2>3. A # {} => m[last(A)] = ds[last(A)]
    BY <1>1, <1>2, <2>2
  <2>4. QED
    BY <1>3, <1>5, <2>1, <2>3 DEF m
<1>6. QED
  BY <1>4, <1>5

\* What the parser remembers is enough to name the next fragment.
LEMMA NewIdIs ==
  ASSUME NEW ds \in Seq(Deltas), NEW e \in Deltas, e.type = "call"
  PROVE  NewId(ds, e) = Appointed(Append(ds, e), e.index) /\ NewId(ds, e) = CallId(Known(ds), e)
<1> DEFINE m == Append(ds, e)
           n == Len(ds)
<1>1. /\ \A k \in 1 .. n : m[k] = ds[k]
      /\ m[n + 1] = e /\ n \in Nat
  BY MoreDelta
<1>2. Fragments(m) = Fragments(ds) \union {n + 1} /\ Fragments(ds) \subseteq 1 .. n
  BY OfMore
<1>3. NewId(ds, e) = IdAt(m, n + 1)
  BY DEF NewId
<1>4. Appointed(m, e.index) = IF e.id # None THEN e.id ELSE Appointed(ds, e.index)
  BY AppointedMore
<1> HIDE DEF m, n
<1>5. Given(m, n + 1) = Appoints(m, e.index)
  <2>1. \A j \in Fragments(m) : j <= n + 1
    BY <1>1, <1>2
  <2>2. ASSUME NEW j
        PROVE  j \in Given(m, n + 1) <=> j \in Appoints(m, e.index)
    BY <1>1, <2>1 DEF Given, Appoints
  <2>3. QED
    BY <2>2
<1>6. IdAt(m, n + 1) = Appointed(m, e.index)
  <2>1. IdAt(m, n + 1) = IF Given(m, n + 1) = {} THEN IndexId(m[n + 1].index)
                         ELSE Latest(m, Given(m, n + 1))
    BY DEF IdAt, Latest
  <2>2. QED
    BY <1>1, <1>5, <2>1 DEF Appointed
<1>7. CallId(Known(ds), e) = IF e.id # None THEN e.id ELSE Appointed(ds, e.index)
  <2>1. DOMAIN Known(ds) = Indexes(ds) /\ (e.index \in Indexes(ds) => Known(ds)[e.index] = Appointed(ds, e.index))
    BY DEF Known
  <2>2. ASSUME e.index \notin Indexes(ds)
        PROVE  Appointed(ds, e.index) = IndexId(e.index)
    <3>1. Appoints(ds, e.index) = {}
      BY <2>2 DEF Appoints, Indexes
    <3>2. QED
      BY <3>1 DEF Appointed
  <2>3. QED
    BY <2>1, <2>2 DEF CallId
<1>8. QED
  BY <1>3, <1>4, <1>6, <1>7 DEF m

\* The table the parser keeps follows the fragments one by one.
LEMMA KnownMore ==
  ASSUME NEW ds \in Seq(Deltas), NEW e \in Deltas
  PROVE  Known(Append(ds, e))
           = IF e.type = "call"
             THEN [i \in DOMAIN Known(ds) \cup {e.index} |->
                     IF i = e.index THEN NewId(ds, e) ELSE Known(ds)[i]]
             ELSE Known(ds)
<1> DEFINE m == Append(ds, e)
           n == Len(ds)
<1>1. /\ \A k \in 1 .. n : m[k] = ds[k]
      /\ m[n + 1] = e /\ n \in Nat
  BY MoreDelta
<1>2. /\ Fragments(m) = Fragments(ds) \union (IF e.type = "call" THEN {n + 1} ELSE {})
      /\ Fragments(ds) \subseteq 1 .. n
  BY OfMore
<1>3. \A i : Appointed(m, i)
           = IF e.type = "call" /\ e.index = i /\ e.id # None THEN e.id ELSE Appointed(ds, i)
  BY AppointedMore
<1>4. e.type = "call" => NewId(ds, e) = Appointed(m, e.index)
  BY NewIdIs
<1> HIDE DEF m, n
<1>5. Indexes(m) = Indexes(ds) \union (IF e.type = "call" THEN {e.index} ELSE {})
  <2>1. ASSUME NEW i
        PROVE  i \in Indexes(m) <=> i \in Indexes(ds) \/ (e.type = "call" /\ i = e.index)
    BY <1>1, <1>2 DEF Indexes
  <2>2. QED
    BY <2>1
<1>6. DOMAIN Known(ds) = Indexes(ds) /\ \A i \in Indexes(ds) : Known(ds)[i] = Appointed(ds, i)
  BY DEF Known
<1>7. CASE e.type = "call"
  <2>1. Indexes(m) = DOMAIN Known(ds) \cup {e.index}
    BY <1>5, <1>6, <1>7
  <2>2. \A i \in Indexes(m) : Appointed(m, i) = IF i = e.index THEN NewId(ds, e) ELSE Known(ds)[i]
    BY <1>3, <1>4, <1>6, <1>7, <2>1
  <2>3. QED
    BY <1>7, <2>1, <2>2 DEF Known, m
<1>8. CASE e.type # "call"
  <2>1. Indexes(m) = Indexes(ds) /\ \A i : Appointed(m, i) = Appointed(ds, i)
    BY <1>3, <1>5, <1>8
  <2>2. QED
    BY <1>8, <2>1 DEF Known, m
<1>9. QED
  BY <1>7, <1>8

-----------------------------------------------------------------------------
(* sequences of any elements *)

\* A sequence, whatever its elements are.
IsSeq(s) == \E S : s \in Seq(S)

\* The elements of a sequence and of one with an element more.
LEMMA AppendAny ==
  ASSUME NEW s, IsSeq(s), NEW x
  PROVE  /\ IsSeq(Append(s, x)) /\ Len(s) \in Nat /\ DOMAIN s = 1 .. Len(s)
         /\ Len(Append(s, x)) = Len(s) + 1 /\ DOMAIN Append(s, x) = 1 .. Len(s) + 1
         /\ \A i \in 1 .. Len(s) : Append(s, x)[i] = s[i]
         /\ Append(s, x)[Len(s) + 1] = x
<1>1. PICK S : s \in Seq(S)
  BY DEF IsSeq
<1> DEFINE X == S \union {x}
<1>2. s \in Seq(X) /\ x \in X
  BY <1>1
<1> HIDE DEF X
<1>3. /\ Append(s, x) \in Seq(X) /\ Len(Append(s, x)) = Len(s) + 1
      /\ \A i \in 1 .. Len(s) : Append(s, x)[i] = s[i]
      /\ Append(s, x)[Len(s) + 1] = x
  BY <1>2, AppendProperties
<1>4. Len(s) \in Nat /\ DOMAIN s = 1 .. Len(s) /\ DOMAIN Append(s, x) = 1 .. Len(Append(s, x))
  BY <1>2, <1>3, LenProperties
<1>5. QED
  BY <1>3, <1>4 DEF IsSeq

\* A sequence over a set is a sequence.
LEMMA SeqIs ==
  ASSUME NEW S, NEW s \in Seq(S)
  PROVE  IsSeq(s)
  BY DEF IsSeq

\* The empty sequence is one.
LEMMA NoneIs == IsSeq(<<>>) /\ Len(<<>>) = 0 /\ DOMAIN <<>> = {}
<1>1. <<>> \in Seq({})
  OBVIOUS
<1>2. Len(<<>>) = 0 /\ DOMAIN <<>> = {}
  OBVIOUS
<1>3. QED
  BY <1>1, <1>2 DEF IsSeq

-----------------------------------------------------------------------------
(* every call is listed, and listed once *)

\* The list of ids names every call that has a fragment, and each once.
Listed(ds) ==
  /\ IsSeq(Ids(ds))
  /\ \A id : Of(ds, id) # {} <=> \E i \in DOMAIN Ids(ds) : Ids(ds)[i] = id
  /\ \A i, j \in DOMAIN Ids(ds) : Ids(ds)[i] = Ids(ds)[j] => i = j
  /\ \A id : Of(ds, id) = {} => Args(ds, id) = <<>>
  /\ Stops(ds) # <<>> <=> \E k \in DOMAIN ds : ds[k].type = "finish"

\* One delta more keeps the list complete and free of repetitions.
LEMMA ListedMore ==
  ASSUME NEW ds \in Seq(Deltas), NEW e \in Deltas, Listed(ds)
  PROVE  Listed(Append(ds, e))
<1> DEFINE m == Append(ds, e)
           n == Len(ds)
           I == Ids(ds)
           J == Ids(m)
           new == NewId(ds, e)
<1>1. /\ \A k \in 1 .. n : m[k] = ds[k]
      /\ m[n + 1] = e /\ n \in Nat /\ DOMAIN ds = 1 .. n /\ DOMAIN m = 1 .. n + 1
  BY MoreDelta
<1>2. \A id : Of(m, id) = Of(ds, id) \union (IF Adds(ds, e, id) THEN {n + 1} ELSE {})
  BY OfMore
<1>3. J = IF e.type = "call" /\ Of(ds, new) = {} THEN Append(I, new) ELSE I
  BY IdsMore
<1>4. /\ Stops(ds) \in Seq(STRING)
      /\ Stops(m) = IF e.type = "finish" THEN Append(Stops(ds), e.reason) ELSE Stops(ds)
  BY StopsMore
<1>5. IsSeq(I) /\ (\A id : Of(ds, id) # {} <=> \E i \in DOMAIN I : I[i] = id)
      /\ (\A i, j \in DOMAIN I : I[i] = I[j] => i = j)
      /\ (Stops(ds) # <<>> <=> \E k \in DOMAIN ds : ds[k].type = "finish")
  BY DEF Listed
<1>6. \A id : Adds(ds, e, id) <=> e.type = "call" /\ id = new
  BY DEF Adds
<1> HIDE DEF m, n, I, J, new
<1>9. IsSeq(J) /\ (\A id : Of(m, id) # {} <=> \E i \in DOMAIN J : J[i] = id)
      /\ (\A i, j \in DOMAIN J : J[i] = J[j] => i = j)
  <2>7. CASE e.type = "call" /\ Of(ds, new) = {}
    <3>1. /\ IsSeq(J) /\ Len(I) \in Nat /\ DOMAIN I = 1 .. Len(I)
          /\ DOMAIN J = 1 .. Len(I) + 1
          /\ \A i \in 1 .. Len(I) : J[i] = I[i]
          /\ J[Len(I) + 1] = new
      BY <1>3, <1>5, <2>7, AppendAny
    <3>2. ~ \E i \in DOMAIN I : I[i] = new
      BY <1>5, <2>7
    <3>3. ASSUME NEW id
          PROVE  Of(m, id) # {} <=> \E i \in DOMAIN J : J[i] = id
      <4>1. Of(m, id) # {} <=> Of(ds, id) # {} \/ id = new
        BY <1>2, <1>6, <2>7
      <4>2. (\E i \in DOMAIN J : J[i] = id) <=> (\E i \in DOMAIN I : I[i] = id) \/ id = new
        BY <3>1
      <4>3. QED
        BY <1>5, <4>1, <4>2
    <3>4. \A i, j \in DOMAIN J : J[i] = J[j] => i = j
      BY <1>5, <3>1, <3>2
    <3>5. QED
      BY <3>1, <3>3, <3>4
  <2>8. CASE ~(e.type = "call" /\ Of(ds, new) = {})
    <3>1. J = I
      BY <1>3, <2>8
    <3>2. \A id : Of(m, id) # {} <=> Of(ds, id) # {}
      BY <1>2, <1>6, <2>8
    <3>3. QED
      BY <1>5, <3>1, <3>2
  <2>9. QED
    BY <2>7, <2>8
<1>10. Stops(m) # <<>> <=> \E k \in DOMAIN m : m[k].type = "finish"
  <2>1. CASE e.type = "finish"
    <3>1. Stops(m) # <<>>
      <4>1. Len(Stops(m)) = Len(Stops(ds)) + 1 /\ Len(Stops(ds)) \in Nat
        BY <1>4, <2>1, SeqIs, AppendAny
      <4>2. QED
        BY <4>1, NoneIs
    <3>2. n + 1 \in DOMAIN m /\ m[n + 1].type = "finish"
      BY <1>1, <2>1
    <3>3. QED
      BY <3>1, <3>2
  <2>2. CASE e.type # "finish"
    <3>1. (\E k \in DOMAIN m : m[k].type = "finish") <=> \E k \in DOMAIN ds : ds[k].type = "finish"
      BY <1>1, <2>2
    <3>2. QED
      BY <1>4, <1>5, <2>2, <3>1
  <2>3. QED
    BY <2>1, <2>2
<1>11. ASSUME NEW id, Of(m, id) = {}
       PROVE  Args(m, id) = <<>>
  <2>1. Of(ds, id) = {} /\ ~Adds(ds, e, id)
    BY <1>2, <1>11
  <2>2. Args(ds, id) = <<>>
    BY <2>1 DEF Listed
  <2>3. QED
    BY <2>1, <2>2, ArgsMore DEF m
<1>12. QED
  BY <1>9, <1>10, <1>11 DEF Listed, m, J

\* The list is right for every sequence of deltas.
LEMMA AllListed ==
  ASSUME NEW ds \in Seq(Deltas)
  PROVE  Listed(ds)
<1> DEFINE n == Len(ds)
           T == {k \in 0 .. n : Listed(SubSeq(ds, 1, k))}
<1>0. n \in Nat
  BY LenProperties
<1>1. 0 \in T
  <2>1. SubSeq(ds, 1, 0) = <<>> /\ 0 \in 0 .. n
    BY <1>0, Beginning
  <2>2. Listed(<<>>)
    BY NoDeltas, NoneIs DEF Listed
  <2>3. QED
    BY <2>1, <2>2
<1>2. ASSUME NEW k \in 0 .. n - 1, k \in T
      PROVE  k + 1 \in T
  <2>1. SubSeq(ds, 1, k) \in Seq(Deltas)
    BY <1>0, <1>2, Beginning
  <2>2. ds[k + 1] \in Deltas
    BY <1>0, <1>2, ElementOfSeq
  <2>3. SubSeq(ds, 1, k + 1) = Append(SubSeq(ds, 1, k), ds[k + 1])
    BY <1>0, <1>2, BeginningMore
  <2>4. Listed(SubSeq(ds, 1, k + 1))
    <3>1. Listed(SubSeq(ds, 1, k))
      BY <1>2
    <3> DEFINE b == SubSeq(ds, 1, k)
    <3> HIDE DEF T, b
    <3>2. Listed(Append(b, ds[k + 1]))
      BY <2>1, <2>2, <3>1, ListedMore DEF b
    <3>3. QED
      BY <2>3, <3>2 DEF b
  <2>5. k + 1 \in 0 .. n
    BY <1>0, <1>2
  <2>6. QED
    BY <2>4, <2>5
<1>3. n \in T
  <2> HIDE DEF T
  <2>1. n \in Nat /\ 0 \in Nat /\ 0 <= n
    BY <1>0
  <2>2. \A k \in 0 .. n - 1 : k \in T => k + 1 \in T
    BY <1>2
  <2>3. \A k \in 0 .. n : k \in T
    BY <1>1, <2>1, <2>2, UpTo
  <2>4. QED
    BY <2>1, <2>3
<1>4. SubSeq(ds, 1, n) = ds
  BY <1>0, Beginning
<1>5. QED
  BY <1>3, <1>4

-----------------------------------------------------------------------------
(* what has been said stays said *)

\* Fragments and names of a call stay when more is said.
LEMMA OfStays ==
  ASSUME NEW s, NEW t, Begins(s, t), NEW id
  PROVE  Of(s, id) \subseteq Of(t, id) /\ Names(s, id) \subseteq Names(t, id)
<1>1. /\ Len(s) \in Nat /\ Len(t) \in Nat /\ Len(s) <= Len(t)
      /\ DOMAIN s = 1 .. Len(s) /\ DOMAIN t = 1 .. Len(t) /\ \A j \in 1 .. Len(s) : t[j] = s[j]
  BY LenProperties DEF Begins
<1>2. \A k \in 1 .. Len(s) : IdAt(t, k) = IdAt(s, k)
  BY IdStays
<1>3. ASSUME NEW k \in Of(s, id)
      PROVE  k \in Of(t, id) /\ k \in 1 .. Len(s)
  BY <1>1, <1>2 DEF Of, Fragments
<1>4. \A k \in Of(s, id) : s[k].name = t[k].name
  BY <1>1, <1>3
<1>5. QED
  BY <1>3, <1>4 DEF Names

\* The arguments of a call never shrink when more is said.
LEMMA ArgsGrow ==
  ASSUME NEW s, NEW t, Begins(s, t), NEW id
  PROVE  /\ Len(Args(s, id)) \in Nat /\ Len(Args(t, id)) \in Nat
         /\ Len(Args(s, id)) <= Len(Args(t, id))
<1> DEFINE n == Len(s)
           m == Len(t)
           T == {k \in n .. m : Len(Args(s, id)) <= Len(Args(SubSeq(t, 1, k), id))}
<1>1. s \in Seq(Deltas) /\ t \in Seq(Deltas) /\ n \in Nat /\ m \in Nat /\ n <= m
      /\ \A j \in 1 .. n : t[j] = s[j]
  BY LenProperties DEF Begins
<1>2. ASSUME NEW d \in Seq(Deltas)
      PROVE  Args(d, id) \in Seq(STRING) /\ Len(Args(d, id)) \in Nat
  <2>1. Usage \in Deltas
    BY DEF Deltas
  <2>2. Args(d, id) \in Seq(STRING)
    BY <2>1, ArgsMore
  <2>3. QED
    BY <2>2, LenProperties
<1>3. SubSeq(t, 1, n) = s
  <2>1. SubSeq(t, 1, n) \in Seq(Deltas) /\ Len(SubSeq(t, 1, n)) = n /\ \A i \in 1 .. n : SubSeq(t, 1, n)[i] = t[i]
    BY <1>1, Beginning
  <2>2. QED
    BY <1>1, <2>1, SeqEqual
<1>4. n \in T
  <2>1. Len(Args(s, id)) <= Len(Args(s, id)) /\ n \in n .. m
    BY <1>1, <1>2
  <2>2. QED
    BY <1>3, <2>1
<1>5. ASSUME NEW k \in n .. m - 1, k \in T
      PROVE  k + 1 \in T
  <2>0. k \in 0 .. m /\ k \in 0 .. m - 1 /\ k + 1 \in 1 .. m /\ k + 1 \in n .. m
    BY <1>1
  <2> DEFINE u == SubSeq(t, 1, k)
             v == SubSeq(t, 1, k + 1)
  <2>1. u \in Seq(Deltas)
    BY <1>1, <2>0, Beginning
  <2>2. t[k + 1] \in Deltas
    BY <1>1, <2>0, ElementOfSeq
  <2>3. v = Append(u, t[k + 1])
    BY <1>1, <2>0, BeginningMore
  <2>4. Len(Args(s, id)) <= Len(Args(u, id))
    BY <1>5
  <2> HIDE DEF u, v
  <2>5. Args(v, id) = Args(u, id) \o t[k + 1].args \/ Args(v, id) = Args(u, id)
    BY <2>1, <2>2, <2>3, ArgsMore
  <2>6. Adds(u, t[k + 1], id) => t[k + 1].args \in Seq(STRING)
    BY <2>2, DeltaFields DEF Adds
  <2>7. Len(Args(u, id)) <= Len(Args(v, id))
    <3>1. CASE Adds(u, t[k + 1], id)
      <4>1. Args(v, id) = Args(u, id) \o t[k + 1].args
        BY <2>1, <2>2, <2>3, <3>1, ArgsMore
      <4>2. Len(Args(v, id)) = Len(Args(u, id)) + Len(t[k + 1].args) /\ Len(t[k + 1].args) \in Nat
        BY <1>2, <2>1, <2>6, <3>1, <4>1, ConcatProperties, LenProperties
      <4>3. QED
        BY <1>2, <2>1, <4>2
    <3>2. CASE ~Adds(u, t[k + 1], id)
      <4>1. Args(v, id) = Args(u, id)
        BY <2>1, <2>2, <2>3, <3>2, ArgsMore
      <4>2. QED
        BY <1>2, <2>1, <4>1
    <3>3. QED
      BY <3>1, <3>2
  <2>8. v \in Seq(Deltas)
    BY <2>1, <2>2, <2>3, MoreDelta
  <2>9. Len(Args(s, id)) <= Len(Args(v, id))
    BY <1>1, <1>2, <2>1, <2>4, <2>7, <2>8
  <2>10. QED
    BY <2>0, <2>9 DEF v
<1>6. m \in T
  <2> HIDE DEF T
  <2>1. \A k \in n .. m : k \in T
    BY <1>1, <1>4, <1>5, UpTo
  <2>2. QED
    BY <1>1, <2>1
<1>7. SubSeq(t, 1, m) = t
  BY <1>1, Beginning
<1>8. QED
  BY <1>1, <1>2, <1>6, <1>7

\* The first n deltas begin all of them.
LEMMA BeginningBegins ==
  ASSUME NEW t \in Seq(Deltas), NEW n \in 0 .. Len(t)
  PROVE  Begins(SubSeq(t, 1, n), t)
<1>1. Len(t) \in Nat
  BY LenProperties
<1>2. /\ SubSeq(t, 1, n) \in Seq(Deltas) /\ Len(SubSeq(t, 1, n)) = n
      /\ \A i \in 1 .. n : SubSeq(t, 1, n)[i] = t[i]
  BY Beginning
<1>3. QED
  BY <1>1, <1>2 DEF Begins

-----------------------------------------------------------------------------
(* the accumulator *)

\* Giving a fragment its id leaves the rest of it alone.
LEMMA CallFields ==
  ASSUME NEW e \in Deltas, e.type = "call", NEW x
  PROVE  /\ [e EXCEPT !.id = x].id = x /\ [e EXCEPT !.id = x].name = e.name
         /\ [e EXCEPT !.id = x].args = e.args /\ [e EXCEPT !.id = x].type = "call"
<1>1. e \in [type : {"call"}, index : Nat, id : STRING, name : STRING, args : Seq(STRING)]
  BY DEF Deltas, Usage
<1>2. QED
  BY <1>1

\* The accumulator accepts what is said of a call: at most one name, not an empty one,
\* and arguments within the limit.
Fits1(ds, id) ==
  /\ \A a, b \in Names(ds, id) : a = b
  /\ "" \notin Names(ds, id)
  /\ Len(Args(ds, id)) <= ArgLimit
\* It accepts what is said of every call.
Fits(ds) == \A id : Fits1(ds, id)

\* What the accumulator holds for a call.
Entry(ds, id) == [id |-> id, name |-> Name(ds, id), args |-> Args(ds, id)]

\* The name of a call is one of its names, if it has any.
LEMMA NameIs ==
  ASSUME NEW ds, NEW id
  PROVE  /\ Names(ds, id) = {} => Name(ds, id) = None
         /\ Names(ds, id) # {} => Name(ds, id) \in Names(ds, id) /\ Name(ds, id) # None
         /\ None \notin Names(ds, id)
<1>1. None \notin Names(ds, id)
  BY DEF Names
<1>2. Names(ds, id) # {} => Name(ds, id) \in Names(ds, id)
  BY DEF Name
<1>3. Names(ds, id) = {} => Name(ds, id) = None
  BY DEF Name
<1>4. QED
  BY <1>1, <1>2, <1>3

\* Arguments are a sequence of pieces.
LEMMA ArgsTyped ==
  ASSUME NEW ds \in Seq(Deltas), NEW id
  PROVE  Args(ds, id) \in Seq(STRING) /\ Len(Args(ds, id)) \in Nat
<1>1. Usage \in Deltas
  BY DEF Deltas
<1>2. Args(ds, id) \in Seq(STRING)
  BY <1>1, ArgsMore
<1>3. QED
  BY <1>2, LenProperties

\* The calls meant, place by place.
LEMMA CallsAre ==
  ASSUME NEW ds
  PROVE  /\ DOMAIN CallsMeant(ds) = DOMAIN Ids(ds)
         /\ \A i \in DOMAIN Ids(ds) : CallsMeant(ds)[i] = Entry(ds, Ids(ds)[i])
         /\ CallsMeant(ds) = [i \in DOMAIN Ids(ds) |-> Entry(ds, Ids(ds)[i])]
  BY DEF CallsMeant, Entry

\* The fields of an entry.
LEMMA EntryIs ==
  ASSUME NEW ds, NEW x
  PROVE  /\ Entry(ds, x).id = x /\ Entry(ds, x).name = Name(ds, x) /\ Entry(ds, x).args = Args(ds, x)
  BY DEF Entry

\* A delta changes no call but its own.
LEMMA OthersStay ==
  ASSUME NEW ds \in Seq(Deltas), NEW e \in Deltas, NEW x, ~Adds(ds, e, x)
  PROVE  /\ Names(Append(ds, e), x) = Names(ds, x) /\ Args(Append(ds, e), x) = Args(ds, x)
         /\ Entry(Append(ds, e), x) = Entry(ds, x) /\ (Fits1(ds, x) => Fits1(Append(ds, e), x))
<1>1. Names(Append(ds, e), x) = Names(ds, x)
  BY NamesMore
<1>2. Args(Append(ds, e), x) = Args(ds, x)
  BY ArgsMore
<1>3. QED
  BY <1>1, <1>2 DEF Entry, Name, Fits1

\* A delta that is no fragment leaves the calls alone.
LEMMA NoCall ==
  ASSUME NEW ds \in Seq(Deltas), NEW e \in Deltas, e.type # "call"
  PROVE  /\ CallsMeant(Append(ds, e)) = CallsMeant(ds)
         /\ Fits(ds) => Fits(Append(ds, e))
<1>1. \A x : ~Adds(ds, e, x)
  BY DEF Adds
<1>2. Ids(Append(ds, e)) = Ids(ds)
  BY IdsMore
<1>3. \A x : Entry(Append(ds, e), x) = Entry(ds, x) /\ (Fits1(ds, x) => Fits1(Append(ds, e), x))
  BY <1>1, OthersStay
<1>4. CallsMeant(Append(ds, e)) = CallsMeant(ds)
  BY <1>2, <1>3 DEF CallsMeant, Entry
<1>5. QED
  BY <1>3, <1>4 DEF Fits

\* Where a call stands in the list.
LEMMA PositionIs ==
  ASSUME NEW ds \in Seq(Deltas), calls = CallsMeant(ds), NEW x
  PROVE  /\ Position(x) = {i \in DOMAIN Ids(ds) : Ids(ds)[i] = x}
         /\ Position(x) = {} <=> Of(ds, x) = {}
         /\ \A i, j \in Position(x) : i = j
<1>1. DOMAIN calls = DOMAIN Ids(ds) /\ \A i \in DOMAIN Ids(ds) : calls[i].id = Ids(ds)[i]
  BY CallsAre, EntryIs
<1>2. Position(x) = {i \in DOMAIN Ids(ds) : Ids(ds)[i] = x}
  BY <1>1 DEF Position
<1>3. /\ Of(ds, x) # {} <=> \E i \in DOMAIN Ids(ds) : Ids(ds)[i] = x
      /\ \A i, j \in DOMAIN Ids(ds) : Ids(ds)[i] = Ids(ds)[j] => i = j
  BY AllListed DEF Listed
<1>4. QED
  BY <1>2, <1>3

\* The accumulator accepts a fragment exactly when its call, with it, still fits.
LEMMA AccumulatesIff ==
  ASSUME NEW ds \in Seq(Deltas), NEW e \in Deltas, e.type = "call", Fits(ds),
         calls = CallsMeant(ds), NEW f, f = [e EXCEPT !.id = NewId(ds, e)]
  PROVE  Accumulates(f) <=> Fits1(Append(ds, e), NewId(ds, e))
<1> DEFINE x == NewId(ds, e)
           N == Names(ds, x)
           A == Args(ds, x)
           m == Append(ds, e)
<1>1. f.id = x /\ f.name = e.name /\ f.args = e.args /\ e.args \in Seq(STRING) /\ Len(e.args) \in Nat
  <2>1. e.args \in Seq(STRING)
    BY DeltaFields
  <2>2. Len(e.args) \in Nat
    BY <2>1, LenProperties
  <2>3. QED
    BY <2>1, <2>2, CallFields
<1>2. Names(m, x) = N \union ({e.name} \ {None}) /\ Args(m, x) = A \o e.args
  BY NamesMore, ArgsMore DEF Adds
<1>3. A \in Seq(STRING) /\ Len(A) \in Nat
  BY ArgsTyped
<1>4. Len(Args(m, x)) = Len(A) + Len(e.args)
  BY <1>1, <1>2, <1>3, ConcatProperties
<1>5. /\ Position(x) = {i \in DOMAIN Ids(ds) : Ids(ds)[i] = x}
      /\ Position(x) = {} <=> Of(ds, x) = {}
      /\ \A i, j \in Position(x) : i = j
  BY PositionIs
<1>6. \A i \in Position(x) : calls[i].name = Name(ds, x) /\ calls[i].args = A
  BY <1>5, CallsAre, EntryIs
<1>7. (\A a, b \in N : a = b) /\ "" \notin N /\ Len(A) <= ArgLimit
  BY DEF Fits, Fits1
<1>8. /\ N = {} => Name(ds, x) = None
      /\ N # {} => Name(ds, x) \in N /\ Name(ds, x) # None
      /\ None \notin N
  BY NameIs
<1>9. Of(ds, x) = {} => N = {} /\ A = <<>>
  <2>1. Of(ds, x) = {} => N = {}
    BY DEF Names
  <2>2. QED
    BY <2>1, AllListed DEF Listed
<1>10. "" # None
  BY DEF None
<1>11. Accumulates(f) <=> /\ e.name # ""
                          /\ \A i \in Position(x) : /\ e.name \in {None, Name(ds, x)} \/ Name(ds, x) = None
                                                    /\ Len(A) + Len(e.args) <= ArgLimit
                          /\ Len(e.args) <= ArgLimit
  BY <1>1, <1>6 DEF Accumulates
<1>12. Fits1(m, x) <=> /\ \A a, b \in N \union ({e.name} \ {None}) : a = b
                       /\ "" \notin N \union ({e.name} \ {None})
                       /\ Len(A) + Len(e.args) <= ArgLimit
  BY <1>2, <1>4 DEF Fits1
<1>13. "" \notin N \union ({e.name} \ {None}) <=> e.name # ""
  BY <1>7, <1>10
<1>14. ArgLimit \in Nat
  BY StreamAssumption
<1> HIDE DEF x, N, A, m
<1>15. CASE Of(ds, x) = {}
  <2>1. Len(A) = 0
    BY <1>9, <1>15, NoneIs
  <2>2. \A a, b \in N \union ({e.name} \ {None}) : a = b
    BY <1>9, <1>15
  <2>3. Position(x) = {}
    BY <1>5, <1>15
  <2>4. Len(A) + Len(e.args) = Len(e.args)
    BY <1>1, <2>1
  <2>5. Fits1(m, x) <=> e.name # "" /\ Len(e.args) <= ArgLimit
    BY <1>12, <1>13, <2>2, <2>4
  <2>6. Accumulates(f) <=> e.name # "" /\ Len(e.args) <= ArgLimit
    BY <1>11, <2>3
  <2>7. QED
    BY <2>5, <2>6 DEF x, m
<1>16. CASE Of(ds, x) # {}
  <2>1. Position(x) # {}
    BY <1>5, <1>16
  <2>2. (\A a, b \in N \union ({e.name} \ {None}) : a = b)
          <=> (e.name \in {None, Name(ds, x)} \/ Name(ds, x) = None)
    BY <1>7, <1>8
  <2>3. Len(A) + Len(e.args) <= ArgLimit => Len(e.args) <= ArgLimit
    BY <1>1, <1>3, <1>14
  <2>4. QED
    BY <1>11, <1>12, <1>13, <2>1, <2>2, <2>3 DEF x, m
<1>17. QED
  BY <1>15, <1>16

\* Sequences of equal length and equal elements are equal.
LEMMA SameSeq ==
  ASSUME NEW s, NEW t, IsSeq(s), IsSeq(t), Len(s) = Len(t), \A i \in 1 .. Len(s) : s[i] = t[i]
  PROVE  s = t
<1>1. PICK S : s \in Seq(S)
  BY DEF IsSeq
<1>2. PICK T : t \in Seq(T)
  BY DEF IsSeq
<1> DEFINE X == S \union T
<1>3. s \in Seq(X) /\ t \in Seq(X)
  BY <1>1, <1>2
<1> HIDE DEF X
<1>4. QED
  BY <1>3, SeqEqual

\* The calls meant are a sequence as long as the list of ids.
LEMMA CallsSeq ==
  ASSUME NEW ds \in Seq(Deltas)
  PROVE  IsSeq(CallsMeant(ds)) /\ Len(CallsMeant(ds)) = Len(Ids(ds)) /\ DOMAIN Ids(ds) = 1 .. Len(Ids(ds))
         /\ Len(Ids(ds)) \in Nat
<1> DEFINE n == Len(Ids(ds))
           c == CallsMeant(ds)
           X == {c[i] : i \in 1 .. n}
<1>1. n \in Nat /\ DOMAIN Ids(ds) = 1 .. n
  <2>1. IsSeq(Ids(ds))
    BY AllListed DEF Listed
  <2>2. QED
    BY <2>1, AppendAny
<1>2. DOMAIN c = 1 .. n /\ c = [i \in 1 .. n |-> c[i]]
  BY <1>1, CallsAre
<1> HIDE DEF n, c
<1>3. \A i \in 1 .. n : c[i] \in X
  OBVIOUS
<1> HIDE DEF X
<1>4. c \in Seq(X) /\ Len(c) = n
  BY <1>1, <1>2, <1>3
<1>5. QED
  BY <1>1, <1>4 DEF IsSeq, n, c

\* What the accumulator holds after a fragment is what is meant by the deltas with it.
LEMMA AccumulateIs ==
  ASSUME NEW ds \in Seq(Deltas), NEW e \in Deltas, e.type = "call", Fits(ds),
         calls = CallsMeant(ds), NEW f, f = [e EXCEPT !.id = NewId(ds, e)],
         Accumulates(f), Accumulate(f)
  PROVE  calls' = CallsMeant(Append(ds, e)) /\ Fits(Append(ds, e))
<1> DEFINE x == NewId(ds, e)
           N == Names(ds, x)
           A == Args(ds, x)
           m == Append(ds, e)
           I == Ids(ds)
<1>1. f.id = x /\ f.name = e.name /\ f.args = e.args /\ e.args \in Seq(STRING)
  BY CallFields, DeltaFields
<1>2. Names(m, x) = N \union ({e.name} \ {None}) /\ Args(m, x) = A \o e.args
  BY NamesMore, ArgsMore DEF Adds
<1>3. A \in Seq(STRING)
  BY ArgsTyped
<1>4. Fits1(m, x)
  BY AccumulatesIff
<1>5. \A y : y # x => Entry(m, y) = Entry(ds, y) /\ (Fits1(ds, y) => Fits1(m, y))
  <2>1. \A y : y # x => ~Adds(ds, e, y)
    BY DEF Adds
  <2>2. QED
    BY <2>1, OthersStay
<1>6. Fits(m)
  BY <1>4, <1>5 DEF Fits
<1>7. Name(m, x) = IF e.name = None THEN Name(ds, x) ELSE e.name
  <2>1. /\ N = {} => Name(ds, x) = None
        /\ N # {} => Name(ds, x) \in N /\ Name(ds, x) # None
    BY NameIs
  <2>2. /\ Names(m, x) = {} => Name(m, x) = None
        /\ Names(m, x) # {} => Name(m, x) \in Names(m, x)
    BY NameIs
  <2>3. \A a, b \in Names(m, x) : a = b
    BY <1>4 DEF Fits1
  <2>4. CASE e.name = None
    <3>1. Names(m, x) = N
      BY <1>2, <2>4
    <3>2. QED
      BY <2>1, <2>2, <2>3, <2>4, <3>1
  <2>5. CASE e.name # None
    <3>1. e.name \in Names(m, x)
      BY <1>2, <2>5
    <3>2. QED
      BY <2>2, <2>3, <2>5, <3>1
  <2>6. QED
    BY <2>4, <2>5
<1>8. Position(x) = {i \in DOMAIN I : I[i] = x} /\ (Position(x) = {} <=> Of(ds, x) = {})
  BY PositionIs
<1>9. Ids(m) = IF Of(ds, x) = {} THEN Append(I, x) ELSE I
  BY IdsMore
<1>10. /\ DOMAIN calls = DOMAIN I /\ (\A i \in DOMAIN I : calls[i] = Entry(ds, I[i]))
       /\ DOMAIN CallsMeant(m) = DOMAIN Ids(m)
       /\ CallsMeant(m) = [i \in DOMAIN Ids(m) |-> Entry(m, Ids(m)[i])]
  BY CallsAre
<1>11. IsSeq(I) /\ IsSeq(calls) /\ Len(calls) = Len(I) /\ DOMAIN I = 1 .. Len(I) /\ Len(I) \in Nat
  BY CallsSeq, AllListed DEF Listed
<1>12. m \in Seq(Deltas)
  BY MoreDelta
<1>13. CASE Of(ds, x) = {}
  <2> DEFINE r == [id |-> f.id, name |-> f.name, args |-> f.args]
  <2>1. calls' = Append(calls, r)
    BY <1>1, <1>8, <1>13 DEF Accumulate
  <2>2. r = Entry(m, x)
    <3>1. A = <<>> /\ N = {}
      BY <1>13, AllListed DEF Listed, Names
    <3>2. <<>> \o e.args = e.args
      BY <1>1, ConcatEmptySeq
    <3>3. Name(ds, x) = None
      BY <3>1, NameIs
    <3>4. Args(m, x) = e.args /\ Name(m, x) = e.name
      BY <1>2, <1>7, <3>1, <3>2, <3>3
    <3>5. QED
      BY <1>1, <3>4 DEF Entry
  <2> HIDE DEF r
  <2>3. IsSeq(CallsMeant(m)) /\ Len(CallsMeant(m)) = Len(Ids(m))
    BY <1>12, CallsSeq
  <2>4. /\ Len(Ids(m)) = Len(I) + 1 /\ DOMAIN Ids(m) = 1 .. Len(I) + 1
        /\ \A i \in 1 .. Len(I) : Ids(m)[i] = I[i]
        /\ Ids(m)[Len(I) + 1] = x
    BY <1>9, <1>11, <1>13, AppendAny
  <2>5. /\ IsSeq(Append(calls, r)) /\ Len(Append(calls, r)) = Len(I) + 1
        /\ \A i \in 1 .. Len(I) : Append(calls, r)[i] = calls[i]
        /\ Append(calls, r)[Len(I) + 1] = r
    BY <1>11, AppendAny
  <2>6. \A i \in 1 .. Len(I) : I[i] # x
    BY <1>8, <1>11, <1>13
  <2>7. \A i \in 1 .. Len(I) : CallsMeant(m)[i] = calls[i]
    <3>1. SUFFICES ASSUME NEW i \in 1 .. Len(I)
                   PROVE  CallsMeant(m)[i] = calls[i]
      OBVIOUS
    <3>2. CallsMeant(m)[i] = Entry(m, I[i])
      BY <1>10, <1>11, <2>4
    <3>3. QED
      BY <1>5, <1>10, <1>11, <2>6, <3>2
  <2>8. CallsMeant(m)[Len(I) + 1] = r
    BY <1>10, <1>11, <2>2, <2>4
  <2> HIDE DEF m, I
  <2>9. \A i \in 1 .. Len(CallsMeant(m)) : CallsMeant(m)[i] = Append(calls, r)[i]
    BY <1>11, <2>3, <2>4, <2>5, <2>7, <2>8
  <2>10. CallsMeant(m) = Append(calls, r)
    BY <2>3, <2>4, <2>5, <2>9, SameSeq
  <2>11. QED
    BY <1>6, <2>1, <2>10 DEF m
<1>14. CASE Of(ds, x) # {}
  <2> DEFINE new(i) == IF calls[i].id # f.id THEN calls[i]
                       ELSE [calls[i] EXCEPT !.name = IF f.name = None THEN @ ELSE f.name,
                                             !.args = @ \o f.args]
  <2>1. calls' = [i \in DOMAIN calls |-> new(i)]
    BY <1>1, <1>8, <1>14 DEF Accumulate
  <2>2. Ids(m) = I
    BY <1>9, <1>14
  <2>3. ASSUME NEW i \in DOMAIN I
        PROVE  new(i) = Entry(m, I[i])
    <3>1. calls[i] = Entry(ds, I[i]) /\ calls[i].id = I[i]
      BY <1>10, EntryIs
    <3>2. CASE I[i] # x
      BY <1>1, <1>5, <3>1, <3>2
    <3>3. CASE I[i] = x
      <4>1. new(i) = [Entry(ds, x) EXCEPT !.name = IF e.name = None THEN @ ELSE e.name,
                                          !.args = @ \o e.args]
        BY <1>1, <3>1, <3>3
      <4>2. Entry(m, x) = [id |-> x, name |-> IF e.name = None THEN Name(ds, x) ELSE e.name,
                           args |-> A \o e.args]
        BY <1>2, <1>7 DEF Entry
      <4>3. QED
        BY <3>3, <4>1, <4>2, Zenon DEF Entry
    <3>4. QED
      BY <3>2, <3>3
  <2> HIDE DEF new
  <2>4. calls' = CallsMeant(m)
    BY <1>10, <2>1, <2>2, <2>3
  <2>5. QED
    BY <1>6, <2>4
<1>15. QED
  BY <1>13, <1>14

-----------------------------------------------------------------------------
(* the answer *)

\* What the deltas answer, if their frames are in order.
Answer(ds) ==
  IF Ids(ds) = <<>>
  THEN IF Stops(ds)[Len(Stops(ds))] = "tool_calls" THEN Meaningless
       ELSE [type |-> "final", text |-> Words(ds)]
  ELSE IF \A k \in Fragments(ds) : IsGood(ds, IdAt(ds, k))
       THEN [type |-> "tools", text |-> Words(ds), calls |-> CallsMeant(ds)]
       ELSE Meaningless

\* A call that does not fit makes the answer worthless, whatever follows.
LEMMA Hopeless ==
  ASSUME NEW s, NEW t, Begins(s, t), NEW k \in Fragments(s), ~Fits1(s, IdAt(s, k))
  PROVE  Answer(t) = Meaningless
<1> DEFINE x == IdAt(s, k)
<1>1. /\ Len(s) \in Nat /\ Len(t) \in Nat /\ Len(s) <= Len(t) /\ t \in Seq(Deltas)
      /\ DOMAIN s = 1 .. Len(s) /\ DOMAIN t = 1 .. Len(t) /\ \A j \in 1 .. Len(s) : t[j] = s[j]
  BY LenProperties DEF Begins
<1>2. k \in 1 .. Len(s) /\ k \in Fragments(t)
  BY <1>1 DEF Fragments
<1>3. IdAt(t, k) = x
  BY <1>2, IdStays
<1>4. Names(s, x) \subseteq Names(t, x)
  BY OfStays
<1>5. /\ Len(Args(s, x)) \in Nat /\ Len(Args(t, x)) \in Nat
      /\ Len(Args(s, x)) <= Len(Args(t, x))
  BY ArgsGrow
<1>6. ~IsGood(t, x)
  <2>1. SUFFICES ASSUME IsGood(t, x)
                 PROVE  Fits1(s, x)
    OBVIOUS
  <2>2. PICK n \in Names(t, x) : Names(t, x) = {n} /\ n # ""
    BY <2>1 DEF IsGood
  <2>3. Len(Args(t, x)) <= ArgLimit /\ ArgLimit \in Nat
    BY <2>1, StreamAssumption DEF IsGood
  <2>4. (\A a, b \in Names(s, x) : a = b) /\ "" \notin Names(s, x)
    BY <1>4, <2>2
  <2>5. Len(Args(s, x)) <= ArgLimit
    BY <1>5, <2>3
  <2>6. QED
    BY <2>4, <2>5 DEF Fits1
<1>7. Ids(t) # <<>>
  <2>1. k \in Of(t, x)
    BY <1>2, <1>3 DEF Of
  <2>2. \E i \in DOMAIN Ids(t) : Ids(t)[i] = x
    BY <1>1, <2>1, AllListed DEF Listed
  <2>3. QED
    BY <2>2, NoneIs
<1>8. QED
  BY <1>2, <1>3, <1>6, <1>7 DEF Answer

\* What the sink completes with is the answer.
LEMMA CompletionIs ==
  ASSUME NEW ds \in Seq(Deltas), Fits(ds), calls = CallsMeant(ds), text = Words(ds),
         reason = Stops(ds)[Len(Stops(ds))]
  PROVE  \/ Completion = Failed("calls") /\ Answer(ds) = Meaningless
         \/ Completion = Answer(ds) /\ Completion.type \in {"final", "tools"}
<1>1. DOMAIN calls = DOMAIN Ids(ds) /\ \A i \in DOMAIN Ids(ds) : calls[i] = Entry(ds, Ids(ds)[i])
  BY CallsAre
<1>2. /\ IsSeq(Ids(ds)) /\ IsSeq(calls) /\ Len(calls) = Len(Ids(ds))
  BY CallsSeq, AllListed DEF Listed
<1>3. calls = <<>> <=> Ids(ds) = <<>>
  <2>1. \A s : s = <<>> => Len(s) = 0
    BY NoneIs
  <2>2. \A s : IsSeq(s) /\ Len(s) = 0 => s = <<>>
    <3>1. SUFFICES ASSUME NEW s, IsSeq(s), Len(s) = 0
                   PROVE  s = <<>>
      OBVIOUS
    <3>2. \A i \in 1 .. Len(s) : s[i] = <<>>[i]
      BY <3>1
    <3>3. QED
      BY <3>1, <3>2, NoneIs, SameSeq
  <2>3. QED
    BY <1>2, <2>1, <2>2
<1>4. CASE Ids(ds) = <<>>
  <2>1. Completion = IF reason = "tool_calls" THEN Failed("calls") ELSE [type |-> "final", text |-> text]
    BY <1>3, <1>4 DEF Completion
  <2>2. Answer(ds) = IF reason = "tool_calls" THEN Meaningless ELSE [type |-> "final", text |-> text]
    BY <1>4 DEF Answer
  <2>3. QED
    BY <2>1, <2>2
<1>5. CASE Ids(ds) # <<>>
  <2>1. ASSUME NEW x, Of(ds, x) # {}
        PROVE  IsGood(ds, x) <=> Name(ds, x) # None /\ IsObject(Args(ds, x))
    <3>1. Fits1(ds, x)
      BY DEF Fits
    <3>2. /\ Names(ds, x) = {} => Name(ds, x) = None
          /\ Names(ds, x) # {} => Name(ds, x) \in Names(ds, x) /\ Name(ds, x) # None
      BY NameIs
    <3>3. Name(ds, x) # None => Names(ds, x) = {Name(ds, x)} /\ Name(ds, x) # ""
      BY <3>1, <3>2 DEF Fits1
    <3>4. QED
      BY <3>1, <3>2, <3>3 DEF IsGood, Fits1
  <2>2. \A x : Of(ds, x) # {} <=> \E i \in DOMAIN Ids(ds) : Ids(ds)[i] = x
    BY AllListed DEF Listed
  <2>3. \A x : Of(ds, x) # {} <=> \E k \in Fragments(ds) : IdAt(ds, k) = x
    BY DEF Of
  <2>4. (\A k \in Fragments(ds) : IsGood(ds, IdAt(ds, k)))
          <=> \A i \in DOMAIN Ids(ds) : IsGood(ds, Ids(ds)[i])
    BY <2>2, <2>3
  <2>5. (\A i \in DOMAIN Ids(ds) : IsGood(ds, Ids(ds)[i]))
          <=> \A i \in DOMAIN calls : calls[i].name # None /\ IsObject(calls[i].args)
    <3>1. \A i \in DOMAIN Ids(ds) : Of(ds, Ids(ds)[i]) # {}
      BY <2>2
    <3>2. \A i \in DOMAIN Ids(ds) : calls[i].name = Name(ds, Ids(ds)[i]) /\ calls[i].args = Args(ds, Ids(ds)[i])
      BY <1>1, EntryIs
    <3>3. QED
      BY <1>1, <2>1, <3>1, <3>2
  <2> DEFINE good == \A i \in DOMAIN calls : calls[i].name # None /\ IsObject(calls[i].args)
             tools == [type |-> "tools", text |-> text, calls |-> calls]
  <2>6. Completion = IF good THEN tools ELSE Failed("calls")
    BY <1>3, <1>5 DEF Completion
  <2>7. Answer(ds) = IF good THEN tools ELSE Meaningless
    BY <1>5, <2>4, <2>5 DEF Answer
  <2>8. tools.type = "tools"
    OBVIOUS
  <2> HIDE DEF good, tools
  <2>9. QED
    BY <2>6, <2>7, <2>8
<1>6. QED
  BY <1>4, <1>5

-----------------------------------------------------------------------------
(* one more line *)

\* What lines say and which of them speak.
LEMMA LineFields ==
  ASSUME NEW x \in Lines
  PROVE  /\ x.says \in Seq(Deltas)
         /\ ~Speaks(x) => x.says = <<>> /\ x # Done /\ x # Junk
         /\ Speaks(Done) /\ Speaks(Junk) /\ ~Speaks(Blank) /\ ~Speaks(Comment)
         /\ Done # Junk /\ Blank # Comment
<1>1. <<>> \in Seq(Deltas)
  OBVIOUS
<1>2. /\ Blank.says = <<>> /\ Comment.says = <<>> /\ Done.says = <<>> /\ Junk.says = <<>>
      /\ Blank.kind = "blank" /\ Comment.kind = "comment" /\ Done.kind = "done" /\ Junk.kind = "junk"
  BY DEF Blank, Comment, Done, Junk
<1>3. x \in [kind : {"data"}, says : Seq(Deltas)] => x.says \in Seq(Deltas)
  OBVIOUS
<1>4. x.says \in Seq(Deltas)
  BY <1>1, <1>2, <1>3 DEF Lines
<1>5. Done # Junk /\ Blank # Comment /\ Done # Blank /\ Done # Comment /\ Junk # Blank /\ Junk # Comment
  BY <1>2
<1>6. QED
  BY <1>2, <1>4, <1>5 DEF Speaks

\* The elements of a sequence of lines and of one with a line more.
LEMMA MoreLine ==
  ASSUME NEW M \in Seq(Lines), NEW x \in Lines
  PROVE  /\ Append(M, x) \in Seq(Lines) /\ Len(Append(M, x)) = Len(M) + 1 /\ Len(M) \in Nat
         /\ DOMAIN M = 1 .. Len(M) /\ DOMAIN Append(M, x) = 1 .. Len(M) + 1
         /\ \A k \in 1 .. Len(M) : Append(M, x)[k] = M[k] /\ M[k] \in Lines
         /\ Append(M, x)[Len(M) + 1] = x
<1>1. /\ Append(M, x) \in Seq(Lines) /\ Len(Append(M, x)) = Len(M) + 1
      /\ \A k \in 1 .. Len(M) : Append(M, x)[k] = M[k]
      /\ Append(M, x)[Len(M) + 1] = x
  BY AppendProperties
<1>2. Len(M) \in Nat /\ DOMAIN M = 1 .. Len(M) /\ DOMAIN Append(M, x) = 1 .. Len(Append(M, x))
  BY <1>1, LenProperties
<1>3. \A k \in 1 .. Len(M) : M[k] \in Lines
  BY ElementOfSeq
<1>4. QED
  BY <1>1, <1>2, <1>3

\* What a sequence with a line more contains.
LEMMA ContainsMore ==
  ASSUME NEW M \in Seq(Lines), NEW x \in Lines, NEW y
  PROVE  Contains(Append(M, x), y) <=> Contains(M, y) \/ x = y
<1>1. /\ Len(Append(M, x)) = Len(M) + 1 /\ Len(M) \in Nat
      /\ \A k \in 1 .. Len(M) : Append(M, x)[k] = M[k]
      /\ Append(M, x)[Len(M) + 1] = x
  BY MoreLine
<1>2. QED
  BY <1>1 DEF Contains

\* The empty sequence contains nothing.
LEMMA ContainsNone == \A y : ~Contains(<<>>, y)
  BY NoneIs DEF Contains

\* A line more adds what it says.
LEMMA SaidMore ==
  ASSUME NEW M \in Seq(Lines), NEW x \in Lines
  PROVE  /\ Said(M) \in Seq(Deltas) /\ x.says \in Seq(Deltas)
         /\ Said(Append(M, x)) = Said(M) \o x.says
<1> DEFINE n == Len(M)
           m == Append(M, x)
           f == [i \in DOMAIN M |-> M[i].says]
           g == [i \in DOMAIN m |-> m[i].says]
<1>1. /\ n \in Nat /\ DOMAIN M = 1 .. n /\ DOMAIN m = 1 .. n + 1
      /\ \A k \in 1 .. n : m[k] = M[k] /\ M[k] \in Lines
      /\ m[n + 1] = x
  BY MoreLine
<1>2. Said(M) = FlattenSeq(f) /\ Said(m) = FlattenSeq(g)
  BY DEF Said
<1>3. (\A k \in 1 .. n : g[k] = f[k]) /\ g[n + 1] = x.says
  BY <1>1
<1>4. \A y \in Lines : y.says \in Seq(Deltas)
  BY LineFields
<1>5. (\A k \in 1 .. n : f[k] \in Seq(Deltas)) /\ g[n + 1] \in Seq(Deltas)
  BY <1>1, <1>3, <1>4
<1>6. f = [k \in 1 .. n |-> f[k]] /\ g = [k \in 1 .. n + 1 |-> g[k]]
  BY <1>1
<1> HIDE DEF f, g, n
<1>7. f \in [1 .. n -> Seq(Deltas)] /\ g \in [1 .. n + 1 -> Seq(Deltas)]
  BY <1>1, <1>3, <1>5, <1>6, Mapped
<1>8. FlattenSeq(f) \in Seq(Deltas) /\ FlattenSeq(g) = FlattenSeq(f) \o g[n + 1]
  BY <1>1, <1>3, <1>7, FlattenMore
<1>9. QED
  BY <1>2, <1>3, <1>4, <1>8 DEF m

\* No line says nothing.
LEMMA SaidNone == Said(<<>>) = <<>>
<1>1. DOMAIN <<>> = {}
  OBVIOUS
<1>2. QED
  BY <1>1, FlattenNothing DEF Said

\* One line says what it says.
LEMMA SaidOne ==
  ASSUME NEW x \in Lines
  PROVE  Said(<<x>>) = x.says
<1>1. <<>> \in Seq(Lines) /\ Append(<<>>, x) = <<x>>
  OBVIOUS
<1>2. Said(<<x>>) = Said(<<>>) \o x.says /\ x.says \in Seq(Deltas)
  <2>1. Said(Append(<<>>, x)) = Said(<<>>) \o x.says /\ x.says \in Seq(Deltas)
    BY <1>1, SaidMore
  <2>2. QED
    BY <1>1, <2>1
<1>3. <<>> \o x.says = x.says
  BY <1>2, ConcatEmptySeq
<1>4. QED
  BY <1>2, <1>3, SaidNone

-----------------------------------------------------------------------------
(* frames *)

\* The open frame begins after line c.
Frame(M, c) ==
  /\ c \in 0 .. Len(M)
  /\ c = 0 \/ M[c] = Blank
  /\ \A k \in c + 1 .. Len(M) : M[k] # Blank

\* A line of the open frame carries data.
Spoken(M, c) == \E k \in c + 1 .. Len(M) : Speaks(M[k])

\* What line j costs the frame it stands in, and whether some frame costs too much.
Cost(line, j, s) == IF line = Blank THEN 1 ELSE IF 3 * j = s + 2 THEN 2 ELSE 3
Big(M, s) ==
  \E i, j \in DOMAIN M : SameFrame(M, i, j) /\ 3 * (j - i) + Cost(M[j], j, s) > FrameLimit

\* A line more stands in the open frame, which began behind line c.
LEMMA SameFrameMore ==
  ASSUME NEW M \in Seq(Lines), NEW x \in Lines, NEW c, Frame(M, c)
  PROVE  /\ \A i, j \in 1 .. Len(M) : SameFrame(Append(M, x), i, j) <=> SameFrame(M, i, j)
         /\ \A i \in 1 .. Len(M) + 1 : SameFrame(Append(M, x), i, Len(M) + 1) <=> c + 1 <= i
         /\ \A i \in 1 .. Len(M) : ~SameFrame(Append(M, x), Len(M) + 1, i)
<1> DEFINE n == Len(M)
           m == Append(M, x)
<1>1. n \in Nat /\ \A k \in 1 .. n : m[k] = M[k]
  BY MoreLine
<1>2. /\ c \in 0 .. n
      /\ c = 0 \/ M[c] = Blank
      /\ \A k \in c + 1 .. n : M[k] # Blank
  BY DEF Frame
<1> HIDE DEF n, m
<1>3. ASSUME NEW i \in 1 .. n, NEW j \in 1 .. n
      PROVE  SameFrame(m, i, j) <=> SameFrame(M, i, j)
  <2>1. \A k \in i .. j - 1 : m[k] = M[k]
    BY <1>1
  <2>2. QED
    BY <2>1 DEF SameFrame
<1>4. ASSUME NEW i \in 1 .. n + 1
      PROVE  SameFrame(m, i, n + 1) <=> c + 1 <= i
  <2>1. SameFrame(m, i, n + 1) <=> \A k \in i .. n : M[k] # Blank
    <3>1. i <= n + 1 /\ (n + 1) - 1 = n
      BY <1>1
    <3>2. \A k \in i .. n : m[k] = M[k]
      BY <1>1
    <3>3. QED
      BY <3>1, <3>2 DEF SameFrame
  <2>2. c + 1 <= i => \A k \in i .. n : M[k] # Blank
    BY <1>1, <1>2
  <2>3. ASSUME ~(c + 1 <= i)
        PROVE  c \in i .. n /\ M[c] = Blank
    BY <1>1, <1>2, <2>3
  <2>4. QED
    BY <2>1, <2>2, <2>3
<1>5. \A i \in 1 .. n : ~(n + 1 <= i)
  BY <1>1
<1>6. QED
  BY <1>3, <1>4, <1>5 DEF SameFrame, n, m

\* A line more that speaks is the second document of a frame that has one.
LEMMA TwoInOneMore ==
  ASSUME NEW M \in Seq(Lines), NEW x \in Lines, NEW c, Frame(M, c)
  PROVE  TwoInOne(Append(M, x)) <=> TwoInOne(M) \/ (Speaks(x) /\ Spoken(M, c))
<1> DEFINE n == Len(M)
           m == Append(M, x)
<1>1. /\ n \in Nat /\ DOMAIN M = 1 .. n /\ DOMAIN m = 1 .. n + 1
      /\ \A k \in 1 .. n : m[k] = M[k] /\ m[n + 1] = x
  BY MoreLine
<1>2. /\ \A i, j \in 1 .. n : SameFrame(m, i, j) <=> SameFrame(M, i, j)
      /\ \A i \in 1 .. n + 1 : SameFrame(m, i, n + 1) <=> c + 1 <= i
      /\ \A i \in 1 .. n : ~SameFrame(m, n + 1, i)
  BY SameFrameMore
<1>3. c \in 0 .. n /\ m[n + 1] = x
  <2>1. m[n + 1] = x
    BY MoreLine
  <2>2. QED
    BY <2>1 DEF Frame
<1> HIDE DEF n, m
<1>4. ASSUME TwoInOne(M)
      PROVE  TwoInOne(m)
  <2>1. PICK i \in 1 .. n, j \in 1 .. n : i # j /\ Speaks(M[i]) /\ Speaks(M[j]) /\ SameFrame(M, i, j)
    BY <1>1, <1>4 DEF TwoInOne
  <2>2. i \in 1 .. n + 1 /\ j \in 1 .. n + 1 /\ Speaks(m[i]) /\ Speaks(m[j]) /\ SameFrame(m, i, j)
    BY <1>1, <1>2, <2>1
  <2>3. QED
    BY <1>1, <2>1, <2>2 DEF TwoInOne
<1>5. ASSUME Speaks(x), Spoken(M, c)
      PROVE  TwoInOne(m)
  <2>1. PICK i \in c + 1 .. n : Speaks(M[i])
    BY <1>5 DEF Spoken, n
  <2>2. i \in 1 .. n + 1 /\ n + 1 \in 1 .. n + 1 /\ i # n + 1 /\ c + 1 <= i /\ m[i] = M[i]
    BY <1>1, <1>3, <2>1
  <2>3. QED
    BY <1>1, <1>2, <1>3, <1>5, <2>1, <2>2 DEF TwoInOne
<1>6. ASSUME TwoInOne(m)
      PROVE  TwoInOne(M) \/ (Speaks(x) /\ Spoken(M, c))
  <2>1. PICK i \in 1 .. n + 1, j \in 1 .. n + 1 :
          i # j /\ Speaks(m[i]) /\ Speaks(m[j]) /\ SameFrame(m, i, j)
    BY <1>1, <1>6 DEF TwoInOne
  <2>2. CASE i \in 1 .. n /\ j \in 1 .. n
    <3>1. Speaks(M[i]) /\ Speaks(M[j]) /\ SameFrame(M, i, j)
      BY <1>1, <1>2, <2>1, <2>2
    <3>2. QED
      BY <1>1, <2>1, <2>2, <3>1 DEF TwoInOne
  <2>3. CASE j = n + 1
    <3>1. c + 1 <= i /\ i \in c + 1 .. n /\ m[i] = M[i]
      <4>1. c + 1 <= i
        BY <1>2, <2>1, <2>3
      <4>2. i \in 1 .. n
        BY <1>1, <2>1, <2>3
      <4>3. QED
        BY <1>1, <1>3, <4>1, <4>2
    <3>2. QED
      BY <1>3, <2>1, <2>3, <3>1 DEF Spoken, n
  <2>4. CASE i = n + 1 /\ j # n + 1
    BY <1>1, <1>2, <2>1, <2>4
  <2>5. QED
    BY <1>1, <2>2, <2>3, <2>4
<1>7. QED
  BY <1>4, <1>5, <1>6 DEF m

\* A line more makes the open frame too big, or no frame.
LEMMA BigMore ==
  ASSUME NEW M \in Seq(Lines), NEW x \in Lines, NEW c, Frame(M, c), NEW s \in Nat
  PROVE  Big(Append(M, x), s)
           <=> Big(M, s) \/ 3 * (Len(M) - c) + Cost(x, Len(M) + 1, s) > FrameLimit
<1> DEFINE n == Len(M)
           m == Append(M, x)
           cost == Cost(x, n + 1, s)
<1>1. /\ n \in Nat /\ DOMAIN M = 1 .. n /\ DOMAIN m = 1 .. n + 1
      /\ \A k \in 1 .. n : m[k] = M[k]
      /\ m[n + 1] = x
  BY MoreLine
<1>2. /\ \A i, j \in 1 .. n : SameFrame(m, i, j) <=> SameFrame(M, i, j)
      /\ \A i \in 1 .. n + 1 : SameFrame(m, i, n + 1) <=> c + 1 <= i
      /\ \A i \in 1 .. n : ~SameFrame(m, n + 1, i)
  BY SameFrameMore
<1>3. c \in 0 .. n
  BY DEF Frame
<1>4. cost \in {1, 2, 3} /\ FrameLimit \in Nat
  BY StreamAssumption DEF Cost
<1>5. \A j \in 1 .. n : Cost(m[j], j, s) = Cost(M[j], j, s)
  BY <1>1
<1>6. Cost(m[n + 1], n + 1, s) = cost
  BY <1>1
<1> HIDE DEF n, m, cost
<1>7. ASSUME Big(M, s)
      PROVE  Big(m, s)
  <2>1. PICK i \in 1 .. n, j \in 1 .. n :
          SameFrame(M, i, j) /\ 3 * (j - i) + Cost(M[j], j, s) > FrameLimit
    BY <1>1, <1>7 DEF Big
  <2>2. i \in 1 .. n + 1 /\ j \in 1 .. n + 1 /\ SameFrame(m, i, j)
    BY <1>1, <1>2, <2>1
  <2>3. QED
    BY <1>1, <1>5, <2>1, <2>2 DEF Big
<1>8. ASSUME 3 * (n - c) + cost > FrameLimit
      PROVE  Big(m, s)
  <2>1. c + 1 \in 1 .. n + 1 /\ n + 1 \in 1 .. n + 1 /\ (n + 1) - (c + 1) = n - c
    BY <1>1, <1>3
  <2>2. SameFrame(m, c + 1, n + 1)
    BY <1>2, <1>3, <2>1
  <2>3. 3 * ((n + 1) - (c + 1)) + Cost(m[n + 1], n + 1, s) > FrameLimit
    BY <1>6, <1>8, <2>1
  <2>4. QED
    BY <1>1, <2>1, <2>2, <2>3 DEF Big
<1>9. ASSUME Big(m, s)
      PROVE  Big(M, s) \/ 3 * (n - c) + cost > FrameLimit
  <2>1. PICK i \in 1 .. n + 1, j \in 1 .. n + 1 :
          SameFrame(m, i, j) /\ 3 * (j - i) + Cost(m[j], j, s) > FrameLimit
    BY <1>1, <1>9 DEF Big
  <2>2. CASE i \in 1 .. n /\ j \in 1 .. n
    <3>1. SameFrame(M, i, j) /\ 3 * (j - i) + Cost(M[j], j, s) > FrameLimit
      BY <1>2, <1>5, <2>1, <2>2
    <3>2. QED
      BY <1>1, <2>2, <3>1 DEF Big
  <2>3. CASE j = n + 1
    <3>1. c + 1 <= i
      BY <1>2, <2>1, <2>3
    <3>2. 3 * (n + 1 - i) + cost > FrameLimit
      <4>1. Cost(m[j], j, s) = cost
        BY <1>6, <2>3
      <4>2. 3 * (j - i) + cost > FrameLimit
        BY <2>1, <4>1
      <4>3. 3 * (j - i) = 3 * (n + 1 - i)
        BY <1>1, <2>3
      <4>4. QED
        BY <4>2, <4>3
    <3>3. 3 * (n - c) + cost > FrameLimit
      BY <1>1, <1>3, <1>4, <3>1, <3>2
    <3>4. QED
      BY <3>3
  <2>4. CASE i = n + 1 /\ j # n + 1
    BY <1>1, <1>2, <2>1, <2>4
  <2>5. QED
    BY <1>1, <2>2, <2>3, <2>4
<1>10. QED
  BY <1>7, <1>8, <1>9 DEF n, m, cost

\* What is wrong with some lines is wrong with all that begin with them.
LEMMA WrongStays ==
  ASSUME NEW M \in Seq(Lines), NEW L \in Seq(Lines), Len(M) <= Len(L),
         \A k \in 1 .. Len(M) : L[k] = M[k], NEW s
  PROVE  /\ TwoInOne(M) => TwoInOne(L)
         /\ Big(M, s) => Big(L, s)
         /\ \A y : Contains(M, y) => Contains(L, y)
<1>1. /\ Len(M) \in Nat /\ Len(L) \in Nat /\ DOMAIN M = 1 .. Len(M) /\ DOMAIN L = 1 .. Len(L)
  BY LenProperties
<1>2. \A i, j \in 1 .. Len(M) : SameFrame(M, i, j) => SameFrame(L, i, j)
  <2>1. SUFFICES ASSUME NEW i \in 1 .. Len(M), NEW j \in 1 .. Len(M), SameFrame(M, i, j)
                 PROVE  SameFrame(L, i, j)
    OBVIOUS
  <2>2. \A k \in i .. j - 1 : L[k] = M[k]
    BY <1>1
  <2>3. QED
    BY <2>1, <2>2 DEF SameFrame
<1>3. \A k \in 1 .. Len(M) : k \in 1 .. Len(L)
  BY <1>1
<1>4. TwoInOne(M) => TwoInOne(L)
  BY <1>1, <1>2, <1>3 DEF TwoInOne
<1>5. Big(M, s) => Big(L, s)
  <2>1. SUFFICES ASSUME Big(M, s)
                 PROVE  Big(L, s)
    OBVIOUS
  <2>2. PICK i \in 1 .. Len(M), j \in 1 .. Len(M) :
          SameFrame(M, i, j) /\ 3 * (j - i) + Cost(M[j], j, s) > FrameLimit
    BY <1>1, <2>1 DEF Big
  <2>3. Cost(L[j], j, s) = Cost(M[j], j, s)
    OBVIOUS
  <2>4. QED
    BY <1>1, <1>2, <1>3, <2>2, <2>3 DEF Big
<1>6. \A y : Contains(M, y) => Contains(L, y)
  BY <1>1, <1>3 DEF Contains
<1>7. QED
  BY <1>4, <1>5, <1>6

\* Of whole lines it does not matter where the network stands.
LEMMA BigAnywhere ==
  ASSUME NEW M \in Seq(Lines), NEW s \in Nat, NEW t \in Nat, 3 * Len(M) <= s, s <= t
  PROVE  Big(M, s) <=> Big(M, t)
<1>1. Len(M) \in Nat /\ DOMAIN M = 1 .. Len(M)
  BY LenProperties
<1>2. \A j \in 1 .. Len(M) : 3 * j # s + 2 /\ 3 * j # t + 2
  BY <1>1
<1>3. \A j \in 1 .. Len(M) : Cost(M[j], j, s) = Cost(M[j], j, t)
  BY <1>2 DEF Cost
<1>4. QED
  BY <1>1, <1>3 DEF Big

-----------------------------------------------------------------------------
(* the decoder, line by line *)

\* Decoders in the middle of a chunk.
Readers == [buffer : Seq(1 .. Units), data : Seq(Lines), size : Nat, frames : Seq(Lines),
            failed : BOOLEAN]

\* What the frames read so far, and the data of the open one, have of lines M, when
\* P was said before and done tells whether [DONE] was among it.
Content(d, M, P, done) ==
  /\ Contains(d.frames, Junk) => Contains(M, Junk) \/ TwoInOne(M)
  /\ ~Contains(d.frames, Junk) =>
       /\ Said(M) = P \o Said(d.frames) \o Said(d.data)
       /\ Contains(M, Done) <=> done \/ Contains(d.frames, Done) \/ Contains(d.data, Done)
       /\ Contains(M, Junk) <=> Contains(d.data, Junk)
       /\ TwoInOne(M) <=> Len(d.data) >= 2

\* The fields of a decoder after a frame was dispatched.
LEMMA DispatchIs ==
  ASSUME NEW d \in Readers
  PROVE  /\ DispatchFrame(d) \in Readers
         /\ DispatchFrame(d).buffer = d.buffer /\ DispatchFrame(d).data = <<>>
         /\ DispatchFrame(d).size = 0 /\ DispatchFrame(d).failed = d.failed
         /\ DispatchFrame(d).frames = IF d.data = <<>> THEN d.frames
              ELSE Append(d.frames, IF Len(d.data) = 1 THEN d.data[1] ELSE Junk)
<1> DEFINE fs == IF d.data = <<>> THEN d.frames
                 ELSE Append(d.frames, IF Len(d.data) = 1 THEN d.data[1] ELSE Junk)
<1>1. /\ d.buffer \in Seq(1 .. Units) /\ d.data \in Seq(Lines) /\ d.frames \in Seq(Lines)
      /\ d.failed \in BOOLEAN
      /\ d = [buffer |-> d.buffer, data |-> d.data, size |-> d.size, frames |-> d.frames,
              failed |-> d.failed]
  BY DEF Readers
<1>2. fs \in Seq(Lines)
  <2>1. Junk \in Lines
    BY DEF Lines
  <2>2. CASE d.data = <<>>
    BY <1>1, <2>2
  <2>3. CASE d.data # <<>>
    <3>1. Len(d.data) = 1 => d.data[1] \in Lines
      <4>1. Len(d.data) = 1 => 1 \in 1 .. Len(d.data)
        OBVIOUS
      <4>2. QED
        BY <1>1, <4>1, ElementOfSeq
    <3>2. (IF Len(d.data) = 1 THEN d.data[1] ELSE Junk) \in Lines
      BY <2>1, <3>1
    <3>3. QED
      BY <1>1, <2>3, <3>2, AppendProperties
  <2>4. QED
    BY <2>2, <2>3
<1>3. DispatchFrame(d) = [d EXCEPT !.data = <<>>, !.size = 0, !.frames = fs]
  BY DEF DispatchFrame
<1>4. <<>> \in Seq(Lines) /\ 0 \in Nat
  OBVIOUS
<1> HIDE DEF fs
<1>5. /\ [d EXCEPT !.data = <<>>, !.size = 0, !.frames = fs] \in Readers
      /\ [d EXCEPT !.data = <<>>, !.size = 0, !.frames = fs].buffer = d.buffer
      /\ [d EXCEPT !.data = <<>>, !.size = 0, !.frames = fs].data = <<>>
      /\ [d EXCEPT !.data = <<>>, !.size = 0, !.frames = fs].size = 0
      /\ [d EXCEPT !.data = <<>>, !.size = 0, !.frames = fs].failed = d.failed
      /\ [d EXCEPT !.data = <<>>, !.size = 0, !.frames = fs].frames = fs
  BY <1>2, <1>4 DEF Readers
<1>6. QED
  BY <1>3, <1>5 DEF fs

\* Dispatching the frame moves what was said from the data to the frames.
LEMMA ContentDispatch ==
  ASSUME NEW d \in Readers, NEW M, NEW P \in Seq(Deltas), NEW done \in BOOLEAN, Content(d, M, P, done)
  PROVE  Content(DispatchFrame(d), M, P, done)
<1> DEFINE e == DispatchFrame(d)
           x == IF Len(d.data) = 1 THEN d.data[1] ELSE Junk
<1>1. d.data \in Seq(Lines) /\ d.frames \in Seq(Lines)
  BY DEF Readers
<1>2. e.data = <<>> /\ e.frames = IF d.data = <<>> THEN d.frames ELSE Append(d.frames, x)
  BY DispatchIs
<1>3. Junk \in Lines /\ Len(d.data) \in Nat /\ Done # Junk
  <2>1. Junk \in Lines
    BY DEF Lines
  <2>2. QED
    BY <1>1, <2>1, LenProperties, LineFields
<1>4. (\A y : ~Contains(<<>>, y)) /\ Said(<<>>) = <<>> /\ ~(Len(<<>>) >= 2)
  BY ContainsNone, SaidNone, NoneIs
<1>5. Said(d.frames) \in Seq(Deltas) /\ Said(d.data) \in Seq(Deltas)
  BY <1>1, <1>3, SaidMore
<1> HIDE DEF e
<1>6. CASE d.data = <<>>
  BY <1>2, <1>6 DEF Content, e
<1>7. CASE d.data # <<>>
  <2>1. Len(d.data) # 0
    <3>1. SUFFICES ASSUME Len(d.data) = 0
                   PROVE  d.data = <<>>
      BY <1>7
    <3>2. QED
      BY <1>1, <3>1, EmptySeq
  <2>2. x \in Lines
    <3>1. Len(d.data) = 1 => 1 \in 1 .. Len(d.data)
      OBVIOUS
    <3>2. Len(d.data) = 1 => d.data[1] \in Lines
      BY <1>1, <3>1, ElementOfSeq
    <3>3. QED
      BY <1>3, <3>2
  <2> HIDE DEF x
  <2>3. \A y : Contains(e.frames, y) <=> Contains(d.frames, y) \/ x = y
    BY <1>1, <1>2, <1>7, <2>2, ContainsMore
  <2>4. CASE Contains(d.frames, Junk)
    BY <2>3, <2>4 DEF Content, e
  <2>5. CASE ~Contains(d.frames, Junk) /\ Len(d.data) = 1
    <3>1. d.data = <<x>>
      <4>1. x = d.data[1]
        BY <2>5 DEF x
      <4>2. d.data = <<d.data[1]>>
        BY <1>1, <2>5
      <4>3. QED
        BY <4>1, <4>2
    <3>2. Said(d.data) = x.says
      BY <2>2, <3>1, SaidOne
    <3>3. \A y : Contains(d.data, y) <=> x = y
      <4>1. Append(<<>>, x) = <<x>> /\ <<>> \in Seq(Lines)
        OBVIOUS
      <4>2. \A y : Contains(Append(<<>>, x), y) <=> Contains(<<>>, y) \/ x = y
        BY <2>2, <4>1, ContainsMore
      <4>3. QED
        BY <1>4, <3>1, <4>1, <4>2
    <3>4. Said(e.frames) = Said(d.frames) \o Said(d.data)
      BY <1>1, <1>2, <1>7, <2>2, <3>2, SaidMore
    <3>5. P \o Said(e.frames) \o Said(e.data) = P \o Said(d.frames) \o Said(d.data)
      <4>1. P \o (Said(d.frames) \o Said(d.data)) = (P \o Said(d.frames)) \o Said(d.data)
        BY <1>5, ConcatAssociative
      <4>2. Said(e.frames) \in Seq(Deltas)
        BY <1>5, <3>4, ConcatProperties
      <4>3. P \o Said(e.frames) \in Seq(Deltas)
        BY <4>2, ConcatProperties
      <4>4. (P \o Said(e.frames)) \o <<>> = P \o Said(e.frames)
        BY <4>3, ConcatEmptySeq
      <4>5. Said(e.data) = <<>>
        BY <1>2, <1>4
      <4>6. QED
        BY <3>4, <4>1, <4>4, <4>5, Zenon
    <3>6. ~Contains(d.data, Junk) => /\ Said(M) = P \o Said(d.frames) \o Said(d.data)
                                     /\ ~Contains(M, Junk) /\ ~TwoInOne(M)
      BY <2>5 DEF Content
    <3>7. Contains(d.data, Junk) => Contains(M, Junk)
      BY <2>5 DEF Content
    <3>8. Contains(M, Done) <=> done \/ Contains(d.frames, Done) \/ Contains(d.data, Done)
      BY <2>5 DEF Content
    <3>9. \A y : ~Contains(e.data, y)
      BY <1>2, <1>4
    <3>10. Contains(e.frames, Junk) <=> Contains(d.data, Junk)
      BY <2>3, <2>5, <3>3
    <3>11. Contains(M, Done) <=> done \/ Contains(e.frames, Done) \/ Contains(e.data, Done)
      BY <2>3, <3>3, <3>8, <3>9
    <3>12. ~(Len(e.data) >= 2)
      BY <1>2, <1>4
    <3>13. ~Contains(d.data, Junk) => Said(M) = P \o Said(e.frames) \o Said(e.data)
      BY <3>5, <3>6, Zenon
    <3>14. QED
      BY <3>6, <3>7, <3>9, <3>10, <3>11, <3>12, <3>13 DEF Content, e
  <2>6. CASE ~Contains(d.frames, Junk) /\ Len(d.data) # 1
    <3>1. Contains(e.frames, Junk)
      BY <2>3, <2>6 DEF x
    <3>2. Len(d.data) >= 2
      <4>1. Len(d.data) # 0 /\ Len(d.data) # 1 /\ Len(d.data) \in Nat
        BY <1>3, <2>1, <2>6
      <4>2. \A k \in Nat : k # 0 /\ k # 1 => k >= 2
        OBVIOUS
      <4>3. QED
        BY <4>1, <4>2
    <3>3. TwoInOne(M)
      BY <2>6, <3>2 DEF Content
    <3>4. QED
      BY <3>1, <3>3 DEF Content, e
  <2>7. QED
    BY <2>4, <2>5, <2>6
<1>8. QED
  BY <1>6, <1>7

\* A line that says nothing.
LEMMA ContentQuiet ==
  ASSUME NEW d \in Readers, NEW M \in Seq(Lines), NEW P, NEW done, Content(d, M, P, done),
         NEW x \in Lines, ~Speaks(x), NEW c, Frame(M, c)
  PROVE  Content(d, Append(M, x), P, done)
<1> DEFINE m == Append(M, x)
<1>1. x.says = <<>> /\ x # Done /\ x # Junk
  BY LineFields
<1>2. \A y : Contains(m, y) <=> Contains(M, y) \/ x = y
  BY ContainsMore
<1>3. TwoInOne(m) <=> TwoInOne(M)
  BY TwoInOneMore
<1>4. Said(m) = Said(M)
  <2>1. Said(m) = Said(M) \o <<>> /\ Said(M) \in Seq(Deltas)
    BY <1>1, SaidMore
  <2>2. QED
    BY <2>1, ConcatEmptySeq
<1> HIDE DEF m
<1>5. Content(d, m, P, done)
  BY <1>1, <1>2, <1>3, <1>4 DEF Content
<1>6. QED
  BY <1>5 DEF m

\* A line that speaks.
LEMMA ContentSpeaks ==
  ASSUME NEW d \in Readers, NEW M \in Seq(Lines), NEW P \in Seq(Deltas), NEW done \in BOOLEAN,
         Content(d, M, P, done),
         NEW x \in Lines, Speaks(x), NEW c, Frame(M, c), d.data = <<>> <=> ~Spoken(M, c),
         NEW e, e.frames = d.frames, e.data = Append(d.data, x)
  PROVE  Content(e, Append(M, x), P, done)
<1> DEFINE m == Append(M, x)
<1>1. d.data \in Seq(Lines) /\ d.frames \in Seq(Lines)
  BY DEF Readers
<1>2. \A y : /\ Contains(m, y) <=> Contains(M, y) \/ x = y
             /\ Contains(e.data, y) <=> Contains(d.data, y) \/ x = y
  BY <1>1, ContainsMore
<1>3. TwoInOne(m) <=> TwoInOne(M) \/ d.data # <<>>
  BY TwoInOneMore
<1>4. /\ Said(m) = Said(M) \o x.says /\ Said(M) \in Seq(Deltas) /\ x.says \in Seq(Deltas)
      /\ Said(e.data) = Said(d.data) \o x.says /\ Said(d.data) \in Seq(Deltas)
      /\ Said(d.frames) \in Seq(Deltas)
  BY <1>1, SaidMore
<1>5. Len(e.data) = Len(d.data) + 1 /\ Len(d.data) \in Nat
  BY <1>1, MoreLine
<1>6. d.data # <<>> <=> Len(d.data) >= 1
  <2>1. d.data = <<>> => Len(d.data) = 0
    BY NoneIs
  <2>2. Len(d.data) = 0 => d.data = <<>>
    BY <1>1, EmptySeq
  <2>3. QED
    BY <1>5, <2>1, <2>2
<1>7. Len(d.data) >= 2 => Len(d.data) >= 1
  BY <1>5
<1>8. Len(e.data) >= 2 <=> Len(d.data) >= 1
  BY <1>5
<1>9. Said(M) = P \o Said(d.frames) \o Said(d.data) => Said(m) = P \o Said(e.frames) \o Said(e.data)
  <2>1. P \o Said(d.frames) \in Seq(Deltas)
    BY <1>4, ConcatProperties
  <2>2. ((P \o Said(d.frames)) \o Said(d.data)) \o x.says = (P \o Said(d.frames)) \o (Said(d.data) \o x.says)
    <3> DEFINE A == P \o Said(d.frames)
               B == Said(d.data)
               C == x.says
    <3>1. A \in Seq(Deltas) /\ B \in Seq(Deltas) /\ C \in Seq(Deltas)
      BY <1>4, <2>1
    <3> HIDE DEF A, B, C
    <3>2. (A \o B) \o C = A \o (B \o C)
      BY <3>1, ConcatAssociative, SMTT(30)
    <3>3. QED
      BY <3>2 DEF A, B, C
  <2>3. QED
    BY <1>4, <2>2, Zenon
<1>10. Content(d, M, P, done)
  OBVIOUS
<1> HIDE DEF m
<1>11. Content(e, m, P, done)
  <2>1. CASE Contains(d.frames, Junk)
    BY <1>2, <1>3, <1>10, <2>1 DEF Content
  <2>2. CASE ~Contains(d.frames, Junk)
    <3>1. /\ Said(M) = P \o Said(d.frames) \o Said(d.data)
          /\ Contains(M, Done) <=> done \/ Contains(d.frames, Done) \/ Contains(d.data, Done)
          /\ Contains(M, Junk) <=> Contains(d.data, Junk)
          /\ TwoInOne(M) <=> Len(d.data) >= 2
      BY <1>10, <2>2 DEF Content
    <3>2. Contains(m, Done) <=> done \/ Contains(e.frames, Done) \/ Contains(e.data, Done)
      BY <1>2, <3>1
    <3>3. Contains(m, Junk) <=> Contains(e.data, Junk)
      BY <1>2, <3>1
    <3>4. TwoInOne(m) <=> Len(e.data) >= 2
      BY <1>3, <1>6, <1>7, <1>8, <3>1
    <3>5. Said(m) = P \o Said(e.frames) \o Said(e.data)
      BY <1>9, <3>1, Zenon
    <3>6. QED
      BY <2>2, <3>2, <3>3, <3>4, <3>5, Zenon DEF Content
  <2>3. QED
    BY <2>1, <2>2
<1>12. QED
  BY <1>11 DEF m

\* One line consumed.
LEMMA ConsumeIs ==
  ASSUME NEW d \in Readers, NEW bytes, NEW torn, Len(bytes) \in Nat, LineText(bytes, torn) \in Lines
  PROVE  LET x == LineText(bytes, torn)
             z == d.size + Len(bytes) + 1
             g == [d EXCEPT !.size = z]
             e == ConsumeLine(d, bytes, torn)
         IN  /\ e \in Readers /\ g \in Readers
             /\ d.failed => e = d
             /\ ~d.failed /\ z > FrameLimit => e.failed
             /\ ~d.failed /\ ~(z > FrameLimit) =>
                  /\ ~e.failed
                  /\ x = Blank => e = DispatchFrame(g)
                  /\ x = Comment => e = g
                  /\ Speaks(x) => /\ e.data = Append(d.data, x) /\ e.frames = d.frames
                                  /\ e.size = z
<1> DEFINE x == LineText(bytes, torn)
           z == d.size + Len(bytes) + 1
           g == [d EXCEPT !.size = z]
           f == [g EXCEPT !.failed = TRUE]
           h == [g EXCEPT !.data = Append(@, x)]
           e == ConsumeLine(d, bytes, torn)
<1>1. e = IF d.failed THEN d
          ELSE IF g.size > FrameLimit THEN f
          ELSE IF x = Blank THEN DispatchFrame(g)
          ELSE IF x = Comment THEN g
          ELSE h
  BY DEF ConsumeLine
<1>2. z \in Nat /\ x \in Lines
  BY DEF Readers
<1> HIDE DEF x, z
<1>3. g \in Readers /\ g.size = z /\ g.data = d.data /\ g.frames = d.frames /\ g.failed = d.failed
  BY <1>2 DEF Readers
<1> HIDE DEF g
<1>4. f \in Readers /\ f.failed
  BY <1>3 DEF Readers
<1>5. h \in Readers /\ h.data = Append(d.data, x) /\ h.frames = d.frames /\ h.size = z /\ h.failed = d.failed
  <2>1. g.data \in Seq(Lines)
    BY <1>3 DEF Readers
  <2>2. Append(g.data, x) \in Seq(Lines)
    BY <1>2, <2>1, AppendProperties
  <2>3. QED
    BY <1>3, <2>2 DEF Readers
<1>6. DispatchFrame(g) \in Readers /\ DispatchFrame(g).failed = d.failed
  BY <1>3, DispatchIs
<1>7. Speaks(x) <=> x # Blank /\ x # Comment
  BY DEF Speaks
<1>8. Blank # Comment
  BY <1>2, LineFields
<1> HIDE DEF f, h, e
<1>9. /\ e \in Readers
      /\ d.failed => e = d
      /\ ~d.failed /\ z > FrameLimit => e.failed
      /\ ~d.failed /\ ~(z > FrameLimit) =>
           /\ ~e.failed
           /\ x = Blank => e = DispatchFrame(g)
           /\ x = Comment => e = g
           /\ Speaks(x) => e.data = Append(d.data, x) /\ e.frames = d.frames /\ e.size = z
  BY <1>1, <1>3, <1>4, <1>5, <1>6, <1>7, <1>8
<1>10. QED
  BY <1>3, <1>9 DEF x, z, g, e

\* The size and the data of the decoder are those of the open frame, which began behind
\* line c.
Framed(d, M, c) ==
  Frame(M, c) /\ d.size = 3 * (Len(M) - c) /\ (d.data = <<>> <=> ~Spoken(M, c))

\* What the decoder knows of the lines it has consumed.
Reads(d, M, s, P, done) ==
  /\ d.failed => Big(M, s)
  /\ ~d.failed => ~Big(M, s) /\ Content(d, M, P, done) /\ \E c : Framed(d, M, c)

\* One line consumed: the decoder refuses it exactly when some frame is too big, and
\* otherwise holds what the lines say.
LEMMA LineStep ==
  ASSUME NEW d \in Readers, NEW M \in Seq(Lines), NEW s \in Nat, NEW P \in Seq(Deltas), NEW done \in BOOLEAN,
         Reads(d, M, s, P, done), NEW bytes, NEW torn, Len(bytes) \in Nat, NEW x \in Lines,
         LineText(bytes, torn) = x, Len(bytes) + 1 = Cost(x, Len(M) + 1, s)
  PROVE  LET e == ConsumeLine(d, bytes, torn)
         IN  /\ e \in Readers
             /\ e.failed => Big(Append(M, x), s)
             /\ ~e.failed => ~Big(Append(M, x), s) /\ Content(e, Append(M, x), P, done)
             /\ 3 * (Len(M) + 1) <= s => Reads(e, Append(M, x), s, P, done)
<1> DEFINE e == ConsumeLine(d, bytes, torn)
           m == Append(M, x)
           n == Len(M)
           z == d.size + Len(bytes) + 1
           g == [d EXCEPT !.size = z]
<1>1. /\ e \in Readers /\ g \in Readers
      /\ d.failed => e = d
      /\ ~d.failed /\ z > FrameLimit => e.failed
      /\ ~d.failed /\ ~(z > FrameLimit) =>
           /\ ~e.failed
           /\ x = Blank => e = DispatchFrame(g)
           /\ x = Comment => e = g
           /\ Speaks(x) => e.data = Append(d.data, x) /\ e.frames = d.frames /\ e.size = z
  BY ConsumeIs
<1>2. /\ m \in Seq(Lines) /\ Len(m) = n + 1 /\ n \in Nat
      /\ \A k \in 1 .. n : m[k] = M[k]
      /\ m[n + 1] = x
  BY MoreLine
<1>3. /\ d.failed => Big(M, s)
      /\ ~d.failed => ~Big(M, s) /\ Content(d, M, P, done) /\ \E c : Framed(d, M, c)
  BY DEF Reads
<1>4. d.size \in Nat /\ g.size = z /\ g.data = d.data /\ g.frames = d.frames
  BY DEF Readers
<1>5. FrameLimit \in Nat
  BY StreamAssumption
<1> HIDE DEF e, m, n, z, g
<1>6. CASE d.failed
  <2>1. Big(M, s)
    BY <1>3, <1>6
  <2>2. Big(m, s)
    <3>1. n <= Len(m)
      BY <1>2
    <3>2. QED
      BY <1>2, <2>1, <3>1, WrongStays DEF n
  <2>3. e.failed
    BY <1>1, <1>6
  <2>4. QED
    BY <1>1, <2>2, <2>3 DEF Reads, e, m
<1>7. CASE ~d.failed
  <2>1. PICK c : Framed(d, M, c)
    BY <1>3, <1>7
  <2>2. Frame(M, c) /\ d.size = 3 * (n - c) /\ (d.data = <<>> <=> ~Spoken(M, c))
    BY <2>1 DEF Framed, n
  <2>3. Big(m, s) <=> 3 * (n - c) + Cost(x, n + 1, s) > FrameLimit
    BY <1>3, <1>7, <2>2, BigMore DEF n, m
  <2>4. z = 3 * (n - c) + Cost(x, n + 1, s)
    <3>1. z = d.size + (Len(bytes) + 1)
      <4>1. \A a, b \in Nat : a + b + 1 = a + (b + 1)
        OBVIOUS
      <4>2. d.size \in Nat /\ Len(bytes) \in Nat
        BY <1>4
      <4>3. QED
        BY <4>1, <4>2 DEF z
    <3>2. Len(bytes) + 1 = Cost(x, n + 1, s)
      BY DEF n
    <3>3. QED
      BY <2>2, <3>1, <3>2
  <2>5. CASE z > FrameLimit
    <3>1. Big(m, s)
      BY <2>3, <2>4, <2>5
    <3>2. e.failed
      BY <1>1, <1>7, <2>5
    <3>3. QED
      BY <1>1, <3>1, <3>2 DEF Reads, e, m
  <2>6. CASE ~(z > FrameLimit)
    <3>1. ~Big(m, s)
      BY <2>3, <2>4, <2>6
    <3>2. ~e.failed
      BY <1>1, <1>7, <2>6
    <3>3. Content(d, M, P, done)
      BY <1>3, <1>7
    <3>4. c \in 0 .. n /\ (c = 0 \/ M[c] = Blank) /\ (\A k \in c + 1 .. n : M[k] # Blank)
      BY <2>2 DEF Frame, n
    <3>5. Content(e, m, P, done) /\ (3 * (n + 1) <= s => \E b : Framed(e, m, b))
      <4>1. CASE x = Blank
        <5>1. e = DispatchFrame(g)
          BY <1>1, <1>7, <2>6, <4>1
        <5>2. ~Speaks(x)
          BY <4>1, LineFields
        <5>3. Content(d, m, P, done)
          BY <2>2, <3>3, <5>2, ContentQuiet DEF m
        <5>4. Content(g, m, P, done)
          BY <1>4, <5>3 DEF Content
        <5>5. Content(e, m, P, done)
          BY <1>1, <5>1, <5>4, ContentDispatch
        <5>6. e.size = 0 /\ e.data = <<>>
          BY <1>1, <5>1, DispatchIs
        <5>7. Frame(m, n + 1) /\ ~Spoken(m, n + 1) /\ 3 * (Len(m) - (n + 1)) = 0
          BY <1>2, <4>1 DEF Frame, Spoken
        <5>8. Framed(e, m, n + 1)
          BY <5>6, <5>7 DEF Framed
        <5>9. QED
          BY <5>5, <5>8
      <4>2. ASSUME x # Blank
            PROVE  /\ Frame(m, c) /\ (Spoken(m, c) <=> Spoken(M, c) \/ Speaks(x))
                   /\ 3 * (n + 1) <= s => z = 3 * (Len(m) - c)
        <5>1. Frame(m, c)
          <6>1. c = 0 \/ m[c] = Blank
            BY <1>2, <3>4
          <6>2. ASSUME NEW k \in c + 1 .. n + 1
                PROVE  m[k] # Blank
            <7>1. CASE k = n + 1
              BY <1>2, <4>2, <7>1
            <7>2. CASE k # n + 1
              <8>1. k \in c + 1 .. n /\ k \in 1 .. n
                BY <1>2, <3>4, <7>2
              <8>2. QED
                BY <1>2, <3>4, <8>1
            <7>3. QED
              BY <7>1, <7>2
          <6>3. QED
            BY <1>2, <3>4, <6>1, <6>2 DEF Frame
        <5>2. Spoken(m, c) <=> Spoken(M, c) \/ Speaks(x)
          <6>1. \A k \in c + 1 .. n : k \in c + 1 .. n + 1 /\ m[k] = M[k]
            BY <1>2, <3>4
          <6>2. \A k \in c + 1 .. n + 1 : k \in c + 1 .. n \/ k = n + 1
            BY <1>2, <3>4
          <6>3. n + 1 \in c + 1 .. n + 1
            BY <1>2, <3>4
          <6>4. QED
            BY <1>2, <6>1, <6>2, <6>3 DEF Spoken, n
        <5>3. 3 * (n + 1) <= s => z = 3 * (Len(m) - c)
          <6>1. 3 * (n + 1) <= s => Cost(x, n + 1, s) = 3
            BY <1>2, <4>2 DEF Cost
          <6>2. QED
            BY <1>2, <2>4, <3>4, <6>1
        <5>4. QED
          BY <5>1, <5>2, <5>3
      <4>3. CASE x = Comment
        <5>1. e = g
          BY <1>1, <1>7, <2>6, <4>3
        <5>2. ~Speaks(x) /\ x # Blank
          BY <4>3, LineFields
        <5>3. Content(d, m, P, done)
          BY <2>2, <3>3, <5>2, ContentQuiet DEF m
        <5>4. Content(e, m, P, done)
          BY <1>4, <5>1, <5>3 DEF Content
        <5>5. 3 * (n + 1) <= s => Framed(e, m, c)
          BY <1>4, <2>2, <4>2, <5>1, <5>2 DEF Framed
        <5>6. QED
          BY <5>4, <5>5
      <4>4. CASE Speaks(x)
        <5>1. e.data = Append(d.data, x) /\ e.frames = d.frames /\ e.size = z
          BY <1>1, <1>7, <2>6, <4>4
        <5>2. Content(e, m, P, done)
          BY <2>2, <3>3, <4>4, <5>1, ContentSpeaks DEF m
        <5>3. x # Blank
          BY <4>4, LineFields
        <5>4. e.data # <<>>
          <6>1. d.data \in Seq(Lines)
            BY DEF Readers
          <6>2. Len(e.data) = Len(d.data) + 1 /\ Len(d.data) \in Nat
            BY <5>1, <6>1, MoreLine
          <6>3. QED
            BY <6>2, NoneIs
        <5>5. 3 * (n + 1) <= s => Framed(e, m, c)
          BY <4>2, <4>4, <5>1, <5>3, <5>4 DEF Framed
        <5>6. QED
          BY <5>2, <5>5
      <4>5. QED
        BY <4>1, <4>3, <4>4 DEF Speaks
    <3>6. QED
      BY <1>1, <3>1, <3>2, <3>5 DEF Reads, e, m, n
  <2>7. QED
    BY <2>5, <2>6
<1>8. QED
  BY <1>6, <1>7

-----------------------------------------------------------------------------
(* the decoder, unit by unit *)

\* The bytes of the line the network is in, up to unit u.
Pending(u) ==
  IF u % 3 = 0 \/ LineOf(u) = Blank THEN <<>> ELSE IF u % 3 = 1 THEN <<u>> ELSE <<u - 1, u>>

\* After u units of the body the decoder has read the whole lines and keeps the rest of
\* the torn one.
At(d, u, s, P, done) == Reads(d, SubSeq(body, 1, u \div 3), s, P, done) /\ d.buffer = Pending(u)

\* Sequences of one and of two units.
LEMMA Appended ==
  ASSUME NEW a, NEW b
  PROVE  Append(<<>>, a) = <<a>> /\ Append(<<a>>, b) = <<a, b>>
<1> DEFINE S == {a, b}
<1>1. a \in S /\ b \in S
  OBVIOUS
<1> HIDE DEF S
<1>2. <<>> \in Seq(S) /\ <<a>> \in Seq(S)
  BY <1>1
<1>3. Append(<<>>, a) = <<a>>
  BY <1>1, <1>2
<1>4. Append(<<a>>, b) = <<a, b>>
  <2> DEFINE t == <<a>>
             u == <<a, b>>
             v == Append(t, b)
  <2>1. /\ t \in Seq(S) /\ Len(t) = 1 /\ t[1] = a
        /\ u \in Seq(S) /\ Len(u) = 2 /\ u[1] = a /\ u[2] = b
    <3>1. Len(t) = 1 /\ t[1] = a
      OBVIOUS
    <3>2. Len(u) = 2 /\ u[1] = a /\ u[2] = b
      OBVIOUS
    <3>3. t \in Seq(S)
      BY <1>1
    <3>4. u \in Seq(S)
      BY <1>1
    <3>5. QED
      BY <3>1, <3>2, <3>3, <3>4
  <2> HIDE DEF t, u
  <2>2. IsSeq(v) /\ Len(v) = Len(t) + 1 /\ (\A i \in 1 .. Len(t) : v[i] = t[i]) /\ v[Len(t) + 1] = b
    <3>1. IsSeq(t)
      BY <2>1, SeqIs
    <3>2. QED
      BY <3>1, AppendAny
  <2> HIDE DEF v
  <2>3. Len(v) = 2 /\ v[1] = a /\ v[2] = b
    BY <2>1, <2>2
  <2>4. \A i \in 1 .. 2 : i = 1 \/ i = 2
    OBVIOUS
  <2>5. \A i \in 1 .. Len(v) : v[i] = u[i]
    BY <2>1, <2>3, <2>4
  <2>6. v = u
    <3>1. IsSeq(u)
      BY <2>1, SeqIs
    <3>2. QED
      BY <2>1, <2>2, <2>3, <2>5, <3>1, SameSeq
  <2>7. QED
    BY <2>6 DEF t, u, v
<1>5. QED
  BY <1>3, <1>4

\* Which line a unit belongs to and which of its three units it is.
LEMMA UnitOf ==
  ASSUME NEW u \in Nat \ {0}
  PROVE  /\ (u - 1) \div 3 \in Nat
         /\ \/ u = 3 * ((u - 1) \div 3) + 1 /\ u % 3 = 1 /\ u \div 3 = (u - 1) \div 3 /\ (u - 1) % 3 = 0
            \/ /\ u = 3 * ((u - 1) \div 3) + 2 /\ u % 3 = 2 /\ u \div 3 = (u - 1) \div 3 /\ (u - 1) % 3 = 1
               /\ (u - 2) \div 3 = (u - 1) \div 3
            \/ /\ u = 3 * ((u - 1) \div 3) + 3 /\ u % 3 = 0 /\ u \div 3 = (u - 1) \div 3 + 1 /\ (u - 1) % 3 = 2
               /\ (u - 2) \div 3 = (u - 1) \div 3 /\ (u - 3) \div 3 = (u - 1) \div 3
  OBVIOUS

\* A unit of the body belongs to a line of the body.
LEMMA LineIs ==
  ASSUME body \in Seq(Lines), NEW u \in 1 .. Units
  PROVE  /\ (u - 1) \div 3 \in 0 .. Len(body) - 1 /\ LineOf(u) \in Lines /\ Len(body) \in Nat
         /\ LineOf(u) = body[(u - 1) \div 3 + 1]
<1>1. Len(body) \in Nat
  BY LenProperties
<1>2. (u - 1) \div 3 \in 0 .. Len(body) - 1
  <2>1. u \in Nat /\ 1 <= u /\ u <= 3 * Len(body)
    BY <1>1 DEF Units
  <2>2. (u - 1) \div 3 \in Nat /\ 3 * ((u - 1) \div 3) + 1 <= u
    BY <2>1, UnitOf
  <2>3. QED
    BY <1>1, <2>1, <2>2
<1>3. (u - 1) \div 3 + 1 \in 1 .. Len(body)
  BY <1>1, <1>2
<1>4. body[(u - 1) \div 3 + 1] \in Lines
  BY <1>3, ElementOfSeq
<1>5. QED
  BY <1>1, <1>2, <1>4 DEF LineOf

\* What the decoder takes for a line is a line.
LEMMA LineTyped ==
  ASSUME body \in Seq(Lines), NEW bytes \in Seq(1 .. Units), NEW torn \in Lines
  PROVE  LineText(bytes, torn) \in Lines /\ Len(bytes) \in Nat
<1>1. Len(bytes) \in Nat
  BY LenProperties
<1>2. Blank \in Lines
  BY DEF Lines
<1>3. bytes # <<>> => bytes[1] \in 1 .. Units
  <2>1. bytes # <<>> => Len(bytes) # 0
    BY EmptySeq
  <2>2. bytes # <<>> => 1 \in 1 .. Len(bytes)
    BY <1>1, <2>1
  <2>3. QED
    BY <2>2, ElementOfSeq
<1>4. bytes # <<>> => LineOf(bytes[1]) \in Lines
  BY <1>3, LineIs
<1>5. QED
  BY <1>1, <1>2, <1>4 DEF LineText

\* The buffer says nothing about the lines consumed before.
LEMMA SetBuffer ==
  ASSUME NEW d \in Readers, NEW b \in Seq(1 .. Units)
  PROVE  /\ [d EXCEPT !.buffer = b] \in Readers /\ [d EXCEPT !.buffer = b].buffer = b
         /\ \A M, s, P, done : /\ Reads(d, M, s, P, done) <=> Reads([d EXCEPT !.buffer = b], M, s, P, done)
                               /\ Content(d, M, P, done) <=> Content([d EXCEPT !.buffer = b], M, P, done)
         /\ [d EXCEPT !.buffer = b].failed = d.failed
<1> DEFINE e == [d EXCEPT !.buffer = b]
<1>1. /\ e \in Readers /\ e.buffer = b /\ e.size = d.size /\ e.data = d.data /\ e.frames = d.frames
      /\ e.failed = d.failed
  BY DEF Readers
<1> HIDE DEF e
<1>2. \A M, P, done : Content(d, M, P, done) <=> Content(e, M, P, done)
  BY <1>1 DEF Content
<1>3. \A M, c : Framed(d, M, c) <=> Framed(e, M, c)
  BY <1>1 DEF Framed
<1>4. \A M, s, P, done : Reads(d, M, s, P, done) <=> Reads(e, M, s, P, done)
  BY <1>1, <1>2, <1>3 DEF Reads
<1>5. QED
  BY <1>1, <1>2, <1>4 DEF e

\* A unit more leaves the decoder a decoder.
LEMMA TakeByteTyped ==
  ASSUME body \in Seq(Lines), NEW d \in Readers, NEW u \in 1 .. Units
  PROVE  TakeByte(d, u) \in Readers
<1>1. d.buffer \in Seq(1 .. Units) /\ <<>> \in Seq(1 .. Units)
  <2>1. d.buffer \in Seq(1 .. Units)
    BY DEF Readers
  <2>2. QED
    BY <2>1
<1>2. CASE IsLineFeed(u)
  <2>1. Junk \in Lines
    BY DEF Lines
  <2>2. LineText(d.buffer, Junk) \in Lines /\ Len(d.buffer) \in Nat
    BY <1>1, <2>1, LineTyped
  <2>3. ConsumeLine(d, d.buffer, Junk) \in Readers
    BY <2>2, ConsumeIs
  <2>4. [ConsumeLine(d, d.buffer, Junk) EXCEPT !.buffer = <<>>] \in Readers
    BY <1>1, <2>3, SetBuffer
  <2>5. QED
    BY <1>2, <2>4 DEF TakeByte
<1>3. CASE ~IsLineFeed(u)
  <2>1. Append(d.buffer, u) \in Seq(1 .. Units)
    BY <1>1, AppendProperties
  <2>2. [d EXCEPT !.buffer = Append(@, u)] = [d EXCEPT !.buffer = Append(d.buffer, u)]
    BY DEF Readers
  <2>3. [d EXCEPT !.buffer = Append(d.buffer, u)] \in Readers
    BY <2>1, SetBuffer
  <2>4. QED
    BY <1>3, <2>2, <2>3 DEF TakeByte
<1>4. QED
  BY <1>2, <1>3

\* A unit more: the decoder is where that unit puts it.
LEMMA TakeByteStep ==
  ASSUME body \in Seq(Lines), NEW d \in Readers, NEW u \in 1 .. Units, NEW s \in Nat, u <= s,
         NEW P \in Seq(Deltas), NEW done \in BOOLEAN, At(d, u - 1, s, P, done)
  PROVE  At(TakeByte(d, u), u, s, P, done)
<1> DEFINE w == (u - 1) \div 3
           M == SubSeq(body, 1, w)
           x == LineOf(u)
           e == TakeByte(d, u)
<1>1. w \in 0 .. Len(body) - 1 /\ x \in Lines /\ Len(body) \in Nat /\ x = body[w + 1]
  BY LineIs
<1>2. u \in Nat \ {0} /\ 1 <= u /\ Units \in Nat
  BY <1>1 DEF Units
<1>3. \/ u = 3 * w + 1 /\ u % 3 = 1 /\ u \div 3 = w /\ (u - 1) % 3 = 0
      \/ u = 3 * w + 2 /\ u % 3 = 2 /\ u \div 3 = w /\ (u - 1) % 3 = 1 /\ (u - 2) \div 3 = w
      \/ /\ u = 3 * w + 3 /\ u % 3 = 0 /\ u \div 3 = w + 1 /\ (u - 1) % 3 = 2
         /\ (u - 2) \div 3 = w /\ (u - 3) \div 3 = w
  BY <1>2, UnitOf
<1>4. M \in Seq(Lines) /\ Len(M) = w
  BY <1>1, Beginning
<1>5. SubSeq(body, 1, w + 1) = Append(M, x)
  BY <1>1, BeginningMore
<1>6. Reads(d, M, s, P, done) /\ d.buffer = Pending(u - 1)
  BY DEF At
<1>7. d.buffer \in Seq(1 .. Units)
  BY DEF Readers
<1> HIDE DEF w, M, x, e
<1>8. CASE u % 3 # 0
  <2>1. ~IsLineFeed(u) /\ u \div 3 = w
    BY <1>3, <1>8 DEF IsLineFeed
  <2>2. CASE x = Blank
    <3>1. e = d
      BY <2>1, <2>2 DEF e, TakeByte, IsByte, x
    <3>2. Pending(u) = <<>>
      BY <2>2 DEF Pending, x
    <3>3. Pending(u - 1) = <<>>
      <4>1. (u - 1) % 3 = 0 \/ LineOf(u - 1) = x
        <5>1. CASE u % 3 = 1
          BY <1>3, <5>1
        <5>2. CASE u % 3 = 2
          <6>1. (u - 2) \div 3 = w /\ (u - 1) - 1 = u - 2
            BY <1>2, <1>3, <5>2
          <6>2. QED
            BY <1>1, <6>1 DEF LineOf
        <5>3. QED
          BY <1>3, <1>8, <5>1, <5>2
      <4>2. QED
        BY <2>2, <4>1 DEF Pending
    <3>4. QED
      BY <1>6, <2>1, <3>1, <3>2, <3>3 DEF At, M, e
  <2>3. CASE x # Blank
    <3>1. e = [d EXCEPT !.buffer = Append(d.buffer, u)]
      BY <2>1, <2>3 DEF e, TakeByte, IsByte, x, Readers
    <3>2. Append(d.buffer, u) \in Seq(1 .. Units)
      BY <1>7, AppendProperties
    <3>3. Reads(e, M, s, P, done) /\ e.buffer = Append(d.buffer, u)
      BY <1>6, <3>1, <3>2, SetBuffer
    <3>4. Append(Pending(u - 1), u) = Pending(u)
      <4>1. CASE u % 3 = 1
        <5>1. Pending(u - 1) = <<>>
          BY <1>3, <4>1 DEF Pending
        <5>2. Pending(u) = <<u>>
          BY <2>3, <4>1 DEF Pending, x
        <5>3. QED
          BY <5>1, <5>2, Appended
      <4>2. CASE u % 3 = 2
        <5>1. (u - 2) \div 3 = w /\ (u - 1) - 1 = u - 2 /\ (u - 1) % 3 = 1
          BY <1>2, <1>3, <4>2
        <5>2. LineOf(u - 1) = x
          BY <1>1, <5>1 DEF LineOf
        <5>3. Pending(u - 1) = <<u - 1>>
          BY <2>3, <5>1, <5>2 DEF Pending
        <5>4. Pending(u) = <<u - 1, u>>
          BY <2>3, <4>2 DEF Pending, x
        <5>5. QED
          BY <5>3, <5>4, Appended
      <4>3. QED
        BY <1>3, <1>8, <4>1, <4>2
    <3>5. QED
      BY <1>6, <2>1, <3>3, <3>4 DEF At, M, e
  <2>4. QED
    BY <2>2, <2>3
<1>9. CASE u % 3 = 0
  <2>1. IsLineFeed(u) /\ u = 3 * w + 3 /\ u \div 3 = w + 1 /\ (u - 1) % 3 = 2
        /\ (u - 2) \div 3 = w /\ (u - 3) \div 3 = w
    BY <1>3, <1>9 DEF IsLineFeed
  <2>2. (u - 1) - 1 = u - 2 /\ (u - 2) - 1 = u - 3
    BY <1>2
  <2>3. LineOf(u - 1) = x /\ LineOf(u - 2) = x
    BY <1>1, <2>1, <2>2 DEF LineOf
  <2>4. d.buffer = IF x = Blank THEN <<>> ELSE <<u - 2, u - 1>>
    <3>1. CASE x = Blank
      BY <1>6, <2>3, <3>1 DEF Pending
    <3>2. CASE x # Blank
      <4>1. (u - 1) % 3 # 0 /\ (u - 1) % 3 # 1
        <5>1. \A k : k = 2 => k # 0 /\ k # 1
          OBVIOUS
        <5>2. QED
          BY <2>1, <5>1
      <4>2. Pending(u - 1) = <<u - 2, u - 1>>
        BY <2>2, <2>3, <3>2, <4>1 DEF Pending
      <4>3. QED
        BY <1>6, <3>2, <4>2
    <3>3. QED
      BY <3>1, <3>2
  <2>5. LineText(d.buffer, Junk) = x /\ Len(d.buffer) \in Nat /\ Len(d.buffer) + 1 = Cost(x, w + 1, s)
    <3>1. 3 * (w + 1) # s + 2
      BY <1>1, <2>1
    <3>2. CASE x = Blank
      <4>1. d.buffer = <<>> /\ Len(d.buffer) = 0
        BY <2>4, <3>2, NoneIs
      <4>2. QED
        BY <3>2, <4>1 DEF LineText, Cost
    <3>3. CASE x # Blank
      <4>1. d.buffer = <<u - 2, u - 1>>
        BY <2>4, <3>3
      <4>2. Len(d.buffer) = 2 /\ d.buffer # <<>> /\ d.buffer[1] = u - 2
        BY <4>1
      <4>3. LineText(d.buffer, Junk) = x
        BY <2>3, <4>2 DEF LineText
      <4>4. Cost(x, w + 1, s) = 3
        BY <3>1, <3>3 DEF Cost
      <4>5. QED
        BY <4>2, <4>3, <4>4
    <3>4. QED
      BY <3>2, <3>3
  <2> DEFINE y == ConsumeLine(d, d.buffer, Junk)
  <2>6. y \in Readers /\ Reads(y, Append(M, x), s, P, done)
    <3>1. 3 * (Len(M) + 1) <= s /\ Len(d.buffer) + 1 = Cost(x, Len(M) + 1, s)
      BY <1>1, <1>4, <2>1, <2>5
    <3>2. QED
      BY <1>1, <1>4, <1>6, <2>5, <3>1, LineStep
  <2> HIDE DEF y
  <2>7. e = [y EXCEPT !.buffer = <<>>]
    BY <2>1 DEF e, TakeByte, y
  <2>8. Reads(e, Append(M, x), s, P, done) /\ e.buffer = <<>>
    <3>1. <<>> \in Seq(1 .. Units)
      OBVIOUS
    <3>2. QED
      BY <2>6, <2>7, <3>1, SetBuffer
  <2>9. Pending(u) = <<>>
    BY <1>9 DEF Pending
  <2>10. QED
    BY <1>5, <2>1, <2>8, <2>9 DEF At, e
<1>10. QED
  BY <1>8, <1>9

\* A chunk leaves the decoder where its units end.
LEMMA PushIs ==
  ASSUME body \in Seq(Lines), NEW from \in 0 .. Units, NEW to \in from .. Units,
         NEW d, Reading(d) \in Readers, NEW P \in Seq(Deltas), NEW done \in BOOLEAN,
         At(Reading(d), from, to, P, done)
  PROVE  \E e \in Readers : /\ At(e, to, to, P, done)
                            /\ Push(d, from, to) = [e EXCEPT !.failed = e.failed \/ Len(e.buffer) > FrameLimit]
<1> DEFINE Value(f, u) == IF u = from THEN Reading(d) ELSE TakeByte(f[u - 1], u)
           read == CHOOSE f : f = [u \in from .. to |-> Value(f, u)]
           step == [p \in Readers \X (from .. to) |->
                      IF p[2] = from THEN p[1] ELSE TakeByte(p[1], p[2])]
           base == Reading(d)
<1>1. from \in Nat /\ to \in Nat /\ from <= to /\ Units \in Nat /\ to <= Units
  <2>1. Len(body) \in Nat
    BY LenProperties
  <2>2. Units \in Nat
    BY <2>1 DEF Units
  <2>3. QED
    BY <2>2
<1>2. \A e \in Readers, u \in from .. to : u # from => u \in 1 .. Units
  BY <1>1
<1>3. \A e \in Readers, u \in from .. to : u # from => TakeByte(e, u) \in Readers
  BY <1>2, TakeByteTyped
<1>4. step \in [Readers \X (from .. to) -> Readers]
  <2>1. ASSUME NEW p \in Readers \X (from .. to)
        PROVE  (IF p[2] = from THEN p[1] ELSE TakeByte(p[1], p[2])) \in Readers
    <3>1. p[1] \in Readers /\ p[2] \in from .. to
      OBVIOUS
    <3>2. QED
      BY <1>3, <3>1
  <2>2. QED
    BY <2>1
<1>5. \A e \in Readers, u \in from .. to : u # from => step[<<e, u>>] = TakeByte(e, u)
  <2>1. ASSUME NEW e \in Readers, NEW u \in from .. to, u # from
        PROVE  step[<<e, u>>] = TakeByte(e, u)
    <3>1. <<e, u>> \in Readers \X (from .. to) /\ <<e, u>>[1] = e /\ <<e, u>>[2] = u
      OBVIOUS
    <3>2. QED
      BY <2>1, <3>1
  <2>2. QED
    BY <2>1
<1> HIDE DEF step, base
<1>6. PICK g \in [from .. to -> Readers] : Loops(from, to, base, step, g)
  <2>1. base \in Readers
    BY DEF base
  <2>2. QED
    BY <1>1, <1>4, <2>1, LoopExists
<1>7. g = [u \in from .. to |-> Value(g, u)]
  <2>1. ASSUME NEW u \in from .. to
        PROVE  g[u] = Value(g, u)
    <3>1. CASE u = from
      BY <1>6, <3>1 DEF Loops, base
    <3>2. CASE u # from
      <4>1. u - 1 \in from .. to
        BY <1>1, <3>2
      <4>2. g[u - 1] \in Readers
        BY <1>6, <4>1
      <4>3. g[u] = step[<<g[u - 1], u>>]
        BY <1>6, <3>2 DEF Loops
      <4>4. QED
        BY <1>5, <3>2, <4>2, <4>3
    <3>3. QED
      BY <3>1, <3>2
  <2>2. g = [u \in from .. to |-> g[u]]
    BY <1>6
  <2> HIDE DEF Value
  <2>3. QED
    BY <2>1, <2>2
<1>8. read = [u \in from .. to |-> Value(read, u)]
  <2> HIDE DEF Value
  <2>1. QED
    BY <1>7
<1> HIDE DEF read
<1>9. \A u \in from .. to : read[u] = Value(read, u)
  <2> HIDE DEF Value
  <2>1. QED
    BY <1>8
<1> DEFINE T == {u \in from .. to : read[u] \in Readers /\ At(read[u], u, to, P, done)}
<1>10. from \in T
  <2>1. from \in from .. to
    BY <1>1
  <2>2. read[from] = Reading(d)
    BY <1>9, <2>1
  <2>3. QED
    BY <2>1, <2>2
<1>11. ASSUME NEW u \in from .. to - 1, u \in T
       PROVE  u + 1 \in T
  <2>1. u + 1 \in from .. to /\ u + 1 # from /\ (u + 1) - 1 = u /\ u + 1 \in 1 .. Units /\ u + 1 <= to
    BY <1>1
  <2>2. read[u + 1] = TakeByte(read[u], u + 1)
    BY <1>9, <2>1
  <2>3. read[u] \in Readers /\ At(read[u], u, to, P, done)
    BY <1>11
  <2>4. TakeByte(read[u], u + 1) \in Readers
    BY <2>1, <2>3, TakeByteTyped
  <2>5. At(TakeByte(read[u], u + 1), u + 1, to, P, done)
    <3>1. At(read[u], (u + 1) - 1, to, P, done)
      BY <2>1, <2>3
    <3>2. QED
      BY <1>1, <2>1, <2>3, <3>1, TakeByteStep
  <2>6. QED
    BY <2>1, <2>2, <2>4, <2>5
<1>12. to \in T
  <2> HIDE DEF T
  <2>1. \A u \in from .. to : u \in T
    BY <1>1, <1>10, <1>11, UpTo
  <2>2. QED
    BY <1>1, <2>1
<1>13. Push(d, from, to) = [read[to] EXCEPT !.failed = @ \/ Len(read[to].buffer) > FrameLimit]
  BY DEF Push, read
<1>14. [read[to] EXCEPT !.failed = @ \/ Len(read[to].buffer) > FrameLimit]
         = [read[to] EXCEPT !.failed = read[to].failed \/ Len(read[to].buffer) > FrameLimit]
  <2>1. read[to] \in Readers
    BY <1>12
  <2>2. QED
    BY <2>1 DEF Readers
<1>15. QED
  BY <1>12, <1>13, <1>14

-----------------------------------------------------------------------------
(* the parser *)

\* The event of the delta at place k.
EventAt(ds, k) == IF ds[k].type = "call" THEN [ds[k] EXCEPT !.id = IdAt(ds, k)] ELSE ds[k]

\* An enumeration that grows by one.
LEMMA EnumMore ==
  ASSUME NEW g, NEW k \in Nat
  PROVE  /\ Append([j \in 1 .. k |-> g[j]], g[k + 1]) = [j \in 1 .. k + 1 |-> g[j]]
         /\ IsSeq([j \in 1 .. k |-> g[j]]) /\ Len([j \in 1 .. k |-> g[j]]) = k
<1> DEFINE S == {g[j] : j \in 1 .. k + 1}
           s == [j \in 1 .. k |-> g[j]]
           t == [j \in 1 .. k + 1 |-> g[j]]
           v == Append(s, g[k + 1])
<1>1. \A j \in 1 .. k + 1 : g[j] \in S
  OBVIOUS
<1>2. \A j \in 1 .. k : j \in 1 .. k + 1
  OBVIOUS
<1> HIDE DEF S
<1>3. /\ s \in Seq(S) /\ Len(s) = k /\ (\A j \in 1 .. k : s[j] = g[j])
      /\ t \in Seq(S) /\ Len(t) = k + 1 /\ (\A j \in 1 .. k + 1 : t[j] = g[j])
  BY <1>1, <1>2
<1> HIDE DEF s, t
<1>4. IsSeq(v) /\ Len(v) = k + 1 /\ (\A i \in 1 .. k : v[i] = s[i]) /\ v[k + 1] = g[k + 1]
  BY <1>3, SeqIs, AppendAny
<1> HIDE DEF v
<1>5. \A i \in 1 .. k + 1 : v[i] = t[i]
  <2>1. \A i \in 1 .. k + 1 : i \in 1 .. k \/ i = k + 1
    OBVIOUS
  <2>2. QED
    BY <1>2, <1>3, <1>4, <2>1
<1>6. v = t
  BY <1>3, <1>4, <1>5, SeqIs, SameSeq
<1>7. QED
  BY <1>3, <1>6, SeqIs DEF s, t, v

\* The elements of two sequences of deltas joined.
LEMMA JoinIs ==
  ASSUME NEW P \in Seq(Deltas), NEW ds \in Seq(Deltas)
  PROVE  /\ P \o ds \in Seq(Deltas) /\ Len(P \o ds) = Len(P) + Len(ds)
         /\ Len(P) \in Nat /\ Len(ds) \in Nat
         /\ \A k \in 1 .. Len(P) : (P \o ds)[k] = P[k]
         /\ \A k \in 1 .. Len(ds) : (P \o ds)[Len(P) + k] = ds[k]
         /\ SubSeq(P \o ds, 1, Len(P)) = P
         /\ Begins(P, P \o ds)
<1> DEFINE Q == P \o ds
<1>1. Len(P) \in Nat /\ Len(ds) \in Nat
  BY LenProperties
<1>2. /\ Q \in Seq(Deltas) /\ Len(Q) = Len(P) + Len(ds)
      /\ \A i \in 1 .. Len(P) + Len(ds) : Q[i] = IF i <= Len(P) THEN P[i] ELSE ds[i - Len(P)]
  BY ConcatProperties
<1> HIDE DEF Q
<1>3. \A k \in 1 .. Len(P) : Q[k] = P[k]
  BY <1>1, <1>2
<1>4. \A k \in 1 .. Len(ds) : Q[Len(P) + k] = ds[k]
  <2>1. SUFFICES ASSUME NEW k \in 1 .. Len(ds)
                 PROVE  Q[Len(P) + k] = ds[k]
    OBVIOUS
  <2>2. Len(P) + k \in 1 .. Len(P) + Len(ds) /\ ~(Len(P) + k <= Len(P)) /\ (Len(P) + k) - Len(P) = k
    BY <1>1
  <2>3. QED
    BY <1>2, <2>2
<1>5. SubSeq(Q, 1, Len(P)) = P
  <2>1. Len(P) \in 0 .. Len(Q)
    BY <1>1, <1>2
  <2>2. /\ SubSeq(Q, 1, Len(P)) \in Seq(Deltas) /\ Len(SubSeq(Q, 1, Len(P))) = Len(P)
        /\ \A i \in 1 .. Len(P) : SubSeq(Q, 1, Len(P))[i] = Q[i]
    BY <1>2, <2>1, Beginning
  <2>3. QED
    BY <1>3, <2>2, SeqEqual
<1>6. Begins(P, Q)
  BY <1>1, <1>2, <1>3 DEF Begins
<1>7. QED
  BY <1>1, <1>2, <1>3, <1>4, <1>5, <1>6 DEF Q

\* Parsing one delta after those before it.
LEMMA WithIdIs ==
  ASSUME NEW Q \in Seq(Deltas), NEW n \in 0 .. Len(Q) - 1, NEW evs
  PROVE  WithId([ids |-> Known(SubSeq(Q, 1, n)), events |-> evs], Q[n + 1])
           = [ids |-> Known(SubSeq(Q, 1, n + 1)), events |-> Append(evs, EventAt(Q, n + 1))]
<1> DEFINE e == Q[n + 1]
           ds == SubSeq(Q, 1, n)
           m == SubSeq(Q, 1, n + 1)
           p == [ids |-> Known(ds), events |-> evs]
<1>1. Len(Q) \in Nat /\ n \in 0 .. Len(Q) /\ n + 1 \in 0 .. Len(Q) /\ n + 1 \in 1 .. n + 1 /\ n + 1 \in 1 .. Len(Q)
      /\ n \in Nat
  BY LenProperties
<1>2. ds \in Seq(Deltas) /\ Len(ds) = n /\ e \in Deltas /\ m = Append(ds, e)
  BY <1>1, Beginning, BeginningMore, ElementOfSeq
<1>3. m \in Seq(Deltas) /\ Len(m) = n + 1 /\ Begins(m, Q)
  BY <1>1, Beginning, BeginningBegins
<1>4. IdAt(Q, n + 1) = IdAt(m, n + 1)
  BY <1>1, <1>3, IdStays
<1>5. p.ids = Known(ds) /\ p.events = evs
  OBVIOUS
<1>6. Known(m) = IF e.type = "call"
                 THEN [i \in DOMAIN Known(ds) \cup {e.index} |->
                         IF i = e.index THEN NewId(ds, e) ELSE Known(ds)[i]]
                 ELSE Known(ds)
  <2>1. Known(Append(ds, e)) = IF e.type = "call"
                 THEN [i \in DOMAIN Known(ds) \cup {e.index} |->
                         IF i = e.index THEN NewId(ds, e) ELSE Known(ds)[i]]
                 ELSE Known(ds)
    <3> HIDE DEF e, ds
    <3>1. QED
      BY <1>2, KnownMore
  <2> HIDE DEF e, ds, m
  <2>2. QED
    BY <1>2, <2>1, Zenon
<1>7. e.type = "call" => NewId(ds, e) = CallId(Known(ds), e) /\ NewId(ds, e) = IdAt(Q, n + 1)
  <2>1. SUFFICES ASSUME e.type = "call"
                 PROVE  NewId(ds, e) = CallId(Known(ds), e) /\ NewId(ds, e) = IdAt(Q, n + 1)
    OBVIOUS
  <2>2. NewId(ds, e) = CallId(Known(ds), e)
    BY <1>2, <2>1, NewIdIs
  <2>3. NewId(ds, e) = IdAt(m, n + 1)
    BY <1>2 DEF NewId
  <2>4. QED
    BY <1>4, <2>2, <2>3
<1>8. EventAt(Q, n + 1) = IF e.type = "call" THEN [e EXCEPT !.id = IdAt(Q, n + 1)] ELSE e
  BY DEF EventAt
<1> HIDE DEF e, ds, m
<1>9. CASE e.type # "call"
  <2>1. WithId(p, e) = [p EXCEPT !.events = Append(@, e)]
    BY <1>9 DEF WithId
  <2>2. [p EXCEPT !.events = Append(@, e)] = [ids |-> Known(ds), events |-> Append(evs, e)]
    <3> DEFINE a == Known(ds)
               v == Append(evs, e)
    <3>1. [p EXCEPT !.events = Append(@, e)] = [[ids |-> a, events |-> evs] EXCEPT !.events = v]
      BY Zenon
    <3> HIDE DEF a, v
    <3>2. [[ids |-> a, events |-> evs] EXCEPT !.events = v] = [ids |-> a, events |-> v]
      OBVIOUS
    <3>3. QED
      BY <3>1, <3>2 DEF a, v
  <2>3. Known(m) = Known(ds) /\ EventAt(Q, n + 1) = e
    BY <1>6, <1>8, <1>9
  <2>4. QED
    BY <2>1, <2>2, <2>3 DEF e, ds, m
<1>10. CASE e.type = "call"
  <2> DEFINE id == CallId(p.ids, e)
  <2>1. WithId(p, e) = [ids |-> [i \in DOMAIN p.ids \cup {e.index} |->
                                  IF i = e.index THEN id ELSE p.ids[i]],
                        events |-> Append(p.events, [e EXCEPT !.id = id])]
    BY <1>10 DEF WithId
  <2>2. id = NewId(ds, e) /\ id = IdAt(Q, n + 1)
    BY <1>5, <1>7, <1>10
  <2> HIDE DEF id
  <2>3. [e EXCEPT !.id = id] = EventAt(Q, n + 1)
    BY <1>8, <1>10, <2>2
  <2>4. [i \in DOMAIN p.ids \cup {e.index} |-> IF i = e.index THEN id ELSE p.ids[i]] = Known(m)
    BY <1>5, <1>6, <1>10, <2>2
  <2>5. WithId(p, e) = [ids |-> Known(m), events |-> Append(evs, EventAt(Q, n + 1))]
    BY <1>5, <2>1, <2>3, <2>4
  <2>6. QED
    BY <2>5 DEF e, ds, m
<1>11. QED
  BY <1>9, <1>10

\* The parser gives every fragment the id it has in the whole of what was said.
LEMMA ConvertIs ==
  ASSUME NEW P \in Seq(Deltas), ids = Known(P), NEW read, read.frames \in Seq(Lines), Convert(read)
  PROVE  LET Q == P \o Said(read.frames)
         IN  /\ decoder' = [buffer |-> read.buffer, data |-> read.data, size |-> read.size]
             /\ ids' = Known(Q) /\ IsSeq(unsent') /\ Len(unsent') = Len(Q) - Len(P)
             /\ \A k \in 1 .. Len(unsent') : unsent'[k] = EventAt(Q, Len(P) + k)
             /\ saw' = saw \cup (IF Contains(read.frames, Done) THEN {"done"} ELSE {})
                           \cup (IF \E i \in DOMAIN Said(read.frames) : Said(read.frames)[i].type = "finish"
                                 THEN {"finish"} ELSE {})
<1> DEFINE ds == Said(read.frames)
           n == Len(ds)
           c == Len(P)
           Q == P \o ds
           Value(f, k) == IF k = 0 THEN [ids |-> ids, events |-> <<>>] ELSE WithId(f[k - 1], ds[k])
           parsed == CHOOSE f : f = [k \in 0 .. n |-> Value(f, k)]
           evs == [j \in 1 .. n |-> EventAt(Q, c + j)]
           g == [k \in 0 .. n |-> [ids |-> Known(SubSeq(Q, 1, c + k)), events |-> [j \in 1 .. k |-> evs[j]]]]
<1>1. ds \in Seq(Deltas)
  <2>1. Blank \in Lines
    BY DEF Lines
  <2>2. QED
    BY <2>1, SaidMore
<1>2. /\ Q \in Seq(Deltas) /\ Len(Q) = c + n /\ n \in Nat /\ c \in Nat
      /\ \A k \in 1 .. n : Q[c + k] = ds[k]
      /\ SubSeq(Q, 1, c) = P
  BY <1>1, JoinIs
<1>3. /\ decoder' = [buffer |-> read.buffer, data |-> read.data, size |-> read.size]
      /\ ids' = parsed[n].ids /\ unsent' = parsed[n].events
      /\ saw' = saw \cup (IF Contains(read.frames, Done) THEN {"done"} ELSE {})
                    \cup (IF \E i \in DOMAIN ds : ds[i].type = "finish" THEN {"finish"} ELSE {})
  BY DEF Convert
<1> HIDE DEF ds, n, c, Q
<1>4. \A k \in 0 .. n : g[k] = [ids |-> Known(SubSeq(Q, 1, c + k)), events |-> [j \in 1 .. k |-> evs[j]]]
  OBVIOUS
<1>5. \A j \in 1 .. n : evs[j] = EventAt(Q, c + j)
  OBVIOUS
<1>6. DOMAIN g = 0 .. n /\ g = [k \in 0 .. n |-> g[k]]
  OBVIOUS
<1> HIDE DEF evs, g
<1>7. g[0] = [ids |-> ids, events |-> <<>>]
  <2>1. [j \in 1 .. 0 |-> evs[j]] = <<>>
    OBVIOUS
  <2>2. c + 0 = c /\ 0 \in 0 .. n
    BY <1>2
  <2>3. QED
    BY <1>2, <1>4, <2>1, <2>2
<1>8. ASSUME NEW k \in 0 .. n - 1
      PROVE  WithId(g[k], ds[k + 1]) = g[k + 1]
  <2>1. k \in 0 .. n /\ k + 1 \in 0 .. n /\ k + 1 \in 1 .. n /\ k \in Nat /\ c + k \in 0 .. Len(Q) - 1
        /\ c + (k + 1) = (c + k) + 1
    BY <1>2
  <2>2. g[k] = [ids |-> Known(SubSeq(Q, 1, c + k)), events |-> [j \in 1 .. k |-> evs[j]]]
    BY <1>4, <2>1
  <2>3. g[k + 1] = [ids |-> Known(SubSeq(Q, 1, (c + k) + 1)), events |-> [j \in 1 .. k + 1 |-> evs[j]]]
    <3>1. g[k + 1] = [ids |-> Known(SubSeq(Q, 1, c + (k + 1))), events |-> [j \in 1 .. k + 1 |-> evs[j]]]
      BY <1>4, <2>1
    <3>2. QED
      BY <2>1, <3>1
  <2>4. ds[k + 1] = Q[(c + k) + 1] /\ evs[k + 1] = EventAt(Q, (c + k) + 1)
    <3>1. ds[k + 1] = Q[c + (k + 1)] /\ evs[k + 1] = EventAt(Q, c + (k + 1))
      BY <1>2, <1>5, <2>1
    <3>2. QED
      BY <2>1, <3>1
  <2> DEFINE r == [j \in 1 .. k |-> evs[j]]
             t == [j \in 1 .. k + 1 |-> evs[j]]
  <2>5. Append(r, evs[k + 1]) = t
    BY <2>1, EnumMore
  <2> HIDE DEF r, t
  <2>6. WithId([ids |-> Known(SubSeq(Q, 1, c + k)), events |-> r], Q[(c + k) + 1])
          = [ids |-> Known(SubSeq(Q, 1, (c + k) + 1)), events |-> Append(r, EventAt(Q, (c + k) + 1))]
    BY <1>2, <2>1, WithIdIs
  <2>7. QED
    BY <2>2, <2>3, <2>4, <2>5, <2>6 DEF r, t
<1>9. g = [k \in 0 .. n |-> Value(g, k)]
  <2>1. ASSUME NEW k \in 0 .. n
        PROVE  g[k] = Value(g, k)
    <3>1. CASE k = 0
      BY <1>7, <3>1
    <3>2. CASE k # 0
      <4>1. k - 1 \in 0 .. n - 1 /\ (k - 1) + 1 = k
        BY <1>2, <3>2
      <4>2. WithId(g[k - 1], ds[(k - 1) + 1]) = g[(k - 1) + 1]
        BY <1>8, <4>1
      <4>3. QED
        BY <3>2, <4>1, <4>2
    <3>3. QED
      BY <3>1, <3>2
  <2> HIDE DEF Value
  <2>2. QED
    BY <1>6, <2>1
<1>10. parsed = [k \in 0 .. n |-> Value(parsed, k)]
  <2> HIDE DEF Value
  <2>1. QED
    BY <1>9
<1> HIDE DEF parsed
<1>11. \A k \in 0 .. n : parsed[k] = Value(parsed, k)
  <2> HIDE DEF Value
  <2>1. QED
    BY <1>10
<1> DEFINE T == {k \in 0 .. n : parsed[k] = g[k]}
<1>12. 0 \in T
  <2>1. 0 \in 0 .. n
    BY <1>2
  <2>2. QED
    BY <1>7, <1>11, <2>1
<1>13. ASSUME NEW k \in 0 .. n - 1, k \in T
       PROVE  k + 1 \in T
  <2>1. k + 1 \in 0 .. n /\ k + 1 # 0 /\ (k + 1) - 1 = k
    BY <1>2
  <2>2. parsed[k + 1] = WithId(parsed[k], ds[k + 1])
    BY <1>11, <2>1
  <2>3. QED
    BY <1>8, <1>13, <2>1, <2>2
<1>14. parsed[n] = g[n]
  <2> HIDE DEF T
  <2>1. 0 \in Nat /\ 0 <= n
    BY <1>2
  <2>2. \A k \in 0 .. n : k \in T
    BY <1>2, <1>12, <1>13, <2>1, UpTo
  <2>3. n \in T
    BY <1>2, <2>2
  <2>4. QED
    BY <2>3 DEF T
<1>15. g[n] = [ids |-> Known(Q), events |-> [j \in 1 .. n |-> evs[j]]]
  <2>1. n \in 0 .. n /\ SubSeq(Q, 1, c + n) = Q
    BY <1>2, Beginning
  <2>2. QED
    BY <1>4, <2>1
<1>16. ids' = Known(Q) /\ unsent' = [j \in 1 .. n |-> evs[j]]
  BY <1>3, <1>14, <1>15
<1>17. IsSeq(unsent') /\ Len(unsent') = n /\ \A k \in 1 .. n : unsent'[k] = EventAt(Q, c + k)
  BY <1>2, <1>5, <1>16, EnumMore
<1>18. n = Len(Q) - c
  BY <1>2
<1>19. QED
  BY <1>3, <1>16, <1>17, <1>18 DEF Q, ds, c

-----------------------------------------------------------------------------
(* the worker: what has been emitted, what may be reported *)

\* Of deltas ds, unsent (us) are those the sink (tx, cs, rs) has not seen.
Emits(ds, us, tx, cs, rs) ==
  \E n \in 0 .. Len(ds) :
    /\ IsSeq(us) /\ Len(us) = Len(ds) - n
    /\ \A k \in 1 .. Len(us) : us[k] = EventAt(ds, n + k)
    /\ tx = Words(SubSeq(ds, 1, n))
    /\ cs = CallsMeant(SubSeq(ds, 1, n)) /\ Fits(SubSeq(ds, 1, n))
    /\ Stops(SubSeq(ds, 1, n)) # <<>> => rs = Stops(SubSeq(ds, 1, n))[Len(Stops(SubSeq(ds, 1, n)))]

\* A stop reason was said.
Finishes(ds) == \E k \in DOMAIN ds : ds[k].type = "finish"

\* When nothing is left to emit, the sink holds all that was said.
LEMMA EmptyUnsent ==
  ASSUME NEW ds \in Seq(Deltas), NEW tx, NEW cs, NEW rs, Emits(ds, <<>>, tx, cs, rs)
  PROVE  /\ tx = Words(ds) /\ cs = CallsMeant(ds) /\ Fits(ds)
         /\ Stops(ds) # <<>> => rs = Stops(ds)[Len(Stops(ds))]
<1>1. PICK n \in 0 .. Len(ds) :
        /\ Len(<<>>) = Len(ds) - n
        /\ tx = Words(SubSeq(ds, 1, n))
        /\ cs = CallsMeant(SubSeq(ds, 1, n)) /\ Fits(SubSeq(ds, 1, n))
        /\ Stops(SubSeq(ds, 1, n)) # <<>> => rs = Stops(SubSeq(ds, 1, n))[Len(Stops(SubSeq(ds, 1, n)))]
  BY DEF Emits
<1>2. n = Len(ds) /\ Len(ds) \in Nat
  <2>1. Len(ds) \in Nat
    BY LenProperties
  <2>2. Len(<<>>) = 0
    BY NoneIs
  <2>3. QED
    BY <1>1, <2>1, <2>2
<1>3. SubSeq(ds, 1, n) = ds
  BY <1>2, Beginning
<1>4. QED
  BY <1>1, <1>3

\* Converting frames when everything before them has been emitted.
LEMMA ConvertEmits ==
  ASSUME NEW P \in Seq(Deltas), ids = Known(P), Emits(P, <<>>, text, calls, reason),
         saw \subseteq {"finish", "done"}, "finish" \in saw <=> Finishes(P),
         NEW read, read.frames \in Seq(Lines), Convert(read)
  PROVE  LET Q == P \o Said(read.frames)
         IN  /\ Q \in Seq(Deltas) /\ ids' = Known(Q) /\ Emits(Q, unsent', text, calls, reason)
             /\ saw' \subseteq {"finish", "done"}
             /\ "finish" \in saw' <=> Finishes(Q)
             /\ "done" \in saw' <=> "done" \in saw \/ Contains(read.frames, Done)
             /\ decoder' = [buffer |-> read.buffer, data |-> read.data, size |-> read.size]
<1> DEFINE ds == Said(read.frames)
           Q == P \o ds
<1>1. ds \in Seq(Deltas)
  <2>1. Blank \in Lines
    BY DEF Lines
  <2>2. QED
    BY <2>1, SaidMore
<1>2. /\ Q \in Seq(Deltas) /\ Len(Q) = Len(P) + Len(ds)
      /\ Len(P) \in Nat /\ Len(ds) \in Nat
      /\ \A k \in 1 .. Len(P) : Q[k] = P[k]
      /\ \A k \in 1 .. Len(ds) : Q[Len(P) + k] = ds[k]
      /\ SubSeq(Q, 1, Len(P)) = P
  BY <1>1, JoinIs
<1>3. /\ decoder' = [buffer |-> read.buffer, data |-> read.data, size |-> read.size]
      /\ ids' = Known(Q) /\ IsSeq(unsent') /\ Len(unsent') = Len(Q) - Len(P)
      /\ \A k \in 1 .. Len(unsent') : unsent'[k] = EventAt(Q, Len(P) + k)
      /\ saw' = saw \cup (IF Contains(read.frames, Done) THEN {"done"} ELSE {})
                    \cup (IF \E i \in DOMAIN ds : ds[i].type = "finish" THEN {"finish"} ELSE {})
  BY ConvertIs
<1>4. DOMAIN P = 1 .. Len(P) /\ DOMAIN ds = 1 .. Len(ds) /\ DOMAIN Q = 1 .. Len(Q)
  BY <1>1, <1>2, LenProperties
<1> HIDE DEF ds, Q
<1>5. Finishes(Q) <=> Finishes(P) \/ \E i \in DOMAIN ds : ds[i].type = "finish"
  <2>1. ASSUME NEW k \in DOMAIN Q, Q[k].type = "finish"
        PROVE  Finishes(P) \/ \E i \in DOMAIN ds : ds[i].type = "finish"
    <3>1. CASE k \in 1 .. Len(P)
      BY <1>2, <1>4, <2>1, <3>1 DEF Finishes
    <3>2. CASE k \notin 1 .. Len(P)
      <4>1. k - Len(P) \in 1 .. Len(ds) /\ Len(P) + (k - Len(P)) = k
        BY <1>2, <1>4, <3>2
      <4>2. ds[k - Len(P)] = Q[k]
        BY <1>2, <4>1
      <4>3. QED
        BY <1>4, <2>1, <4>1, <4>2
    <3>3. QED
      BY <3>1, <3>2
  <2>2. \A k \in DOMAIN P : k \in DOMAIN Q /\ Q[k] = P[k]
    BY <1>2, <1>4
  <2>3. \A k \in DOMAIN ds : Len(P) + k \in DOMAIN Q /\ Q[Len(P) + k] = ds[k]
    BY <1>2, <1>4
  <2>4. QED
    BY <2>1, <2>2, <2>3 DEF Finishes
<1>6. Emits(Q, unsent', text, calls, reason)
  <2>1. Len(P) \in 0 .. Len(Q)
    BY <1>2
  <2>2. /\ text = Words(P) /\ calls = CallsMeant(P) /\ Fits(P)
        /\ Stops(P) # <<>> => reason = Stops(P)[Len(Stops(P))]
    BY EmptyUnsent
  <2>3. QED
    BY <1>2, <1>3, <2>1, <2>2 DEF Emits
<1>7. "finish" # "done"
  OBVIOUS
<1>8. /\ saw' \subseteq {"finish", "done"}
      /\ "finish" \in saw' <=> Finishes(Q)
      /\ "done" \in saw' <=> "done" \in saw \/ Contains(read.frames, Done)
  BY <1>3, <1>5, <1>7
<1>9. QED
  BY <1>2, <1>3, <1>6, <1>8 DEF Q, ds

\* The next event reaches the sink, or it shows that the calls cannot be answered.
LEMMA EmitStep ==
  ASSUME NEW P \in Seq(Deltas), Emits(P, unsent, text, calls, reason), unsent # <<>>,
         NEW e, e = Head(unsent),
         EmitText(e) \/ EmitUsage(e) \/ EmitFinish(e) \/ EmitCall(e)
  PROVE  /\ ~EmitFails(e) => Emits(P, Tail(unsent), text', calls', reason')
         /\ EmitFails(e) /\ e.type = "call" => \A t : Begins(P, t) => Answer(t) = Meaningless
<1>1. PICK n \in 0 .. Len(P) :
        /\ IsSeq(unsent) /\ Len(unsent) = Len(P) - n
        /\ \A k \in 1 .. Len(unsent) : unsent[k] = EventAt(P, n + k)
        /\ text = Words(SubSeq(P, 1, n))
        /\ calls = CallsMeant(SubSeq(P, 1, n)) /\ Fits(SubSeq(P, 1, n))
        /\ Stops(SubSeq(P, 1, n)) # <<>> => reason = Stops(SubSeq(P, 1, n))[Len(Stops(SubSeq(P, 1, n)))]
  BY DEF Emits
<1> DEFINE Q == SubSeq(P, 1, n)
           m == SubSeq(P, 1, n + 1)
           a == P[n + 1]
<1>2. Len(P) \in Nat /\ n \in Nat
  BY LenProperties
<1>3. Len(unsent) # 0 /\ Len(unsent) \in Nat
  <2>1. Len(unsent) = 0 => unsent = <<>>
    <3>1. SUFFICES ASSUME Len(unsent) = 0
                   PROVE  unsent = <<>>
      OBVIOUS
    <3>2. \A i \in 1 .. Len(unsent) : unsent[i] = <<>>[i]
      BY <3>1
    <3>3. QED
      BY <1>1, <3>1, <3>2, NoneIs, SameSeq
  <2>2. Len(unsent) \in Nat
    BY <1>1, AppendAny
  <2>3. QED
    BY <2>1, <2>2
<1>4. n \in 0 .. Len(P) - 1 /\ n + 1 \in 0 .. Len(P) /\ n + 1 \in 1 .. Len(P) /\ 1 \in 1 .. Len(unsent)
      /\ n + 1 \in 1 .. n + 1
  BY <1>1, <1>2, <1>3
<1>5. Q \in Seq(Deltas) /\ Len(Q) = n /\ a \in Deltas /\ m = Append(Q, a) /\ m \in Seq(Deltas) /\ Len(m) = n + 1
      /\ Begins(m, P)
  BY <1>4, Beginning, BeginningMore, BeginningBegins, ElementOfSeq
<1>6. e = unsent[1] /\ e = EventAt(P, n + 1)
  <2>1. e = unsent[1]
    OBVIOUS
  <2>2. QED
    BY <1>1, <1>4, <2>1
<1>7. IdAt(P, n + 1) = IdAt(m, n + 1)
  BY <1>4, <1>5, IdStays
<1>8. IdAt(m, n + 1) = NewId(Q, a)
  BY <1>5 DEF NewId
<1>9. e = IF a.type = "call" THEN [a EXCEPT !.id = NewId(Q, a)] ELSE a
  BY <1>6, <1>7, <1>8 DEF EventAt
<1>10. e.type = a.type
  <2>1. CASE a.type = "call"
    <3> DEFINE x == NewId(Q, a)
    <3>1. a \in Deltas
      BY <1>5
    <3>2. e = [a EXCEPT !.id = x]
      BY <1>9, <2>1
    <3> HIDE DEF a, x
    <3>3. [a EXCEPT !.id = x].type = "call"
      BY <2>1, <3>1, CallFields DEF a
    <3>4. QED
      BY <2>1, <3>2, <3>3 DEF a
  <2>2. CASE a.type # "call"
    BY <1>9, <2>2
  <2>3. QED
    BY <2>1, <2>2
<1>11. text = Words(Q) /\ calls = CallsMeant(Q) /\ Fits(Q) /\ (Stops(Q) # <<>> => reason = Stops(Q)[Len(Stops(Q))])
  BY <1>1
<1>12. /\ IsSeq(Tail(unsent)) /\ Len(Tail(unsent)) = Len(P) - (n + 1)
       /\ \A k \in 1 .. Len(Tail(unsent)) : Tail(unsent)[k] = EventAt(P, (n + 1) + k)
  <2>1. PICK S : unsent \in Seq(S)
    BY <1>1 DEF IsSeq
  <2>2. /\ Tail(unsent) \in Seq(S) /\ Len(Tail(unsent)) = Len(unsent) - 1
        /\ \A k \in 1 .. Len(unsent) - 1 : Tail(unsent)[k] = unsent[k + 1]
    BY <2>1, HeadTailProperties
  <2>3. \A k \in 1 .. Len(unsent) - 1 : k + 1 \in 1 .. Len(unsent) /\ n + (k + 1) = (n + 1) + k
    BY <1>2, <1>3
  <2>4. Len(unsent) - 1 = Len(P) - (n + 1)
    BY <1>1, <1>2, <1>3
  <2>5. QED
    BY <1>1, <2>2, <2>3, <2>4 DEF IsSeq
<1>13. /\ Words(m) = IF a.type = "text" THEN Append(Words(Q), a.text) ELSE Words(Q)
       /\ Stops(m) = IF a.type = "finish" THEN Append(Stops(Q), a.reason) ELSE Stops(Q)
       /\ Stops(Q) \in Seq(STRING)
       /\ a.type # "call" => CallsMeant(m) = CallsMeant(Q) /\ Fits(m)
  BY <1>5, <1>11, WordsMore, StopsMore, NoCall
<1>14. a.type \in {"usage", "text", "finish", "call"} /\ (a.type = "finish" => a.reason \in STRING)
  BY <1>5, DeltaFields
<1> HIDE DEF Q, m, a
<1>15. ASSUME ~EmitFails(e)
       PROVE  /\ text' = Words(m) /\ calls' = CallsMeant(m) /\ Fits(m)
              /\ Stops(m) # <<>> => reason' = Stops(m)[Len(Stops(m))]
  <2>1. CASE a.type = "text"
    <3>1. e = a /\ EmitText(e)
      BY <1>9, <1>10, <2>1 DEF EmitText, EmitUsage, EmitFinish, EmitCall
    <3>2. text' = Append(text, a.text) /\ calls' = calls /\ reason' = reason
      BY <3>1 DEF EmitText
    <3>3. QED
      BY <1>11, <1>13, <2>1, <3>2
  <2>2. CASE a.type = "usage"
    <3>1. e = a /\ EmitUsage(e)
      BY <1>9, <1>10, <2>2 DEF EmitText, EmitUsage, EmitFinish, EmitCall
    <3>2. text' = text /\ calls' = calls /\ reason' = reason
      BY <3>1 DEF EmitUsage
    <3>3. QED
      BY <1>11, <1>13, <2>2, <3>2
  <2>3. CASE a.type = "finish"
    <3>1. e = a /\ EmitFinish(e)
      BY <1>9, <1>10, <2>3 DEF EmitText, EmitUsage, EmitFinish, EmitCall
    <3>2. text' = text /\ calls' = calls /\ reason' = a.reason
      BY <3>1 DEF EmitFinish
    <3>3. Stops(m)[Len(Stops(m))] = a.reason
      <4>1. Stops(m) = Append(Stops(Q), a.reason)
        BY <1>13, <2>3
      <4>2. IsSeq(Stops(Q))
        BY <1>13, SeqIs
      <4>3. Len(Stops(m)) = Len(Stops(Q)) + 1 /\ Stops(m)[Len(Stops(Q)) + 1] = a.reason
        BY <4>1, <4>2, AppendAny
      <4>4. QED
        BY <4>3
    <3>4. QED
      BY <1>11, <1>13, <2>3, <3>2, <3>3
  <2>4. CASE a.type = "call"
    <3>1. e = [a EXCEPT !.id = NewId(Q, a)] /\ EmitCall(e) /\ Accumulates(e)
      BY <1>9, <1>10, <1>15, <2>4 DEF EmitText, EmitUsage, EmitFinish, EmitCall, EmitFails
    <3>2. Accumulate(e) /\ text' = text /\ reason' = reason
      BY <3>1 DEF EmitCall
    <3>3. calls' = CallsMeant(m) /\ Fits(m)
      BY <1>5, <1>11, <2>4, <3>1, <3>2, AccumulateIs DEF m, Q, a
    <3>4. QED
      BY <1>11, <1>13, <2>4, <3>2, <3>3
  <2>5. QED
    BY <1>14, <2>1, <2>2, <2>3, <2>4
<1>16. ~EmitFails(e) => Emits(P, Tail(unsent), text', calls', reason')
  <2>1. SUFFICES ASSUME ~EmitFails(e)
                 PROVE  Emits(P, Tail(unsent), text', calls', reason')
    OBVIOUS
  <2>2. QED
    BY <1>4, <1>12, <1>15, <2>1 DEF Emits, m
<1>17. ASSUME EmitFails(e), e.type = "call", NEW t, Begins(P, t)
       PROVE  Answer(t) = Meaningless
  <2>1. e = [a EXCEPT !.id = NewId(Q, a)] /\ a.type = "call" /\ ~Accumulates(e)
    BY <1>9, <1>10, <1>17 DEF EmitFails
  <2>2. ~Fits1(m, NewId(Q, a))
    <3>1. Q \in Seq(Deltas) /\ a \in Deltas /\ m = Append(Q, a)
      BY <1>5 DEF Q, a, m
    <3>2. QED
      BY <1>11, <2>1, <3>1, AccumulatesIff
  <2>3. Begins(m, t)
    <3>1. m \in Seq(Deltas) /\ P \in Seq(Deltas) /\ Len(m) <= Len(P) /\ \A k \in 1 .. Len(m) : P[k] = m[k]
      BY <1>5 DEF Begins, m
    <3>2. t \in Seq(Deltas) /\ Len(P) <= Len(t) /\ \A k \in 1 .. Len(P) : t[k] = P[k]
      BY <1>17 DEF Begins
    <3>3. Len(m) \in Nat /\ Len(P) \in Nat /\ Len(t) \in Nat
      BY <3>1, <3>2, LenProperties
    <3>4. \A k \in 1 .. Len(m) : k \in 1 .. Len(P)
      BY <3>1, <3>3
    <3>5. Len(m) <= Len(t)
      BY <3>1, <3>2, <3>3
    <3>6. QED
      BY <3>1, <3>2, <3>4, <3>5 DEF Begins
  <2>4. n + 1 \in Fragments(m) /\ IdAt(m, n + 1) = NewId(Q, a)
    <3>1. m[n + 1] = a /\ DOMAIN m = 1 .. n + 1
      <4>1. Q \in Seq(Deltas) /\ a \in Deltas /\ m = Append(Q, a) /\ Len(Q) = n
        BY <1>5 DEF Q, a, m
      <4>2. QED
        BY <4>1, MoreDelta
    <3>2. QED
      BY <1>4, <1>8, <2>1, <3>1 DEF Fragments, m, Q, a
  <2>5. QED
    BY <2>2, <2>3, <2>4, Hopeless
<1>18. QED
  BY <1>16, <1>17

-----------------------------------------------------------------------------
(* readings and meanings, of any body b of which s units were delivered *)

\* The readings of a body b of which s units came, their meaning, and what a report r may
\* say of them.
UnitLine(b, u) == b[(u - 1) \div 3 + 1]
ReadingsOf(b, s) ==
  IF ~(s % 3 # 0 /\ UnitLine(b, s) # Blank) THEN {SubSeq(b, 1, s \div 3)}
  ELSE {Append(SubSeq(b, 1, s \div 3), line) :
          line \in IF s % 3 = 2 \/ UnitLine(b, s) = Comment THEN {UnitLine(b, s)} ELSE {Junk, Comment}}

\* A server's mistake: what no reading can take for an answer.
Wrong(L, s) == Contains(L, Junk) \/ TwoInOne(L) \/ Big(L, s)
Meant(L, s) ==
  IF Wrong(L, s) \/ Stops(Said(L)) = <<>> \/ ~Contains(L, Done) THEN Meaningless ELSE Answer(Said(L))

Truthful(r, b, s) ==
  r # NoReport =>
    IF r.type = "failed"
    THEN r.why \in {"protocol", "incomplete", "calls"} =>
           \E L \in ReadingsOf(b, s) : Meant(L, s) = Meaningless
    ELSE r.type # "cancelled" => \E L \in ReadingsOf(b, s) : Meant(L, s) = r

\* These are the readings of the model, for its body.
LEMMA ReadingsAre == Readings = ReadingsOf(body, sent)
  BY DEF Readings, ReadingsOf, Torn, Whole, LineOf, UnitLine

\* This is the meaning of the model.
LEMMA MeaningIs ==
  ASSUME NEW L
  PROVE  Meaning(L) = Meant(L, sent)
<1>1. TooBig(L) <=> Big(L, sent)
  <2>1. \A i, j \in DOMAIN L : FrameSize(L, i, j) = 3 * (j - i) + Cost(L[j], j, sent)
    BY DEF FrameSize, Cost
  <2>2. QED
    BY <2>1 DEF TooBig, Big
<1>2. Malformed(L) <=> Wrong(L, sent)
  BY <1>1 DEF Malformed, Wrong
<1>3. Meaning(L) = IF Malformed(L) \/ Stops(Said(L)) = <<>> \/ ~Contains(L, Done)
                   THEN Meaningless ELSE Answer(Said(L))
  BY DEF Meaning, Answer
<1>4. QED
  BY <1>2, <1>3 DEF Meant

\* A report that says what some reading means is what was said.
LEMMA TruthIs ==
  ASSUME Truthful(report, body, sent)
  PROVE  ReportIsWhatWasSaid
<1> DEFINE ms == {Meaning(L) : L \in Readings}
<1>1. \A x : (\E L \in ReadingsOf(body, sent) : Meant(L, sent) = x) => x \in ms
  BY ReadingsAre, MeaningIs
<1> HIDE DEF ms
<1>2. report # NoReport =>
        IF report.type = "failed"
        THEN report.why \in {"protocol", "incomplete", "calls"} => Meaningless \in ms
        ELSE report.type # "cancelled" => report \in ms
  BY <1>1 DEF Truthful
<1>3. QED
  BY <1>2 DEF ReportIsWhatWasSaid, ms

\* Every reading begins with the whole lines, and there is one.
LEMMA ReadingBegins ==
  ASSUME body \in Seq(Lines), NEW s \in 0 .. Units, NEW L \in ReadingsOf(body, s)
  PROVE  LET M == SubSeq(body, 1, s \div 3)
         IN  /\ M \in Seq(Lines) /\ Len(M) = s \div 3 /\ 3 * (s \div 3) <= s
             /\ L = M \/ \E line \in Lines : L = Append(M, line)
             /\ L \in Seq(Lines) /\ Len(M) <= Len(L)
             /\ \A k \in 1 .. Len(M) : L[k] = M[k]
<1> DEFINE M == SubSeq(body, 1, s \div 3)
<1>1. Len(body) \in Nat /\ Units = 3 * Len(body) /\ s \in Nat /\ s <= Units
  <2>1. Len(body) \in Nat
    BY LenProperties
  <2>2. QED
    BY <2>1 DEF Units
<1>2. s \div 3 \in 0 .. Len(body) /\ 3 * (s \div 3) <= s
  BY <1>1
<1>3. M \in Seq(Lines) /\ Len(M) = s \div 3
  BY <1>2, Beginning
<1>4. L = M \/ \E line \in Lines : L = Append(M, line)
  <2>1. CASE ~(s % 3 # 0 /\ UnitLine(body, s) # Blank)
    BY <2>1 DEF ReadingsOf
  <2>2. CASE s % 3 # 0 /\ UnitLine(body, s) # Blank
    <3>1. UnitLine(body, s) \in Lines
      <4>1. s \in 1 .. Units
        BY <1>1, <2>2
      <4>2. LineOf(s) \in Lines
        BY <4>1, LineIs
      <4>3. QED
        BY <4>2 DEF LineOf, UnitLine
    <3>2. Junk \in Lines /\ Comment \in Lines
      BY DEF Lines
    <3>3. PICK line \in IF s % 3 = 2 \/ UnitLine(body, s) = Comment THEN {UnitLine(body, s)} ELSE {Junk, Comment} :
            L = Append(M, line)
      BY <2>2 DEF ReadingsOf
    <3>4. line \in Lines
      BY <3>1, <3>2, <3>3
    <3>5. QED
      BY <3>3, <3>4
  <2>3. QED
    BY <2>1, <2>2
<1> HIDE DEF M
<1>5. L \in Seq(Lines) /\ Len(M) <= Len(L) /\ \A k \in 1 .. Len(M) : L[k] = M[k]
  <2>1. CASE L = M
    <3>1. Len(M) \in Nat
      BY <1>3, LenProperties
    <3>2. QED
      BY <1>3, <2>1, <3>1
  <2>2. CASE \E line \in Lines : L = Append(M, line)
    <3>1. PICK line \in Lines : L = Append(M, line)
      BY <2>2
    <3>2. QED
      BY <1>3, <3>1, MoreLine
  <2>3. QED
    BY <1>4, <2>1, <2>2
<1>6. QED
  BY <1>2, <1>3, <1>4, <1>5 DEF M

\* A body has a reading wherever it was cut.
LEMMA ReadingExists == \A b, s : ReadingsOf(b, s) # {}
<1>1. ASSUME NEW b, NEW s
      PROVE  ReadingsOf(b, s) # {}
  <2>1. CASE ~(s % 3 # 0 /\ UnitLine(b, s) # Blank)
    BY <2>1 DEF ReadingsOf
  <2>2. CASE s % 3 # 0 /\ UnitLine(b, s) # Blank
    <3> DEFINE S == IF s % 3 = 2 \/ UnitLine(b, s) = Comment THEN {UnitLine(b, s)} ELSE {Junk, Comment}
    <3>1. ReadingsOf(b, s) = {Append(SubSeq(b, 1, s \div 3), line) : line \in S}
      BY <2>2 DEF ReadingsOf
    <3>2. \E line : line \in S
      OBVIOUS
    <3> HIDE DEF S
    <3>3. QED
      BY <3>1, <3>2
  <2>3. QED
    BY <2>1, <2>2
<1>2. QED
  BY <1>1

\* What is said of whole lines begins what any reading says.
LEMMA SaidBegins ==
  ASSUME body \in Seq(Lines), NEW s \in 0 .. Units, NEW L \in ReadingsOf(body, s)
  PROVE  Begins(Said(SubSeq(body, 1, s \div 3)), Said(L))
<1> DEFINE M == SubSeq(body, 1, s \div 3)
<1>1. M \in Seq(Lines) /\ (L = M \/ \E line \in Lines : L = Append(M, line))
  BY ReadingBegins
<1> HIDE DEF M
<1>2. Blank \in Lines
  BY DEF Lines
<1>3. Said(M) \in Seq(Deltas)
  BY <1>1, <1>2, SaidMore
<1>4. CASE L = M
  <2>1. Len(Said(M)) \in Nat
    BY <1>3, LenProperties
  <2>2. Begins(Said(M), Said(M))
    BY <1>3, <2>1 DEF Begins
  <2>3. QED
    BY <1>4, <2>2 DEF M
<1>5. CASE \E line \in Lines : L = Append(M, line)
  <2>1. PICK line \in Lines : L = Append(M, line)
    BY <1>5
  <2>2. Said(L) = Said(M) \o line.says /\ line.says \in Seq(Deltas)
    BY <1>1, <2>1, SaidMore
  <2>3. Begins(Said(M), Said(L))
    BY <1>3, <2>2, JoinIs
  <2>4. QED
    BY <2>3 DEF M
<1>6. QED
  BY <1>1, <1>4, <1>5

\* What goes wrong in the frames read is wrong in the lines.
LEMMA BadFrames ==
  ASSUME NEW d, NEW M, NEW s, NEW P, NEW done, d.failed => Big(M, s), ~d.failed => Content(d, M, P, done),
         d.failed \/ Contains(d.frames, Junk)
  PROVE  Wrong(M, s)
  BY DEF Content, Wrong

\* The end of the stream reads the last line and the last frame.
LEMMA FlushIs ==
  ASSUME body \in Seq(Lines), sent \in 0 .. Units, Reading(decoder) \in Readers,
         NEW P \in Seq(Deltas), NEW done \in BOOLEAN,
         At(Reading(decoder), sent, sent, P, done), NEW torn \in {Junk, Comment}
  PROVE  \E L \in ReadingsOf(body, sent) :
           LET read == Flush(decoder, torn)
           IN  /\ L \in Seq(Lines) /\ read \in Readers
               /\ read.failed => Big(L, sent)
               /\ ~read.failed => ~Big(L, sent) /\ Content(read, L, P, done) /\ read.data = <<>>
<1> DEFINE d == Reading(decoder)
           w == sent \div 3
           M == SubSeq(body, 1, w)
           r == Flush(decoder, torn)
<1>1. d.buffer = decoder.buffer /\ d.failed = FALSE
  BY DEF Reading
<1>2. Reads(d, M, sent, P, done) /\ d.buffer = Pending(sent)
  BY DEF At
<1>3. ~Big(M, sent) /\ Content(d, M, P, done)
  BY <1>1, <1>2 DEF Reads
<1>4. Len(body) \in Nat /\ Units = 3 * Len(body) /\ sent \in Nat /\ sent <= Units
  <2>1. Len(body) \in Nat
    BY LenProperties
  <2>2. QED
    BY <2>1 DEF Units
<1>5. w \in 0 .. Len(body)
  BY <1>4
<1>6. M \in Seq(Lines) /\ Len(M) = w
  BY <1>5, Beginning
<1> HIDE DEF d, M, w, r
<1>7. CASE sent % 3 = 0 \/ LineOf(sent) = Blank
  <2>1. M \in ReadingsOf(body, sent)
    BY <1>7 DEF ReadingsOf, LineOf, UnitLine, M, w
  <2>2. decoder.buffer = <<>>
    BY <1>1, <1>2, <1>7 DEF Pending
  <2>3. r = DispatchFrame(d)
    BY <1>1, <2>2 DEF Flush, r, d
  <2>4. d \in Readers
    BY DEF d
  <2>5. r \in Readers /\ ~r.failed /\ r.data = <<>>
    BY <1>1, <2>3, <2>4, DispatchIs
  <2>6. Content(r, M, P, done)
    BY <1>3, <2>3, <2>4, ContentDispatch
  <2>7. QED
    BY <1>3, <1>6, <2>1, <2>5, <2>6 DEF r
<1>8. CASE sent % 3 # 0 /\ LineOf(sent) # Blank
  <2> DEFINE bytes == decoder.buffer
             x == LineText(bytes, torn)
             y == ConsumeLine(d, bytes, torn)
             L == Append(M, x)
             z == [y EXCEPT !.buffer = <<>>]
  <2>1. sent \in 1 .. Units /\ (sent % 3 = 1 \/ sent % 3 = 2)
    BY <1>4, <1>8
  <2>2. LineOf(sent) \in Lines
    BY <2>1, LineIs
  <2>3. (sent % 3 = 1 => sent = 3 * w + 1) /\ (sent % 3 = 2 => sent = 3 * w + 2)
    BY <1>4 DEF w
  <2>4. bytes = IF sent % 3 = 1 THEN <<sent>> ELSE <<sent - 1, sent>>
    BY <1>1, <1>2, <1>8 DEF Pending
  <2>5. LineOf(bytes[1]) = LineOf(sent) /\ bytes # <<>> /\ Len(bytes) = IF sent % 3 = 1 THEN 1 ELSE 2
    <3>1. CASE sent % 3 = 1
      <4>1. bytes = <<sent>>
        BY <2>4, <3>1
      <4>2. QED
        BY <3>1, <4>1
    <3>2. CASE sent % 3 = 2
      <4>1. bytes = <<sent - 1, sent>>
        BY <2>4, <3>2
      <4>2. bytes[1] = sent - 1 /\ bytes # <<>> /\ Len(bytes) = 2
        BY <4>1
      <4>3. (sent - 1) - 1 = sent - 2 /\ (sent - 2) \div 3 = (sent - 1) \div 3
        BY <1>4, <2>1, <3>2
      <4>4. LineOf(sent - 1) = LineOf(sent)
        BY <4>3 DEF LineOf
      <4>5. QED
        BY <3>2, <4>2, <4>4
    <3>3. QED
      BY <2>1, <3>1, <3>2
  <2>6. x = IF sent % 3 = 2 \/ LineOf(sent) = Comment THEN LineOf(sent) ELSE torn
    <3>1. Len(bytes) = 2 <=> sent % 3 = 2
      BY <2>1, <2>5
    <3>2. QED
      BY <2>5, <3>1 DEF LineText
  <2>7. x \in Lines /\ x # Blank
    <3>1. Junk \in Lines /\ Comment \in Lines
      BY DEF Lines
    <3>2. Junk # Blank /\ Comment # Blank
      BY DEF Junk, Blank, Comment
    <3>3. QED
      BY <1>8, <2>2, <2>6, <3>1, <3>2
  <2>8. L \in ReadingsOf(body, sent)
    <3>1. UnitLine(body, sent) = LineOf(sent)
      BY DEF UnitLine, LineOf
    <3>2. x \in IF sent % 3 = 2 \/ UnitLine(body, sent) = Comment THEN {UnitLine(body, sent)} ELSE {Junk, Comment}
      BY <2>6, <3>1
    <3> HIDE DEF x
    <3>3. QED
      BY <1>8, <3>1, <3>2 DEF ReadingsOf, M, w
  <2>9. Len(bytes) \in Nat /\ Len(bytes) + 1 = Cost(x, Len(M) + 1, sent)
    <3>1. sent % 3 = 1 => 3 * (w + 1) = sent + 2
      BY <1>5, <2>3
    <3>2. sent % 3 = 2 => 3 * (w + 1) # sent + 2
      BY <1>5, <2>3
    <3>3. QED
      BY <1>6, <2>1, <2>5, <2>7, <3>1, <3>2 DEF Cost
  <2>10. d \in Readers
    BY DEF d
  <2> HIDE DEF x
  <2>11. /\ y \in Readers
         /\ y.failed => Big(L, sent)
         /\ ~y.failed => ~Big(L, sent) /\ Content(y, L, P, done)
    <3>1. LineText(bytes, torn) = x
      BY DEF x
    <3> HIDE DEF bytes
    <3>2. QED
      BY <1>2, <1>4, <1>6, <2>7, <2>9, <2>10, <3>1, LineStep
  <2> HIDE DEF bytes, y
  <2>12. z \in Readers /\ (Content(y, L, P, done) => Content(z, L, P, done)) /\ z.failed = y.failed
    <3>1. <<>> \in Seq(1 .. Units)
      OBVIOUS
    <3>2. QED
      BY <2>11, <3>1, SetBuffer
  <2>13. r = IF z.failed THEN z ELSE DispatchFrame(z)
    <3>1. decoder.buffer # <<>>
      BY <2>5 DEF bytes
    <3>2. QED
      BY <3>1 DEF Flush, r, z, y, d, bytes
  <2>14. L \in Seq(Lines)
    BY <1>6, <2>7, MoreLine
  <2> HIDE DEF z, L
  <2>15. /\ r \in Readers
         /\ r.failed => Big(L, sent)
         /\ ~r.failed => ~Big(L, sent) /\ Content(r, L, P, done) /\ r.data = <<>>
    <3>1. CASE z.failed
      BY <2>11, <2>12, <2>13, <3>1
    <3>2. CASE ~z.failed
      <4>1. r = DispatchFrame(z)
        BY <2>13, <3>2
      <4>2. r \in Readers /\ ~r.failed /\ r.data = <<>>
        BY <2>12, <3>2, <4>1, DispatchIs
      <4>3. Content(r, L, P, done)
        BY <2>11, <2>12, <3>2, <4>1, ContentDispatch
      <4>4. QED
        BY <2>11, <2>12, <3>2, <4>2, <4>3
    <3>3. QED
      BY <3>1, <3>2
  <2>16. QED
    BY <2>8, <2>14, <2>15 DEF r
<1>9. QED
  BY <1>7, <1>8

-----------------------------------------------------------------------------
(* the inductive invariant *)

\* The decoder within a body b.
PendingOf(b, u) ==
  IF u % 3 = 0 \/ UnitLine(b, u) = Blank THEN <<>> ELSE IF u % 3 = 1 THEN <<u>> ELSE <<u - 1, u>>
AtOf(b, d, u, s, P, done) ==
  Reads(d, SubSeq(b, 1, u \div 3), s, P, done) /\ d.buffer = PendingOf(b, u)
ReadersOf(b) == [buffer : Seq(1 .. 3 * Len(b)), data : Seq(Lines), size : Nat, frames : Seq(Lines),
                 failed : BOOLEAN]

\* For the body of the model this is what the lemmas about the decoder speak of.
LEMMA AtIs ==
  /\ \A d, u, s, P, done : AtOf(body, d, u, s, P, done) <=> At(d, u, s, P, done)
  /\ ReadersOf(body) = Readers
<1>1. \A u : PendingOf(body, u) = Pending(u)
  BY DEF PendingOf, Pending, UnitLine, LineOf
<1>2. QED
  BY <1>1 DEF AtOf, At, ReadersOf, Readers, Units

\* While the stream is read: the decoder, the parser and the sink have taken in what
\* the delivered units of body b say, each as far as it has come.
Streaming(b, s, d, i, w, us, tx, cs, rs) ==
  \E P \in Seq(Deltas) :
    /\ i = Known(P) /\ w \subseteq {"finish", "done"} /\ ("finish" \in w <=> Finishes(P))
    /\ Reading(d) \in ReadersOf(b) /\ AtOf(b, Reading(d), s, s, P, "done" \in w)
    /\ Emits(P, us, tx, cs, rs)

\* After its end: a reading of the body is in order, and its deltas are being emitted.
Flushing(b, s, us, tx, cs, rs) ==
  \E L \in ReadingsOf(b, s) :
    /\ L \in Seq(Lines) /\ ~Wrong(L, s) /\ Contains(L, Done) /\ Stops(Said(L)) # <<>>
    /\ Emits(Said(L), us, tx, cs, rs)

\* The inductive invariant.
StreamInv ==
  /\ body \in Seq(Lines)
  /\ sent \in 0 .. 3 * Len(body)
  /\ phase \in {"request", "stream"} => Streaming(body, sent, decoder, ids, saw, unsent, text, calls, reason)
  /\ phase = "flush" => Flushing(body, sent, unsent, text, calls, reason)
  /\ phase \in {"request", "stream", "flush"} => report = NoReport
  /\ Truthful(report, body, sent)

\* Before the request nothing was read and nothing is said.
LEMMA InitInv == Init => StreamInv
<1> SUFFICES ASSUME Init
             PROVE  StreamInv
  OBVIOUS
<1>1. body \in Seq(Lines) /\ Len(body) \in Nat
  <2>1. body \in Seq(Lines)
    BY StreamAssumption DEF Init
  <2>2. QED
    BY <2>1, LenProperties
<1>2. /\ sent = 0 /\ decoder = NoDecoder /\ ids = <<>> /\ saw = {} /\ phase = "request" /\ unsent = <<>>
      /\ text = <<>> /\ calls = <<>> /\ report = NoReport
  BY DEF Init
<1> DEFINE P == <<>>
           d == Reading(decoder)
<1>3. P \in Seq(Deltas) /\ <<>> \in Seq(Lines) /\ <<>> \in Seq(1 .. 3 * Len(body)) /\ Len(<<>>) = 0 /\ DOMAIN <<>> = {}
  OBVIOUS
<1>4. d.buffer = <<>> /\ d.data = <<>> /\ d.size = 0 /\ d.frames = <<>> /\ d.failed = FALSE /\ d \in ReadersOf(body)
  BY <1>2, <1>3 DEF Reading, NoDecoder, ReadersOf
<1>5. ids = Known(<<>>)
  <2>1. Indexes(<<>>) = {}
    BY NoDeltas DEF Indexes
  <2>2. Known(<<>>) = [i \in {} |-> Appointed(<<>>, i)]
    BY <2>1 DEF Known
  <2>3. [i \in {} |-> Appointed(<<>>, i)] = <<>>
    OBVIOUS
  <2>4. QED
    BY <1>2, <2>2, <2>3
<1>6. ~Finishes(<<>>)
  BY <1>3 DEF Finishes
<1>7. AtOf(body, d, 0, 0, <<>>, FALSE)
  <2>1. SubSeq(body, 1, 0 \div 3) = <<>> /\ PendingOf(body, 0) = <<>>
    <3>1. 0 \div 3 = 0 /\ 0 % 3 = 0
      OBVIOUS
    <3>2. SubSeq(body, 1, 0) = <<>>
      BY <1>1, Beginning
    <3>3. QED
      BY <3>1, <3>2 DEF PendingOf
  <2>2. ~Big(<<>>, 0) /\ ~TwoInOne(<<>>)
    BY <1>3 DEF Big, TwoInOne
  <2>3. Content(d, <<>>, <<>>, FALSE)
    <3>1. Said(<<>>) = <<>> /\ <<>> \o <<>> \o <<>> = <<>>
      <4>1. <<>> \o <<>> = <<>>
        BY <1>3, ConcatEmptySeq
      <4>2. QED
        BY <4>1, SaidNone
    <3>2. \A y : ~Contains(<<>>, y)
      BY ContainsNone
    <3>3. ~(Len(<<>>) >= 2)
      BY <1>3
    <3>4. QED
      BY <1>4, <2>2, <3>1, <3>2, <3>3 DEF Content
  <2>4. Framed(d, <<>>, 0)
    <3>1. Frame(<<>>, 0) /\ ~Spoken(<<>>, 0)
      BY <1>3 DEF Frame, Spoken
    <3>2. 3 * (Len(<<>>) - 0) = 0
      BY <1>3
    <3>3. QED
      BY <1>4, <3>1, <3>2 DEF Framed
  <2>5. Reads(d, <<>>, 0, <<>>, FALSE)
    BY <1>4, <2>2, <2>3, <2>4 DEF Reads
  <2>6. QED
    BY <1>4, <2>1, <2>5 DEF AtOf
<1>8. Emits(<<>>, unsent, text, calls, reason)
  <2>1. SubSeq(<<>>, 1, 0) = <<>> /\ 0 \in 0 .. Len(<<>>)
    BY <1>3, Beginning
  <2>2. Words(<<>>) = <<>> /\ Stops(<<>>) = <<>>
    BY NoDeltas
  <2>3. CallsMeant(<<>>) = <<>>
    <3>1. Ids(<<>>) = <<>>
      BY NoDeltas
    <3>2. QED
      BY <1>3, <3>1 DEF CallsMeant
  <2>4. Fits(<<>>)
    <3>1. ArgLimit \in Nat
      BY StreamAssumption
    <3>2. \A x : Names(<<>>, x) = {} /\ Args(<<>>, x) = <<>>
      BY NoDeltas
    <3>3. \A x : Len(Args(<<>>, x)) <= ArgLimit
      BY <1>3, <3>1, <3>2
    <3>4. QED
      BY <3>2, <3>3 DEF Fits, Fits1
  <2>5. IsSeq(<<>>)
    BY NoneIs
  <2>6. Len(<<>>) = Len(<<>>) - 0 /\ \A k \in 1 .. Len(<<>>) : <<>>[k] = EventAt(<<>>, 0 + k)
    BY <1>3
  <2>7. Words(SubSeq(<<>>, 1, 0)) = <<>> /\ CallsMeant(SubSeq(<<>>, 1, 0)) = <<>> /\ Fits(SubSeq(<<>>, 1, 0))
        /\ Stops(SubSeq(<<>>, 1, 0)) = <<>>
    BY <2>1, <2>2, <2>3, <2>4
  <2>8. Emits(<<>>, <<>>, <<>>, <<>>, reason)
    BY <2>1, <2>5, <2>6, <2>7, Zenon DEF Emits
  <2>9. QED
    BY <1>2, <2>8, Zenon
<1>9. Streaming(body, sent, decoder, ids, saw, unsent, text, calls, reason)
  <2>1. "finish" \notin {} /\ ("done" \in {}) = FALSE /\ {} \subseteq {"finish", "done"}
    OBVIOUS
  <2>2. QED
    BY <1>2, <1>3, <1>4, <1>5, <1>6, <1>7, <1>8, <2>1 DEF Streaming
<1>10. sent \in 0 .. 3 * Len(body)
  BY <1>1, <1>2
<1>11. Truthful(report, body, sent)
  BY <1>2 DEF Truthful
<1>12. QED
  BY <1>1, <1>2, <1>9, <1>10, <1>11 DEF StreamInv

\* A report that says nothing about the body.
LEMMA OtherReports ==
  ASSUME NEW b, NEW s
  PROVE  /\ Truthful(Failed("response"), b, s) /\ Truthful(Failed("transport"), b, s)
         /\ Truthful(Failed("closed"), b, s) /\ Truthful(Cancelled, b, s)
<1>1. \A why : Failed(why).type = "failed" /\ Failed(why).why = why
  BY DEF Failed
<1>2. Cancelled.type = "cancelled"
  BY DEF Cancelled
<1>3. QED
  BY <1>1, <1>2 DEF Truthful

\* A failure is true when some reading is no answer.
LEMMA BadReport ==
  ASSUME NEW b, NEW s, NEW why, NEW L \in ReadingsOf(b, s), Meant(L, s) = Meaningless
  PROVE  Truthful(Failed(why), b, s)
<1>1. Failed(why).type = "failed"
  BY DEF Failed
<1>2. QED
  BY <1>1 DEF Truthful

-----------------------------------------------------------------------------
(* the steps *)

\* A step ends in one of three places: it reports, it goes on reading, it goes on emitting.
LEMMA Reported ==
  ASSUME StreamInv, body' = body, sent' \in 0 .. 3 * Len(body), phase' \notin {"request", "stream", "flush"},
         Truthful(report', body, sent')
  PROVE  StreamInv'
<1>1. /\ phase' \in {"request", "stream"} <=> FALSE
      /\ phase' = "flush" <=> FALSE
      /\ phase' \in {"request", "stream", "flush"} <=> FALSE
  OBVIOUS
<1>2. body' \in Seq(Lines) /\ sent' \in 0 .. 3 * Len(body') /\ Truthful(report', body', sent')
  BY DEF StreamInv
<1> QED
  BY <1>1, <1>2, Zenon DEF StreamInv

\* No report is true of everything.
LEMMA NothingReported ==
  ASSUME NEW b, NEW s
  PROVE  Truthful(NoReport, b, s)
BY DEF Truthful

\* A step that goes on reading.
LEMMA GoesOn ==
  ASSUME StreamInv, body' = body, sent' \in 0 .. 3 * Len(body), phase' \in {"request", "stream"},
         Streaming(body, sent', decoder', ids', saw', unsent', text', calls', reason'), report' = NoReport
  PROVE  StreamInv'
<1>1. phase' # "flush"
  OBVIOUS
<1>2. body' \in Seq(Lines) /\ sent' \in 0 .. 3 * Len(body')
  BY DEF StreamInv
<1>3. Truthful(report', body', sent')
  BY NothingReported
<1>4. Streaming(body', sent', decoder', ids', saw', unsent', text', calls', reason')
  OBVIOUS
<1> QED
  BY <1>1, <1>2, <1>3, <1>4, Zenon DEF StreamInv

\* A step that goes on emitting after the end of the body.
LEMMA GoesOnEmitting ==
  ASSUME StreamInv, body' = body, sent' = sent, phase' = "flush",
         Flushing(body, sent, unsent', text', calls', reason'), report' = NoReport
  PROVE  StreamInv'
<1>1. phase' \notin {"request", "stream"}
  OBVIOUS
<1>2. body' \in Seq(Lines) /\ sent' \in 0 .. 3 * Len(body')
  BY DEF StreamInv
<1>3. Truthful(report', body', sent')
  BY NothingReported
<1>4. Flushing(body', sent', unsent', text', calls', reason')
  OBVIOUS
<1> QED
  BY <1>1, <1>2, <1>3, <1>4, Zenon DEF StreamInv

\* What lines say is a sequence of deltas.
LEMMA SaidTyped ==
  ASSUME NEW M \in Seq(Lines)
  PROVE  Said(M) \in Seq(Deltas)
<1>1. Blank \in Lines
  BY DEF Lines
<1>2. QED
  BY <1>1, SaidMore

\* The decoder once the parser has taken its frames.
LEMMA ReadingIs ==
  ASSUME NEW e \in Readers, NEW d, d = [buffer |-> e.buffer, data |-> e.data, size |-> e.size]
  PROVE  /\ Reading(d) \in Readers /\ Reading(d).buffer = e.buffer /\ Reading(d).data = e.data
         /\ Reading(d).size = e.size /\ Reading(d).frames = <<>> /\ Reading(d).failed = FALSE
<1>1. <<>> \in Seq(Lines) /\ FALSE \in BOOLEAN
  OBVIOUS
<1>2. e.buffer \in Seq(1 .. Units) /\ e.data \in Seq(Lines) /\ e.size \in Nat
  BY DEF Readers
<1> QED
  BY <1>1, <1>2 DEF Reading, Readers

\* Its frames taken, the decoder has read the same lines, and the parser what they say.
LEMMA Settled ==
  ASSUME NEW e \in Readers, ~e.failed, ~Contains(e.frames, Junk),
         NEW d, d = [buffer |-> e.buffer, data |-> e.data, size |-> e.size],
         NEW M, NEW s, NEW P \in Seq(Deltas), NEW done, Reads(e, M, s, P, done),
         NEW done2, done2 <=> (done \/ Contains(e.frames, Done))
  PROVE  Reads(Reading(d), M, s, P \o Said(e.frames), done2)
<1> DEFINE r == Reading(d)
           Q == P \o Said(e.frames)
<1>1. r.buffer = e.buffer /\ r.data = e.data /\ r.size = e.size /\ r.frames = <<>> /\ r.failed = FALSE
  BY ReadingIs
<1>2. ~Big(M, s) /\ Content(e, M, P, done)
  BY DEF Reads
<1>3. PICK c : Framed(e, M, c)
  BY DEF Reads
<1>4. Framed(r, M, c)
  BY <1>1, <1>3 DEF Framed
<1>5. Content(r, M, Q, done2)
  <2>1. /\ Said(M) = Q \o Said(e.data)
        /\ Contains(M, Done) <=> done \/ Contains(e.frames, Done) \/ Contains(e.data, Done)
        /\ Contains(M, Junk) <=> Contains(e.data, Junk)
        /\ TwoInOne(M) <=> Len(e.data) >= 2
    BY <1>2 DEF Content
  <2>2. \A y : ~Contains(<<>>, y)
    BY ContainsNone
  <2>3. Q \o Said(<<>>) = Q
    <3>1. Q \in Seq(Deltas)
      BY SaidTyped, JoinIs DEF Readers
    <3>2. QED
      BY <3>1, SaidNone, ConcatEmptySeq
  <2> HIDE DEF r, Q
  <2>4. QED
    BY <1>1, <2>1, <2>2, <2>3 DEF Content
<1> HIDE DEF r, Q
<1>6. Reads(r, M, s, Q, done2)
  BY <1>1, <1>2, <1>4, <1>5 DEF Reads
<1>7. QED
  BY <1>6 DEF r, Q

\* A reading that begins with lines already wrong is wrong, and so is the report excused.
LEMMA WrongReading ==
  ASSUME body \in Seq(Lines), NEW s \in 0 .. Units, Wrong(SubSeq(body, 1, s \div 3), s), NEW why
  PROVE  Truthful(Failed(why), body, s)
<1>1. PICK L \in ReadingsOf(body, s) : TRUE
  BY ReadingExists
<1> DEFINE M == SubSeq(body, 1, s \div 3)
<1>2. M \in Seq(Lines) /\ L \in Seq(Lines) /\ Len(M) <= Len(L) /\ \A k \in 1 .. Len(M) : L[k] = M[k]
  BY ReadingBegins
<1> HIDE DEF M
<1>3. /\ TwoInOne(M) => TwoInOne(L)
      /\ Big(M, s) => Big(L, s)
      /\ Contains(M, Junk) => Contains(L, Junk)
  BY <1>2, WrongStays
<1>4. Wrong(M, s)
  BY DEF M
<1>5. Wrong(L, s)
  BY <1>3, <1>4 DEF Wrong
<1>6. Meant(L, s) = Meaningless
  BY <1>5 DEF Meant
<1> QED
  BY <1>6, BadReport

\* A line without its line feed is refused only where the limit is a single unit.
LEMMA LongLine ==
  ASSUME body \in Seq(Lines), NEW s \in 1 .. Units, Len(Pending(s)) > FrameLimit
  PROVE  Truthful(Failed("protocol"), body, s)
<1>1. FrameLimit \in Nat \ {0}
  BY StreamAssumption
<1>2. Len(<<>>) = 0 /\ Len(<<s>>) = 1 /\ Len(<<s - 1, s>>) = 2
  OBVIOUS
<1>3. LineOf(s) # Blank /\ s % 3 # 0 /\ s % 3 # 1 /\ FrameLimit < 2
  BY <1>1, <1>2 DEF Pending
<1>4. s \in Nat /\ Len(body) \in Nat /\ Units = 3 * Len(body)
  BY LenProperties DEF Units
<1>5. s = 3 * (s \div 3) + 2 /\ s % 3 = 2 /\ s \div 3 \in Nat
  BY <1>3, <1>4
<1> DEFINE m == s \div 3
           M == SubSeq(body, 1, m)
           x == LineOf(s)
           L == Append(M, x)
<1>6. x = UnitLine(body, s) /\ x \in Lines
  BY <1>4, LineIs DEF LineOf, UnitLine
<1>7. M \in Seq(Lines) /\ Len(M) = m
  BY <1>4, ReadingExists, ReadingBegins
<1>8. L \in ReadingsOf(body, s)
  <2>1. ReadingsOf(body, s) = {Append(M, line) : line \in {UnitLine(body, s)}}
    BY <1>3, <1>5, <1>6 DEF ReadingsOf
  <2>2. QED
    BY <2>1, <1>6
<1>9. L[m + 1] = x /\ DOMAIN L = 1 .. m + 1
  BY <1>6, <1>7, MoreLine
<1>10. Big(L, s)
  <2>1. m + 1 \in DOMAIN L /\ m \in Nat
    BY <1>5, <1>9
  <2>2. SameFrame(L, m + 1, m + 1)
    BY <2>1 DEF SameFrame
  <2>3. Cost(L[m + 1], m + 1, s) = 3
    <3>1. s = 3 * m + 2 /\ m \in Nat
      BY <1>5
    <3> HIDE DEF m, x, L
    <3>2. 3 * (m + 1) # s + 2
      BY <3>1
    <3>3. L[m + 1] # Blank
      BY <1>3, <1>9 DEF x
    <3>4. QED
      BY <3>2, <3>3 DEF Cost
  <2> HIDE DEF m, x, L
  <2>4. 3 * ((m + 1) - (m + 1)) + 3 > FrameLimit
    BY <2>1, <1>1, <1>3
  <2>5. QED
    BY <2>1, <2>2, <2>3, <2>4 DEF Big
<1>11. Meant(L, s) = Meaningless
  BY <1>10 DEF Meant, Wrong
<1>12. QED
  BY <1>8, <1>11, BadReport

\* Where the reader stands, in the words of its lemmas.
LEMMA ReaderAt ==
  ASSUME StreamInv, phase = "stream"
  PROVE  /\ body \in Seq(Lines) /\ Len(body) \in Nat /\ Units = 3 * Len(body) /\ sent \in 0 .. Units
         /\ saw \subseteq {"finish", "done"} /\ report = NoReport
         /\ \E P \in Seq(Deltas) :
              /\ ids = Known(P) /\ ("finish" \in saw <=> Finishes(P))
              /\ Reading(decoder) \in Readers /\ At(Reading(decoder), sent, sent, P, "done" \in saw)
              /\ Emits(P, unsent, text, calls, reason)
<1>1. body \in Seq(Lines) /\ Len(body) \in Nat /\ Units = 3 * Len(body) /\ sent \in 0 .. Units
  BY LenProperties DEF StreamInv, Units
<1>2. Streaming(body, sent, decoder, ids, saw, unsent, text, calls, reason) /\ report = NoReport
  BY DEF StreamInv
<1>3. QED
  BY <1>1, <1>2, AtIs DEF Streaming

\* A chunk, cut anywhere.
LEMMA ChunkStep ==
  ASSUME StreamInv, NEW to \in sent + 1 .. Units, Chunk(to)
  PROVE  StreamInv'
<1>1. /\ body \in Seq(Lines) /\ Len(body) \in Nat /\ Units = 3 * Len(body) /\ sent \in 0 .. Units
      /\ saw \subseteq {"finish", "done"} /\ report = NoReport /\ phase = "stream" /\ unsent = <<>>
  BY ReaderAt DEF Chunk
<1>2. body' = body /\ sent' = to /\ text' = text /\ calls' = calls /\ reason' = reason
  BY DEF Chunk, sink
<1>3. to \in 1 .. Units /\ to \in sent .. Units /\ to \in Nat /\ sent \in Nat /\ sent <= to /\ to \in 0 .. Units
  BY <1>1
<1>4. PICK P \in Seq(Deltas) :
        /\ ids = Known(P) /\ ("finish" \in saw <=> Finishes(P))
        /\ Reading(decoder) \in Readers /\ At(Reading(decoder), sent, sent, P, "done" \in saw)
        /\ Emits(P, unsent, text, calls, reason)
  BY <1>1, ReaderAt
<1> DEFINE M == SubSeq(body, 1, to \div 3)
           done == "done" \in saw
<1>5. done \in BOOLEAN
  OBVIOUS
<1>6. At(Reading(decoder), sent, to, P, done)
  <2>1. Reading(decoder).failed = FALSE
    BY DEF Reading
  <2> DEFINE M0 == SubSeq(body, 1, sent \div 3)
  <2>2. M0 \in Seq(Lines) /\ 3 * Len(M0) <= sent
    BY <1>1, ReadingExists, ReadingBegins
  <2>3. Reads(Reading(decoder), M0, sent, P, done) /\ Reading(decoder).buffer = Pending(sent)
    BY <1>4 DEF At
  <2> HIDE DEF M0, done
  <2>4. Big(M0, sent) <=> Big(M0, to)
    BY <2>2, <1>3, BigAnywhere
  <2>5. Reads(Reading(decoder), M0, to, P, done)
    BY <2>1, <2>3, <2>4 DEF Reads
  <2>6. QED
    BY <2>3, <2>5 DEF At, M0
<1> HIDE DEF done
<1>7. PICK e \in Readers : /\ At(e, to, to, P, done)
                           /\ Push(decoder, sent, to) = [e EXCEPT !.failed = e.failed \/ Len(e.buffer) > FrameLimit]
  BY <1>1, <1>3, <1>4, <1>5, <1>6, PushIs
<1> DEFINE read == Push(decoder, sent, to)
<1>8. /\ read.buffer = e.buffer /\ read.data = e.data /\ read.size = e.size /\ read.frames = e.frames
      /\ read.failed <=> e.failed \/ Len(e.buffer) > FrameLimit
      /\ e.frames \in Seq(Lines) /\ e.failed \in BOOLEAN
  BY <1>7 DEF Readers
<1>9. /\ Reads(e, M, to, P, done) /\ e.buffer = Pending(to)
      /\ e.failed => Big(M, to)
      /\ ~e.failed => Content(e, M, P, done)
  BY <1>7 DEF At, Reads
<1>10. /\ Parses(read) => Convert(read) /\ phase' = phase /\ report' = report
       /\ ~Parses(read) => Report(Failed("protocol"))
  BY DEF Chunk
<1> HIDE DEF read, M
<1>11. CASE Parses(read)
  <2>1. ~e.failed /\ ~Contains(e.frames, Junk) /\ Convert(read)
    BY <1>8, <1>10, <1>11 DEF Parses
  <2> DEFINE Q == P \o Said(e.frames)
             done2 == "done" \in saw'
             d == Reading(decoder')
  <2>2. /\ Q \in Seq(Deltas) /\ ids' = Known(Q) /\ Emits(Q, unsent', text, calls, reason)
        /\ saw' \subseteq {"finish", "done"}
        /\ "finish" \in saw' <=> Finishes(Q)
        /\ "done" \in saw' <=> "done" \in saw \/ Contains(e.frames, Done)
        /\ decoder' = [buffer |-> e.buffer, data |-> e.data, size |-> e.size]
    <3>1. read.frames \in Seq(Lines)
      BY <1>8
    <3>2. Emits(P, <<>>, text, calls, reason)
      BY <1>1, <1>4
    <3>3. QED
      BY <1>1, <1>4, <1>8, <2>1, <3>1, <3>2, ConvertEmits
  <2> HIDE DEF Q, done2
  <2>3. d \in Readers /\ d.buffer = e.buffer
    BY <2>2, ReadingIs
  <2>4. Reads(d, M, to, Q, done2)
    <3>1. done2 <=> (done \/ Contains(e.frames, Done))
      BY <2>2 DEF done, done2
    <3>2. QED
      BY <1>9, <2>1, <2>2, <3>1, Settled DEF Q
  <2>5. AtOf(body, d, to, to, Q, done2) /\ d \in ReadersOf(body)
    <3>1. At(d, to, to, Q, done2)
      BY <2>3, <2>4, <1>9 DEF At, M
    <3>2. QED
      BY <2>3, <3>1, AtIs
  <2>6. Streaming(body, to, decoder', ids', saw', unsent', text, calls, reason)
    BY <2>2, <2>5, Zenon DEF Streaming, done2
  <2>7. phase' = "stream" /\ report' = NoReport
    BY <1>1, <1>10, <1>11
  <2>8. QED
    BY <1>1, <1>2, <1>3, <2>6, <2>7, GoesOn
<1>12. CASE ~Parses(read)
  <2>1. phase' = "report" /\ report' = Failed("protocol")
    BY <1>10, <1>12 DEF Report
  <2>2. Truthful(Failed("protocol"), body, to)
    <3>1. CASE e.failed \/ Contains(e.frames, Junk)
      <4>1. Wrong(M, to)
        BY <1>9, <3>1, BadFrames
      <4>2. QED
        BY <4>1, <1>1, <1>3, WrongReading DEF M
    <3>2. CASE Len(e.buffer) > FrameLimit
      BY <1>1, <1>3, <1>9, <3>2, LongLine
    <3>3. QED
      BY <1>8, <1>12, <3>1, <3>2 DEF Parses
  <2>3. QED
    BY <1>1, <1>2, <1>3, <2>1, <2>2, Reported
<1>13. QED
  BY <1>11, <1>12

\* A step that touches neither reader, nor sink, nor report.
LEMMA Unmoved ==
  ASSUME StreamInv, UNCHANGED <<body, sent, parser, phase, unsent, reason, sink, report>>
  PROVE  StreamInv'
<1>1. /\ body' = body /\ sent' = sent /\ decoder' = decoder /\ ids' = ids /\ saw' = saw
      /\ phase' = phase /\ unsent' = unsent /\ reason' = reason /\ text' = text /\ calls' = calls
      /\ report' = report
  BY DEF parser, sink
<1>2. QED
  BY <1>1 DEF StreamInv

\* A beginning of a beginning is a beginning.
LEMMA BeginsTrans ==
  ASSUME NEW s, NEW t, NEW u, Begins(s, t), Begins(t, u)
  PROVE  Begins(s, u)
<1>1. Len(s) \in Nat /\ Len(t) \in Nat /\ Len(u) \in Nat
  BY LenProperties DEF Begins
<1>2. QED
  BY <1>1 DEF Begins

\* The end of the body, in the middle of a line or of a frame or not.
LEMMA EndStep ==
  ASSUME StreamInv, NEW torn \in {Junk, Comment}, EndOfStream(torn)
  PROVE  StreamInv'
<1>1. /\ body \in Seq(Lines) /\ Len(body) \in Nat /\ Units = 3 * Len(body) /\ sent \in 0 .. Units
      /\ saw \subseteq {"finish", "done"} /\ report = NoReport /\ phase = "stream" /\ unsent = <<>>
  BY ReaderAt DEF EndOfStream
<1>2. body' = body /\ sent' = sent /\ text' = text /\ calls' = calls /\ reason' = reason
  BY DEF EndOfStream, sink
<1>3. PICK P \in Seq(Deltas) :
        /\ ids = Known(P) /\ ("finish" \in saw <=> Finishes(P))
        /\ Reading(decoder) \in Readers /\ At(Reading(decoder), sent, sent, P, "done" \in saw)
        /\ Emits(P, unsent, text, calls, reason)
  BY <1>1, ReaderAt
<1> DEFINE done == "done" \in saw
           read == Flush(decoder, torn)
<1>4. done \in BOOLEAN /\ At(Reading(decoder), sent, sent, P, done)
  BY <1>3
<1> HIDE DEF done
<1>5. PICK L \in ReadingsOf(body, sent) :
        /\ L \in Seq(Lines) /\ read \in Readers
        /\ read.failed => Big(L, sent)
        /\ ~read.failed => ~Big(L, sent) /\ Content(read, L, P, done) /\ read.data = <<>>
  BY <1>1, <1>3, <1>4, FlushIs
<1>6. /\ Parses(read) => /\ Convert(read)
                         /\ saw' = {"finish", "done"} => phase' = "flush" /\ report' = report
                         /\ saw' # {"finish", "done"} => Report(Failed("incomplete"))
      /\ ~Parses(read) => Report(Failed("protocol"))
  BY DEF EndOfStream
<1>7. read.frames \in Seq(Lines) /\ read.failed \in BOOLEAN
  BY <1>5 DEF Readers
<1> HIDE DEF read
<1>8. CASE ~Parses(read)
  <2>1. Wrong(L, sent)
    BY <1>5, <1>7, <1>8, BadFrames DEF Parses
  <2>2. Meant(L, sent) = Meaningless
    BY <2>1 DEF Meant
  <2>3. phase' = "report" /\ report' = Failed("protocol")
    BY <1>6, <1>8 DEF Report
  <2>4. Truthful(Failed("protocol"), body, sent)
    BY <2>2, BadReport
  <2>5. QED
    BY <1>1, <1>2, <2>3, <2>4, Reported
<1>9. CASE Parses(read)
  <2>1. ~read.failed /\ ~Contains(read.frames, Junk) /\ Convert(read)
    BY <1>6, <1>9 DEF Parses
  <2> DEFINE Q == P \o Said(read.frames)
  <2>2. /\ Q \in Seq(Deltas) /\ Emits(Q, unsent', text, calls, reason)
        /\ saw' \subseteq {"finish", "done"}
        /\ "finish" \in saw' <=> Finishes(Q)
        /\ "done" \in saw' <=> "done" \in saw \/ Contains(read.frames, Done)
    <3>1. Emits(P, <<>>, text, calls, reason)
      BY <1>1, <1>3
    <3>2. QED
      BY <1>1, <1>3, <1>7, <2>1, <3>1, ConvertEmits
  <2>3. Said(L) = Q /\ ~Wrong(L, sent) /\ (Contains(L, Done) <=> "done" \in saw')
    <3>1. /\ Said(L) = Q \o Said(<<>>)
          /\ Contains(L, Done) <=> done \/ Contains(read.frames, Done) \/ Contains(<<>>, Done)
          /\ Contains(L, Junk) <=> Contains(<<>>, Junk)
          /\ TwoInOne(L) <=> Len(<<>>) >= 2
      BY <1>5, <2>1 DEF Content
    <3> HIDE DEF Q
    <3>2. Q \o Said(<<>>) = Q
      BY <2>2, SaidNone, ConcatEmptySeq
    <3>3. \A y : ~Contains(<<>>, y)
      BY ContainsNone
    <3>4. ~(Len(<<>>) >= 2)
      OBVIOUS
    <3>5. ~Wrong(L, sent)
      BY <1>5, <2>1, <3>1, <3>3, <3>4 DEF Wrong
    <3>6. QED
      BY <2>2, <3>1, <3>2, <3>3, <3>5 DEF done
  <2> HIDE DEF Q
  <2>4. Stops(Said(L)) # <<>> <=> "finish" \in saw'
    BY <2>2, <2>3, AllListed DEF Listed, Finishes
  <2>5. CASE saw' = {"finish", "done"}
    <3>1. phase' = "flush" /\ report' = NoReport
      BY <1>1, <1>6, <1>9, <2>5
    <3>2. Stops(Said(L)) # <<>> /\ Contains(L, Done) /\ Emits(Said(L), unsent', text, calls, reason)
      BY <2>2, <2>3, <2>4, <2>5
    <3>3. Flushing(body, sent, unsent', text, calls, reason)
      BY <1>5, <2>3, <3>2 DEF Flushing
    <3>4. QED
      BY <1>1, <1>2, <3>1, <3>3, GoesOnEmitting
  <2>6. CASE saw' # {"finish", "done"}
    <3>1. phase' = "report" /\ report' = Failed("incomplete")
      BY <1>6, <1>9, <2>6 DEF Report
    <3>2. "finish" \notin saw' \/ "done" \notin saw'
      BY <2>2, <2>6
    <3>3. Meant(L, sent) = Meaningless
      BY <2>3, <2>4, <3>2 DEF Meant
    <3>4. Truthful(Failed("incomplete"), body, sent)
      BY <3>3, BadReport
    <3>5. QED
      BY <1>1, <1>2, <3>1, <3>4, Reported
  <2>7. QED
    BY <2>5, <2>6
<1>10. QED
  BY <1>8, <1>9

\* What is being emitted: the deltas of every reading begin with it.
LEMMA EmittedOf ==
  ASSUME StreamInv, phase \in {"stream", "flush"}
  PROVE  \E P \in Seq(Deltas), L \in ReadingsOf(body, sent) :
           Emits(P, unsent, text, calls, reason) /\ Begins(P, Said(L))
<1>1. CASE phase = "stream"
  <2>1. /\ body \in Seq(Lines) /\ sent \in 0 .. Units
        /\ \E P \in Seq(Deltas) :
              /\ Reading(decoder) \in Readers /\ At(Reading(decoder), sent, sent, P, "done" \in saw)
              /\ Emits(P, unsent, text, calls, reason)
    BY <1>1, ReaderAt
  <2>2. PICK P \in Seq(Deltas) :
              /\ Reading(decoder) \in Readers /\ At(Reading(decoder), sent, sent, P, "done" \in saw)
              /\ Emits(P, unsent, text, calls, reason)
    BY <2>1
  <2>3. PICK L \in ReadingsOf(body, sent) : TRUE
    BY ReadingExists
  <2> DEFINE M == SubSeq(body, 1, sent \div 3)
             d == Reading(decoder)
  <2>4. d.frames = <<>> /\ d.failed = FALSE
    BY DEF Reading
  <2>5. Content(d, M, P, "done" \in saw) /\ d.data \in Seq(Lines)
    BY <2>2, <2>4 DEF At, Reads, Readers
  <2>6. Begins(Said(M), Said(L))
    BY <2>1, SaidBegins
  <2> HIDE DEF M, d
  <2>7. Said(M) = P \o Said(<<>>) \o Said(d.data)
    BY <2>4, <2>5, ContainsNone DEF Content
  <2>8. P \o Said(<<>>) = P
    BY SaidNone, ConcatEmptySeq
  <2>9. Begins(P, Said(M))
    <3>1. Said(d.data) \in Seq(Deltas)
      BY <2>5, SaidTyped
    <3> DEFINE D == Said(d.data)
    <3>2. Said(M) = P \o D
      BY <2>7, <2>8, Zenon
    <3>3. D \in Seq(Deltas)
      BY <3>1
    <3> HIDE DEF D
    <3>4. Begins(P, P \o D)
      BY <3>3, JoinIs
    <3>5. QED
      BY <3>2, <3>4
  <2>10. QED
    BY <2>2, <2>6, <2>9, BeginsTrans
<1>2. CASE phase = "flush"
  <2>1. PICK L \in ReadingsOf(body, sent) : L \in Seq(Lines) /\ Emits(Said(L), unsent, text, calls, reason)
    BY <1>2 DEF StreamInv, Flushing
  <2>2. Said(L) \in Seq(Deltas)
    BY <2>1, SaidTyped
  <2>3. Begins(Said(L), Said(L))
    BY <2>2, LenProperties DEF Begins
  <2>4. QED
    BY <2>1, <2>2, <2>3
<1>3. QED
  BY <1>1, <1>2

\* One event emitted, or refused.
LEMMA EmitKeeps ==
  ASSUME StreamInv, Emit
  PROVE  StreamInv'
<1> DEFINE e == Head(unsent)
<1>1. /\ phase \in {"stream", "flush"} /\ unsent # <<>>
      /\ EmitText(e) \/ EmitUsage(e) \/ EmitFinish(e) \/ EmitCall(e)
      /\ EmitFails(e) => Report(Failed(IF e.type = "call" THEN "calls" ELSE "closed"))
      /\ ~EmitFails(e) => unsent' = Tail(unsent) /\ phase' = phase /\ report' = report
      /\ body' = body /\ sent' = sent /\ decoder' = decoder /\ ids' = ids /\ saw' = saw
  BY DEF Emit, parser
<1>2. report = NoReport /\ sent \in 0 .. 3 * Len(body)
  BY <1>1 DEF StreamInv
<1>3. CASE EmitFails(e)
  <2>1. phase' = "report" /\ report' = Failed(IF e.type = "call" THEN "calls" ELSE "closed")
    BY <1>1, <1>3 DEF Report
  <2>2. Truthful(Failed("closed"), body, sent)
    BY OtherReports
  <2>3. ASSUME e.type = "call"
        PROVE  Truthful(Failed("calls"), body, sent)
    <3>1. PICK P \in Seq(Deltas), L \in ReadingsOf(body, sent) :
            Emits(P, unsent, text, calls, reason) /\ Begins(P, Said(L))
      BY <1>1, EmittedOf
    <3>2. Answer(Said(L)) = Meaningless
      BY <1>1, <1>3, <2>3, <3>1, EmitStep
    <3>3. Meant(L, sent) = Meaningless
      BY <3>2 DEF Meant
    <3>4. QED
      BY <3>3, BadReport
  <2> HIDE DEF e
  <2>4. Truthful(report', body, sent)
    BY <2>1, <2>2, <2>3
  <2>5. phase' \notin {"request", "stream", "flush"}
    BY <2>1
  <2>6. QED
    BY <1>1, <1>2, <2>4, <2>5, Reported
<1>4. CASE ~EmitFails(e)
  <2>1. unsent' = Tail(unsent) /\ phase' = phase /\ report' = NoReport
    BY <1>1, <1>2, <1>4
  <2>2. CASE phase = "stream"
    <3>1. PICK P \in Seq(Deltas) :
            /\ ids = Known(P) /\ saw \subseteq {"finish", "done"} /\ ("finish" \in saw <=> Finishes(P))
            /\ Reading(decoder) \in ReadersOf(body) /\ AtOf(body, Reading(decoder), sent, sent, P, "done" \in saw)
            /\ Emits(P, unsent, text, calls, reason)
      BY <2>2 DEF StreamInv, Streaming
    <3>2. Emits(P, unsent', text', calls', reason')
      BY <1>1, <1>4, <2>1, <3>1, EmitStep
    <3>3. Streaming(body, sent, decoder, ids, saw, unsent', text', calls', reason')
      BY <3>1, <3>2, Zenon DEF Streaming
    <3>4. QED
      BY <1>1, <1>2, <2>1, <2>2, <3>3, GoesOn
  <2>3. CASE phase = "flush"
    <3>1. PICK L \in ReadingsOf(body, sent) :
            /\ L \in Seq(Lines) /\ ~Wrong(L, sent) /\ Contains(L, Done) /\ Stops(Said(L)) # <<>>
            /\ Emits(Said(L), unsent, text, calls, reason)
      BY <2>3 DEF StreamInv, Flushing
    <3>2. Said(L) \in Seq(Deltas)
      BY <3>1, SaidTyped
    <3>3. Emits(Said(L), unsent', text', calls', reason')
      BY <1>1, <1>4, <2>1, <3>1, <3>2, EmitStep
    <3>4. Flushing(body, sent, unsent', text', calls', reason')
      BY <3>1, <3>3, Zenon DEF Flushing
    <3>5. QED
      BY <1>1, <1>2, <2>1, <2>3, <3>4, GoesOnEmitting
  <2>4. QED
    BY <1>1, <2>2, <2>3
<1>5. QED
  BY <1>3, <1>4

\* The report of a call that was read to its end.
LEMMA CompleteStep ==
  ASSUME StreamInv, Complete
  PROVE  StreamInv'
<1>1. phase = "flush" /\ unsent = <<>> /\ phase' = "report" /\ report' = Completion /\ body' = body /\ sent' = sent
  BY DEF Complete, Report
<1>2. PICK L \in ReadingsOf(body, sent) :
        /\ L \in Seq(Lines) /\ ~Wrong(L, sent) /\ Contains(L, Done) /\ Stops(Said(L)) # <<>>
        /\ Emits(Said(L), unsent, text, calls, reason)
  BY <1>1 DEF StreamInv, Flushing
<1>3. Said(L) \in Seq(Deltas)
  BY <1>2, SaidTyped
<1>4. /\ text = Words(Said(L)) /\ calls = CallsMeant(Said(L)) /\ Fits(Said(L))
      /\ reason = Stops(Said(L))[Len(Stops(Said(L)))]
  BY <1>1, <1>2, <1>3, EmptyUnsent
<1>5. Meant(L, sent) = Answer(Said(L))
  BY <1>2 DEF Meant
<1>6. \/ Completion = Failed("calls") /\ Answer(Said(L)) = Meaningless
      \/ Completion = Answer(Said(L)) /\ Completion.type \in {"final", "tools"}
  BY <1>3, <1>4, CompletionIs
<1>7. Truthful(Completion, body, sent)
  <2>1. CASE Completion = Failed("calls") /\ Answer(Said(L)) = Meaningless
    <3>1. Truthful(Failed("calls"), body, sent)
      BY <1>5, <2>1, BadReport
    <3>2. QED
      BY <2>1, <3>1
  <2>2. CASE Completion = Answer(Said(L)) /\ Completion.type \in {"final", "tools"}
    <3>1. Meant(L, sent) = Completion /\ Completion.type # "failed"
      BY <1>5, <2>2
    <3>2. QED
      BY <3>1 DEF Truthful
  <2>3. QED
    BY <1>6, <2>1, <2>2
<1>8. sent' \in 0 .. 3 * Len(body) /\ phase' \notin {"request", "stream", "flush"} /\ Truthful(report', body, sent')
  BY <1>1, <1>7 DEF StreamInv
<1>9. QED
  BY <1>1, <1>8, Reported

\* The server answers or refuses.
LEMMA RespondStep ==
  ASSUME StreamInv, NEW streams \in BOOLEAN, Respond(streams)
  PROVE  StreamInv'
<1>1. /\ body' = body /\ sent' = sent /\ decoder' = decoder /\ ids' = ids /\ saw' = saw /\ unsent' = unsent
      /\ text' = text /\ calls' = calls /\ reason' = reason /\ phase = "request"
      /\ streams => phase' = "stream" /\ report' = report
      /\ ~streams => phase' = "report" /\ report' = Failed("response")
  BY DEF Respond, Report, parser, sink
<1>2. /\ report = NoReport /\ sent \in 0 .. 3 * Len(body)
      /\ Streaming(body, sent, decoder, ids, saw, unsent, text, calls, reason)
  BY <1>1 DEF StreamInv
<1>3. CASE streams
  BY <1>1, <1>2, <1>3, GoesOn
<1>4. CASE ~streams
  <2>1. Truthful(Failed("response"), body, sent)
    BY OtherReports
  <2>2. QED
    BY <1>1, <1>2, <1>4, <2>1, Reported
<1>5. QED
  BY <1>3, <1>4

\* Every step keeps the invariant.
LEMMA StreamStep ==
  ASSUME StreamInv, [Next]_vars
  PROVE  StreamInv'
<1>1. CASE \E streams \in BOOLEAN : Respond(streams)
  BY <1>1, RespondStep
<1>2. CASE ObserveCancel
  <2>1. phase' = "report" /\ report' = Cancelled /\ body' = body /\ sent' = sent
    BY <1>2 DEF ObserveCancel, Report
  <2>2. Truthful(report', body, sent') /\ sent' \in 0 .. 3 * Len(body)
    BY <2>1, OtherReports DEF StreamInv
  <2>3. QED
    BY <2>1, <2>2, Reported
<1>3. CASE \E to \in sent + 1 .. Units : Chunk(to)
  BY <1>3, ChunkStep
<1>4. CASE \E torn \in {Junk, Comment} : EndOfStream(torn)
  BY <1>4, EndStep
<1>5. CASE Break
  <2>1. phase' = "report" /\ report' = Failed("transport") /\ body' = body /\ sent' = sent
    BY <1>5 DEF Break, Report
  <2>2. Truthful(report', body, sent') /\ sent' \in 0 .. 3 * Len(body)
    BY <2>1, OtherReports DEF StreamInv
  <2>3. QED
    BY <2>1, <2>2, Reported
<1>6. CASE Emit
  BY <1>6, EmitKeeps
<1>7. CASE Complete
  BY <1>7, CompleteStep
<1>8. CASE SendReport
  <2>1. phase' = "over" /\ report' = report /\ body' = body /\ sent' = sent
    BY <1>8 DEF SendReport
  <2>2. Truthful(report', body, sent') /\ sent' \in 0 .. 3 * Len(body)
    BY <2>1 DEF StreamInv
  <2>3. QED
    BY <2>1, <2>2, Reported
<1>9. CASE TakeEvent
  BY <1>9, Unmoved DEF TakeEvent
<1>10. CASE Interrupt
  BY <1>10, Unmoved DEF Interrupt
<1>11. CASE Leave
  BY <1>11, Unmoved DEF Leave
<1>12. CASE UNCHANGED vars
  BY <1>12, Unmoved DEF vars, parser, sink
<1>13. QED
  BY <1>1, <1>2, <1>3, <1>4, <1>5, <1>6, <1>7, <1>8, <1>9, <1>10, <1>11, <1>12 DEF Next, Worker

\* While the body is read, wherever the network cut it, the decoder, the parser and the
\* sink together hold exactly what the delivered units say, no more and no less.
THEOREM ReaderInvariant == Spec => []StreamInv
<1>1. Init => StreamInv
  BY InitInv
<1>2. StreamInv /\ [Next]_vars => StreamInv'
  BY StreamStep
<1>3. QED
  BY <1>1, <1>2, PTL DEF Spec

\* What the worker reports is what the body says, for every body, every place it is cut
\* at and every limit of frames and arguments (sse.rs:46, openai_event.rs:31,
\* worker/provider.rs:143).
THEOREM ReportIsTheMeaning == Spec => []ReportIsWhatWasSaid
<1>1. StreamInv => ReportIsWhatWasSaid
  BY TruthIs DEF StreamInv
<1>2. QED
  BY <1>1, ReaderInvariant, PTL
-----------------------------------------------------------------------------
(* what the actor has heard *)

\* Only a text fragment adds to what is shown, in a sequence of any events.
LEMMA WordsAny ==
  ASSUME NEW s, IsSeq(s), NEW e
  PROVE  Words(Append(s, e)) = IF e.type = "text" THEN Append(Words(s), e.text) ELSE Words(s)
<1> DEFINE m == Append(s, e)
           n == Len(s)
           S == {s[k].text : k \in 1 .. n} \union {e.text}
           f == [k \in DOMAIN s |-> IF s[k].type = "text" THEN <<s[k].text>> ELSE <<>>]
           g == [k \in DOMAIN m |-> IF m[k].type = "text" THEN <<m[k].text>> ELSE <<>>]
<1>1. /\ n \in Nat /\ DOMAIN s = 1 .. n /\ DOMAIN m = 1 .. n + 1
      /\ \A k \in 1 .. n : m[k] = s[k]
      /\ m[n + 1] = e
  BY AppendAny
<1>2. Words(s) = FlattenSeq(f) /\ Words(m) = FlattenSeq(g)
  BY DEF Words
<1>3. \A k \in 1 .. n : g[k] = f[k]
  BY <1>1
<1>4. \A k \in 1 .. n : s[k].text \in S
  OBVIOUS
<1>5. e.text \in S
  OBVIOUS
<1> HIDE DEF S
<1>6. \A k \in 1 .. n : f[k] \in Seq(S)
  <2> TAKE k \in 1 .. n
  <2>1. f[k] = IF s[k].type = "text" THEN <<s[k].text>> ELSE <<>>
    BY <1>1
  <2>2. <<s[k].text>> \in Seq(S) /\ <<>> \in Seq(S)
    BY <1>4
  <2>3. QED
    BY <2>1, <2>2, Zenon
<1>7. g[n + 1] = IF e.type = "text" THEN <<e.text>> ELSE <<>>
  BY <1>1
<1>8. g[n + 1] \in Seq(S)
  <2>1. <<e.text>> \in Seq(S) /\ <<>> \in Seq(S)
    BY <1>5
  <2>2. CASE e.type = "text"
    BY <1>7, <2>1, <2>2
  <2>3. CASE e.type # "text"
    <3>1. g[n + 1] = <<>>
      BY <1>7, <2>3
    <3>2. QED
      BY <2>1, <3>1, Zenon
  <2>4. QED
    BY <2>2, <2>3
<1>9. f = [k \in 1 .. n |-> f[k]] /\ g = [k \in 1 .. n + 1 |-> g[k]]
  BY <1>1
<1> HIDE DEF f, g, n
<1>10. FlattenSeq(f) \in Seq(S) /\ FlattenSeq(g) = FlattenSeq(f) \o g[n + 1]
  <2>1. f \in [1 .. n -> Seq(S)] /\ g \in [1 .. n + 1 -> Seq(S)]
    BY <1>1, <1>3, <1>6, <1>8, <1>9, Mapped
  <2>2. QED
    BY <1>1, <1>3, <2>1, FlattenMore
<1>11. FlattenSeq(f) \o <<>> = FlattenSeq(f)
  BY <1>10, ConcatEmptySeq
<1>12. FlattenSeq(f) \o <<e.text>> = Append(FlattenSeq(f), e.text)
  BY <1>5, <1>10, AppendIsConcat
<1>13. QED
  BY <1>2, <1>7, <1>10, <1>11, <1>12 DEF m

\* Sequences over one set: what was heard and what waits in the mailbox.
Paired(h, m) == \E S : h \in Seq(S) /\ m \in Seq(S)

\* Sending adds to the end of what was heard and waits.
LEMMA SendAny ==
  ASSUME NEW h, NEW m, Paired(h, m), NEW x
  PROVE  Paired(h, Append(m, x)) /\ IsSeq(h \o m) /\ h \o Append(m, x) = Append(h \o m, x)
<1>1. PICK S : h \in Seq(S) /\ m \in Seq(S)
  BY DEF Paired
<1> DEFINE T == S \union {x}
<1>2. h \in Seq(T) /\ m \in Seq(T) /\ x \in T
  BY <1>1
<1> HIDE DEF T
<1>3. Append(m, x) \in Seq(T) /\ Append(m, x) = m \o <<x>>
  BY <1>2, AppendProperties, AppendIsConcat
<1>4. h \o m \in Seq(T) /\ <<x>> \in Seq(T)
  BY <1>2, ConcatProperties
<1>5. (h \o m) \o <<x>> = h \o (m \o <<x>>)
  BY <1>2, <1>4, ConcatAssociative
<1>6. Append(h \o m, x) = (h \o m) \o <<x>>
  <2> DEFINE p == h \o m
  <2>1. p \in Seq(T)
    BY <1>4
  <2> HIDE DEF p
  <2>2. Append(p, x) = p \o <<x>>
    BY <1>2, <2>1, AppendIsConcat
  <2>3. QED
    BY <2>2 DEF p
<1>7. h \o Append(m, x) = Append(h \o m, x)
  BY <1>3, <1>5, <1>6, Zenon
<1>8. QED
  BY <1>2, <1>3, <1>4, <1>7 DEF Paired, IsSeq

\* Taking moves the boundary between the two and nothing else.
LEMMA TakeAny ==
  ASSUME NEW h, NEW m, Paired(h, m), m # <<>>
  PROVE  /\ Paired(Append(h, Head(m)), Tail(m)) /\ Append(h, Head(m)) \o Tail(m) = h \o m
<1>1. PICK S : h \in Seq(S) /\ m \in Seq(S)
  BY DEF Paired
<1> DEFINE a == Head(m)
           t == Tail(m)
<1>2. a \in S /\ t \in Seq(S)
  BY <1>1, HeadTailProperties
<1>3. m = <<a>> \o t
  BY <1>1
<1> HIDE DEF a, t
<1>4. Append(h, a) \in Seq(S) /\ Append(h, a) = h \o <<a>> /\ <<a>> \in Seq(S)
  BY <1>1, <1>2, AppendProperties, AppendIsConcat
<1>5. (h \o <<a>>) \o t = h \o (<<a>> \o t)
  BY <1>1, <1>2, <1>4, ConcatAssociative
<1>6. Append(h, a) \o t = h \o m
  BY <1>3, <1>4, <1>5, Zenon
<1>7. QED
  BY <1>2, <1>4, <1>6 DEF Paired, a, t

\* Every element of either is one of both, in its order.
LEMMA JoinAny ==
  ASSUME NEW h, NEW m, Paired(h, m)
  PROVE  /\ Len(h) \in Nat /\ DOMAIN h = 1 .. Len(h) /\ IsSeq(h) /\ IsSeq(h \o m)
         /\ DOMAIN (h \o m) = 1 .. Len(h \o m) /\ Len(h) <= Len(h \o m) /\ Len(h \o m) \in Nat
         /\ \A i \in 1 .. Len(h) : (h \o m)[i] = h[i]
         /\ Len(h) = Len(h \o m) => h = h \o m
<1>1. PICK S : h \in Seq(S) /\ m \in Seq(S)
  BY DEF Paired
<1> DEFINE p == h \o m
<1>2. p \in Seq(S) /\ Len(p) = Len(h) + Len(m) /\ \A i \in 1 .. Len(h) : i <= Len(h) + Len(m) => p[i] = h[i]
  BY <1>1, ConcatProperties
<1>3. Len(h) \in Nat /\ Len(m) \in Nat /\ DOMAIN h = 1 .. Len(h)
  BY <1>1, LenProperties
<1> HIDE DEF p
<1>4. DOMAIN p = 1 .. Len(p)
  BY <1>2, LenProperties
<1>5. IsSeq(h) /\ IsSeq(p)
  BY <1>1, <1>2, SeqIs
<1>6. Len(h) <= Len(p) /\ Len(p) \in Nat /\ \A i \in 1 .. Len(h) : p[i] = h[i]
  BY <1>2, <1>3
<1>7. Len(h) = Len(p) => h = p
  BY <1>5, <1>6, SameSeq
<1>8. QED
  BY <1>2, <1>3, <1>4, <1>5, <1>6, <1>7 DEF p

\* Nothing in s is an answer.
Quiet(s) == \A i \in DOMAIN s : s[i].type \notin {"final", "tools"}
\* s ends with the report r; the fragments before it are its text if it is an answer.
EndsWith(s, r) ==
  \E q : /\ IsSeq(q) /\ Quiet(q) /\ s = Append(q, r)
         /\ r.type \in {"final", "tools"} => Words(q) = r.text

\* As long as the actor receives, what it has heard and what waits for it are the
\* fragments of the sink's text, and behind them nothing but the report.
ShownInv ==
  /\ Paired(heard, mailbox)
  /\ ShownIsTheAnswer
  /\ open /\ phase # "over" => Quiet(heard \o mailbox) /\ Words(heard \o mailbox) = text
  /\ open /\ phase = "over" => EndsWith(heard \o mailbox, report)
  /\ phase = "report" /\ report.type \in {"final", "tools"} => report.text = text

\* Shown of a sequence of heard events.
Shown(h) ==
  \A i \in DOMAIN h : h[i].type \in {"final", "tools"} => i = Len(h) /\ Words(h) = h[i].text

\* One more quiet event leaves a sequence quiet.
LEMMA QuietMore ==
  ASSUME NEW s, IsSeq(s), Quiet(s), NEW e, e.type \notin {"final", "tools"}
  PROVE  Quiet(Append(s, e))
<1>1. /\ Len(s) \in Nat /\ DOMAIN s = 1 .. Len(s) /\ DOMAIN Append(s, e) = 1 .. Len(s) + 1
      /\ \A i \in 1 .. Len(s) : Append(s, e)[i] = s[i]
      /\ Append(s, e)[Len(s) + 1] = e
  BY AppendAny
<1>2. \A i \in 1 .. Len(s) + 1 : i \in 1 .. Len(s) \/ i = Len(s) + 1
  BY <1>1
<1> DEFINE m == Append(s, e)
<1> HIDE DEF m
<1>3. QED
  BY <1>1, <1>2 DEF Quiet, m

\* What was heard of a sequence that ends with the report shows the answer.
LEMMA HeardShows ==
  ASSUME NEW h, NEW m, Paired(h, m), NEW r, Quiet(h \o m) \/ EndsWith(h \o m, r)
  PROVE  Shown(h)
<1> DEFINE p == h \o m
           a == Len(h)
           b == Len(p)
<1>1. /\ a \in Nat /\ DOMAIN h = 1 .. a /\ DOMAIN p = 1 .. b /\ a <= b /\ b \in Nat
      /\ \A i \in 1 .. a : p[i] = h[i]
  BY JoinAny
<1>2. a = b => h = p
  BY JoinAny
<1> HIDE DEF p, a, b
<1>3. \A i \in 1 .. a : i \in 1 .. b
  BY <1>1
<1>4. ASSUME Quiet(p)
      PROVE  Shown(h)
  <2>1. ASSUME NEW i \in 1 .. a
        PROVE  h[i].type \notin {"final", "tools"}
    <3>1. i \in DOMAIN p /\ p[i] = h[i]
      BY <1>1, <1>3, <2>1
    <3>2. QED
      BY <1>4, <3>1, Zenon DEF Quiet
  <2>2. QED
    BY <1>1, <2>1 DEF Shown
<1>5. ASSUME EndsWith(p, r)
      PROVE  Shown(h)
  <2>1. PICK q : /\ IsSeq(q) /\ Quiet(q) /\ p = Append(q, r)
                 /\ r.type \in {"final", "tools"} => Words(q) = r.text
    BY <1>5 DEF EndsWith
  <2> DEFINE n == Len(q)
  <2>2. /\ n \in Nat /\ DOMAIN q = 1 .. n /\ b = n + 1
        /\ \A i \in 1 .. n : p[i] = q[i]
        /\ p[n + 1] = r
    BY <2>1, AppendAny DEF b
  <2> HIDE DEF n
  <2>3. ASSUME NEW i \in 1 .. a, h[i].type \in {"final", "tools"}
        PROVE  i = a /\ Words(h) = h[i].text
    <3>1. i \in 1 .. b /\ p[i] = h[i]
      BY <1>1, <1>3, <2>3
    <3>2. ASSUME i \in 1 .. n
          PROVE  FALSE
      <4>1. q[i].type \notin {"final", "tools"}
        BY <2>1, <2>2, <3>2 DEF Quiet
      <4>2. p[i] = q[i]
        BY <2>2, <3>2
      <4>3. QED
        BY <2>3, <3>1, <4>1, <4>2
    <3>3. i = n + 1 /\ i = a /\ a = b
      BY <1>1, <2>2, <2>3, <3>1, <3>2
    <3>4. h = p
      BY <1>2, <3>3
    <3>5. h[i] = r /\ h = Append(q, r)
      BY <2>1, <2>2, <3>3, <3>4
    <3>6. r.type \in {"final", "tools"}
      BY <2>3, <3>5
    <3>7. r.type # "text" /\ Words(q) = r.text
      BY <2>1, <3>6
    <3>8. Words(Append(q, r)) = Words(q)
      BY <2>1, <3>7, WordsAny
    <3>9. QED
      BY <3>3, <3>5, <3>7, <3>8, Zenon
  <2>4. QED
    BY <1>1, <2>3 DEF Shown, a
<1>6. QED
  BY <1>4, <1>5 DEF p

\* The property is about the sequence of what was heard.
LEMMA ShownIs == ShownIsTheAnswer <=> Shown(heard)
BY DEF ShownIsTheAnswer, Shown

\* Nothing is heard and nothing waits.
LEMMA ShownInit == Init => ShownInv
<1> SUFFICES ASSUME Init
             PROVE  ShownInv
  OBVIOUS
<1>1. heard = <<>> /\ mailbox = <<>> /\ text = <<>> /\ phase = "request"
  BY DEF Init
<1>2. Paired(<<>>, <<>>) /\ DOMAIN <<>> = {}
  BY DEF Paired
<1>3. <<>> \o <<>> = <<>>
  BY ConcatEmptySeq
<1>4. Words(<<>>) = <<>>
  BY NoDeltas
<1>5. Quiet(<<>>) /\ Shown(<<>>)
  BY <1>2 DEF Quiet, Shown
<1>6. ShownIsTheAnswer
  BY <1>1, <1>5, ShownIs
<1>7. QED
  BY <1>1, <1>2, <1>3, <1>4, <1>5, <1>6 DEF ShownInv

\* A step of the worker that sends nothing and whose report, if it is an answer, is
\* the sink's text.
LEMMA Silent ==
  ASSUME ShownInv, heard' = heard, mailbox' = mailbox, open' = open, open => text' = text,
         phase # "over", phase' # "over",
         phase' = "report" /\ report'.type \in {"final", "tools"} => report'.text = text'
  PROVE  ShownInv'
<1>1. ShownIsTheAnswer'
  BY DEF ShownInv, ShownIsTheAnswer
<1>2. Paired(heard, mailbox)' /\ (open' => Quiet(heard \o mailbox)' /\ Words(heard' \o mailbox') = text')
  BY DEF ShownInv
<1>3. QED
  BY <1>1, <1>2 DEF ShownInv

\* A fragment or a count of tokens is sent to an actor that receives.
LEMMA Sent ==
  ASSUME ShownInv, NEW e, e.type \notin {"final", "tools"}, open, open' = open, heard' = heard,
         mailbox' = Append(mailbox, e), phase # "over", phase' \in {"stream", "flush"},
         text' = IF e.type = "text" THEN Append(text, e.text) ELSE text
  PROVE  ShownInv'
<1>1. ShownIsTheAnswer'
  BY DEF ShownInv, ShownIsTheAnswer
<1>2. Paired(heard, mailbox) /\ Quiet(heard \o mailbox) /\ Words(heard \o mailbox) = text
  BY DEF ShownInv
<1>3. Paired(heard, Append(mailbox, e)) /\ IsSeq(heard \o mailbox)
      /\ heard \o Append(mailbox, e) = Append(heard \o mailbox, e)
  BY <1>2, SendAny
<1>4. Quiet(heard \o Append(mailbox, e))
  BY <1>2, <1>3, QuietMore
<1>5. Words(heard \o Append(mailbox, e)) = text'
  BY <1>2, <1>3, WordsAny
<1>6. Paired(heard', mailbox') /\ Quiet(heard' \o mailbox') /\ Words(heard' \o mailbox') = text'
  BY <1>3, <1>4, <1>5
<1>7. phase' # "over" /\ phase' # "report"
  OBVIOUS
<1>8. QED
  BY <1>1, <1>6, <1>7 DEF ShownInv

\* The worker sends a fragment or a count, takes in a piece of a call, or fails.
LEMMA ShownEmit ==
  ASSUME ShownInv, Emit
  PROVE  ShownInv'
<1> DEFINE e == Head(unsent)
<1>1. /\ phase \in {"stream", "flush"}
      /\ EmitText(e) \/ EmitUsage(e) \/ EmitFinish(e) \/ EmitCall(e)
      /\ EmitFails(e) => Report(Failed(IF e.type = "call" THEN "calls" ELSE "closed"))
      /\ ~EmitFails(e) => phase' = phase /\ report' = report
      /\ heard' = heard /\ open' = open
  BY DEF Emit, actor
<1> HIDE DEF e
<1>2. /\ phase # "over" /\ phase' # "over"
      /\ phase' = "report" => report'.type = "failed"
      /\ ~EmitFails(e) => phase' \in {"stream", "flush"}
  <2>1. \A why : Failed(why).type = "failed"
    BY DEF Failed
  <2>2. CASE EmitFails(e)
    BY <1>1, <2>1, <2>2 DEF Report
  <2>3. CASE ~EmitFails(e)
    BY <1>1, <2>3
  <2>4. QED
    BY <1>1, <2>2, <2>3
<1>3. CASE EmitFinish(e) \/ EmitCall(e)
  <2>1. mailbox' = mailbox /\ text' = text
    BY <1>3 DEF EmitFinish, EmitCall
  <2>2. QED
    BY <1>1, <1>2, <2>1, Silent
<1>4. CASE EmitText(e) \/ EmitUsage(e)
  <2>1. /\ e.type \in {"text", "usage"} /\ Send(e)
        /\ text' = IF e.type = "text" THEN Append(text, e.text) ELSE text
    BY <1>4 DEF EmitText, EmitUsage
  <2>2. CASE open
    <3>1. mailbox' = Append(mailbox, e)
      BY <2>1, <2>2 DEF Send
    <3>2. ~EmitFails(e)
      BY <2>1, <2>2 DEF EmitFails
    <3>3. e.type \notin {"final", "tools"}
      BY <2>1
    <3>4. QED
      BY <1>1, <1>2, <2>1, <2>2, <3>1, <3>2, <3>3, Sent
  <2>3. CASE ~open
    <3>1. mailbox' = mailbox
      BY <2>1, <2>3 DEF Send
    <3>2. QED
      BY <1>1, <1>2, <2>3, <3>1, Silent
  <2>4. QED
    BY <2>2, <2>3
<1>5. QED
  BY <1>1, <1>3, <1>4

\* The report goes behind everything that was sent.
LEMMA ShownReport ==
  ASSUME ShownInv, SendReport
  PROVE  ShownInv'
<1>1. /\ phase = "report" /\ phase' = "over" /\ Send(report) /\ heard' = heard /\ open' = open
      /\ report' = report /\ text' = text
  BY DEF SendReport, actor, sink
<1>2. ShownIsTheAnswer'
  BY <1>1 DEF ShownInv, ShownIsTheAnswer
<1>3. CASE open
  <2>1. mailbox' = Append(mailbox, report)
    BY <1>1, <1>3 DEF Send
  <2>2. /\ Paired(heard, mailbox) /\ Quiet(heard \o mailbox) /\ Words(heard \o mailbox) = text
        /\ report.type \in {"final", "tools"} => report.text = text
    BY <1>1, <1>3 DEF ShownInv
  <2>3. Paired(heard, Append(mailbox, report)) /\ IsSeq(heard \o mailbox)
        /\ heard \o Append(mailbox, report) = Append(heard \o mailbox, report)
    BY <2>2, SendAny
  <2>4. EndsWith(heard \o Append(mailbox, report), report)
    <3> DEFINE q == heard \o mailbox
    <3>1. IsSeq(q) /\ Quiet(q) /\ heard \o Append(mailbox, report) = Append(q, report)
          /\ (report.type \in {"final", "tools"} => Words(q) = report.text)
      BY <2>2, <2>3
    <3> HIDE DEF q
    <3>2. QED
      BY <3>1, Zenon DEF EndsWith
  <2>5. Paired(heard', mailbox') /\ EndsWith(heard' \o mailbox', report')
    BY <1>1, <2>1, <2>3, <2>4
  <2>6. phase' = "over" /\ phase' # "report"
    BY <1>1
  <2>7. QED
    BY <1>2, <2>5, <2>6 DEF ShownInv
<1>4. CASE ~open
  <2>1. mailbox' = mailbox
    BY <1>1, <1>4 DEF Send
  <2>2. Paired(heard', mailbox')
    BY <1>1, <2>1 DEF ShownInv
  <2>3. ~open' /\ phase' # "report"
    BY <1>1, <1>4
  <2>4. QED
    BY <1>2, <2>2, <2>3 DEF ShownInv
<1>5. QED
  BY <1>3, <1>4

\* The actor takes what waits first.
LEMMA ShownTake ==
  ASSUME ShownInv, TakeEvent
  PROVE  ShownInv'
<1>1. /\ open /\ mailbox # <<>> /\ heard' = Append(heard, Head(mailbox)) /\ mailbox' = Tail(mailbox)
      /\ phase' = phase /\ report' = report /\ text' = text /\ open' = open
  BY DEF TakeEvent, sink
<1>2. Paired(heard, mailbox)
  BY DEF ShownInv
<1>3. Paired(heard', mailbox') /\ heard' \o mailbox' = heard \o mailbox
  BY <1>1, <1>2, TakeAny
<1>4. /\ phase # "over" => Quiet(heard' \o mailbox') /\ Words(heard' \o mailbox') = text
      /\ phase = "over" => EndsWith(heard' \o mailbox', report)
  BY <1>1, <1>3 DEF ShownInv
<1> DEFINE h == heard'
           m == mailbox'
<1>5. Paired(h, m) /\ (Quiet(h \o m) \/ EndsWith(h \o m, report))
  BY <1>3, <1>4
<1> HIDE DEF h, m
<1>6. Shown(h)
  BY <1>5, HeardShows
<1>7. ShownIsTheAnswer'
  BY <1>6 DEF Shown, ShownIsTheAnswer, h
<1>8. QED
  BY <1>1, <1>3, <1>4, <1>7 DEF ShownInv

\* Every step keeps it.
LEMMA ShownStep ==
  ASSUME ShownInv, [Next]_vars
  PROVE  ShownInv'
<1>1. \A why : Failed(why).type = "failed"
  BY DEF Failed
<1>2. CASE \E streams \in BOOLEAN : Respond(streams)
  <2>1. /\ heard' = heard /\ mailbox' = mailbox /\ open' = open /\ text' = text
        /\ phase # "over" /\ phase' # "over" /\ (phase' = "report" => report'.type = "failed")
    BY <1>1, <1>2 DEF Respond, Report, actor, sink
  <2>2. QED
    BY <2>1, Silent
<1>3. CASE ObserveCancel
  <2>1. Cancelled.type = "cancelled"
    BY DEF Cancelled
  <2>2. /\ heard' = heard /\ mailbox' = mailbox /\ open' = open /\ text' = text
        /\ phase # "over" /\ phase' # "over" /\ (phase' = "report" => report'.type = "cancelled")
    BY <1>3, <2>1 DEF ObserveCancel, Report, actor, sink
  <2>3. QED
    BY <2>2, Silent
<1>4. CASE \E to \in sent + 1 .. Units : Chunk(to)
  <2>1. PICK to \in sent + 1 .. Units : Chunk(to)
    BY <1>4
  <2>2. /\ heard' = heard /\ mailbox' = mailbox /\ open' = open /\ text' = text /\ phase = "stream"
        /\ phase' = phase \/ (phase' = "report" /\ report' = Failed("protocol"))
    <3>1. /\ heard' = heard /\ mailbox' = mailbox /\ open' = open /\ text' = text /\ phase = "stream"
      BY <2>1 DEF Chunk, actor, sink
    <3> DEFINE read == Push(decoder, sent, to)
    <3>2. IF Parses(read) THEN phase' = phase ELSE Report(Failed("protocol"))
      BY <2>1, Zenon DEF Chunk
    <3>3. phase' = phase \/ (phase' = "report" /\ report' = Failed("protocol"))
      <4> HIDE DEF read
      <4>1. QED
        BY <3>2 DEF Report
    <3>4. QED
      BY <3>1, <3>3
  <2>3. /\ phase # "over" /\ phase' # "over" /\ (phase' = "report" => report'.type = "failed")
    BY <1>1, <2>2
  <2>4. QED
    BY <2>2, <2>3, Silent
<1>5. CASE \E torn \in {Junk, Comment} : EndOfStream(torn)
  <2>1. PICK torn \in {Junk, Comment} : EndOfStream(torn)
    BY <1>5
  <2>2. /\ heard' = heard /\ mailbox' = mailbox /\ open' = open /\ text' = text /\ phase = "stream"
        /\ phase' = "flush" \/ (phase' = "report" /\ \E why : report' = Failed(why))
    BY <2>1 DEF EndOfStream, Report, actor, sink
  <2>3. /\ phase # "over" /\ phase' # "over" /\ (phase' = "report" => report'.type = "failed")
    BY <1>1, <2>2
  <2>4. QED
    BY <2>2, <2>3, Silent
<1>6. CASE Break
  <2>1. /\ heard' = heard /\ mailbox' = mailbox /\ open' = open /\ text' = text
        /\ phase # "over" /\ phase' # "over" /\ (phase' = "report" => report'.type = "failed")
    BY <1>1, <1>6 DEF Break, Report, actor, sink
  <2>2. QED
    BY <2>1, Silent
<1>7. CASE Emit
  BY <1>7, ShownEmit
<1>8. CASE Complete
  <2>1. /\ heard' = heard /\ mailbox' = mailbox /\ open' = open /\ text' = text
        /\ phase # "over" /\ phase' # "over" /\ report' = Completion
    BY <1>8 DEF Complete, Report, actor, sink
  <2>2. Completion.type \in {"final", "tools"} => Completion.text = text
    BY <1>1 DEF Completion
  <2>3. QED
    BY <2>1, <2>2, Silent
<1>9. CASE SendReport
  BY <1>9, ShownReport
<1>10. CASE TakeEvent
  BY <1>10, ShownTake
<1>11. CASE Interrupt \/ UNCHANGED vars
  <2>1. /\ heard' = heard /\ mailbox' = mailbox /\ open' = open /\ text' = text
        /\ phase' = phase /\ report' = report
    BY <1>11 DEF Interrupt, vars, actor, sink
  <2>2. QED
    BY <2>1 DEF ShownInv, ShownIsTheAnswer
<1>12. CASE Leave
  <2>1. /\ heard' = heard /\ mailbox' = <<>> /\ ~open' /\ text' = text
        /\ phase' = phase /\ report' = report
    BY <1>12 DEF Leave, sink
  <2>2. ShownIsTheAnswer'
    BY <2>1 DEF ShownInv, ShownIsTheAnswer
  <2>3. Paired(heard', mailbox')
    <3>1. \A S : <<>> \in Seq(S)
      OBVIOUS
    <3>2. QED
      BY <2>1, <3>1 DEF ShownInv, Paired
  <2>4. QED
    BY <2>1, <2>2, <2>3 DEF ShownInv
<1>13. QED
  BY <1>2, <1>3, <1>4, <1>5, <1>6, <1>7, <1>8, <1>9, <1>10, <1>11, <1>12 DEF Next, Worker

\* An answer or a batch of calls is taken by the actor last of its call, and after
\* exactly the fragments of its text: a full mailbox delays the worker and drops
\* nothing, whatever its capacity and the body (worker/provider.rs:125, :176).
THEOREM AnswersAreShown == Spec => []ShownIsTheAnswer
<1>1. Init => ShownInv
  BY ShownInit
<1>2. ShownInv /\ [Next]_vars => ShownInv'
  BY ShownStep
<1>3. ShownInv => ShownIsTheAnswer
  BY DEF ShownInv
<1>4. QED
  BY <1>1, <1>2, <1>3, PTL DEF Spec

\* Both together: the report is true of the body and nothing else was shown.
THEOREM AnswersAreTrue == Spec => []AnswerIsWhatWasSaid
<1>1. ReportIsWhatWasSaid /\ ShownIsTheAnswer => AnswerIsWhatWasSaid
  BY DEF AnswerIsWhatWasSaid
<1>2. QED
  BY <1>1, ReportIsTheMeaning, AnswersAreShown, PTL

=============================================================================
