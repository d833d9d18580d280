-------------------------- MODULE TuiClient_proofs --------------------------
(***************************************************************************)
(* What the terminal shows and asks is true of the child it talks to, for  *)
(* any number of turns and any capacity of the client's queue.             *)
(*                                                                         *)
(* The invariant TuiInv has five layers:                                   *)
(*   Typed    the data keep their types                                    *)
(*   Wire     a request is in one place, and so is the answer to it        *)
(*   Flow     what the frames under way may still say: of begun turns      *)
(*            only, questions before ends, one sign of readiness           *)
(*   Screen   what the screen and the dialogue are about                   *)
(*   Heard    fragments on the screen and under way are those said         *)
(* Pipe is all that is under way from the child to the terminal loop, in   *)
(* order; the connection moves its frames from part to part (PipeStays),   *)
(* the child adds to its end (Story), the terminal loop takes its head.    *)
(***************************************************************************)
EXTENDS TuiClient, SequenceTheorems, FiniteSetTheorems, TLAPS

-----------------------------------------------------------------------------
(* sequences with one element more or less *)

\* t is s without its kth element.
Without(s, t, k) ==
  /\ k \in 1 .. Len(s) /\ Len(s) = Len(t) + 1
  /\ \A i \in 1 .. Len(t) : t[i] = IF i < k THEN s[i] ELSE s[i + 1]

Places(s, f) == {i \in DOMAIN s : s[i] = f}
Count(s, f) == Cardinality(Places(s, f))

LEMMA CountTyped ==
  ASSUME NEW S, NEW s \in Seq(S), NEW f
  PROVE  IsFiniteSet(Places(s, f)) /\ Count(s, f) \in Nat
<1>1. IsFiniteSet(1 .. Len(s)) /\ DOMAIN s = 1 .. Len(s)
  BY FS_Interval
<1>2. IsFiniteSet(Places(s, f))
  BY <1>1, FS_Subset DEF Places
<1>3. QED
  BY <1>2, FS_CardinalityType DEF Count

LEMMA CountNothing == \A f : Count(<<>>, f) = 0
  BY FS_EmptySet DEF Count, Places

\* The other elements are as many as before.
LEMMA CountWithout ==
  ASSUME NEW S, NEW s \in Seq(S), NEW t \in Seq(S), NEW k, Without(s, t, k), NEW f
  PROVE  Count(s, f) = Count(t, f) + (IF s[k] = f THEN 1 ELSE 0)
<1> DEFINE R == Places(t, f)
           B == Places(s, f) \ {k}
           up == [i \in R |-> IF i < k THEN i ELSE i + 1]
<1>0. /\ Len(s) \in Nat /\ Len(t) \in Nat /\ k \in 1 .. Len(s) /\ Len(s) = Len(t) + 1
      /\ DOMAIN s = 1 .. Len(s) /\ DOMAIN t = 1 .. Len(t)
      /\ \A i \in 1 .. Len(t) : t[i] = IF i < k THEN s[i] ELSE s[i + 1]
  BY LenProperties DEF Without
<1>1. /\ IsFiniteSet(R) /\ IsFiniteSet(B) /\ Cardinality(R) \in Nat /\ Cardinality(B) \in Nat
      /\ Count(t, f) = Cardinality(R)
  <2>1. IsFiniteSet(Places(s, f)) /\ IsFiniteSet(R)
    BY CountTyped
  <2>2. IsFiniteSet(B)
    <3> HIDE DEF B
    <3>1. B \in SUBSET Places(s, f)
      BY DEF B
    <3>2. QED
      BY <2>1, <3>1, FS_Subset
  <2>3. QED
    BY <2>1, <2>2, FS_CardinalityType DEF Count
<1>2. Cardinality(B) = Cardinality(R)
  <2>1. up \in [R -> B]
    BY <1>0 DEF Places
  <2>2. \A a, b \in R : up[a] = up[b] => a = b
    BY <1>0 DEF Places
  <2>3. \A b \in B : \E a \in R : up[a] = b
    <3> SUFFICES ASSUME NEW b \in B
                 PROVE  \E a \in R : up[a] = b
      OBVIOUS
    <3>1. b \in 1 .. Len(s) /\ b # k /\ s[b] = f
      BY <1>0 DEF Places
    <3>2. CASE b < k
      <4>1. b \in R /\ up[b] = b
        BY <1>0, <3>1, <3>2 DEF Places
      <4>2. QED
        BY <4>1
    <3>3. CASE ~(b < k)
      <4>1. b - 1 \in 1 .. Len(t) /\ ~(b - 1 < k) /\ (b - 1) + 1 = b
        BY <1>0, <3>1, <3>3
      <4>2. b - 1 \in R /\ up[b - 1] = b
        BY <1>0, <3>1, <4>1 DEF Places
      <4>3. QED
        BY <4>2
    <3>4. QED
      BY <3>2, <3>3
  <2>4. up \in Bijection(R, B)
    <3> HIDE DEF R, B, up
    <3>1. QED
      BY <2>1, <2>2, <2>3 DEF Bijection, Injection, Surjection, IsInjective
  <2>5. ExistsBijection(R, B)
    BY <2>4 DEF ExistsBijection
  <2> HIDE DEF R, B
  <2>6. QED
    BY <1>1, <2>5, FS_Bijection, FS_CardinalityType
<1>3. CASE s[k] = f
  <2>1. Places(s, f) = B \union {k} /\ k \notin B
    BY <1>0, <1>3 DEF Places
  <2> HIDE DEF B
  <2>2. Cardinality(B \union {k}) = Cardinality(B) + 1
    BY <1>1, <2>1, FS_AddElement
  <2>3. QED
    BY <1>1, <1>2, <1>3, <2>1, <2>2 DEF Count
<1>4. CASE s[k] # f
  <2>1. Places(s, f) = B
    BY <1>0, <1>4 DEF Places
  <2> HIDE DEF B
  <2>2. QED
    BY <1>1, <1>2, <1>4, <2>1 DEF Count
<1>5. QED
  BY <1>3, <1>4

LEMMA TailWithout ==
  ASSUME NEW S, NEW s \in Seq(S), s # <<>>
  PROVE  Without(s, Tail(s), 1) /\ Tail(s) \in Seq(S) /\ Head(s) = s[1] /\ Head(s) \in S
<1>1. /\ Head(s) \in S /\ Tail(s) \in Seq(S) /\ Len(Tail(s)) = Len(s) - 1
      /\ \A i \in 1 .. Len(Tail(s)) : Tail(s)[i] = s[i + 1]
      /\ Len(s) \in Nat \ {0}
  BY HeadTailProperties, EmptySeq
<1>2. Len(Tail(s)) \in Nat /\ 1 \in 1 .. Len(s) /\ Len(s) = Len(Tail(s)) + 1
  BY <1>1
<1>3. QED
  BY <1>1, <1>2 DEF Without

LEMMA AppendWithout ==
  ASSUME NEW S, NEW s \in Seq(S), NEW e \in S
  PROVE  /\ Append(s, e) \in Seq(S) /\ Len(Append(s, e)) = Len(s) + 1
         /\ Without(Append(s, e), s, Len(s) + 1) /\ Append(s, e)[Len(s) + 1] = e
<1>1. /\ Append(s, e) \in Seq(S) /\ Len(Append(s, e)) = Len(s) + 1 /\ Len(s) \in Nat
      /\ \A i \in 1 .. Len(s) : Append(s, e)[i] = s[i]
      /\ Append(s, e)[Len(s) + 1] = e
  BY AppendProperties, LenProperties
<1>2. QED
  BY <1>1 DEF Without

-----------------------------------------------------------------------------
(* two queues and what is on its way from one to the other *)

LEMMA ConcatThree ==
  ASSUME NEW S, NEW a \in Seq(S), NEW m \in Seq(S), NEW b \in Seq(S)
  PROVE  /\ a \o m \o b \in Seq(S) /\ Len(a) \in Nat /\ Len(m) \in Nat /\ Len(b) \in Nat
         /\ Len(a \o m \o b) = Len(a) + Len(m) + Len(b)
         /\ \A i \in 1 .. Len(a) : (a \o m \o b)[i] = a[i]
         /\ \A i \in 1 .. Len(m) : (a \o m \o b)[Len(a) + i] = m[i]
         /\ \A i \in 1 .. Len(b) : (a \o m \o b)[Len(a) + Len(m) + i] = b[i]
<1>1. Len(a) \in Nat /\ Len(m) \in Nat /\ Len(b) \in Nat
  BY LenProperties
<1>2. /\ a \o m \in Seq(S) /\ Len(a \o m) = Len(a) + Len(m)
      /\ \A i \in 1 .. Len(a) + Len(m) : (a \o m)[i] = IF i <= Len(a) THEN a[i] ELSE m[i - Len(a)]
  BY ConcatProperties
<1> DEFINE c == a \o m
<1>3. c \in Seq(S)
  BY <1>2
<1>4. /\ c \o b \in Seq(S) /\ Len(c \o b) = Len(c) + Len(b)
      /\ \A i \in 1 .. Len(c) + Len(b) : (c \o b)[i] = IF i <= Len(c) THEN c[i] ELSE b[i - Len(c)]
  <2> HIDE DEF c
  <2>1. QED
    BY <1>3, ConcatProperties
<1>5. /\ Len(c) = Len(a) + Len(m)
      /\ \A i \in 1 .. Len(a) + Len(m) : c[i] = IF i <= Len(a) THEN a[i] ELSE m[i - Len(a)]
  BY <1>2
<1> HIDE DEF c
<1>6. \A i \in 1 .. Len(a) : (c \o b)[i] = a[i]
  BY <1>1, <1>4, <1>5
<1>7. \A i \in 1 .. Len(m) : (c \o b)[Len(a) + i] = m[i]
  BY <1>1, <1>4, <1>5
<1>8. \A i \in 1 .. Len(b) : (c \o b)[Len(a) + Len(m) + i] = b[i]
  BY <1>1, <1>4, <1>5
<1>9. QED
  BY <1>1, <1>4, <1>5, <1>6, <1>7, <1>8 DEF c

LEMMA PairIs ==
  ASSUME NEW S, NEW s \in Seq(S), NEW e \in S, NEW f \in S
  PROVE  s \o <<e>> = Append(s, e) /\ s \o <<e, f>> = Append(Append(s, e), f)
<1>1. s \o <<e>> = Append(s, e)
  BY AppendIsConcat
<1>2. <<e>> \in Seq(S) /\ <<f>> \in Seq(S) /\ <<e, f>> = <<e>> \o <<f>>
  <2>1. <<e>> \in Seq(S) /\ <<f>> \in Seq(S) /\ Append(<<e>>, f) = <<e, f>>
    <3> DEFINE u == <<e>>
               v == <<e, f>>
    <3>0. <<f>> \in Seq(S)
      OBVIOUS
    <3>1. u \in Seq(S)
      OBVIOUS
    <3>7. Len(u) = 1 /\ u[1] = e
      OBVIOUS
    <3>2. v \in Seq(S) /\ Len(v) = 2 /\ v[1] = e /\ v[2] = f
      OBVIOUS
    <3> HIDE DEF u, v
    <3>3. /\ Append(u, f) \in Seq(S) /\ Len(Append(u, f)) = Len(u) + 1
          /\ \A i \in 1 .. Len(u) : Append(u, f)[i] = u[i]
          /\ Append(u, f)[Len(u) + 1] = f
      BY <3>1, AppendProperties
    <3>4. Len(Append(u, f)) = Len(v) /\ \A i \in 1 .. Len(v) : Append(u, f)[i] = v[i]
      BY <3>7, <3>2, <3>3
    <3>5. Append(u, f) = v
      BY <3>2, <3>3, <3>4, SeqEqual
    <3>6. QED
      BY <3>0, <3>1, <3>5 DEF u, v
  <2>2. Append(<<e>>, f) = <<e>> \o <<f>>
    BY <2>1, AppendIsConcat
  <2>3. QED
    BY <2>1, <2>2
<1>3. (s \o <<e>>) \o <<f>> = s \o (<<e>> \o <<f>>)
  BY <1>2, ConcatAssociative
<1>4. Append(s, e) \in Seq(S)
  BY AppendWithout
<1>5. Append(s, e) \o <<f>> = Append(Append(s, e), f)
  BY <1>4, AppendIsConcat
<1>6. QED
  BY <1>1, <1>2, <1>3, <1>5

\* What arrives in the middle goes to the end of the first queue.
LEMMA MoveOn ==
  ASSUME NEW S, NEW a \in Seq(S), NEW e \in S, NEW b \in Seq(S)
  PROVE  Append(a, e) \o <<>> \o b = a \o <<e>> \o b
<1>1. <<e>> \in Seq(S) /\ <<>> \in Seq(S) /\ Append(a, e) = a \o <<e>>
  BY AppendIsConcat
<1>2. Append(a, e) \in Seq(S)
  BY AppendWithout
<1>3. Append(a, e) \o <<>> = Append(a, e)
  BY <1>2, ConcatEmptySeq
<1>4. QED
  BY <1>1, <1>3

\* The head of the second queue goes to the middle.
LEMMA MoveUp ==
  ASSUME NEW S, NEW a \in Seq(S), NEW b \in Seq(S), b # <<>>
  PROVE  a \o <<Head(b)>> \o Tail(b) = a \o <<>> \o b
<1>1. /\ Head(b) \in S /\ Tail(b) \in Seq(S) /\ Len(Tail(b)) = Len(b) - 1 /\ Head(b) = b[1]
      /\ \A i \in 1 .. Len(Tail(b)) : Tail(b)[i] = b[i + 1]
      /\ Len(b) \in Nat \ {0}
  BY HeadTailProperties, EmptySeq
<1>2. <<Head(b)>> \in Seq(S) /\ <<>> \in Seq(S) /\ Len(<<Head(b)>>) = 1
  BY <1>1
<1>3. <<Head(b)>> \o Tail(b) = b
  <2> DEFINE c == <<Head(b)>> \o Tail(b)
  <2>1. /\ c \in Seq(S) /\ Len(c) = 1 + Len(Tail(b))
        /\ \A i \in 1 .. 1 + Len(Tail(b)) : c[i] = IF i <= 1 THEN <<Head(b)>>[i] ELSE Tail(b)[i - 1]
    BY <1>1, <1>2, ConcatProperties
  <2> HIDE DEF c
  <2>2. Len(c) = Len(b) /\ \A i \in 1 .. Len(c) : c[i] = b[i]
    BY <1>1, <2>1
  <2>3. c = b
    BY <2>1, <2>2, SeqEqual
  <2>4. QED
    BY <2>3 DEF c
<1>4. a \o <<Head(b)>> \o Tail(b) = a \o (<<Head(b)>> \o Tail(b))
  BY <1>1, <1>2, ConcatAssociative
<1>5. a \o <<>> = a
  BY ConcatEmptySeq
<1>6. QED
  BY <1>3, <1>4, <1>5

\* The head of the second queue disappears.
LEMMA LoseHead ==
  ASSUME NEW S, NEW a \in Seq(S), NEW m \in Seq(S), NEW b \in Seq(S), b # <<>>
  PROVE  /\ Without(a \o m \o b, a \o m \o Tail(b), Len(a) + Len(m) + 1)
         /\ (a \o m \o b)[Len(a) + Len(m) + 1] = Head(b)
         /\ \A i \in 1 .. Len(Tail(b)) : Tail(b)[i] = b[i + 1]
<1> DEFINE c == a \o m
<1>1. c \in Seq(S) /\ Len(c) = Len(a) + Len(m) /\ Len(a) \in Nat /\ Len(m) \in Nat
  BY ConcatProperties, LenProperties
<1>2. /\ Head(b) \in S /\ Tail(b) \in Seq(S) /\ Len(Tail(b)) = Len(b) - 1 /\ Head(b) = b[1]
      /\ \A i \in 1 .. Len(Tail(b)) : Tail(b)[i] = b[i + 1]
      /\ Len(b) \in Nat \ {0}
  BY HeadTailProperties, EmptySeq
<1>3. /\ Len(c \o b) = Len(c) + Len(b)
      /\ \A i \in 1 .. Len(c) + Len(b) : (c \o b)[i] = IF i <= Len(c) THEN c[i] ELSE b[i - Len(c)]
  <2>1. c \in Seq(S)
    BY <1>1
  <2> HIDE DEF c
  <2>2. QED
    BY <2>1, ConcatProperties
<1>4. /\ Len(c \o Tail(b)) = Len(c) + Len(Tail(b))
      /\ \A i \in 1 .. Len(c) + Len(Tail(b)) :
           (c \o Tail(b))[i] = IF i <= Len(c) THEN c[i] ELSE Tail(b)[i - Len(c)]
  <2>1. c \in Seq(S) /\ Tail(b) \in Seq(S)
    BY <1>1, <1>2
  <2> DEFINE t == Tail(b)
  <2> HIDE DEF c, t
  <2>2. c \in Seq(S) /\ t \in Seq(S)
    BY <2>1 DEF t
  <2>3. /\ Len(c \o t) = Len(c) + Len(t)
        /\ \A i \in 1 .. Len(c) + Len(t) : (c \o t)[i] = IF i <= Len(c) THEN c[i] ELSE t[i - Len(c)]
    BY <2>2, ConcatProperties
  <2>4. QED
    BY <2>3 DEF t
<1> HIDE DEF c
<1>5. Without(c \o b, c \o Tail(b), Len(c) + 1)
  BY <1>1, <1>2, <1>3, <1>4 DEF Without
<1>6. (c \o b)[Len(c) + 1] = Head(b)
  BY <1>1, <1>2, <1>3
<1>7. QED
  BY <1>1, <1>2, <1>5, <1>6 DEF c

\* One more at the end of the first queue, of the second.
LEMMA OneMore ==
  ASSUME NEW S, NEW a \in Seq(S), NEW m \in Seq(S), NEW b \in Seq(S), NEW e \in S
  PROVE  /\ Without(Append(a, e) \o m \o b, a \o m \o b, Len(a) + 1)
         /\ (Append(a, e) \o m \o b)[Len(a) + 1] = e
         /\ a \o m \o Append(b, e) = Append(a \o m \o b, e)
<1> DEFINE d == Append(a, e)
<1>1. /\ d \in Seq(S) /\ Len(d) = Len(a) + 1 /\ Len(a) \in Nat /\ Len(m) \in Nat /\ Len(b) \in Nat
      /\ \A i \in 1 .. Len(a) : d[i] = a[i]
      /\ d[Len(a) + 1] = e
  BY AppendProperties, LenProperties
<1> HIDE DEF d
<1>2. Without(d \o m \o b, a \o m \o b, Len(a) + 1) /\ (d \o m \o b)[Len(a) + 1] = e
  <2> DEFINE x == d \o m \o b
             y == a \o m \o b
  <2>1. /\ Len(x) = Len(d) + Len(m) + Len(b)
        /\ \A i \in 1 .. Len(d) : x[i] = d[i]
        /\ \A i \in 1 .. Len(m) : x[Len(d) + i] = m[i]
        /\ \A i \in 1 .. Len(b) : x[Len(d) + Len(m) + i] = b[i]
    <3>1. d \in Seq(S)
      BY <1>1
    <3>2. QED
      BY <3>1, ConcatThree
  <2>2. /\ Len(y) = Len(a) + Len(m) + Len(b)
        /\ \A i \in 1 .. Len(a) : y[i] = a[i]
        /\ \A i \in 1 .. Len(m) : y[Len(a) + i] = m[i]
        /\ \A i \in 1 .. Len(b) : y[Len(a) + Len(m) + i] = b[i]
    BY ConcatThree
  <2> HIDE DEF x, y
  <2>3. ASSUME NEW i \in 1 .. Len(y)
        PROVE  y[i] = IF i < Len(a) + 1 THEN x[i] ELSE x[i + 1]
    <3>1. CASE i \in 1 .. Len(a)
      BY <1>1, <2>1, <2>2, <3>1
    <3>2. CASE i \in Len(a) + 1 .. Len(a) + Len(m)
      <4>1. i - Len(a) \in 1 .. Len(m) /\ i = Len(a) + (i - Len(a)) /\ i + 1 = Len(d) + (i - Len(a))
        BY <1>1, <3>2
      <4>2. y[i] = m[i - Len(a)] /\ x[i + 1] = m[i - Len(a)]
        BY <2>1, <2>2, <4>1
      <4>3. QED
        BY <1>1, <3>2, <4>2
    <3>3. CASE i > Len(a) + Len(m)
      <4> DEFINE j == i - (Len(a) + Len(m))
      <4>1. j \in 1 .. Len(b) /\ i = Len(a) + Len(m) + j /\ i + 1 = Len(d) + Len(m) + j
        BY <1>1, <2>2, <3>3
      <4>2. y[i] = b[j] /\ x[i + 1] = b[j]
        BY <2>1, <2>2, <4>1
      <4>3. QED
        BY <1>1, <3>3, <4>2
    <3>4. QED
      BY <1>1, <2>2, <3>1, <3>2, <3>3
  <2>4. Len(x) = Len(y) + 1 /\ Len(a) + 1 \in 1 .. Len(x) /\ x[Len(a) + 1] = e
    BY <1>1, <2>1, <2>2
  <2>5. Without(x, y, Len(a) + 1)
    BY <2>3, <2>4 DEF Without
  <2>6. QED
    BY <2>4, <2>5 DEF x, y
<1>3. a \o m \o Append(b, e) = Append(a \o m \o b, e)
  <2> DEFINE c == a \o m
  <2> DEFINE u == <<e>>
  <2>1. c \in Seq(S) /\ u \in Seq(S)
    BY ConcatProperties
  <2> HIDE DEF c
  <2>2. Append(b, e) = b \o <<e>> /\ c \o b \in Seq(S)
    BY <2>1, AppendIsConcat, ConcatProperties
  <2>3. (c \o b) \o <<e>> = c \o (b \o <<e>>)
    <3> HIDE DEF u
    <3>1. (c \o b) \o u = c \o (b \o u)
      BY <2>1, ConcatAssociative, SMTT(30)
    <3>2. QED
      BY <3>1 DEF u
  <2>4. (c \o b) \o <<e>> = Append(c \o b, e)
    BY <2>2, AppendIsConcat
  <2>5. QED
    BY <2>2, <2>3, <2>4 DEF c
<1>4. QED
  BY <1>2, <1>3 DEF d

\* One less at the head of the first queue.
LEMMA OneLess ==
  ASSUME NEW S, NEW a \in Seq(S), NEW m \in Seq(S), NEW b \in Seq(S), a # <<>>
  PROVE  /\ Without(a \o m \o b, Tail(a) \o m \o b, 1)
         /\ (a \o m \o b)[1] = Head(a)
<1>1. /\ Head(a) \in S /\ Tail(a) \in Seq(S) /\ Len(Tail(a)) = Len(a) - 1 /\ Head(a) = a[1]
      /\ \A i \in 1 .. Len(Tail(a)) : Tail(a)[i] = a[i + 1]
      /\ Len(a) \in Nat \ {0} /\ Len(m) \in Nat /\ Len(b) \in Nat
  BY HeadTailProperties, EmptySeq, LenProperties
<1> DEFINE d == Tail(a)
           x == a \o m \o b
           y == d \o m \o b
<1>2. /\ Len(x) = Len(a) + Len(m) + Len(b)
      /\ \A i \in 1 .. Len(a) : x[i] = a[i]
      /\ \A i \in 1 .. Len(m) : x[Len(a) + i] = m[i]
      /\ \A i \in 1 .. Len(b) : x[Len(a) + Len(m) + i] = b[i]
  BY ConcatThree
<1>3. /\ Len(y) = Len(d) + Len(m) + Len(b)
      /\ \A i \in 1 .. Len(d) : y[i] = d[i]
      /\ \A i \in 1 .. Len(m) : y[Len(d) + i] = m[i]
      /\ \A i \in 1 .. Len(b) : y[Len(d) + Len(m) + i] = b[i]
  <2> HIDE DEF x
  <2>1. d \in Seq(S)
    BY <1>1
  <2> HIDE DEF d
  <2>2. QED
    BY <2>1, ConcatThree
<1>4. Len(d) = Len(a) - 1 /\ \A i \in 1 .. Len(d) : d[i] = a[i + 1]
  BY <1>1
<1> HIDE DEF x, y, d
<1>5. ASSUME NEW i \in 1 .. Len(y)
      PROVE  y[i] = x[i + 1]
  <2>1. CASE i \in 1 .. Len(d)
    BY <1>1, <1>2, <1>3, <1>4, <2>1
  <2>2. CASE i \in Len(d) + 1 .. Len(d) + Len(m)
    <3>1. i - Len(d) \in 1 .. Len(m) /\ i = Len(d) + (i - Len(d)) /\ i + 1 = Len(a) + (i - Len(d))
      BY <1>1, <1>4, <2>2
    <3>2. y[i] = m[i - Len(d)] /\ x[i + 1] = m[i - Len(d)]
      BY <1>2, <1>3, <3>1
    <3>3. QED
      BY <3>2
  <2>3. CASE i > Len(d) + Len(m)
    <3> DEFINE j == i - (Len(d) + Len(m))
    <3>1. j \in 1 .. Len(b) /\ i = Len(d) + Len(m) + j /\ i + 1 = Len(a) + Len(m) + j
      BY <1>1, <1>3, <1>4, <2>3
    <3>2. y[i] = b[j] /\ x[i + 1] = b[j]
      BY <1>2, <1>3, <3>1
    <3>3. QED
      BY <3>2
  <2>4. QED
    BY <1>1, <1>3, <1>4, <2>1, <2>2, <2>3
<1>6. Len(x) = Len(y) + 1 /\ 1 \in 1 .. Len(x) /\ x[1] = Head(a) /\ Len(y) \in Nat
  BY <1>1, <1>2, <1>3, <1>4
<1>7. Without(x, y, 1)
  BY <1>5, <1>6 DEF Without
<1>8. QED
  BY <1>6, <1>7 DEF x, y, d

-----------------------------------------------------------------------------
(* frames *)

EventKinds == {"delta", "complete", "end", "requested", "resolved"}
Events == {Event(k, t) : k \in EventKinds, t \in Turns} \union {ReadyEvent, Disconnected}
Messages == [turn : Turns, role : {"user", "assistant"}]
Responses == [type : {"response"}, turn : Turns \union {NoTurn}, call : Calls, ok : BOOLEAN,
              page : Seq(Messages), latest : Nat, more : BOOLEAN]
Frames == Events \union Responses
Delta(t) == Event("delta", t)

LEMMA EventFields ==
  /\ \A k, t : Event(k, t).type = k /\ Event(k, t).turn = t
  /\ \A k, j, t, u : Event(k, t) = Event(j, u) <=> k = j /\ t = u
  /\ \A k \in EventKinds, t \in Turns : Event(k, t) \in Events
  /\ ReadyEvent \in Events /\ Disconnected \in Events
  /\ ReadyEvent.type = "ready" /\ Disconnected.type = "disconnected" /\ NoReply.type = "none"
<1>1. \A k, t : Event(k, t).type = k /\ Event(k, t).turn = t
  BY DEF Event
<1>2. \A k, j, t, u : Event(k, t) = Event(j, u) <=> k = j /\ t = u
  BY <1>1
<1>3. \A k \in EventKinds, t \in Turns : Event(k, t) \in Events
  BY DEF Events
<1>4. ReadyEvent \in Events /\ Disconnected \in Events
  BY DEF Events
<1>5. QED
  BY <1>1, <1>2, <1>3, <1>4 DEF ReadyEvent, Disconnected, NoReply

LEMMA EventIs ==
  ASSUME NEW f \in Events
  PROVE  /\ f.type \in EventKinds \union {"ready", "disconnected"}
         /\ f.type \in EventKinds => f.turn \in Turns /\ f = Event(f.type, f.turn)
         /\ f.type = "ready" => f = ReadyEvent
         /\ f.type = "disconnected" => f = Disconnected
<1>1. CASE f \in {ReadyEvent, Disconnected}
  BY <1>1, EventFields DEF EventKinds
<1>2. CASE \E k \in EventKinds, t \in Turns : f = Event(k, t)
  BY <1>2, EventFields DEF EventKinds
<1>3. QED
  BY <1>1, <1>2 DEF Events

LEMMA FrameIs ==
  /\ \A f \in Responses : f.type = "response" /\ f # NoReply
  /\ \A f \in Events : f.type # "response"
  /\ \A f \in Frames : f.type = "response" => f \in Responses
  /\ \A f \in Frames : f.type # "response" => f \in Events
<1>1. \A f \in Responses : f.type = "response"
  BY DEF Responses
<1>2. \A f \in Events : f.type # "response"
  BY EventIs DEF EventKinds
<1>3. QED
  BY <1>1, <1>2, EventFields DEF Frames

LEMMA ResponseIs ==
  ASSUME NEW c \in Calls, NEW ok \in BOOLEAN
  PROVE  /\ Response(c, ok) \in Responses
         /\ Response(c, ok).call = c /\ Response(c, ok).ok = ok /\ Response(c, ok).turn = NoTurn
         /\ Response(c, ok).type = "response"
<1>1. <<>> \in Seq(Messages) /\ NoTurn \in Turns \union {NoTurn} /\ 0 \in Nat
  OBVIOUS
<1>2. Response(c, ok) \in Responses
  BY <1>1 DEF Response, Responses
<1>3. QED
  BY <1>2 DEF Response

-----------------------------------------------------------------------------
(* what the frames on their way say *)

\* No event is of a turn after n.
Within(s, n) == \A i \in DOMAIN s : s[i].type \in EventKinds => s[i].turn <= n

\* Every question is of one of these turns.
Asks(s, T) == \A i \in DOMAIN s : s[i].type = "requested" => s[i].turn \in T

\* The end of a turn comes after its questions, and turn r has not ended.
EndsLast(s, r) ==
  \A i \in DOMAIN s : s[i].type \in {"complete", "end"} =>
    /\ s[i].turn # r
    /\ \A j \in DOMAIN s : s[j].type = "requested" /\ s[j].turn = s[i].turn => j < i

\* The child said once, or has not said, that it is ready.
ReadyOnce(s) == \A i, j \in DOMAIN s : s[i].type = "ready" /\ s[j].type = "ready" => i = j
NoReady(s) == \A i \in DOMAIN s : s[i].type # "ready"

\* What is true of s is true of t.
Carried(s, t) ==
  /\ \A n : Within(s, n) => Within(t, n)
  /\ \A T : Asks(s, T) => Asks(t, T)
  /\ \A r : EndsLast(s, r) => EndsLast(t, r)
  /\ ReadyOnce(s) => ReadyOnce(t)
  /\ NoReady(s) => NoReady(t)

SameDeltas(s, t) == \A u : Count(t, Delta(u)) = Count(s, Delta(u))

LEMMA SameCarried == \A s : Carried(s, s) /\ SameDeltas(s, s)
  BY DEF Carried, SameDeltas

LEMMA NothingCarried == \A s : Carried(s, <<>>)
  BY DEF Carried, Within, Asks, EndsLast, ReadyOnce, NoReady

\* A frame less.
LEMMA FewerCarried ==
  ASSUME NEW S, NEW s \in Seq(S), NEW t \in Seq(S), NEW k, Without(s, t, k)
  PROVE  Carried(s, t)
<1> DEFINE up(i) == IF i < k THEN i ELSE i + 1
<1>1. /\ \A i \in DOMAIN t : up(i) \in DOMAIN s /\ t[i] = s[up(i)]
      /\ \A i, j \in DOMAIN t : (up(i) < up(j) <=> i < j) /\ (up(i) = up(j) <=> i = j)
  <2>1. /\ DOMAIN s = 1 .. Len(s) /\ DOMAIN t = 1 .. Len(t) /\ Len(s) \in Nat /\ Len(t) \in Nat
        /\ k \in 1 .. Len(s) /\ Len(s) = Len(t) + 1
        /\ \A i \in 1 .. Len(t) : t[i] = IF i < k THEN s[i] ELSE s[i + 1]
    BY LenProperties DEF Without
  <2>2. QED
    BY <2>1
<1> HIDE DEF up
<1>2. \A n : Within(s, n) => Within(t, n)
  BY <1>1 DEF Within
<1>3. \A T : Asks(s, T) => Asks(t, T)
  BY <1>1 DEF Asks
<1>4. ASSUME NEW r, EndsLast(s, r)
      PROVE  EndsLast(t, r)
  BY <1>1, <1>4 DEF EndsLast
<1>5. (ReadyOnce(s) => ReadyOnce(t)) /\ (NoReady(s) => NoReady(t))
  BY <1>1, SMTT(30) DEF ReadyOnce, NoReady
<1>6. QED
  BY <1>2, <1>3, <1>4, <1>5 DEF Carried

\* A frame more of which nothing is said.
LEMMA NeutralCarried ==
  ASSUME NEW S, NEW s \in Seq(S), NEW t \in Seq(S), NEW k, Without(t, s, k),
         t[k].type \in {"delta", "resolved", "disconnected", "response"},
         \A n : Within(s, n) /\ t[k].type \in EventKinds => t[k].turn <= n
  PROVE  Carried(s, t)
<1> DEFINE down(i) == IF i < k THEN i ELSE i - 1
<1>1. /\ \A i \in DOMAIN t \ {k} : down(i) \in DOMAIN s /\ t[i] = s[down(i)]
      /\ \A i, j \in DOMAIN t \ {k} : (down(i) < down(j) <=> i < j) /\ (down(i) = down(j) <=> i = j)
  <2>1. /\ DOMAIN s = 1 .. Len(s) /\ DOMAIN t = 1 .. Len(t) /\ Len(s) \in Nat /\ Len(t) \in Nat
        /\ k \in 1 .. Len(t) /\ Len(t) = Len(s) + 1
        /\ \A i \in 1 .. Len(s) : s[i] = IF i < k THEN t[i] ELSE t[i + 1]
    BY LenProperties DEF Without
  <2>2. QED
    BY <2>1
<1> HIDE DEF down
<1>2. ASSUME NEW n, Within(s, n)
      PROVE  Within(t, n)
  BY <1>1, <1>2 DEF Within
<1>3. \A T : Asks(s, T) => Asks(t, T)
  BY <1>1 DEF Asks
<1>4. ASSUME NEW r, EndsLast(s, r)
      PROVE  EndsLast(t, r)
  BY <1>1, <1>4 DEF EndsLast
<1>5. (ReadyOnce(s) => ReadyOnce(t)) /\ (NoReady(s) => NoReady(t))
  BY <1>1, SMTT(30) DEF ReadyOnce, NoReady
<1>6. QED
  BY <1>2, <1>3, <1>4, <1>5 DEF Carried

-----------------------------------------------------------------------------
(* the inductive invariant *)

Ats == {"spawn", "ready", "insert", "send", "await", "loop", "exited"}
Calling == {"insert", "send", "await"}

UiTyped == ui \in [at : Ats, call : Calls \union {"none"}]

ClientTyped ==
  /\ pending \in BOOLEAN /\ cancelled \in BOOLEAN
  /\ reply \in Responses \union {NoReply}
  /\ outbound \in Seq(Calls)
  /\ incoming \in Seq(Events) /\ Len(incoming) <= InboundCapacity
  /\ reader \in [at : {"read", "push", "sweep", "report", "gone"}, frame : Events]
  /\ writer \in {"recv", "write", "sweep", "report", "gone"}

PipesTyped == stdin \in Seq(Calls) /\ stdout \in Seq(Frames)

ScreenTyped ==
  /\ session \in BOOLEAN /\ stopping \in BOOLEAN /\ composer \in BOOLEAN
  /\ active \in Turns \union {NoTurn} /\ stream \in Nat
  /\ overlay \in [kind : {"none", "picker", "approval"}, turn : Turns \union {NoTurn}, busy : BOOLEAN]

HistoryTyped == refused \in BOOLEAN /\ late \in BOOLEAN

ChildTyped ==
  /\ child \in {"up", "down"} /\ asked \in {"no", "open", "closed"}
  /\ running \in Turns \union {NoTurn}
  /\ store \in Seq(Messages) /\ said \in [Turns -> Nat] /\ begun \in 0 .. MaxTurns

Typed ==
  UiTyped /\ ClientTyped /\ PipesTyped /\ ScreenTyped /\ HistoryTyped /\ ChildTyped

\* The connection: a request is in one place, and so is its response.
Silent(s) == \A i \in DOMAIN s : s[i].type # "response"

Answers(s, c) ==
  \A i \in DOMAIN s : s[i].type = "response" =>
    s[i].call = c /\ \A j \in DOMAIN s : s[j].type = "response" => j = i

Waiting ==
  /\ pending /\ ui.at = "await" /\ outbound = <<>> /\ stdin = <<>>
  /\ ~cancelled /\ writer = "recv" /\ reader.at \in {"read", "push"}

Connected ==
  /\ ~cancelled /\ reader.at \in {"read", "push"} /\ writer \in {"recv", "write"}
  /\ ui.at \notin {"spawn", "exited"}
  /\ ~pending \/ ui.at = "send" => outbound = <<>> /\ stdin = <<>>
  /\ outbound # <<>> => outbound = <<ui.call>> /\ stdin = <<>>
  /\ stdin # <<>> => stdin = <<ui.call>> /\ outbound = <<>>
  /\ ui.at = "send" => pending

Wire ==
  /\ ui.at \in Calling <=> ui.call # "none"
  /\ writer = "write" => outbound # <<>>
  /\ pending => ui.at \in {"send", "await"} /\ reply = NoReply
  /\ reply # NoReply =>
       ui.at \in {"send", "await"} /\ reply.call = ui.call /\ (reply.ok => ui.at = "await")
  /\ child = "up" => Connected
  /\ child = "down" => running = NoTurn
  /\ asked # "no" => running # NoTurn
  /\ Silent(stdout) \/ (Answers(stdout, ui.call) /\ Waiting)

\* The screen: a turn the child runs, or asks for, is on it or comes with the answer.
GrantedBy(f, t) == f.type = "response" /\ f.call = "submit" /\ f.ok /\ f.turn = t
Granted(t) == GrantedBy(reply, t) \/ \E i \in DOMAIN stdout : GrantedBy(stdout[i], t)
Owners == {t \in Turns : active = t \/ Granted(t)}

Calm ==
  \/ ui.call \in {"hello", "list", "create", "resume", "restore", "events"}
  \/ ui.at \in {"spawn", "ready"}

SettingUp == ui.at \in {"spawn", "ready", "exited"} \/ ui.call \in {"hello", "restore"}

Flow ==
  /\ Within(Pipe, begun) /\ running <= begun /\ \A t \in Turns : t > begun => said[t] = 0
  /\ Asks(Pipe, Owners) /\ (running # NoTurn => running \in Owners)
  /\ EndsLast(Pipe, running)
  /\ ReadyOnce(Pipe) /\ (ui.at # "ready" => NoReady(Pipe))
  /\ Calm => running = NoTurn /\ Asks(Pipe, {})

Screen ==
  /\ ~session => active = NoTurn /\ running = NoTurn /\ overlay.kind # "approval"
  /\ overlay.kind = "picker" \/ ui.call \in {"list", "create"} => ~session
  /\ ui.call = "submit" => session /\ active = NoTurn /\ overlay.kind = "none"
  /\ ui.at \in {"spawn", "ready"} \/ ui.call \in {"hello", "restore", "events"} => active = NoTurn
  /\ overlay.kind = "approval" => active = overlay.turn \/ refused \/ SettingUp

Heard ==
  /\ active # NoTurn /\ ui.at # "exited" => stream + Count(Pipe, Delta(active)) = said[active]
  /\ \A t \in Turns : Granted(t) => Count(Pipe, Delta(t)) = said[t]

TuiInv == Typed /\ Wire /\ Flow /\ Screen /\ Heard

Mid == IF reader.at = "push" THEN <<reader.frame>> ELSE <<>>

LEMMA PipeTyped ==
  ASSUME Typed
  PROVE  /\ incoming \in Seq(Frames) /\ Mid \in Seq(Frames) /\ stdout \in Seq(Frames)
         /\ Pipe = incoming \o Mid \o stdout /\ Pipe \in Seq(Frames)
         /\ \A i \in DOMAIN stdout : \E j \in DOMAIN Pipe : Pipe[j] = stdout[i]
         /\ \A i \in DOMAIN stdout : stdout[i] \in Frames
         /\ \A i \in DOMAIN Pipe : Pipe[i] \in Frames
<1>1. incoming \in Seq(Frames)
  <2>1. incoming \in Seq(Events) /\ Events \subseteq Frames
    BY DEF Typed, ClientTyped, Frames
  <2>2. QED
    BY <2>1, SeqMonotonic
<1>2. reader.frame \in Events
  BY DEF Typed, ClientTyped
<1>3. Mid \in Seq(Frames)
  <2>1. reader.frame \in Frames
    BY <1>2 DEF Frames
  <2>2. QED
    BY <2>1 DEF Mid
<1>4. stdout \in Seq(Frames)
  BY DEF Typed, PipesTyped
<1>5. Pipe = incoming \o Mid \o stdout
  BY DEF Pipe, Mid
<1>6. /\ incoming \o Mid \o stdout \in Seq(Frames)
      /\ Len(incoming) \in Nat /\ Len(Mid) \in Nat /\ Len(stdout) \in Nat
      /\ Len(incoming \o Mid \o stdout) = Len(incoming) + Len(Mid) + Len(stdout)
      /\ \A i \in 1 .. Len(stdout) :
           (incoming \o Mid \o stdout)[Len(incoming) + Len(Mid) + i] = stdout[i]
  <2> DEFINE a == incoming
             m == Mid
             b == stdout
  <2>1. a \in Seq(Frames) /\ m \in Seq(Frames) /\ b \in Seq(Frames)
    BY <1>1, <1>3, <1>4
  <2> HIDE DEF a, m, b
  <2>2. /\ a \o m \o b \in Seq(Frames)
        /\ Len(a) \in Nat /\ Len(m) \in Nat /\ Len(b) \in Nat
        /\ Len(a \o m \o b) = Len(a) + Len(m) + Len(b)
        /\ \A i \in 1 .. Len(b) : (a \o m \o b)[Len(a) + Len(m) + i] = b[i]
    BY <2>1, ConcatThree
  <2>3. QED
    BY <2>2 DEF a, m, b
<1>7. ASSUME NEW i \in DOMAIN stdout
      PROVE  /\ stdout[i] \in Frames
             /\ \E j \in DOMAIN Pipe : Pipe[j] = stdout[i]
  <2>1. i \in 1 .. Len(stdout) /\ stdout[i] \in Frames
    BY <1>4, LenProperties, ElementOfSeq
  <2>2. DOMAIN Pipe = 1 .. Len(incoming) + Len(Mid) + Len(stdout)
    BY <1>5, <1>6, LenProperties
  <2>3. Len(incoming) + Len(Mid) + i \in DOMAIN Pipe
    BY <1>6, <2>1, <2>2
  <2>4. QED
    BY <1>5, <1>6, <2>1, <2>3
<1>8. \A i \in DOMAIN Pipe : Pipe[i] \in Frames
  BY <1>5, <1>6, LenProperties, ElementOfSeq
<1>9. QED
  BY <1>1, <1>3, <1>4, <1>5, <1>6, <1>7, <1>8

LEMMA InitHolds == Init => TuiInv
<1> SUFFICES ASSUME Init PROVE TuiInv
  OBVIOUS
<1>1. /\ ui = [at |-> "spawn", call |-> "none"] /\ reader = [at |-> "gone", frame |-> Disconnected]
      /\ incoming = <<>> /\ stdout = <<>> /\ outbound = <<>> /\ stdin = <<>> /\ store = <<>>
      /\ active = NoTurn /\ running = NoTurn /\ begun = 0 /\ overlay = NoOverlay /\ reply = NoReply
      /\ session = FALSE /\ child = "down" /\ writer = "gone" /\ pending = FALSE
      /\ asked = "no"
  BY DEF Init
<1>2. /\ <<>> \in Seq(Events) /\ <<>> \in Seq(Frames) /\ <<>> \in Seq(Calls) /\ <<>> \in Seq(Messages)
      /\ Len(<<>>) = 0 /\ DOMAIN <<>> = {}
  OBVIOUS
<1>3. Typed
  <2>1. reader \in [at : {"read", "push", "sweep", "report", "gone"}, frame : Events]
    BY <1>1, EventFields
  <2>2. overlay \in [kind : {"none", "picker", "approval"}, turn : Turns \union {NoTurn}, busy : BOOLEAN]
    BY <1>1 DEF NoOverlay
  <2>3. ui \in [at : Ats, call : Calls \union {"none"}]
    BY <1>1 DEF Ats
  <2>4. Len(incoming) <= InboundCapacity /\ 0 \in 0 .. MaxTurns
    BY <1>1, <1>2, TuiAssumption
  <2>5. said \in [Turns -> Nat] /\ stream \in Nat
    BY DEF Init
  <2>6. incoming \in Seq(Events) /\ stdout \in Seq(Frames) /\ outbound \in Seq(Calls) /\ stdin \in Seq(Calls)
        /\ store \in Seq(Messages)
    BY <1>1, <1>2
  <2>7. QED
    BY <1>1, <2>1, <2>2, <2>3, <2>4, <2>5, <2>6 
       DEF Init, Typed, UiTyped, ClientTyped, PipesTyped, ScreenTyped, HistoryTyped, ChildTyped
<1>4. ui.at = "spawn" /\ ui.call = "none" /\ overlay.kind = "none" /\ reader.at = "gone"
  BY <1>1 DEF NoOverlay
<1>5. Pipe = <<>>
  <2>1. <<>> \o <<>> = <<>>
    BY ConcatEmptySeq, <1>2
  <2>2. QED
    BY <1>1, <1>4, <2>1 DEF Pipe
<1>6. \A t : ~Granted(t)
  BY <1>1, <1>2, EventFields DEF Granted, GrantedBy
<1>7. Wire
  BY <1>1, <1>2, <1>4 DEF Wire, Silent, Calling
<1>8. Flow
  <2>1. /\ Within(Pipe, 0) /\ Asks(Pipe, Owners) /\ EndsLast(Pipe, NoTurn) /\ ReadyOnce(Pipe)
        /\ NoReady(Pipe) /\ Asks(Pipe, {})
    BY <1>2, <1>5 DEF Within, Asks, EndsLast, ReadyOnce, NoReady
  <2>2. QED
    BY <1>1, <2>1 DEF Flow, Init, NoTurn
<1>9. Screen
  BY <1>1, <1>4 DEF Screen
<1>10. Heard
  BY <1>1, <1>6 DEF Heard
<1>11. QED
  BY <1>3, <1>7, <1>8, <1>9, <1>10 DEF TuiInv

-----------------------------------------------------------------------------
(* every step keeps the types *)

LEMMA Unchanged ==
  ASSUME Typed
  PROVE  /\ UNCHANGED ui => UiTyped'
         /\ UNCHANGED <<pending, reply, outbound, incoming, cancelled, reader, writer>> => ClientTyped'
         /\ UNCHANGED <<stdin, stdout>> => PipesTyped'
         /\ UNCHANGED <<session, transcript, checkpoint, active, stream, stopping, overlay, composer>>
              => ScreenTyped'
         /\ UNCHANGED <<refused, late>> => HistoryTyped'
         /\ UNCHANGED <<child, store, running, said, asked, begun>> => ChildTyped'
BY DEF Typed, UiTyped, ClientTyped, PipesTyped, ScreenTyped, HistoryTyped, ChildTyped

LEMMA QueueTyped ==
  ASSUME NEW S, NEW q \in Seq(S)
  PROVE  /\ Len(q) \in Nat
         /\ \A e \in S : Append(q, e) \in Seq(S) /\ Len(Append(q, e)) = Len(q) + 1
         /\ q # <<>> => Tail(q) \in Seq(S) /\ Len(Tail(q)) = Len(q) - 1 /\ Head(q) \in S
         /\ <<>> \in Seq(S) /\ Len(<<>>) = 0
BY LenProperties, AppendProperties, HeadTailProperties

LEMMA WriterTyped ==
  ASSUME Typed, Wire, Writer
  PROVE  Typed'
<1>0. /\ pending \in BOOLEAN /\ cancelled \in BOOLEAN /\ reply \in Responses \union {NoReply}
      /\ outbound \in Seq(Calls) /\ incoming \in Seq(Events) /\ Len(incoming) <= InboundCapacity
      /\ reader \in [at : {"read", "push", "sweep", "report", "gone"}, frame : Events]
      /\ writer \in {"recv", "write", "sweep", "report", "gone"}
      /\ stdin \in Seq(Calls) /\ stdout \in Seq(Frames)
  BY DEF Typed, ClientTyped, PipesTyped
<1>1. /\ UNCHANGED <<ui, screenVars, childVars, historyVars, boundVars, reader, stdout>>
  BY DEF Writer, WriterTakes, WriterWrites, WriterStops, WriterSweeps, WriterReports, pipeVars
<1>2. UiTyped' /\ ScreenTyped' /\ ChildTyped' /\ HistoryTyped'
  BY <1>1, Unchanged DEF screenVars, childVars, historyVars
<1>3. pending' \in BOOLEAN /\ reply' \in Responses \union {NoReply}
  <2>1. CASE WriterSweeps
    <3>1. pending => ui.call \in Calls
      BY DEF Wire, Calling, Typed, UiTyped
    <3>2. pending => Failed(ui.call) \in Responses
      BY <3>1, ResponseIs DEF Failed
    <3>3. QED
      BY <1>0, <2>1, <3>2 DEF WriterSweeps, FailPending
  <2>2. QED
    BY <1>0, <2>1 DEF Writer, WriterTakes, WriterWrites, WriterStops, WriterReports
<1>4. cancelled' \in BOOLEAN /\ writer' \in {"recv", "write", "sweep", "report", "gone"}
  BY <1>0 DEF Writer, WriterTakes, WriterWrites, WriterStops, WriterSweeps, WriterReports
<1>5. outbound' \in Seq(Calls) /\ stdin' \in Seq(Calls)
  <2>1. CASE WriterWrites
    <3>1. outbound # <<>>
      BY <2>1 DEF WriterWrites, Wire
    <3>2. Tail(outbound) \in Seq(Calls) /\ Append(stdin, Head(outbound)) \in Seq(Calls)
      BY <1>0, <3>1, QueueTyped
    <3>3. QED
      BY <1>0, <2>1, <3>2 DEF WriterWrites
  <2>2. QED
    BY <1>0, <2>1, QueueTyped DEF Writer, WriterTakes, WriterStops, WriterSweeps, WriterReports, pipeVars
<1>6. incoming' \in Seq(Events) /\ Len(incoming') <= InboundCapacity
  <2>1. CASE WriterReports
    <3>1. Append(incoming, Disconnected) \in Seq(Events)
          /\ Len(Append(incoming, Disconnected)) = Len(incoming) + 1 /\ Len(incoming) \in Nat
      BY <1>0, QueueTyped, EventFields
    <3>2. QED
      BY <2>1, <3>1, TuiAssumption DEF WriterReports
  <2>2. QED
    BY <1>0, <2>1 DEF Writer, WriterTakes, WriterWrites, WriterStops, WriterSweeps
<1>7. ClientTyped'
  BY <1>0, <1>1, <1>3, <1>4, <1>5, <1>6 DEF ClientTyped
<1>8. PipesTyped'
  BY <1>0, <1>1, <1>5 DEF PipesTyped
<1>9. QED
  BY <1>2, <1>7, <1>8 DEF Typed

LEMMA ReaderTyped ==
  ASSUME Typed, Wire, Reader
  PROVE  Typed'
<1>0. /\ pending \in BOOLEAN /\ cancelled \in BOOLEAN /\ reply \in Responses \union {NoReply}
      /\ outbound \in Seq(Calls) /\ incoming \in Seq(Events) /\ Len(incoming) <= InboundCapacity
      /\ reader \in [at : {"read", "push", "sweep", "report", "gone"}, frame : Events]
      /\ writer \in {"recv", "write", "sweep", "report", "gone"}
      /\ stdin \in Seq(Calls) /\ stdout \in Seq(Frames)
  BY DEF Typed, ClientTyped, PipesTyped
<1>1. /\ UNCHANGED <<ui, screenVars, childVars, historyVars, boundVars, writer, outbound, stdin>>
  BY DEF Reader, ReaderReads, ReaderPushes, ReaderStops, ReaderSweeps, ReaderReports, pipeVars
<1>2. UiTyped' /\ ScreenTyped' /\ ChildTyped' /\ HistoryTyped'
  BY <1>1, Unchanged DEF screenVars, childVars, historyVars
<1>3. stdout # <<>> => Head(stdout) \in Frames /\ Tail(stdout) \in Seq(Frames)
  BY <1>0, QueueTyped
<1>4. pending' \in BOOLEAN /\ reply' \in Responses \union {NoReply}
  <2>1. CASE ReaderSweeps
    <3>1. pending => ui.call \in Calls
      BY DEF Wire, Calling, Typed, UiTyped
    <3>2. pending => Failed(ui.call) \in Responses
      BY <3>1, ResponseIs DEF Failed
    <3>3. QED
      BY <1>0, <2>1, <3>2 DEF ReaderSweeps, FailPending
  <2>2. CASE ReaderReads
    BY <1>0, <1>3, <2>2, FrameIs DEF ReaderReads
  <2>3. QED
    BY <1>0, <2>1, <2>2 DEF Reader, ReaderPushes, ReaderStops, ReaderReports
<1>5. cancelled' \in BOOLEAN /\ stdout' \in Seq(Frames)
  BY <1>0, <1>3 DEF Reader, ReaderReads, ReaderPushes, ReaderStops, ReaderSweeps, ReaderReports, pipeVars
<1>6. incoming' \in Seq(Events) /\ Len(incoming') <= InboundCapacity
  <2>1. CASE ReaderReports \/ ReaderPushes
    <3>1. \A e \in Events : Append(incoming, e) \in Seq(Events)
                              /\ Len(Append(incoming, e)) = Len(incoming) + 1 /\ Len(incoming) \in Nat
      BY <1>0, QueueTyped
    <3>2. Disconnected \in Events /\ reader.frame \in Events /\ InboundCapacity \in Nat
      BY <1>0, EventFields, TuiAssumption
    <3>3. \E e \in Events : incoming' = Append(incoming, e) /\ Len(incoming) < InboundCapacity
      BY <2>1, <3>2 DEF ReaderReports, ReaderPushes
    <3>4. QED
      BY <3>1, <3>2, <3>3
  <2>2. QED
    BY <1>0, <2>1 DEF Reader, ReaderReads, ReaderStops, ReaderSweeps
<1>7. reader' \in [at : {"read", "push", "sweep", "report", "gone"}, frame : Events]
  <2>1. CASE ReaderReads
    BY <1>0, <1>3, <2>1, FrameIs DEF ReaderReads
  <2>2. SUFFICES ASSUME ~ReaderReads
                 PROVE  reader' \in [at : {"read", "push", "sweep", "report", "gone"}, frame : Events]
    BY <2>1
  <2>3. QED
    <3>1. CASE ReaderPushes
      BY <3>1, EventFields DEF ReaderPushes
    <3>2. QED
      BY <1>0, <2>1, <2>2, <3>1 DEF Reader, ReaderStops, ReaderSweeps, ReaderReports
<1>8. ClientTyped'
  BY <1>0, <1>1, <1>4, <1>5, <1>6, <1>7 DEF ClientTyped
<1>9. PipesTyped'
  BY <1>0, <1>1, <1>5 DEF PipesTyped
<1>10. QED
  BY <1>2, <1>8, <1>9 DEF Typed

\* The program ends, or lets go of the connection.
LEMMA ShutdownTyped ==
  ASSUME Typed, Shutdown, UiTyped', UNCHANGED <<store, said, begun, refused, late>>
  PROVE  ClientTyped' /\ PipesTyped' /\ HistoryTyped' /\ ChildTyped'
<1>1. reader' \in [at : {"read", "push", "sweep", "report", "gone"}, frame : Events]
  BY EventFields DEF Shutdown
<1>2. /\ <<>> \in Seq(Calls) /\ <<>> \in Seq(Events) /\ <<>> \in Seq(Frames) /\ Len(<<>>) <= InboundCapacity
  BY QueueTyped, TuiAssumption
<1>3. ClientTyped'
  BY <1>1, <1>2 DEF Shutdown, ClientTyped
<1>4. PipesTyped'
  BY <1>2 DEF Shutdown, PipesTyped
<1>5. HistoryTyped' /\ ChildTyped'
  BY DEF Shutdown, HistoryTyped, ChildTyped, Typed
<1>6. QED
  BY <1>3, <1>4, <1>5

LEMMA ExitTyped ==
  ASSUME Typed, Exit, UNCHANGED <<screenVars, store, said, begun, historyVars>>
  PROVE  Typed'
<1>1. UiTyped'
  BY DEF Exit, UiTyped, Ats
<1>2. ScreenTyped'
  BY Unchanged DEF screenVars
<1>3. QED
  BY <1>1, <1>2, ShutdownTyped DEF Typed, Exit, historyVars

\* The terminal loop on its own, on the connection.
LEMMA LoopTyped ==
  ASSUME Typed, Wire,
         Spawn \/ WaitForReady \/ Insert \/ Send \/ GivesUp \/ Reconnect \/ Quit
  PROVE  Typed'
<1>0. /\ pending \in BOOLEAN /\ cancelled \in BOOLEAN /\ reply \in Responses \union {NoReply}
      /\ outbound \in Seq(Calls) /\ incoming \in Seq(Events) /\ Len(incoming) <= InboundCapacity
      /\ reader \in [at : {"read", "push", "sweep", "report", "gone"}, frame : Events]
      /\ writer \in {"recv", "write", "sweep", "report", "gone"}
      /\ stdin \in Seq(Calls) /\ stdout \in Seq(Frames)
      /\ ui \in [at : Ats, call : Calls \union {"none"}]
  BY DEF Typed, ClientTyped, PipesTyped, UiTyped
<1>1. CASE Spawn
  <2>1. UiTyped' /\ ScreenTyped'
    BY <1>1, Unchanged DEF Spawn, UiTyped, Ats, screenVars
  <2>2. reader' \in [at : {"read", "push", "sweep", "report", "gone"}, frame : Events]
    BY <1>1, EventFields DEF Spawn
  <2>3. /\ <<>> \in Seq(Calls) /\ <<>> \in Seq(Events) /\ Len(<<>>) <= InboundCapacity
        /\ <<ReadyEvent>> \in Seq(Frames)
    <3>1. ReadyEvent \in Frames
      BY EventFields DEF Frames
    <3>2. QED
      BY <3>1, QueueTyped, TuiAssumption
  <2>4. ClientTyped'
    BY <1>1, <2>2, <2>3 DEF Spawn, ClientTyped
  <2>5. PipesTyped'
    BY <1>1, <2>3 DEF Spawn, PipesTyped
  <2>6. HistoryTyped' /\ ChildTyped'
    BY <1>1 DEF Spawn, HistoryTyped, ChildTyped, Typed
  <2>7. QED
    BY <2>1, <2>4, <2>5, <2>6 DEF Typed
<1>2. CASE WaitForReady
  <2>1. CASE Exit
    BY <1>2, <2>1, ExitTyped DEF WaitForReady
  <2>2. CASE ~Exit
    <3>1. /\ incoming # <<>> /\ incoming' = Tail(incoming) /\ ui' = [at |-> "insert", call |-> "hello"]
          /\ UNCHANGED <<pending, reply, outbound, cancelled, reader, writer, child, running,
                         asked, stdin, stdout>>
          /\ UNCHANGED <<screenVars, store, said, begun, historyVars>>
      BY <1>2, <2>2 DEF WaitForReady, Call, pipeVars
    <3>2. UiTyped'
      BY <3>1 DEF UiTyped, Ats, Calls
    <3>3. incoming' \in Seq(Events) /\ Len(incoming') <= InboundCapacity
      <4>1. Tail(incoming) \in Seq(Events) /\ Len(Tail(incoming)) = Len(incoming) - 1 /\ Len(incoming) \in Nat
        BY <1>0, <3>1, QueueTyped
      <4>2. QED
        BY <1>0, <3>1, <4>1, TuiAssumption
    <3>4. ClientTyped'
      BY <1>0, <3>1, <3>3 DEF ClientTyped
    <3>5. PipesTyped' /\ ScreenTyped' /\ HistoryTyped' /\ ChildTyped'
      BY <3>1, Unchanged DEF screenVars, historyVars
    <3>6. QED
      BY <3>2, <3>4, <3>5 DEF Typed
  <2>3. QED
    BY <2>1, <2>2
<1>3. CASE Insert
  <2>1. UiTyped'
    BY <1>0, <1>3 DEF Insert, UiTyped, Ats
  <2>2. ClientTyped'
    BY <1>0, <1>3 DEF Insert, ClientTyped
  <2>3. PipesTyped' /\ ScreenTyped' /\ ChildTyped'
    BY <1>3, Unchanged DEF Insert, screenVars, childVars, pipeVars
  <2>4. HistoryTyped'
    BY <1>0, <1>3 DEF Insert, HistoryTyped, Typed
  <2>5. QED
    BY <2>1, <2>2, <2>3, <2>4 DEF Typed
<1>4. CASE Send
  <2>1. UiTyped'
    BY <1>0, <1>4 DEF Send, UiTyped, Ats
  <2>2. ui.call \in Calls
    BY <1>0, <1>4 DEF Send, Wire, Calling
  <2>3. Failed(ui.call) \in Responses /\ Append(outbound, ui.call) \in Seq(Calls)
    BY <1>0, <2>2, ResponseIs, QueueTyped DEF Failed
  <2>4. ClientTyped'
    BY <1>0, <1>4, <2>3 DEF Send, ClientTyped
  <2>5. PipesTyped' /\ ScreenTyped' /\ ChildTyped' /\ HistoryTyped'
    BY <1>4, Unchanged DEF Send, screenVars, childVars, pipeVars, historyVars
  <2>6. QED
    BY <2>1, <2>4, <2>5 DEF Typed
<1>5. CASE GivesUp \/ Quit
  BY <1>5, ExitTyped DEF GivesUp, Quit
<1>6. CASE Reconnect
  <2>1. UiTyped'
    BY <1>6 DEF Reconnect, UiTyped, Ats
  <2>2. ScreenTyped'
    BY <1>6 DEF Reconnect, ScreenTyped, Typed
  <2>3. ClientTyped' /\ PipesTyped' /\ HistoryTyped' /\ ChildTyped'
    BY <1>6, <2>1, ShutdownTyped DEF Reconnect, historyVars
  <2>4. QED
    BY <2>1, <2>2, <2>3 DEF Typed
<1>7. QED
  BY <1>1, <1>2, <1>3, <1>4, <1>5, <1>6

LEMMA HeadOfPipe ==
  ASSUME Typed, incoming # <<>>
  PROVE  /\ Without(Pipe, Tail(incoming) \o Mid \o stdout, 1)
         /\ 1 \in DOMAIN Pipe /\ Pipe[1] = Head(incoming) /\ Head(incoming) \in Events
<1>1. /\ Without(Pipe, Tail(incoming) \o Mid \o stdout, 1) /\ Pipe[1] = Head(incoming)
  <2> DEFINE a == incoming
             m == Mid
             b == stdout
  <2>1. a \in Seq(Frames) /\ m \in Seq(Frames) /\ b \in Seq(Frames) /\ a # <<>>
        /\ Pipe = a \o m \o b
    BY PipeTyped
  <2> HIDE DEF a, m, b
  <2>2. Without(a \o m \o b, Tail(a) \o m \o b, 1) /\ (a \o m \o b)[1] = Head(a)
    BY <2>1, OneLess
  <2>3. QED
    BY <2>1, <2>2 DEF a, m, b
<1>2. 1 \in DOMAIN Pipe
  <2>1. 1 \in 1 .. Len(Pipe) /\ DOMAIN Pipe = 1 .. Len(Pipe)
    BY <1>1, PipeTyped, LenProperties DEF Without
  <2>2. QED
    BY <2>1
<1>3. Head(incoming) \in Events
  <2>1. incoming \in Seq(Events)
    BY DEF Typed, ClientTyped
  <2>2. QED
    BY <2>1, QueueTyped
<1>4. QED
  BY <1>1, <1>2, <1>3

LEMMA TakenIs ==
  ASSUME Typed, Flow, TakeEvent
  PROVE  \E event \in Events :
           /\ event = Head(incoming) /\ event = Pipe[1]
           /\ event.type \in EventKinds /\ event.turn \in Turns /\ event = Event(event.type, event.turn)
           /\ \/ event.type = "delta" /\ TakeDelta(event.turn)
              \/ event.type \in {"complete", "end"} /\ TakeEnd(event.turn)
              \/ event.type = "requested" /\ TakeRequested(event.turn)
              \/ event.type = "resolved" /\ TakeResolved(event.turn)
<1> DEFINE event == Head(incoming)
<1>1. incoming # <<>> /\ ui.at = "loop" /\ event # Disconnected
  BY DEF TakeEvent
<1>2. event \in Events /\ event = Pipe[1] /\ 1 \in DOMAIN Pipe
  BY <1>1, HeadOfPipe
<1>3. event.type # "ready"
  BY <1>1, <1>2 DEF Flow, NoReady
<1>4. event.type \in EventKinds /\ event.turn \in Turns /\ event = Event(event.type, event.turn)
  <2> HIDE DEF event
  <2>1. QED
    BY <1>1, <1>2, <1>3, EventIs
<1>5. \/ event.type = "delta" /\ TakeDelta(event.turn)
      \/ event.type \in {"complete", "end"} /\ TakeEnd(event.turn)
      \/ event.type = "requested" /\ TakeRequested(event.turn)
      \/ event.type = "resolved" /\ TakeResolved(event.turn)
  BY <1>4 DEF TakeEvent, EventKinds
<1> HIDE DEF event
<1>6. QED
  BY <1>2, <1>4, <1>5 DEF event

LEMMA TakeTyped ==
  ASSUME Typed, Flow, TakeEvent
  PROVE  Typed'
<1>1. /\ incoming # <<>> /\ incoming' = Tail(incoming)
      /\ UNCHANGED <<pending, reply, outbound, cancelled, reader, writer, session, transcript,
                     checkpoint, active, stopping, composer>>
      /\ UNCHANGED <<childVars, pipeVars, historyVars, boundVars>>
  BY DEF TakeEvent
<1>2. incoming \in Seq(Events)
  BY DEF Typed, ClientTyped
<1>3. Tail(incoming) \in Seq(Events) /\ Len(Tail(incoming)) = Len(incoming) - 1 /\ Len(incoming) \in Nat
  BY <1>1, <1>2, QueueTyped
<1>4. ClientTyped'
  BY <1>1, <1>3, TuiAssumption DEF Typed, ClientTyped
<1>5. PipesTyped' /\ HistoryTyped' /\ ChildTyped'
  BY <1>1, Unchanged DEF childVars, pipeVars, historyVars
<1>6. PICK event \in Events :
        /\ event.turn \in Turns
        /\ TakeDelta(event.turn) \/ TakeEnd(event.turn) \/ TakeRequested(event.turn) \/ TakeResolved(event.turn)
  BY TakenIs
<1>7. UiTyped'
  BY <1>6 DEF Typed, UiTyped, TakeDelta, TakeEnd, TakeRequested, TakeResolved, Call, Ats, Calls
<1>8. stream' \in Nat
  BY <1>6 DEF Typed, ScreenTyped, TakeDelta, TakeEnd, TakeRequested, TakeResolved
<1>9. overlay' \in [kind : {"none", "picker", "approval"}, turn : Turns \union {NoTurn}, busy : BOOLEAN]
  <2>1. NoOverlay \in [kind : {"none", "picker", "approval"}, turn : Turns \union {NoTurn}, busy : BOOLEAN]
        /\ \A t \in Turns : Dialogue(t) \in
             [kind : {"none", "picker", "approval"}, turn : Turns \union {NoTurn}, busy : BOOLEAN]
    BY DEF NoOverlay, Dialogue
  <2>2. overlay' = overlay \/ overlay' = NoOverlay \/ overlay' = Dialogue(event.turn)
    BY <1>6 DEF TakeDelta, TakeEnd, TakeRequested, TakeResolved
  <2>3. QED
    BY <1>6, <2>1, <2>2 DEF Typed, ScreenTyped
<1>10. ScreenTyped'
  BY <1>1, <1>8, <1>9 DEF Typed, ScreenTyped
<1>11. QED
  BY <1>4, <1>5, <1>7, <1>10 DEF Typed

LEMMA NextUi ==
  ASSUME Typed, UNCHANGED ui \/ Loop \/ \E c \in Calls : Call(c)
  PROVE  UiTyped'
<1>1. CASE \E c \in Calls : Call(c)
  BY <1>1 DEF Call, UiTyped, Ats
<1>2. CASE Loop
  BY <1>2 DEF Loop, UiTyped, Ats
<1>3. CASE UNCHANGED ui
  BY <1>3 DEF Typed, UiTyped
<1>4. QED
  BY <1>1, <1>2, <1>3

LEMMA KeysTyped ==
  ASSUME Typed, Type \/ SubmitPrompt \/ Interrupt \/ Decide \/ Pick
  PROVE  Typed'
<1>1. UNCHANGED <<clientVars, session, transcript, checkpoint, active, stream, stopping>>
      /\ UNCHANGED <<childVars, pipeVars, historyVars>>
  BY DEF Type, SubmitPrompt, Interrupt, Decide, Pick, screenVars
<1>2. ClientTyped' /\ PipesTyped' /\ HistoryTyped' /\ ChildTyped'
  BY <1>1, Unchanged DEF clientVars, childVars, pipeVars, historyVars
<1>3. UiTyped'
  <2>1. UNCHANGED ui \/ \E c \in Calls : Call(c)
    BY DEF Type, SubmitPrompt, Interrupt, Decide, Pick, Calls
  <2>2. QED
    BY <2>1, NextUi
<1>4. composer' \in BOOLEAN
  BY DEF Type, SubmitPrompt, Interrupt, Decide, Pick, Typed, ScreenTyped, screenVars
<1>5. overlay' \in [kind : {"none", "picker", "approval"}, turn : Turns \union {NoTurn}, busy : BOOLEAN]
  <2>1. /\ overlay \in [kind : {"none", "picker", "approval"}, turn : Turns \union {NoTurn}, busy : BOOLEAN]
        /\ NoOverlay \in [kind : {"none", "picker", "approval"}, turn : Turns \union {NoTurn}, busy : BOOLEAN]
    BY DEF Typed, ScreenTyped, NoOverlay
  <2>2. QED
    BY <2>1 DEF Type, SubmitPrompt, Interrupt, Decide, Pick, screenVars, Loading
<1>6. ScreenTyped'
  BY <1>1, <1>4, <1>5 DEF Typed, ScreenTyped
<1>7. QED
  BY <1>2, <1>3, <1>6 DEF Typed

\* What one of the calls makes of the screen.
LEMMA LoadingIs ==
  ASSUME Typed, NEW busy \in BOOLEAN
  PROVE  /\ {Loading(busy), Picker(busy), NoOverlay, overlay, [overlay EXCEPT !.busy = busy]} \subseteq
              [kind : {"none", "picker", "approval"}, turn : Turns \union {NoTurn}, busy : BOOLEAN]
         /\ Loading(busy).kind = overlay.kind /\ Loading(busy).turn = overlay.turn
<1>1. overlay \in [kind : {"none", "picker", "approval"}, turn : Turns \union {NoTurn}, busy : BOOLEAN]
  BY DEF Typed, ScreenTyped
<1>2. /\ [overlay EXCEPT !.busy = busy] \in
              [kind : {"none", "picker", "approval"}, turn : Turns \union {NoTurn}, busy : BOOLEAN]
      /\ [overlay EXCEPT !.busy = busy].kind = overlay.kind
      /\ [overlay EXCEPT !.busy = busy].turn = overlay.turn
  BY <1>1
<1>3. {Picker(busy), NoOverlay} \subseteq
              [kind : {"none", "picker", "approval"}, turn : Turns \union {NoTurn}, busy : BOOLEAN]
  BY DEF Picker, NoOverlay
<1>4. QED
  BY <1>1, <1>2, <1>3 DEF Loading

\* The cases of Done, one per call.
Dones ==
  \/ ui.call = "hello" /\ HelloDone
  \/ ui.call = "list" /\ ListDone
  \/ ui.call = "create" /\ CreateDone
  \/ ui.call = "resume" /\ ResumeDone
  \/ ui.call = "restore" /\ RestoreDone
  \/ ui.call = "events" /\ EventsDone
  \/ ui.call = "submit" /\ SubmitDone
  \/ ui.call = "interrupt" /\ InterruptDone
  \/ ui.call = "respond" /\ RespondDone

LEMMA DoneIs ==
  ASSUME Typed, Wire, Done
  PROVE  /\ ui.at = "await" /\ reply \in Responses /\ reply # NoReply /\ reply.call = ui.call
         /\ reply' = NoReply /\ ~pending /\ Dones
         /\ UNCHANGED <<pending, outbound, incoming, cancelled, reader, writer, stdin, stdout,
                        child, store, running, said, asked, begun, late>>
         /\ UNCHANGED boundVars
<1>1. /\ ui.at = "await" /\ reply # NoReply /\ reply' = NoReply
      /\ UNCHANGED <<pending, outbound, incoming, cancelled, reader, writer, stdin, stdout,
                     child, store, running, said, asked, begun, late>>
      /\ UNCHANGED boundVars
  BY DEF Done, Answered, childVars, pipeVars
<1>2. reply \in Responses /\ ui.call \in Calls /\ reply.call = ui.call /\ ~pending
  BY <1>1 DEF Typed, ClientTyped, UiTyped, Wire, Calling
<1>3. Dones
  BY <1>2 DEF Done, Dones, Calls
<1>4. QED
  BY <1>1, <1>2, <1>3

LEMMA DoneTyped ==
  ASSUME Typed, Wire, Done
  PROVE  Typed'
<1>1. /\ reply \in Responses /\ reply' = NoReply /\ Dones
      /\ UNCHANGED <<pending, outbound, incoming, cancelled, reader, writer, stdin, stdout,
                     child, store, running, said, asked, begun, late>>
  BY DoneIs
<1>2. ClientTyped'
  BY <1>1 DEF Typed, ClientTyped
<1>3. PipesTyped' /\ ChildTyped'
  BY <1>1, Unchanged
<1>4. UiTyped'
  <2>1. Loop \/ \E c \in Calls : Call(c)
    BY <1>1 DEF Dones, Calls, HelloDone, ListDone, CreateDone, ResumeDone,
         RestoreDone, EventsDone, SubmitDone, InterruptDone, RespondDone
  <2>2. QED
    BY <2>1, NextUi
<1>5. refused' \in {refused, TRUE}
  BY <1>1 DEF Dones, HelloDone, ListDone, CreateDone, ResumeDone,
       RestoreDone, EventsDone, SubmitDone, InterruptDone, RespondDone, Resumed
<1>6. HistoryTyped'
  BY <1>1, <1>5 DEF Typed, HistoryTyped
<1>7. /\ session' \in {session, TRUE} /\ composer' \in {composer, FALSE}
      /\ stopping' \in {stopping, FALSE, active # NoTurn}
      /\ active' \in {active, NoTurn, reply.turn} /\ stream' \in {stream, 0}
  BY <1>1 DEF Dones, HelloDone, ListDone, CreateDone, ResumeDone, OperationFailed,
       RestoreDone, EventsDone, SubmitDone, InterruptDone, RespondDone, Resumed
<1>8. overlay' \in {Loading(TRUE), Loading(FALSE), Picker(TRUE), Picker(FALSE), NoOverlay, overlay,
                    [overlay EXCEPT !.busy = FALSE]}
  BY <1>1 DEF Dones, HelloDone, ListDone, CreateDone, ResumeDone, OperationFailed,
       RestoreDone, EventsDone, SubmitDone, InterruptDone, RespondDone, Resumed
<1>9. overlay' \in [kind : {"none", "picker", "approval"}, turn : Turns \union {NoTurn}, busy : BOOLEAN]
  BY <1>8, LoadingIs
<1>10. ScreenTyped'
  <2>1. reply.turn \in Turns \union {NoTurn}
    BY <1>1 DEF Responses
  <2>2. /\ session \in BOOLEAN /\ stopping \in BOOLEAN /\ composer \in BOOLEAN
        /\ active \in Turns \union {NoTurn} /\ stream \in Nat
    BY DEF Typed, ScreenTyped
  <2>3. session' \in BOOLEAN /\ composer' \in BOOLEAN /\ stopping' \in BOOLEAN
    BY <1>7, <2>2
  <2>4. active' \in Turns \union {NoTurn} /\ stream' \in Nat
    <3>1. stream' \in {stream, 0} /\ active' \in {active, NoTurn, reply.turn}
      BY <1>7
    <3>2. QED
      BY <2>1, <2>2, <3>1
  <2>5. QED
    BY <1>9, <2>3, <2>4 DEF ScreenTyped
<1>11. QED
  BY <1>2, <1>3, <1>4, <1>6, <1>10 DEF Typed

-----------------------------------------------------------------------------
(* the child *)

\* A request is answered and nothing else happens.
PlainAnswer ==
  /\ \E f \in Responses : f.call = Head(stdin) /\ ~(f.call = "submit" /\ f.ok) /\ Answer(f)
  /\ UNCHANGED <<store, running, said, asked, begun>>

TurnBegins ==
  /\ Head(stdin) = "submit" /\ running = NoTurn /\ begun < MaxTurns
  /\ begun' = begun + 1 /\ running' = begun + 1
  /\ store' = Append(store, [turn |-> begun + 1, role |-> "user"])
  /\ \E f \in Responses : f.call = "submit" /\ f.ok /\ f.turn = begun + 1 /\ Answer(f)
  /\ UNCHANGED <<said, asked>>

Resolution ==
  /\ Head(stdin) = "respond" /\ asked = "open" /\ asked' = "closed" /\ stdin' = Tail(stdin)
  /\ \E f \in Responses :
       /\ f.call = "respond"
       /\ \/ stdout' = stdout \o <<f, Event("resolved", running)>>
          \/ stdout' = stdout \o <<Event("resolved", running), f>>
  /\ UNCHANGED <<store, running, said, begun>>

LEMMA ServeIs ==
  ASSUME Typed, Serve
  PROVE  /\ child = "up" /\ stdin # <<>> /\ Head(stdin) \in Calls
         /\ UNCHANGED <<ui, clientVars, screenVars, child, historyVars>>
         /\ PlainAnswer \/ TurnBegins \/ Resolution
<1>1. /\ child = "up" /\ stdin # <<>> /\ Head(stdin) \in Calls
      /\ UNCHANGED <<ui, clientVars, screenVars, child, historyVars>>
  <2>1. child = "up" /\ stdin # <<>>
    BY DEF Serve, ChildReads, ChildSubmits, ChildInterrupts, ChildResolves, ChildRefuses, Serving
  <2>2. stdin \in Seq(Calls)
    BY DEF Typed, PipesTyped
  <2>3. Head(stdin) \in Calls
    BY <2>1, <2>2, QueueTyped
  <2>4. QED
    BY <2>1, <2>3 DEF Serve, ChildReads, ChildSubmits, ChildInterrupts, ChildResolves, ChildRefuses, childVars
<1>2. \A ok \in BOOLEAN : Response(Head(stdin), ok) \in Responses /\ Response(Head(stdin), ok).call = Head(stdin)
                            /\ Response(Head(stdin), ok).ok = ok
  <2> SUFFICES ASSUME NEW ok \in BOOLEAN
               PROVE  Response(Head(stdin), ok) \in Responses /\ Response(Head(stdin), ok).call = Head(stdin)
                        /\ Response(Head(stdin), ok).ok = ok
    OBVIOUS
  <2>1. QED
    BY <1>1, ResponseIs
<1>3. CASE ChildRefuses
  <2>1. UNCHANGED <<store, running, said, asked, begun>>
    BY <1>3 DEF ChildRefuses, childVars
  <2>2. Answer(Response(Head(stdin), FALSE))
    BY <1>3 DEF ChildRefuses
  <2>3. QED
    BY <1>1, <1>2, <2>1, <2>2 DEF PlainAnswer
<1>4. CASE ChildReads
  <2>1. UNCHANGED <<store, running, said, asked, begun>> /\ Head(stdin) # "submit"
    BY <1>4 DEF ChildReads, childVars, Serving
  <2> DEFINE call == Head(stdin)
             latest == Len(store)
             last == IF checkpoint + EventLimit < latest THEN checkpoint + EventLimit ELSE latest
             r == Response(call, TRUE)
             page == [r EXCEPT !.page = Page]
             events == [r EXCEPT !.latest = latest, !.more = last < latest]
  <2>2. Answer(page) \/ Answer(events) \/ Answer(r)
    BY <1>4 DEF ChildReads
  <2>3. r \in Responses /\ r.call = call
    BY <1>2
  <2>4. Page \in Seq(Messages) /\ latest \in Nat
    <3>1. store \in Seq(Messages)
      BY DEF Typed, ChildTyped
    <3>2. Len(store) \in Nat
      BY <3>1, LenProperties
    <3> DEFINE n == IF Len(store) < PageLimit THEN Len(store) ELSE PageLimit
    <3>3. n \in Nat /\ n <= Len(store)
      BY <3>2, TuiAssumption
    <3>4. n \in 0 .. Len(store) /\ 1 \in 1 .. Len(store) + 1
      BY <3>2, <3>3
    <3> HIDE DEF n
    <3>5. SubSeq(store, 1, n) \in Seq(Messages)
      BY <3>1, <3>2, <3>4, SubSeqProperties
    <3>6. QED
      BY <3>2, <3>5 DEF Page, n
  <2>5. (last < latest) \in BOOLEAN
    OBVIOUS
  <2> HIDE DEF r, latest, last, call
  <2>6. page \in Responses /\ page.call = call /\ events \in Responses /\ events.call = call
    BY <2>3, <2>4, <2>5 DEF Responses
  <2> HIDE DEF page, events
  <2>7. \E f \in Responses : f.call = call /\ Answer(f)
    BY <2>2, <2>3, <2>6
  <2>8. QED
    BY <1>1, <2>1, <2>7 DEF PlainAnswer, call
<1>5. CASE ChildSubmits
  <2>1. Head(stdin) = "submit" /\ UNCHANGED <<said, asked>>
    BY <1>5 DEF ChildSubmits, Serving
  <2>2. CASE running = NoTurn /\ begun < MaxTurns
    <3> DEFINE r == Response("submit", TRUE)
               f == [r EXCEPT !.turn = begun + 1]
    <3>1. r \in Responses /\ r.call = "submit" /\ r.ok
      BY <1>2, <2>1
    <3>2. begun + 1 \in Turns
      BY <2>2, TuiAssumption DEF Typed, ChildTyped, Turns
    <3> HIDE DEF r
    <3>3. f \in Responses /\ f.call = "submit" /\ f.ok /\ f.turn = begun + 1
      BY <3>1, <3>2 DEF Responses
    <3>4. Answer(f) /\ begun' = begun + 1 /\ running' = begun + 1
          /\ store' = Append(store, [turn |-> begun + 1, role |-> "user"])
      BY <1>5, <2>2 DEF ChildSubmits, r
    <3> HIDE DEF f
    <3>5. QED
      BY <1>1, <2>1, <2>2, <3>3, <3>4 DEF TurnBegins
  <2>3. CASE ~(running = NoTurn /\ begun < MaxTurns)
    <3>1. Answer(Response(Head(stdin), FALSE)) /\ UNCHANGED <<begun, running, store>>
      BY <1>5, <2>1, <2>3 DEF ChildSubmits
    <3>2. QED
      BY <1>1, <1>2, <2>1, <3>1 DEF PlainAnswer
  <2>4. QED
    BY <2>2, <2>3
<1>6. CASE ChildInterrupts
  <2>1. Head(stdin) = "interrupt" /\ UNCHANGED <<store, running, said, asked, begun>>
    BY <1>6 DEF ChildInterrupts, childVars, Serving
  <2>2. Answer(Response(Head(stdin), running # NoTurn))
    BY <1>6, <2>1 DEF ChildInterrupts
  <2>3. QED
    BY <1>1, <1>2, <2>1, <2>2 DEF PlainAnswer
<1>7. CASE ChildResolves
  <2>1. Head(stdin) = "respond" /\ UNCHANGED <<store, running, said, begun>>
    BY <1>7 DEF ChildResolves, Serving
  <2>2. CASE asked = "open"
    <3>1. Response("respond", TRUE) \in Responses /\ Response("respond", TRUE).call = "respond"
      BY <1>2, <2>1
    <3>2. /\ asked' = "closed" /\ stdin' = Tail(stdin)
          /\ \/ stdout' = stdout \o <<Response("respond", TRUE), Event("resolved", running)>>
             \/ stdout' = stdout \o <<Event("resolved", running), Response("respond", TRUE)>>
      BY <1>7, <2>2 DEF ChildResolves
    <3>3. Resolution
      BY <2>1, <2>2, <3>1, <3>2 DEF Resolution
    <3>4. QED
      BY <1>1, <3>3
  <2>3. CASE asked # "open"
    <3>1. Answer(Response(Head(stdin), FALSE)) /\ UNCHANGED asked
      BY <1>7, <2>1, <2>3 DEF ChildResolves
    <3>2. QED
      BY <1>1, <1>2, <2>1, <3>1 DEF PlainAnswer
  <2>4. QED
    BY <2>2, <2>3
<1>8. QED
  BY <1>3, <1>4, <1>5, <1>6, <1>7 DEF Serve

\* What the turn publishes.
TurnSays ==
  /\ said' = [said EXCEPT ![running] = @ + 1] /\ stdout' = stdout \o <<Event("delta", running)>>
  /\ UNCHANGED <<store, running, asked, begun>>

TurnAsks ==
  /\ \/ asked' = "open" /\ stdout' = stdout \o <<Event("requested", running)>>
     \/ asked' = "closed" /\ stdout' = stdout \o <<Event("resolved", running)>>
  /\ UNCHANGED <<store, running, said, begun>>

TurnCloses ==
  /\ \/ /\ stdout' = stdout \o <<Event("complete", running), Event("end", running)>>
        /\ store' = Append(store, [turn |-> running, role |-> "assistant"])
     \/ stdout' = stdout \o <<Event("end", running)>> /\ UNCHANGED store
  /\ running' = NoTurn /\ asked' = "no"
  /\ UNCHANGED <<said, begun>>

LEMMA TurnIs ==
  ASSUME Typed, Wire, Turn
  PROVE  /\ child = "up" /\ UNCHANGED <<ui, clientVars, screenVars, child, historyVars, stdin>>
         /\ running \in Turns
         /\ TurnSays \/ TurnAsks \/ TurnCloses
<1>1. running # NoTurn
  BY DEF Wire, Turn, ChildSays, ChildAsks, ApprovalExpires, TurnEnds
<1>2. running \in Turns
  BY <1>1 DEF Typed, ChildTyped
<1>3. child = "up" /\ UNCHANGED <<ui, clientVars, screenVars, child, historyVars, stdin>>
  BY DEF Turn, ChildSays, ChildAsks, ApprovalExpires, TurnEnds, Publish
<1>4. CASE ChildSays
  <2>1. said' = [said EXCEPT ![running] = @ + 1] /\ UNCHANGED <<store, running, asked, begun>>
    BY <1>4 DEF ChildSays
  <2>2. stdout' = stdout \o <<Event("delta", running)>>
    BY <1>4, Zenon DEF ChildSays, Publish
  <2>3. QED
    BY <1>2, <1>3, <2>1, <2>2, Zenon DEF TurnSays
<1>5. CASE ChildAsks \/ ApprovalExpires
  <2>1. UNCHANGED <<store, running, said, begun>>
    BY <1>5 DEF ChildAsks, ApprovalExpires
  <2>2. \/ asked' = "open" /\ stdout' = stdout \o <<Event("requested", running)>>
        \/ asked' = "closed" /\ stdout' = stdout \o <<Event("resolved", running)>>
    BY <1>5, Zenon DEF ChildAsks, ApprovalExpires, Publish
  <2>3. QED
    BY <1>2, <1>3, <2>1, <2>2, Zenon DEF TurnAsks
<1>6. CASE TurnEnds
  <2>1. running' = NoTurn /\ asked' = "no" /\ UNCHANGED <<said, begun>>
    BY <1>6 DEF TurnEnds
  <2>2. \/ /\ stdout' = stdout \o <<Event("complete", running), Event("end", running)>>
           /\ store' = Append(store, [turn |-> running, role |-> "assistant"])
        \/ stdout' = stdout \o <<Event("end", running)>> /\ UNCHANGED store
    BY <1>6, Zenon DEF TurnEnds, Publish
  <2>3. QED
    BY <1>2, <1>3, <2>1, <2>2, Zenon DEF TurnCloses
<1>7. QED
  BY <1>2, <1>3, <1>4, <1>5, <1>6 DEF Turn

\* Every child step appends to its output.
LEMMA MoreFrames ==
  ASSUME Typed
  PROVE  /\ \A e \in Frames : Append(stdout, e) \in Seq(Frames) /\ stdout \o <<e>> = Append(stdout, e)
         /\ \A e, f \in Frames : stdout \o <<e, f>> = Append(Append(stdout, e), f)
                                 /\ stdout \o <<e, f>> \in Seq(Frames)
         /\ \A k \in EventKinds, t \in Turns : Event(k, t) \in Frames
<1>1. stdout \in Seq(Frames)
  BY DEF Typed, PipesTyped
<1>2. \A e \in Frames : Append(stdout, e) \in Seq(Frames)
  BY <1>1, QueueTyped
<1>3. ASSUME NEW e \in Frames, NEW f \in Frames
      PROVE  /\ stdout \o <<e>> = Append(stdout, e)
             /\ stdout \o <<e, f>> = Append(Append(stdout, e), f)
  BY <1>1, PairIs
<1>4. ASSUME NEW e \in Frames, NEW f \in Frames
      PROVE  Append(Append(stdout, e), f) \in Seq(Frames)
  <2> DEFINE a == Append(stdout, e)
  <2>1. a \in Seq(Frames)
    BY <1>2
  <2> HIDE DEF a
  <2>2. Append(a, f) \in Seq(Frames)
    BY <2>1, QueueTyped
  <2>3. QED
    BY <2>2 DEF a
<1>5. \A k \in EventKinds, t \in Turns : Event(k, t) \in Frames
  BY EventFields DEF Frames
<1>6. QED
  BY <1>2, <1>3, <1>4, <1>5

LEMMA ChildIsTyped ==
  ASSUME Typed, Wire, Serve \/ Turn \/ ChildDies
  PROVE  Typed'
<1>0. /\ stdin \in Seq(Calls) /\ stdout \in Seq(Frames)
      /\ child \in {"up", "down"} /\ asked \in {"no", "open", "closed"}
      /\ running \in Turns \union {NoTurn}
      /\ store \in Seq(Messages) /\ said \in [Turns -> Nat] /\ begun \in 0 .. MaxTurns
  BY DEF Typed, PipesTyped, ChildTyped
<1>1. UNCHANGED <<ui, clientVars, screenVars, historyVars>>
  <2>1. CASE ChildDies
    BY <2>1 DEF ChildDies
  <2>2. QED
    BY <2>1, ServeIs, TurnIs
<1>2. UiTyped' /\ ClientTyped' /\ ScreenTyped' /\ HistoryTyped'
  BY <1>1, Unchanged DEF clientVars, screenVars, historyVars
<1>3. CASE ChildDies
  BY <1>0, <1>2, <1>3 DEF ChildDies, pipeVars, Typed, PipesTyped, ChildTyped
<1>4. \A t \in Turns, r \in {"user", "assistant"} : Append(store, [turn |-> t, role |-> r]) \in Seq(Messages)
  <2>1. \A m \in Messages : Append(store, m) \in Seq(Messages)
    BY <1>0, QueueTyped
  <2>2. QED
    BY <2>1 DEF Messages
<1>5. CASE Serve
  <2>1. /\ stdin # <<>> /\ Tail(stdin) \in Seq(Calls) /\ UNCHANGED child
    BY <1>0, <1>5, ServeIs, QueueTyped
  <2>2. CASE PlainAnswer
    <3>1. stdout' \in Seq(Frames) /\ stdin' \in Seq(Calls)
      BY <2>1, <2>2, MoreFrames DEF PlainAnswer, Answer, Frames
    <3>2. ChildTyped'
      BY <1>0, <2>1, <2>2 DEF PlainAnswer, ChildTyped
    <3>3. QED
      BY <1>2, <3>1, <3>2 DEF Typed, PipesTyped
  <2>3. CASE TurnBegins
    <3>1. stdout' \in Seq(Frames) /\ stdin' \in Seq(Calls)
      BY <2>1, <2>3, MoreFrames DEF TurnBegins, Answer, Frames
    <3>2. begun + 1 \in Turns /\ begun + 1 \in 0 .. MaxTurns
      BY <1>0, <2>3, TuiAssumption DEF TurnBegins, Turns
    <3>3. store' \in Seq(Messages)
      BY <1>4, <2>3, <3>2 DEF TurnBegins
    <3>4. ChildTyped'
      BY <1>0, <2>1, <2>3, <3>2, <3>3 DEF TurnBegins, ChildTyped
    <3>5. QED
      BY <1>2, <3>1, <3>4 DEF Typed, PipesTyped
  <2>4. CASE Resolution
    <3>1. Event("resolved", running) \in Frames
      BY <1>0, <2>4, MoreFrames DEF Resolution, Wire, EventKinds
    <3>2. stdout' \in Seq(Frames) /\ stdin' \in Seq(Calls)
      BY <2>1, <2>4, <3>1, MoreFrames DEF Resolution, Frames
    <3>3. ChildTyped'
      BY <1>0, <2>1, <2>4 DEF Resolution, ChildTyped
    <3>4. QED
      BY <1>2, <3>2, <3>3 DEF Typed, PipesTyped
  <2>5. QED
    BY <1>5, <2>2, <2>3, <2>4, ServeIs
<1>6. CASE Turn
  <2>1. UNCHANGED <<stdin, child>> /\ running \in Turns
    BY <1>6, TurnIs
  <2>2. \A k \in EventKinds : Event(k, running) \in Frames
    BY <2>1, MoreFrames
  <2>3. CASE TurnSays
    <3>1. stdout' \in Seq(Frames)
      BY <2>2, <2>3, MoreFrames DEF TurnSays, EventKinds
    <3>2. ChildTyped'
      BY <1>0, <2>1, <2>3 DEF TurnSays, ChildTyped
    <3>3. QED
      BY <1>0, <1>2, <2>1, <3>1, <3>2 DEF Typed, PipesTyped
  <2>4. CASE TurnAsks
    <3>1. stdout' \in Seq(Frames)
      BY <2>2, <2>4, MoreFrames DEF TurnAsks, EventKinds
    <3>2. ChildTyped'
      BY <1>0, <2>1, <2>4 DEF TurnAsks, ChildTyped
    <3>3. QED
      BY <1>0, <1>2, <2>1, <3>1, <3>2 DEF Typed, PipesTyped
  <2>5. CASE TurnCloses
    <3>1. stdout' \in Seq(Frames)
      BY <2>2, <2>5, MoreFrames DEF TurnCloses, EventKinds
    <3>2. store' \in Seq(Messages)
      BY <1>0, <1>4, <2>1, <2>5 DEF TurnCloses
    <3>3. ChildTyped'
      BY <1>0, <2>1, <2>5, <3>2 DEF TurnCloses, ChildTyped
    <3>4. QED
      BY <1>0, <1>2, <2>1, <3>1, <3>3 DEF Typed, PipesTyped
  <2>6. QED
    BY <1>6, <2>3, <2>4, <2>5, TurnIs
<1>7. QED
  BY <1>3, <1>5, <1>6

-----------------------------------------------------------------------------
(* the connection: one request, in one place *)

LEMMA FewerAnswers ==
  ASSUME NEW s \in Seq(Frames), s # <<>>, NEW c
  PROVE  /\ Silent(s) => Silent(Tail(s)) /\ Head(s).type # "response"
         /\ Answers(s, c) => Answers(Tail(s), c)
         /\ Answers(s, c) /\ Head(s).type = "response" => Silent(Tail(s)) /\ Head(s).call = c
<1>1. /\ Tail(s) \in Seq(Frames) /\ Head(s) = s[1] /\ 1 \in DOMAIN s
      /\ \A i \in DOMAIN Tail(s) : i + 1 \in DOMAIN s /\ Tail(s)[i] = s[i + 1] /\ i + 1 # 1
      /\ \A i, j \in DOMAIN Tail(s) : i + 1 = j + 1 => i = j
  <2>1. Without(s, Tail(s), 1) /\ Tail(s) \in Seq(Frames) /\ Head(s) = s[1]
    BY TailWithout
  <2>2. DOMAIN s = 1 .. Len(s) /\ DOMAIN Tail(s) = 1 .. Len(Tail(s)) /\ Len(s) \in Nat /\ Len(Tail(s)) \in Nat
    BY <2>1, LenProperties
  <2> DEFINE t == Tail(s)
  <2>3. /\ 1 \in 1 .. Len(s) /\ Len(s) = Len(t) + 1 /\ Len(t) \in Nat
        /\ \A i \in 1 .. Len(t) : t[i] = s[i + 1]
    BY <2>1, <2>2 DEF Without
  <2> HIDE DEF t
  <2>4. \A i \in 1 .. Len(t) : i + 1 \in 1 .. Len(s) /\ t[i] = s[i + 1] /\ i + 1 # 1
    BY <2>3
  <2>5. \A i, j \in 1 .. Len(t) : i + 1 = j + 1 => i = j
    BY <2>3
  <2>6. QED
    BY <2>1, <2>2, <2>3, <2>4, <2>5 DEF t
<1> DEFINE t == Tail(s)
<1>2. \A i \in DOMAIN t : i + 1 \in DOMAIN s /\ t[i] = s[i + 1] /\ i + 1 # 1
  BY <1>1
<1>3. \A i, j \in DOMAIN t : i + 1 = j + 1 => i = j
  BY <1>1
<1> HIDE DEF t
<1>4. Silent(s) => Silent(t) /\ s[1].type # "response"
  BY <1>1, <1>2 DEF Silent
<1>5. Answers(s, c) => Answers(t, c)
  BY <1>2, <1>3 DEF Answers
<1>6. Answers(s, c) /\ s[1].type = "response" => Silent(t) /\ s[1].call = c
  BY <1>1, <1>2 DEF Answers, Silent
<1>7. QED
  BY <1>1, <1>4, <1>5, <1>6 DEF t

LEMMA MoreAnswers ==
  ASSUME NEW s \in Seq(Frames), NEW e \in Frames, NEW c
  PROVE  /\ e.type # "response" /\ Silent(s) => Silent(Append(s, e))
         /\ e.type # "response" /\ Answers(s, c) => Answers(Append(s, e), c)
         /\ e.type = "response" /\ e.call = c /\ Silent(s) => Answers(Append(s, e), c)
<1> DEFINE t == Append(s, e)
<1>1. /\ t \in Seq(Frames) /\ \A i \in DOMAIN s : t[i] = s[i]
      /\ \A i \in DOMAIN t : i \in DOMAIN s \/ (i = Len(s) + 1 /\ t[i] = e)
      /\ Len(s) + 1 \notin DOMAIN s
  <2>1. /\ t \in Seq(Frames) /\ Len(t) = Len(s) + 1 /\ Len(s) \in Nat
        /\ \A i \in 1 .. Len(s) : t[i] = s[i]
        /\ t[Len(s) + 1] = e
    BY AppendProperties, LenProperties
  <2> HIDE DEF t
  <2>2. DOMAIN t = 1 .. Len(s) + 1 /\ DOMAIN s = 1 .. Len(s)
    BY <2>1, LenProperties
  <2>3. QED
    BY <2>1, <2>2
<1> HIDE DEF t
<1>2. e.type # "response" /\ Silent(s) => Silent(t)
  BY <1>1 DEF Silent
<1>3. e.type # "response" /\ Answers(s, c) => Answers(t, c)
  BY <1>1 DEF Answers
<1>4. e.type = "response" /\ e.call = c /\ Silent(s) => Answers(t, c)
  BY <1>1 DEF Answers, Silent
<1>5. QED
  BY <1>2, <1>3, <1>4 DEF t

\* The terminal loop goes on without a request under way.
LEMMA IdleWire ==
  ASSUME Typed, Wire, ~pending, reply' = NoReply, ui.at \notin {"spawn", "exited"},
         Loop \/ (\E c \in Calls : Call(c)) \/ (ui.at = "loop" /\ UNCHANGED ui),
         UNCHANGED <<pending, outbound, cancelled, reader, writer, child, running, asked, stdin, stdout>>
  PROVE  Wire'
<1>1. /\ ui'.at \in {"insert", "loop"} /\ (ui'.at = "insert" <=> ui'.call # "none")
  BY DEF Loop, Call, Wire, Calling, Calls
<1>2. child = "up" => Connected'
  BY <1>1 DEF Wire, Connected
<1>3. Silent(stdout)
  BY DEF Wire, Waiting
<1>4. QED
  BY <1>1, <1>2, <1>3 DEF Wire, Calling, Silent

LEMMA ShutdownWire ==
  ASSUME Shutdown, ui'.at \in {"spawn", "exited"}, ui'.call = "none"
  PROVE  Wire'
<1>1. DOMAIN stdout' = {}
  BY DEF Shutdown
<1>2. Silent(stdout')
  BY <1>1 DEF Silent
<1>3. QED
  BY <1>2 DEF Shutdown, Wire, Calling, Silent

LEMMA LoopWire ==
  ASSUME TuiInv,
         Spawn \/ WaitForReady \/ Insert \/ Send \/ GivesUp \/ Reconnect \/ Quit
  PROVE  Wire'
<1>0. Typed /\ Wire
  BY DEF TuiInv
<1>1. CASE Spawn
  <2>1. child = "down"
    BY <1>0, <1>1 DEF Spawn, Wire, Connected, Typed, ChildTyped
  <2>2. Silent(stdout')
    <3>1. \A i \in DOMAIN <<ReadyEvent>> : <<ReadyEvent>>[i] = ReadyEvent
      OBVIOUS
    <3>2. QED
      BY <1>1, <3>1, EventFields DEF Spawn, Silent
  <2>3. Connected'
    BY <1>1 DEF Spawn, Connected
  <2>4. ui' = [at |-> "ready", call |-> "none"] /\ writer' = "recv" /\ ~pending' /\ reply' = NoReply
        /\ child' = "up" /\ UNCHANGED <<running, asked>>
    BY <1>1 DEF Spawn
  <2>5. QED
    BY <1>0, <2>2, <2>3, <2>4 DEF Wire, Calling, Silent
<1>2. CASE WaitForReady
  <2>1. CASE Exit
    BY <2>1, ShutdownWire DEF Exit
  <2>2. CASE ~Exit
    <3>1. /\ ui.at = "ready" /\ Call("hello") /\ "hello" \in Calls
          /\ UNCHANGED <<pending, reply, outbound, cancelled, reader, writer, child, running,
                         asked, stdin, stdout>>
      BY <1>2, <2>2 DEF WaitForReady, pipeVars, Calls
    <3>2. ~pending /\ reply = NoReply
      BY <1>0, <3>1 DEF Wire
    <3>3. QED
      BY <1>0, <3>1, <3>2, IdleWire
  <2>3. QED
    BY <2>1, <2>2
<1>3. CASE Insert
  <2>1. /\ ui.at = "insert" /\ ui'.at = "send" /\ ui'.call = ui.call /\ pending' /\ reply' = NoReply
        /\ UNCHANGED <<outbound, cancelled, reader, writer, child, running, asked, stdin, stdout>>
    BY <1>0, <1>3 DEF Insert, Typed, UiTyped, childVars, pipeVars
  <2>2. ~pending /\ Silent(stdout)
    BY <1>0, <2>1 DEF Wire, Waiting
  <2>3. child = "up" => Connected'
    BY <1>0, <2>1, <2>2 DEF Wire, Connected
  <2>4. QED
    BY <1>0, <2>1, <2>2, <2>3 DEF Wire, Calling, Silent
<1>4. CASE Send
  <2>1. /\ ui.at = "send" /\ ui'.at = "await" /\ ui'.call = ui.call /\ ui.call \in Calls
        /\ UNCHANGED <<cancelled, reader, writer, child, running, asked, stdin, stdout>>
    BY <1>0, <1>4 DEF Send, Typed, UiTyped, childVars, pipeVars, Wire, Calling
  <2>2. Silent(stdout)
    BY <1>0, <2>1 DEF Wire, Waiting
  <2>3. CASE writer = "gone"
    <3>1. ~pending' /\ reply' = Failed(ui.call) /\ UNCHANGED outbound /\ child # "up"
      BY <1>0, <1>4, <2>3 DEF Send, Wire, Connected
    <3>2. reply'.call = ui.call /\ ~reply'.ok
      BY <2>1, <3>1, ResponseIs DEF Failed
    <3>3. QED
      BY <1>0, <2>1, <2>2, <3>1, <3>2 DEF Wire, Calling, Silent
  <2>4. CASE writer # "gone"
    <3>1. outbound' = Append(outbound, ui.call) /\ UNCHANGED <<pending, reply>>
      BY <1>4, <2>4 DEF Send
    <3>2. outbound' # <<>>
      <4>1. outbound \in Seq(Calls)
        BY <1>0 DEF Typed, ClientTyped
      <4>2. QED
        BY <2>1, <3>1, <4>1, AppendProperties
    <3>3. child = "up" => outbound = <<>> /\ stdin = <<>> /\ pending
      BY <1>0, <2>1 DEF Wire, Connected
    <3>4. Append(<<>>, ui.call) = <<ui.call>>
      OBVIOUS
    <3>5. child = "up" => Connected'
      BY <1>0, <2>1, <3>1, <3>3, <3>4 DEF Wire, Connected
    <3>6. QED
      BY <1>0, <2>1, <2>2, <3>1, <3>2, <3>5 DEF Wire, Calling, Silent
  <2>5. QED
    BY <2>3, <2>4
<1>5. CASE GivesUp \/ Quit
  BY <1>5, ShutdownWire DEF GivesUp, Quit, Exit
<1>6. CASE Reconnect
  BY <1>6, ShutdownWire DEF Reconnect
<1>7. QED
  BY <1>1, <1>2, <1>3, <1>4, <1>5, <1>6

LEMMA TakeAndKeysWire ==
  ASSUME TuiInv, TakeEvent \/ Type \/ SubmitPrompt \/ Interrupt \/ Decide \/ Pick \/ Done
  PROVE  Wire'
<1>0. Typed /\ Wire /\ Flow
  BY DEF TuiInv
<1>1. CASE Done
  <2>1. /\ ui.at = "await" /\ reply' = NoReply /\ ~pending /\ Dones
        /\ UNCHANGED <<pending, outbound, incoming, cancelled, reader, writer, stdin, stdout,
                       child, store, running, said, asked, begun, late>>
    BY <1>0, <1>1, DoneIs
  <2>2. Loop \/ \E c \in Calls : Call(c)
    BY <2>1 DEF Dones, Calls, HelloDone, ListDone, CreateDone, ResumeDone,
         RestoreDone, EventsDone, SubmitDone, InterruptDone, RespondDone
  <2>3. QED
    BY <1>0, <2>1, <2>2, IdleWire
<1>2. CASE TakeEvent \/ Type \/ SubmitPrompt \/ Interrupt \/ Decide \/ Pick
  <2>1. /\ ui.at = "loop"
        /\ UNCHANGED <<pending, reply, outbound, cancelled, reader, writer, child, running, asked, stdin, stdout>>
    BY <1>2 DEF TakeEvent, Type, SubmitPrompt, Interrupt, Decide, Pick, clientVars, childVars, pipeVars
  <2>2. ~pending /\ reply = NoReply
    BY <1>0, <2>1 DEF Wire
  <2>3. UNCHANGED ui \/ \E c \in Calls : Call(c)
    <3>1. CASE TakeEvent
      <4>1. PICK event \in Events :
              TakeDelta(event.turn) \/ TakeEnd(event.turn) \/ TakeRequested(event.turn) \/ TakeResolved(event.turn)
        BY <1>0, <3>1, TakenIs
      <4>2. QED
        BY <4>1 DEF TakeDelta, TakeEnd, TakeRequested, TakeResolved, Calls
    <3>2. CASE Type \/ SubmitPrompt \/ Interrupt \/ Decide \/ Pick
      BY <3>2 DEF Type, SubmitPrompt, Interrupt, Decide, Pick, Calls
    <3>3. QED
      BY <1>2, <3>1, <3>2
  <2>4. QED
    BY <1>0, <2>1, <2>2, <2>3, IdleWire
<1>3. QED
  BY <1>1, <1>2

LEMMA WriterWire ==
  ASSUME Typed, Wire, Writer
  PROVE  Wire'
<1>1. UNCHANGED <<ui, child, running, asked, reader, stdout>>
  BY DEF Writer, WriterTakes, WriterWrites, WriterStops, WriterSweeps, WriterReports, childVars, pipeVars
<1>2. CASE WriterTakes
  <2>1. writer = "recv" /\ writer' = "write" /\ outbound # <<>>
        /\ UNCHANGED <<pending, reply, outbound, cancelled, stdin>>
    BY <1>2 DEF WriterTakes, pipeVars
  <2>2. Silent(stdout) /\ (child = "up" => Connected')
    BY <1>1, <2>1 DEF Wire, Waiting, Connected
  <2>3. QED
    BY <1>1, <2>1, <2>2 DEF Wire, Calling, Silent
<1>3. CASE WriterWrites
  <2>1. writer = "write" /\ outbound # <<>> /\ outbound' = Tail(outbound) /\ writer' # "write"
        /\ UNCHANGED <<pending, reply>>
    BY <1>3 DEF WriterWrites, Wire
  <2>2. Silent(stdout)
    BY <2>1 DEF Wire, Waiting
  <2>3. child = "up" => Connected'
    <3> SUFFICES ASSUME child = "up" PROVE Connected'
      OBVIOUS
    <3>1. stdin' = Append(stdin, Head(outbound)) /\ writer' = "recv" /\ UNCHANGED cancelled
      BY <1>3 DEF WriterWrites
    <3>2. Connected /\ outbound = <<ui.call>> /\ stdin = <<>> /\ pending /\ ui.at # "send"
      BY <2>1 DEF Wire, Connected
    <3>3. Tail(<<ui.call>>) = <<>> /\ Head(<<ui.call>>) = ui.call /\ Append(<<>>, ui.call) = <<ui.call>>
      OBVIOUS
    <3>4. outbound' = <<>> /\ stdin' = <<ui.call>>
      BY <2>1, <3>1, <3>2, <3>3
    <3>5. QED
      BY <1>1, <2>1, <3>1, <3>2, <3>4 DEF Connected
  <2>4. QED
    BY <1>1, <2>1, <2>2, <2>3 DEF Wire, Calling, Silent
<1>4. CASE WriterStops \/ WriterReports
  <2>1. writer' = "gone" /\ (cancelled \/ writer = "report") /\ UNCHANGED <<pending, reply, cancelled, stdin>>
    BY <1>4 DEF WriterStops, WriterReports, pipeVars
  <2>2. child # "up" /\ Silent(stdout)
    BY <2>1 DEF Wire, Waiting, Connected
  <2>3. QED
    BY <1>1, <2>1, <2>2 DEF Wire, Calling, Silent
<1>5. CASE WriterSweeps
  <2>1. writer = "sweep" /\ writer' = "report" /\ FailPending /\ UNCHANGED <<outbound, cancelled, stdin>>
    BY <1>5 DEF WriterSweeps, pipeVars
  <2>2. child # "up" /\ Silent(stdout)
    BY <2>1 DEF Wire, Waiting, Connected
  <2>3. pending => ui.call \in Calls
    BY DEF Wire, Calling, Typed, UiTyped
  <2>4. pending => Failed(ui.call).call = ui.call /\ ~Failed(ui.call).ok
    BY <2>3, ResponseIs DEF Failed
  <2>5. QED
    BY <1>1, <2>1, <2>2, <2>4 DEF Wire, Calling, Silent, FailPending
<1>6. QED
  BY <1>2, <1>3, <1>4, <1>5 DEF Writer

LEMMA ReaderWire ==
  ASSUME Typed, Wire, Reader
  PROVE  Wire'
<1>1. UNCHANGED <<ui, child, running, asked, outbound, writer, stdin>>
  BY DEF Reader, ReaderReads, ReaderPushes, ReaderStops, ReaderSweeps, ReaderReports, childVars, pipeVars
<1>2. stdout \in Seq(Frames)
  BY DEF Typed, PipesTyped
<1>3. CASE ReaderReads /\ stdout # <<>>
  <2>1. reader.at = "read" /\ stdout' = Tail(stdout)
    BY <1>3 DEF ReaderReads
  <2>2. CASE Head(stdout).type # "response"
    <3>1. reader'.at = "push" /\ UNCHANGED <<pending, reply, cancelled>>
      BY <1>3, <2>2 DEF ReaderReads
    <3>2. child = "up" => Connected'
      BY <1>1, <3>1 DEF Wire, Connected
    <3>3. CASE Silent(stdout)
      <4>1. Silent(stdout')
        BY <1>2, <1>3, <2>1, <3>3, FewerAnswers
      <4>2. QED
        BY <1>1, <3>1, <3>2, <4>1 DEF Wire, Calling, Silent
    <3>4. CASE Answers(stdout, ui.call) /\ Waiting
      <4>1. Answers(stdout', ui.call)
        BY <1>2, <1>3, <2>1, <3>4, FewerAnswers
      <4>2. Answers(stdout, ui.call)'
        BY <1>1, <4>1 DEF Answers
      <4>3. Waiting'
        BY <1>1, <3>1, <3>4 DEF Waiting
      <4>4. QED
        BY <1>1, <3>1, <3>2, <4>2, <4>3 DEF Wire, Calling
    <3>5. QED
      BY <3>3, <3>4 DEF Wire
  <2>3. CASE Head(stdout).type = "response"
    <3>1. Answers(stdout, ui.call) /\ Waiting
      BY <1>2, <1>3, <2>3, FewerAnswers DEF Wire
    <3>2. ~pending' /\ reply' = Head(stdout) /\ UNCHANGED <<reader, cancelled>>
      BY <1>3, <2>3, <3>1 DEF ReaderReads, Waiting
    <3>3. Silent(stdout') /\ Head(stdout).call = ui.call
      BY <1>2, <1>3, <2>1, <2>3, <3>1, FewerAnswers
    <3>4. child = "up" => Connected'
      BY <1>1, <3>1, <3>2 DEF Wire, Connected, Waiting
    <3>5. QED
      BY <1>1, <3>1, <3>2, <3>3, <3>4 DEF Wire, Calling, Silent, Waiting
  <2>4. QED
    BY <2>2, <2>3
<1>4. CASE ReaderReads /\ stdout = <<>>
  <2>1. child = "down" /\ UNCHANGED <<stdout, pending, reply>>
    BY <1>4 DEF ReaderReads
  <2>2. Silent(stdout)
    BY <1>4 DEF Silent
  <2>3. QED
    BY <1>1, <2>1, <2>2 DEF Wire, Calling, Silent
<1>5. CASE ReaderPushes
  <2>1. reader.at = "push" /\ reader'.at = "read" /\ UNCHANGED <<pending, reply, cancelled, stdout>>
    BY <1>5 DEF ReaderPushes, pipeVars
  <2>2. child = "up" => Connected'
    BY <1>1, <2>1 DEF Wire, Connected
  <2>3. Waiting => Waiting'
    BY <1>1, <2>1 DEF Waiting
  <2>4. QED
    BY <1>1, <2>1, <2>2, <2>3 DEF Wire, Calling, Silent, Answers
<1>6. CASE ReaderStops \/ ReaderReports
  <2>1. cancelled \/ reader.at = "report"
    BY <1>6 DEF ReaderStops, ReaderReports
  <2>2. UNCHANGED <<pending, reply, cancelled, stdout>>
    BY <1>6 DEF ReaderStops, ReaderReports, pipeVars
  <2>3. child # "up" /\ Silent(stdout)
    BY <2>1 DEF Wire, Waiting, Connected
  <2>4. QED
    BY <1>1, <2>2, <2>3 DEF Wire, Calling, Silent
<1>7. CASE ReaderSweeps
  <2>1. reader.at = "sweep" /\ FailPending /\ UNCHANGED <<cancelled, stdout>>
    BY <1>7 DEF ReaderSweeps, pipeVars
  <2>2. child # "up" /\ Silent(stdout)
    BY <2>1 DEF Wire, Waiting, Connected
  <2>3. pending => ui.call \in Calls
    BY DEF Wire, Calling, Typed, UiTyped
  <2>4. pending => Failed(ui.call).call = ui.call /\ ~Failed(ui.call).ok
    BY <2>3, ResponseIs DEF Failed
  <2>5. QED
    BY <1>1, <2>1, <2>2, <2>4 DEF Wire, Calling, Silent, FailPending
<1>8. QED
  BY <1>3, <1>4, <1>5, <1>6, <1>7 DEF Reader

LEMMA ChildWire ==
  ASSUME Typed, Wire, Serve \/ Turn \/ ChildDies
  PROVE  Wire'
<1>1. UNCHANGED <<ui, pending, reply, outbound, cancelled, reader, writer>>
  <2>1. CASE ChildDies
    BY <2>1 DEF ChildDies, clientVars
  <2>2. QED
    BY <2>1, ServeIs, TurnIs DEF clientVars
<1>2. stdout \in Seq(Frames) /\ stdin \in Seq(Calls) /\ running \in Turns \union {NoTurn}
  BY DEF Typed, PipesTyped, ChildTyped
<1>3. CASE ChildDies
  <2>1. child' = "down" /\ running' = NoTurn /\ asked' = "no" /\ UNCHANGED <<stdin, stdout>>
    BY <1>3 DEF ChildDies, pipeVars
  <2>2. QED
    BY <1>1, <2>1 DEF Wire, Calling, Silent, Answers, Waiting
<1>4. CASE Serve
  <2>1. /\ child = "up" /\ child' = "up" /\ stdin # <<>> /\ Connected
    BY <1>4, ServeIs DEF Wire
  <2>2. /\ stdin = <<ui.call>> /\ outbound = <<>> /\ pending /\ ui.at = "await" /\ writer = "recv"
        /\ Silent(stdout)
    BY <2>1 DEF Wire, Connected, Waiting
  <2>3. Head(stdin) = ui.call /\ Tail(stdin) = <<>> /\ ui.call \in Calls
    <3>1. Head(<<ui.call>>) = ui.call /\ Tail(<<ui.call>>) = <<>>
      OBVIOUS
    <3>2. QED
      BY <1>4, <2>2, <3>1, ServeIs
  <2>4. Answers(stdout', ui.call) /\ stdin' = <<>> /\ (asked' # "no" => running' # NoTurn)
    <3>1. CASE PlainAnswer
      <4>1. PICK f \in Responses : f.call = Head(stdin) /\ Answer(f) /\ UNCHANGED <<running, asked>>
        BY <3>1 DEF PlainAnswer
      <4>2. f \in Frames /\ f.type = "response" /\ f.call = ui.call
        BY <2>3, <4>1, FrameIs DEF Frames
      <4>3. QED
        BY <1>2, <2>2, <2>3, <4>1, <4>2, MoreAnswers DEF Answer, Wire
    <3>2. CASE TurnBegins
      <4>1. PICK f \in Responses : f.call = "submit" /\ Answer(f)
        BY <3>2 DEF TurnBegins
      <4>2. f \in Frames /\ f.type = "response" /\ f.call = ui.call
        BY <2>3, <3>2, <4>1, FrameIs DEF Frames, TurnBegins
      <4>3. running' # NoTurn
        BY <3>2 DEF TurnBegins, NoTurn, Typed, ChildTyped
      <4>4. QED
        BY <1>2, <2>2, <2>3, <4>1, <4>2, <4>3, MoreAnswers DEF Answer
    <3>3. CASE Resolution
      <4>1. /\ ui.call = "respond" /\ asked = "open" /\ stdin' = <<>> /\ UNCHANGED running
        BY <2>3, <3>3 DEF Resolution
      <4>2. running # NoTurn /\ running \in Turns
        BY <1>2, <4>1 DEF Wire
      <4> DEFINE e == Event("resolved", running)
      <4>3. e \in Frames /\ e.type # "response"
        BY <4>2, MoreFrames, EventFields DEF EventKinds
      <4>4. PICK f \in Responses : f.call = "respond" /\ (stdout' = stdout \o <<f, e>> \/ stdout' = stdout \o <<e, f>>)
        BY <3>3 DEF Resolution
      <4>5. f \in Frames /\ f.type = "response" /\ f.call = ui.call
        BY <4>1, <4>4, FrameIs DEF Frames
      <4> HIDE DEF e
      <4>6. stdout' = Append(Append(stdout, f), e) \/ stdout' = Append(Append(stdout, e), f)
        BY <4>3, <4>4, <4>5, MoreFrames
      <4>7. Append(stdout, e) \in Seq(Frames) /\ Append(stdout, f) \in Seq(Frames)
            /\ Silent(Append(stdout, e)) /\ Answers(Append(stdout, f), ui.call)
        BY <1>2, <2>2, <4>3, <4>5, MoreFrames, MoreAnswers
      <4>8. Answers(Append(Append(stdout, f), e), ui.call)
        BY <4>3, <4>7, MoreAnswers
      <4>9. Answers(Append(Append(stdout, e), f), ui.call)
        BY <4>5, <4>7, MoreAnswers
      <4>10. QED
        BY <4>1, <4>2, <4>6, <4>8, <4>9
    <3>4. QED
      BY <1>4, <3>1, <3>2, <3>3, ServeIs
  <2>5. Answers(stdout, ui.call)' /\ Waiting'
    BY <1>1, <2>1, <2>2, <2>4 DEF Answers, Waiting, Connected
  <2>6. Connected'
    BY <1>1, <2>1, <2>2, <2>4 DEF Connected
  <2>7. QED
    BY <1>1, <2>1, <2>2, <2>4, <2>5, <2>6 DEF Wire, Calling
<1>5. CASE Turn
  <2>1. /\ child = "up" /\ UNCHANGED <<stdin, child>> /\ running \in Turns /\ running # NoTurn
    BY <1>5, TurnIs DEF Turns, NoTurn
  <2>2. asked' # "no" => running' # NoTurn
    BY <1>5, <2>1, TurnIs DEF TurnSays, TurnAsks, TurnCloses, Wire
  <2>3. /\ Silent(stdout) => Silent(stdout')
        /\ Answers(stdout, ui.call) => Answers(stdout', ui.call)
    <3>1. \A k \in EventKinds : Event(k, running) \in Frames /\ Event(k, running).type # "response"
      BY <2>1, MoreFrames, EventFields DEF EventKinds
    <3>2. PICK k \in EventKinds, j \in EventKinds :
            \/ stdout' = stdout \o <<Event(k, running)>>
            \/ stdout' = stdout \o <<Event(k, running), Event(j, running)>>
      <4>1. {"delta", "requested", "resolved", "complete", "end"} \subseteq EventKinds
        BY DEF EventKinds
      <4>2. QED
        BY <1>5, <4>1, TurnIs DEF TurnSays, TurnAsks, TurnCloses
    <3> DEFINE e == Event(k, running)
               f == Event(j, running)
    <3>3. e \in Frames /\ e.type # "response" /\ f \in Frames /\ f.type # "response"
      BY <3>1
    <3>4. stdout' = stdout \o <<e>> \/ stdout' = stdout \o <<e, f>>
      BY <3>2
    <3> HIDE DEF e, f
    <3>5. stdout' = Append(stdout, e) \/ stdout' = Append(Append(stdout, e), f)
      BY <3>3, <3>4, MoreFrames
    <3>6. /\ Append(stdout, e) \in Seq(Frames)
          /\ Silent(stdout) => Silent(Append(stdout, e))
          /\ Answers(stdout, ui.call) => Answers(Append(stdout, e), ui.call)
      BY <1>2, <3>3, MoreFrames, MoreAnswers
    <3>7. /\ Silent(stdout) => Silent(Append(Append(stdout, e), f))
          /\ Answers(stdout, ui.call) => Answers(Append(Append(stdout, e), f), ui.call)
      BY <3>3, <3>6, MoreAnswers
    <3>8. QED
      BY <3>5, <3>6, <3>7
  <2>4. Silent(stdout)' \/ (Answers(stdout, ui.call) /\ Waiting)'
    BY <1>1, <2>1, <2>3 DEF Wire, Waiting, Silent, Answers
  <2>5. Connected'
    BY <1>1, <2>1 DEF Wire, Connected
  <2>6. QED
    BY <1>1, <2>1, <2>2, <2>4, <2>5 DEF Wire, Calling
<1>6. QED
  BY <1>3, <1>4, <1>5

\* Types and connection at every step.
LEMMA ConnectionHolds ==
  ASSUME TuiInv, Next
  PROVE  Typed' /\ Wire'
<1>0. Typed /\ Wire /\ Flow
  BY DEF TuiInv
<1>1. CASE Spawn \/ WaitForReady \/ Insert \/ Send \/ GivesUp \/ Reconnect \/ Quit
  BY <1>0, <1>1, LoopTyped, LoopWire
<1>2. CASE Writer
  BY <1>0, <1>2, WriterTyped, WriterWire
<1>3. CASE Reader
  BY <1>0, <1>3, ReaderTyped, ReaderWire
<1>4. CASE Serve \/ Turn \/ ChildDies
  BY <1>0, <1>4, ChildIsTyped, ChildWire
<1>5. CASE TakeEvent \/ Type \/ SubmitPrompt \/ Interrupt \/ Decide \/ Pick \/ Done
  BY <1>0, <1>5, TakeTyped, KeysTyped, DoneTyped, TakeAndKeysWire
<1>6. QED
  BY <1>1, <1>2, <1>3, <1>4, <1>5 DEF Next, Client, Keys

-----------------------------------------------------------------------------
(* the story the frames tell *)

\* A grant is under way only while the request for it is.
LEMMA GrantsAreSought ==
  ASSUME Typed, Wire, NEW t \in Turns, Granted(t)
  PROVE  /\ ui.at = "await" /\ ui.call = "submit"
         /\ reply # NoReply => GrantedBy(reply, t)
<1>1. CASE GrantedBy(reply, t)
  <2>1. reply # NoReply /\ reply.call = "submit" /\ reply.ok
    BY <1>1, EventFields DEF GrantedBy
  <2>2. QED
    BY <1>1, <2>1 DEF Wire
<1>2. CASE \E i \in DOMAIN stdout : GrantedBy(stdout[i], t)
  <2>1. PICK i \in DOMAIN stdout : stdout[i].type = "response" /\ stdout[i].call = "submit"
    BY <1>2 DEF GrantedBy
  <2>2. Answers(stdout, ui.call) /\ Waiting
    BY <2>1 DEF Wire, Silent
  <2>3. ui.call = "submit"
    BY <2>1, <2>2 DEF Answers
  <2>4. reply = NoReply /\ ui.at = "await"
    BY <2>2 DEF Waiting, Wire
  <2>5. QED
    BY <2>3, <2>4
<1>3. QED
  BY <1>1, <1>2 DEF Granted

\* What is on the screen owns what is under way, when nothing is sought.
LEMMA OwnersAre ==
  ASSUME Typed, Wire, ui.call # "submit"
  PROVE  /\ \A t \in Turns : ~Granted(t)
         /\ Owners = {t \in Turns : active = t}
         /\ active = NoTurn => Owners = {}
<1>1. \A t \in Turns : ~Granted(t)
  BY GrantsAreSought
<1>2. QED
  BY <1>1 DEF Owners, Turns, NoTurn

LEMMA CountNone ==
  ASSUME NEW s, NEW f, \A i \in DOMAIN s : s[i] # f
  PROVE  Count(s, f) = 0
<1>1. Places(s, f) = {}
  BY DEF Places
<1>2. QED
  BY <1>1, FS_EmptySet DEF Count

\* A frame more at the end.
LEMMA MoreStory ==
  ASSUME NEW s \in Seq(Frames), NEW e \in Frames
  PROVE  LET t == Append(s, e) IN
         /\ t \in Seq(Frames)
         /\ \A n : Within(s, n) /\ (e.type \in EventKinds => e.turn <= n) => Within(t, n)
         /\ \A T : Asks(s, T) /\ (e.type = "requested" => e.turn \in T) => Asks(t, T)
         /\ \A r : EndsLast(s, r) /\ e.type \notin {"complete", "end", "requested"} => EndsLast(t, r)
         /\ \A r : EndsLast(s, r) /\ e.type = "requested" /\ e.turn = r => EndsLast(t, r)
         /\ \A r, n : EndsLast(s, r) /\ e.type \in {"complete", "end"} /\ e.turn # n
                        /\ (\A i \in DOMAIN s : s[i].type \in {"complete", "end"} => s[i].turn # n)
                        => EndsLast(t, n)
         /\ e.type # "ready" => (ReadyOnce(s) => ReadyOnce(t)) /\ (NoReady(s) => NoReady(t))
         /\ \A f : Count(t, f) = Count(s, f) + (IF e = f THEN 1 ELSE 0)
<1> DEFINE t == Append(s, e)
<1>1. /\ t \in Seq(Frames) /\ \A i \in DOMAIN s : t[i] = s[i]
      /\ \A i \in DOMAIN t : i \in DOMAIN s \/ (i = Len(s) + 1 /\ t[i] = e)
      /\ Len(s) + 1 \notin DOMAIN s
      /\ \A i \in DOMAIN s : i < Len(s) + 1
      /\ Without(t, s, Len(s) + 1) /\ t[Len(s) + 1] = e
  <2>1. /\ t \in Seq(Frames) /\ Len(t) = Len(s) + 1 /\ Len(s) \in Nat
        /\ \A i \in 1 .. Len(s) : t[i] = s[i]
        /\ t[Len(s) + 1] = e
    BY AppendProperties, LenProperties
  <2>2. Without(t, s, Len(s) + 1)
    BY AppendWithout
  <2> HIDE DEF t
  <2>3. DOMAIN t = 1 .. Len(s) + 1 /\ DOMAIN s = 1 .. Len(s)
    BY <2>1, LenProperties
  <2>4. QED
    BY <2>1, <2>2, <2>3
<1> HIDE DEF t
<1>2. ASSUME NEW n, Within(s, n), e.type \in EventKinds => e.turn <= n
      PROVE  Within(t, n)
  BY <1>1, <1>2 DEF Within
<1>3. ASSUME NEW T, Asks(s, T), e.type = "requested" => e.turn \in T
      PROVE  Asks(t, T)
  BY <1>1, <1>3 DEF Asks
<1>4. ASSUME NEW r, EndsLast(s, r), e.type \notin {"complete", "end", "requested"}
      PROVE  EndsLast(t, r)
  BY <1>1, <1>4 DEF EndsLast
<1>5. ASSUME NEW r, EndsLast(s, r), e.type = "requested" /\ e.turn = r
      PROVE  EndsLast(t, r)
  BY <1>1, <1>5 DEF EndsLast
<1>6. ASSUME NEW r, NEW n, EndsLast(s, r), e.type \in {"complete", "end"}, e.turn # n,
             \A i \in DOMAIN s : s[i].type \in {"complete", "end"} => s[i].turn # n
      PROVE  EndsLast(t, n)
  <2>1. e.type # "requested"
    BY <1>6
  <2>2. ASSUME NEW i \in DOMAIN t, t[i].type \in {"complete", "end"},
               NEW j \in DOMAIN t, t[j].type = "requested", t[j].turn = t[i].turn
        PROVE  j < i
    <3>1. j \in DOMAIN s /\ s[j] = t[j]
      BY <1>1, <2>1, <2>2
    <3>2. CASE i \in DOMAIN s
      BY <1>1, <1>6, <2>2, <3>1, <3>2 DEF EndsLast
    <3>3. CASE i = Len(s) + 1
      BY <1>1, <3>1, <3>3
    <3>4. QED
      BY <1>1, <3>2, <3>3
  <2>3. \A i \in DOMAIN t : t[i].type \in {"complete", "end"} => t[i].turn # n
    BY <1>1, <1>6
  <2>4. QED
    BY <2>2, <2>3 DEF EndsLast
<1>7. e.type # "ready" => (ReadyOnce(s) => ReadyOnce(t)) /\ (NoReady(s) => NoReady(t))
  BY <1>1, SMTT(30) DEF ReadyOnce, NoReady
<1>8. \A f : Count(t, f) = Count(s, f) + (IF e = f THEN 1 ELSE 0)
  BY <1>1, CountWithout
<1>9. QED
  BY <1>1, <1>2, <1>3, <1>4, <1>5, <1>6, <1>7, <1>8 DEF t

LEMMA EndsAreOfTurns ==
  ASSUME Typed
  PROVE  /\ \A i \in DOMAIN Pipe : Pipe[i].type \in EventKinds => Pipe[i] \in Events /\ Pipe[i].turn \in Turns
         /\ \A i \in DOMAIN Pipe : Pipe[i].type \in {"complete", "end"} => Pipe[i].turn # NoTurn
         /\ \A r : EndsLast(Pipe, r) => EndsLast(Pipe, NoTurn)
         /\ \A t : Count(Pipe, Delta(t)) \in Nat
<1>1. \A i \in DOMAIN Pipe : Pipe[i] \in Frames
  BY PipeTyped
<1>2. \A i \in DOMAIN Pipe : Pipe[i].type \in EventKinds => Pipe[i] \in Events /\ Pipe[i].turn \in Turns
  BY <1>1, FrameIs, EventIs DEF EventKinds
<1>3. \A i \in DOMAIN Pipe : Pipe[i].type \in {"complete", "end"} => Pipe[i].turn # NoTurn
  BY <1>2 DEF EventKinds, Turns, NoTurn
<1>4. \A r : EndsLast(Pipe, r) => EndsLast(Pipe, NoTurn)
  BY <1>3 DEF EndsLast
<1>5. Pipe \in Seq(Frames)
  BY PipeTyped
<1>6. \A t : Count(Pipe, Delta(t)) \in Nat
  BY <1>5, CountTyped
<1>7. QED
  BY <1>2, <1>3, <1>4, <1>6

\* The screen stands still while the child and the connection go on.
LEMMA Story ==
  ASSUME TuiInv, Typed',
         UNCHANGED <<session, active, stream, overlay, refused, begun>>,
         ui'.call = ui.call, ui'.at = ui.at \/ {ui.at, ui'.at} \subseteq Calling,
         running' \in {running, NoTurn},
         \A t \in Turns : Granted(t)' <=> Granted(t),
         Within(Pipe', begun), Asks(Pipe', Owners), EndsLast(Pipe', running'), ReadyOnce(Pipe'),
         NoReady(Pipe) => NoReady(Pipe'), Calm => Asks(Pipe', {}),
         \A t \in Turns : t > begun => said'[t] = 0,
         \A t \in Turns : Count(Pipe', Delta(t)) = Count(Pipe, Delta(t)) + (said'[t] - said[t])
  PROVE  Flow' /\ Screen' /\ Heard'
<1>1. Typed /\ Flow /\ Screen /\ Heard
  BY DEF TuiInv
<1>2. Owners' = Owners
  BY DEF Owners
<1>3. ui'.at \in {"spawn", "ready", "exited"} <=> ui.at \in {"spawn", "ready", "exited"}
  BY DEF Calling
<1>4. Calm' <=> Calm
  BY <1>3 DEF Calm, Calling
<1>5. Flow'
  <2>1. Within(Pipe, begun)' /\ running' <= begun' /\ (\A t \in Turns : t > begun => said[t] = 0)'
    BY <1>1 DEF Flow, NoTurn, Typed, ChildTyped
  <2>2. Asks(Pipe, Owners)' /\ (running' # NoTurn => running' \in Owners')
    BY <1>1, <1>2 DEF Flow
  <2>3. EndsLast(Pipe, running)' /\ ReadyOnce(Pipe)' /\ (ui'.at # "ready" => NoReady(Pipe)')
    BY <1>1, <1>3 DEF Flow, Calling
  <2>4. Calm' => running' = NoTurn /\ Asks(Pipe, {})'
    BY <1>1, <1>4 DEF Flow
  <2>5. QED
    BY <2>1, <2>2, <2>3, <2>4 DEF Flow
<1>6. Screen'
  BY <1>1, <1>3 DEF Screen, SettingUp, Calling
<1>7. Heard'
  <2>1. said \in [Turns -> Nat] /\ said' \in [Turns -> Nat] /\ stream \in Nat
        /\ \A t : Count(Pipe, Delta(t)) \in Nat
    BY <1>1, EndsAreOfTurns DEF Typed, ChildTyped, ScreenTyped
  <2>2. active # NoTurn /\ ui'.at # "exited" => stream + Count(Pipe', Delta(active)) = said'[active]
    <3>1. active # NoTurn => active \in Turns
      BY <1>1 DEF Typed, ScreenTyped
    <3>2. SUFFICES ASSUME active # NoTurn, ui'.at # "exited"
                   PROVE  stream + Count(Pipe', Delta(active)) = said'[active]
      OBVIOUS
    <3>3. /\ Count(Pipe', Delta(active)) = Count(Pipe, Delta(active)) + (said'[active] - said[active])
          /\ said[active] \in Nat /\ said'[active] \in Nat /\ Count(Pipe, Delta(active)) \in Nat
      BY <2>1, <3>1, <3>2
    <3>4. stream + Count(Pipe, Delta(active)) = said[active]
      BY <1>1, <3>2 DEF Heard, Calling
    <3>5. QED
      BY <2>1, <3>3, <3>4
  <2>3. \A t \in Turns : Granted(t)' => Count(Pipe', Delta(t)) = said'[t]
    BY <1>1, <2>1 DEF Heard
  <2>4. QED
    BY <2>2, <2>3 DEF Heard
<1>8. QED
  BY <1>5, <1>6, <1>7

\* The connection goes on and the child says nothing.
LEMMA QuietStory ==
  ASSUME TuiInv, Typed',
         UNCHANGED <<session, active, stream, overlay, refused, begun, said>>,
         ui'.call = ui.call, ui'.at = ui.at \/ {ui.at, ui'.at} \subseteq Calling,
         running' \in {running, NoTurn},
         \A t \in Turns : Granted(t)' <=> Granted(t),
         Carried(Pipe, Pipe'), SameDeltas(Pipe, Pipe')
  PROVE  Flow' /\ Screen' /\ Heard'
<1>1. Typed /\ Flow
  BY DEF TuiInv
<1>2. /\ Within(Pipe', begun) /\ Asks(Pipe', Owners) /\ ReadyOnce(Pipe')
      /\ EndsLast(Pipe', running) /\ (NoReady(Pipe) => NoReady(Pipe')) /\ (Calm => Asks(Pipe', {}))
  BY <1>1 DEF Flow, Carried
<1>3. EndsLast(Pipe', running')
  <2>1. EndsLast(Pipe, NoTurn)
    BY <1>1, EndsAreOfTurns DEF Flow
  <2>2. EndsLast(Pipe', NoTurn)
    BY <2>1 DEF Carried
  <2>3. QED
    BY <1>2, <2>2
<1>4. \A t \in Turns : t > begun => said'[t] = 0
  BY <1>1 DEF Flow
<1>5. \A t \in Turns : Count(Pipe', Delta(t)) = Count(Pipe, Delta(t)) + (said'[t] - said[t])
  <2>1. \A t \in Turns : said[t] \in Nat /\ Count(Pipe, Delta(t)) \in Nat
    BY <1>1, EndsAreOfTurns DEF Typed, ChildTyped
  <2>2. \A t \in Turns : said'[t] - said[t] = 0
    BY <2>1
  <2>3. QED
    BY <2>1, <2>2 DEF SameDeltas
<1>6. QED
  BY <1>2, <1>3, <1>4, <1>5, Story

-----------------------------------------------------------------------------
(* the connection moves the frames and loses none *)

LEMMA PipeStays ==
  ASSUME UNCHANGED <<incoming, stdout>>, Mid' = Mid
  PROVE  Pipe' = Pipe
<1>1. Pipe = incoming \o Mid \o stdout
  BY DEF Pipe, Mid
<1>2. Pipe' = incoming' \o Mid' \o stdout'
  BY DEF Pipe, Mid
<1>3. QED
  BY <1>1, <1>2

\* A failure grants nothing.
LEMMA GrantsStay ==
  ASSUME UNCHANGED stdout, UNCHANGED reply \/ (~reply.ok /\ ~reply'.ok) \/ (reply = NoReply /\ ~reply'.ok)
  PROVE  \A t \in Turns : Granted(t)' <=> Granted(t)
<1>1. NoReply.type # "response"
  BY EventFields
<1>2. \A t \in Turns : GrantedBy(reply, t)' <=> GrantedBy(reply, t)
  BY <1>1 DEF GrantedBy
<1>3. QED
  BY <1>2 DEF Granted

\* The report of a lost connection joins the queue.
LEMMA ReportJoins ==
  ASSUME Typed, incoming' = Append(incoming, Disconnected), UNCHANGED stdout, Mid' = Mid
  PROVE  Carried(Pipe, Pipe') /\ SameDeltas(Pipe, Pipe')
<1> DEFINE a == incoming
           m == Mid
           b == stdout
           e == Disconnected
           s == Pipe
           t == Pipe'
<1>1. a \in Seq(Frames) /\ m \in Seq(Frames) /\ b \in Seq(Frames) /\ s = a \o m \o b /\ s \in Seq(Frames)
  BY PipeTyped
<1>2. e \in Frames /\ e.type = "disconnected" /\ (\A u : e # Delta(u))
  BY EventFields DEF Frames, Delta
<1>3. t = Append(a, e) \o m \o b
  BY DEF Pipe, Mid
<1>4. Append(a, e) \in Seq(Frames)
  <2> HIDE DEF a, e
  <2>1. QED
    BY <1>1, <1>2, QueueTyped
<1> HIDE DEF a, m, b, e, s, t
<1>5. Without(t, s, Len(a) + 1) /\ t[Len(a) + 1] = e
  BY <1>1, <1>2, <1>3, OneMore
<1>6. t \in Seq(Frames)
  BY <1>1, <1>3, <1>4, ConcatThree
<1>7. Carried(s, t)
  BY <1>1, <1>2, <1>5, <1>6, NeutralCarried DEF EventKinds
<1>8. ASSUME NEW u
      PROVE  Count(t, Delta(u)) = Count(s, Delta(u)) + (IF e = Delta(u) THEN 1 ELSE 0)
  <2> DEFINE f == Delta(u)
  <2> HIDE DEF f
  <2> DEFINE k == Len(a) + 1
  <2> HIDE DEF k
  <2>1. s \in Seq(Frames) /\ t \in Seq(Frames) /\ Without(t, s, k) /\ t[k] = e
    BY <1>1, <1>5, <1>6 DEF k
  <2>2. Count(t, f) = Count(s, f) + (IF t[k] = f THEN 1 ELSE 0)
    BY <2>1, CountWithout
  <2>3. QED
    BY <2>1, <2>2 DEF f
<1>9. \A u : Count(s, Delta(u)) \in Nat
  BY <1>1, CountTyped
<1>10. SameDeltas(s, t)
  BY <1>2, <1>8, <1>9 DEF SameDeltas
<1>11. QED
  BY <1>7, <1>10 DEF s, t

LEMMA WriterStory ==
  ASSUME TuiInv, Typed', Writer
  PROVE  Flow' /\ Screen' /\ Heard'
<1>1. Typed /\ Wire
  BY DEF TuiInv
<1>2. UNCHANGED <<ui, session, active, stream, overlay, refused, begun, said, running, reader, stdout>>
  BY DEF Writer, WriterTakes, WriterWrites, WriterStops, WriterSweeps, WriterReports, childVars,
         pipeVars, screenVars, historyVars
<1>3. \A t \in Turns : Granted(t)' <=> Granted(t)
  <2>1. CASE WriterSweeps
    <3>1. pending => reply = NoReply /\ ui.call \in Calls
      BY <1>1 DEF Wire, Calling, Typed, UiTyped
    <3>2. pending => ~Failed(ui.call).ok
      BY <3>1, ResponseIs DEF Failed
    <3>3. QED
      BY <1>2, <2>1, <3>1, <3>2, GrantsStay DEF WriterSweeps, FailPending
  <2>2. CASE ~WriterSweeps
    <3>1. UNCHANGED reply
      BY <2>2 DEF Writer, WriterTakes, WriterWrites, WriterStops, WriterReports
    <3>2. QED
      BY <1>2, <3>1, GrantsStay
  <2>3. QED
    BY <2>1, <2>2
<1>4. Mid' = Mid
  BY <1>2 DEF Mid
<1>5. Carried(Pipe, Pipe') /\ SameDeltas(Pipe, Pipe')
  <2>1. CASE WriterReports
    BY <1>1, <1>2, <1>4, <2>1, ReportJoins DEF WriterReports
  <2>2. CASE ~WriterReports
    <3>1. UNCHANGED incoming
      BY <2>2 DEF Writer, WriterTakes, WriterWrites, WriterStops, WriterSweeps
    <3>2. QED
      BY <1>2, <1>4, <3>1, PipeStays, SameCarried
  <2>3. QED
    BY <2>1, <2>2
<1>6. QED
  BY <1>2, <1>3, <1>5, QuietStory

LEMMA ReaderStory ==
  ASSUME TuiInv, Typed', Reader
  PROVE  Flow' /\ Screen' /\ Heard'
<1>1. Typed /\ Wire
  BY DEF TuiInv
<1>2. UNCHANGED <<ui, session, active, stream, overlay, refused, begun, said, running>>
  BY DEF Reader, ReaderReads, ReaderPushes, ReaderStops, ReaderSweeps, ReaderReports, childVars,
         screenVars, historyVars
<1>3. /\ incoming \in Seq(Frames) /\ Mid \in Seq(Frames) /\ stdout \in Seq(Frames)
      /\ Pipe = incoming \o Mid \o stdout /\ Pipe \in Seq(Frames)
  BY <1>1, PipeTyped
<1>4. reader.frame \in Frames
  BY <1>1 DEF Typed, ClientTyped, Frames
<1>5. Pipe' = incoming' \o Mid' \o stdout'
  BY DEF Pipe, Mid
<1>6. CASE ReaderReads /\ stdout # <<>> /\ Head(stdout).type # "response"
  <2>1. /\ Mid = <<>> /\ Mid' = <<Head(stdout)>> /\ stdout' = Tail(stdout)
        /\ UNCHANGED <<incoming, reply>>
    BY <1>6 DEF ReaderReads, Mid
  <2>2. Pipe' = Pipe
    BY <1>3, <1>5, <1>6, <2>1, MoveUp
  <2>3. \A t \in Turns : Granted(t)' <=> Granted(t)
    <3> SUFFICES ASSUME NEW t \in Turns
                 PROVE  (\E i \in DOMAIN stdout' : GrantedBy(stdout'[i], t))
                          <=> \E i \in DOMAIN stdout : GrantedBy(stdout[i], t)
      BY <2>1 DEF Granted
    <3>1. Without(stdout, Tail(stdout), 1) /\ Tail(stdout) \in Seq(Frames) /\ Head(stdout) = stdout[1]
      BY <1>3, <1>6, TailWithout
    <3> DEFINE s == stdout
               u == Tail(stdout)
    <3>2. DOMAIN s = 1 .. Len(s) /\ DOMAIN u = 1 .. Len(u) /\ Len(s) = Len(u) + 1 /\ Len(u) \in Nat
          /\ \A i \in 1 .. Len(u) : u[i] = s[i + 1]
      BY <1>3, <3>1, LenProperties DEF Without
    <3>3. ~GrantedBy(s[1], t)
      BY <1>6, <3>1 DEF GrantedBy
    <3> HIDE DEF s, u
    <3>4. (\E i \in DOMAIN u : GrantedBy(u[i], t)) <=> \E i \in DOMAIN s : GrantedBy(s[i], t)
      <4>1. ASSUME NEW i \in DOMAIN u, GrantedBy(u[i], t)
            PROVE  \E j \in DOMAIN s : GrantedBy(s[j], t)
        <5>1. i + 1 \in DOMAIN s /\ u[i] = s[i + 1]
          BY <3>2, <4>1
        <5>2. QED
          BY <4>1, <5>1
      <4>2. ASSUME NEW j \in DOMAIN s, GrantedBy(s[j], t)
            PROVE  \E i \in DOMAIN u : GrantedBy(u[i], t)
        <5>1. j # 1
          BY <3>3, <4>2
        <5>2. j - 1 \in DOMAIN u /\ u[j - 1] = s[j]
          BY <3>2, <4>2, <5>1
        <5>3. QED
          BY <4>2, <5>2
      <4>3. QED
        BY <4>1, <4>2
    <3>5. QED
      BY <2>1, <3>4 DEF s, u
  <2>4. QED
    BY <1>2, <2>2, <2>3, SameCarried, QuietStory
<1>7. CASE ReaderReads /\ stdout # <<>> /\ Head(stdout).type = "response"
  <2>1. Answers(stdout, ui.call) /\ Waiting
    BY <1>1, <1>3, <1>7, FewerAnswers DEF Wire
  <2>2. /\ Mid = <<>> /\ Mid' = <<>> /\ stdout' = Tail(stdout) /\ reply' = Head(stdout) /\ reply = NoReply
        /\ UNCHANGED incoming
    BY <1>1, <1>7, <2>1 DEF ReaderReads, Mid, Waiting, Wire
  <2>3. /\ Without(stdout, Tail(stdout), 1) /\ Tail(stdout) \in Seq(Frames) /\ Head(stdout) = stdout[1]
        /\ 1 \in DOMAIN stdout
    <3>1. Without(stdout, Tail(stdout), 1) /\ Tail(stdout) \in Seq(Frames) /\ Head(stdout) = stdout[1]
      BY <1>3, <1>7, TailWithout
    <3>2. DOMAIN stdout = 1 .. Len(stdout)
      BY <1>3, LenProperties
    <3>3. QED
      BY <3>1, <3>2 DEF Without
  <2>4. Silent(Tail(stdout))
    BY <1>3, <1>7, <2>1, FewerAnswers
  <2>5. \A t \in Turns : Granted(t)' <=> Granted(t)
    <3> SUFFICES ASSUME NEW t \in Turns
                 PROVE  Granted(t)' <=> Granted(t)
      OBVIOUS
    <3>1. ~GrantedBy(NoReply, t)
      BY EventFields DEF GrantedBy
    <3>2. ~\E i \in DOMAIN Tail(stdout) : GrantedBy(Tail(stdout)[i], t)
      BY <2>4 DEF Silent, GrantedBy
    <3>3. (\E i \in DOMAIN stdout : GrantedBy(stdout[i], t)) <=> GrantedBy(stdout[1], t)
      BY <1>7, <2>1, <2>3 DEF Answers, GrantedBy
    <3>4. Granted(t) <=> GrantedBy(Head(stdout), t)
      BY <2>2, <2>3, <3>1, <3>3 DEF Granted
    <3>5. Granted(t)' <=> GrantedBy(Head(stdout), t)
      BY <2>2, <3>2 DEF Granted
    <3>6. QED
      BY <3>4, <3>5
  <2>6. Carried(Pipe, Pipe') /\ SameDeltas(Pipe, Pipe')
    <3> DEFINE a == incoming
               m == Mid
               b == stdout
               s == Pipe
               t == Pipe'
               k == Len(a) + Len(m) + 1
    <3>1. a \in Seq(Frames) /\ m \in Seq(Frames) /\ b \in Seq(Frames) /\ b # <<>> /\ s = a \o m \o b
          /\ s \in Seq(Frames) /\ t = a \o m \o Tail(b) /\ Tail(b) \in Seq(Frames)
      BY <1>3, <1>5, <1>7, <2>2, <2>3
    <3>2. \A u : Head(b) # Delta(u)
      BY <1>7, EventFields DEF Delta
    <3> HIDE DEF a, m, b, s, t
    <3>3. Without(s, t, k) /\ s[k] = Head(b) /\ t \in Seq(Frames)
      BY <3>1, LoseHead, ConcatThree
    <3> HIDE DEF k
    <3>4. Carried(s, t)
      BY <3>1, <3>3, FewerCarried
    <3>5. ASSUME NEW u
          PROVE  Count(s, Delta(u)) = Count(t, Delta(u)) + (IF Head(b) = Delta(u) THEN 1 ELSE 0)
                   /\ Count(t, Delta(u)) \in Nat
      <4> DEFINE f == Delta(u)
      <4> HIDE DEF f
      <4>1. s \in Seq(Frames) /\ t \in Seq(Frames) /\ Without(s, t, k)
        BY <3>1, <3>3
      <4>2. Count(s, f) = Count(t, f) + (IF s[k] = f THEN 1 ELSE 0)
        BY <4>1, CountWithout
      <4>3. Count(t, f) \in Nat
        BY <4>1, CountTyped
      <4>4. QED
        BY <3>3, <4>2, <4>3 DEF f
    <3>6. SameDeltas(s, t)
      BY <3>2, <3>5 DEF SameDeltas
    <3>7. QED
      BY <3>4, <3>6 DEF s, t
  <2>7. QED
    BY <1>2, <2>5, <2>6, QuietStory
<1>8. CASE ReaderPushes
  <2>1. /\ Mid = <<reader.frame>> /\ Mid' = <<>> /\ incoming' = Append(incoming, reader.frame)
        /\ UNCHANGED <<stdout, reply>>
    BY <1>8 DEF ReaderPushes, Mid, pipeVars
  <2>2. Pipe' = Pipe
    BY <1>3, <1>4, <1>5, <2>1, MoveOn
  <2>3. \A t \in Turns : Granted(t)' <=> Granted(t)
    BY <2>1, GrantsStay
  <2>4. QED
    BY <1>2, <2>2, <2>3, SameCarried, QuietStory
<1>9. CASE (ReaderReads /\ stdout = <<>>) \/ ReaderStops \/ ReaderSweeps
  <2>1. /\ Mid = <<>> /\ Mid' = <<>> /\ UNCHANGED <<stdout, incoming>>
    BY <1>1, <1>9 DEF ReaderReads, ReaderStops, ReaderSweeps, Mid, pipeVars, Typed, ClientTyped
  <2>2. Pipe' = Pipe
    BY <2>1, PipeStays
  <2>3. \A t \in Turns : Granted(t)' <=> Granted(t)
    <3>1. CASE ReaderSweeps
      <4>1. pending => reply = NoReply /\ ui.call \in Calls
        BY <1>1 DEF Wire, Calling, Typed, UiTyped
      <4>2. pending => ~Failed(ui.call).ok
        BY <4>1, ResponseIs DEF Failed
      <4>3. QED
        BY <2>1, <3>1, <4>1, <4>2, GrantsStay DEF ReaderSweeps, FailPending
    <3>2. CASE ~ReaderSweeps
      <4>1. UNCHANGED reply
        BY <1>9, <3>2 DEF ReaderReads, ReaderStops
      <4>2. QED
        BY <2>1, <4>1, GrantsStay
    <3>3. QED
      BY <3>1, <3>2
  <2>4. QED
    BY <1>2, <2>2, <2>3, SameCarried, QuietStory
<1>10. CASE ReaderReports
  <2>1. /\ Mid = <<>> /\ Mid' = <<>> /\ incoming' = Append(incoming, Disconnected)
        /\ UNCHANGED <<stdout, reply>>
    BY <1>1, <1>10 DEF ReaderReports, Mid, pipeVars, Typed, ClientTyped
  <2>2. Carried(Pipe, Pipe') /\ SameDeltas(Pipe, Pipe')
    BY <1>1, <2>1, ReportJoins
  <2>3. \A t \in Turns : Granted(t)' <=> Granted(t)
    BY <2>1, GrantsStay
  <2>4. QED
    BY <1>2, <2>2, <2>3, QuietStory
<1>11. QED
  BY <1>6, <1>7, <1>8, <1>9, <1>10 DEF Reader

LEMMA RequestStory ==
  ASSUME TuiInv, Typed', Insert \/ Send
  PROVE  Flow' /\ Screen' /\ Heard'
<1>1. Typed /\ Wire
  BY DEF TuiInv
<1>2. UNCHANGED <<session, active, stream, overlay, refused, begun, said, running, reader, stdout, incoming>>
  BY DEF Insert, Send, childVars, pipeVars, screenVars, historyVars
<1>3. /\ ui'.call = ui.call /\ {ui.at, ui'.at} \subseteq Calling
  BY <1>1 DEF Insert, Send, Typed, UiTyped, Calling
<1>4. Pipe' = Pipe
  BY <1>2, PipeStays DEF Mid
<1>5. \A t \in Turns : Granted(t)' <=> Granted(t)
  <2>1. CASE Insert
    <3>1. reply = NoReply /\ reply' = NoReply
      BY <1>1, <2>1 DEF Insert, Wire
    <3>2. QED
      BY <1>2, <3>1, GrantsStay
  <2>2. CASE Send
    <3>1. ui.at = "send" /\ ui.call \in Calls
      BY <1>1, <2>2 DEF Send, Wire, Calling, Typed, UiTyped
    <3>2. ~Failed(ui.call).ok
      BY <3>1, ResponseIs DEF Failed
    <3>3. reply = NoReply \/ ~reply.ok
      BY <1>1, <3>1 DEF Wire
    <3>4. QED
      BY <1>2, <2>2, <3>2, <3>3, GrantsStay DEF Send
  <2>3. QED
    BY <2>1, <2>2
<1>6. QED
  BY <1>2, <1>3, <1>4, <1>5, SameCarried, QuietStory

-----------------------------------------------------------------------------
(* the child answers and speaks *)

LEMMA PipeGrows ==
  ASSUME Typed, UNCHANGED <<incoming, reader>>, NEW e \in Frames
  PROVE  /\ stdout' = Append(stdout, e) => Pipe' = Append(Pipe, e)
         /\ \A f \in Frames : stdout' = Append(Append(stdout, e), f) => Pipe' = Append(Append(Pipe, e), f)
<1> DEFINE a == incoming
           m == Mid
           b == stdout
<1>1. a \in Seq(Frames) /\ m \in Seq(Frames) /\ b \in Seq(Frames) /\ Pipe = a \o m \o b
  BY PipeTyped
<1>2. Mid' = Mid
  BY DEF Mid
<1>3. Pipe' = a \o m \o stdout'
  BY <1>2 DEF Pipe, Mid
<1> HIDE DEF a, m
<1>4. a \o m \o Append(b, e) = Append(a \o m \o b, e)
  <2> HIDE DEF b
  <2>1. QED
    BY <1>1, OneMore, SMTT(30)
<1>5. ASSUME NEW f \in Frames
      PROVE  a \o m \o Append(Append(b, e), f) = Append(Append(a \o m \o b, e), f)
  <2> DEFINE c == Append(b, e)
  <2>1. c \in Seq(Frames)
    BY <1>1, AppendWithout
  <2>2. a \o m \o c = Append(a \o m \o b, e)
    BY <1>4
  <2> HIDE DEF b, c
  <2>3. a \o m \o Append(c, f) = Append(a \o m \o c, f)
    BY <1>1, <2>1, OneMore, SMTT(30)
  <2>4. QED
    BY <2>2, <2>3 DEF c
<1>6. QED
  BY <1>1, <1>3, <1>4, <1>5

LEMMA GrantsMore ==
  ASSUME NEW s \in Seq(Frames), NEW e \in Frames, NEW t
  PROVE  (\E i \in DOMAIN Append(s, e) : GrantedBy(Append(s, e)[i], t))
           <=> (\E i \in DOMAIN s : GrantedBy(s[i], t)) \/ GrantedBy(e, t)
<1> DEFINE u == Append(s, e)
<1>1. /\ \A i \in DOMAIN s : i \in DOMAIN u /\ u[i] = s[i]
      /\ \A i \in DOMAIN u : i \in DOMAIN s \/ u[i] = e
      /\ Len(s) + 1 \in DOMAIN u /\ u[Len(s) + 1] = e
  <2>1. /\ u \in Seq(Frames) /\ Len(u) = Len(s) + 1 /\ Len(s) \in Nat
        /\ \A i \in 1 .. Len(s) : u[i] = s[i]
        /\ u[Len(s) + 1] = e
    BY AppendProperties, LenProperties
  <2> HIDE DEF u
  <2>2. DOMAIN u = 1 .. Len(s) + 1 /\ DOMAIN s = 1 .. Len(s)
    BY <2>1, LenProperties
  <2>3. QED
    BY <2>1, <2>2
<1> HIDE DEF u
<1>2. QED
  BY <1>1 DEF u

\* One frame, or two, that grant nothing.
LEMMA NothingGranted ==
  ASSUME Typed, UNCHANGED reply, NEW e \in Frames, NEW f \in Frames,
         stdout' = Append(stdout, e) \/ stdout' = Append(Append(stdout, e), f),
         \A t \in Turns : ~GrantedBy(e, t) /\ ~GrantedBy(f, t)
  PROVE  \A t \in Turns : Granted(t)' <=> Granted(t)
<1> SUFFICES ASSUME NEW t \in Turns
             PROVE  (\E i \in DOMAIN stdout' : GrantedBy(stdout'[i], t))
                      <=> \E i \in DOMAIN stdout : GrantedBy(stdout[i], t)
  BY DEF Granted
<1>1. stdout \in Seq(Frames)
  BY DEF Typed, PipesTyped
<1> DEFINE a == Append(stdout, e)
<1>2. a \in Seq(Frames)
  BY <1>1, AppendWithout
<1>3. (\E i \in DOMAIN a : GrantedBy(a[i], t)) <=> \E i \in DOMAIN stdout : GrantedBy(stdout[i], t)
  BY <1>1, GrantsMore
<1> HIDE DEF a
<1>4. (\E i \in DOMAIN Append(a, f) : GrantedBy(Append(a, f)[i], t))
        <=> \E i \in DOMAIN a : GrantedBy(a[i], t)
  BY <1>2, GrantsMore
<1>5. stdout' = a \/ stdout' = Append(a, f)
  BY DEF a
<1>6. QED
  BY <1>3, <1>4, <1>5

LEMMA DeathStory ==
  ASSUME TuiInv, Typed', ChildDies
  PROVE  Flow' /\ Screen' /\ Heard'
<1>1. /\ UNCHANGED <<ui, session, active, stream, overlay, refused, begun, said, reader, stdout, incoming, reply>>
      /\ running' = NoTurn
  BY DEF ChildDies, clientVars, screenVars, pipeVars, historyVars
<1>2. Pipe' = Pipe
  BY <1>1, PipeStays DEF Mid
<1>3. \A t \in Turns : Granted(t)' <=> Granted(t)
  BY <1>1, GrantsStay
<1>4. QED
  BY <1>1, <1>2, <1>3, SameCarried, QuietStory

\* An answer of which the screen need not know.
LEMMA AnswerStory ==
  ASSUME TuiInv, Typed', PlainAnswer, UNCHANGED <<ui, clientVars, screenVars, historyVars>>
  PROVE  Flow' /\ Screen' /\ Heard'
<1>0. Typed
  BY DEF TuiInv
<1>1. UNCHANGED <<ui, session, active, stream, overlay, refused, begun, said, running, reader, incoming, reply>>
  BY DEF PlainAnswer, clientVars, screenVars, historyVars
<1>2. PICK f \in Responses : f.call = Head(stdin) /\ ~(f.call = "submit" /\ f.ok) /\ stdout' = Append(stdout, f)
  BY DEF PlainAnswer, Answer
<1>3. f \in Frames /\ f.type = "response" /\ (\A u : f # Delta(u)) /\ \A t \in Turns : ~GrantedBy(f, t)
  BY <1>2, FrameIs, EventFields DEF Frames, GrantedBy, Delta
<1>4. Pipe' = Append(Pipe, f)
  BY <1>0, <1>1, <1>2, <1>3, PipeGrows
<1>5. \A t \in Turns : Granted(t)' <=> Granted(t)
  BY <1>0, <1>1, <1>2, <1>3, NothingGranted
<1> DEFINE s == Pipe
           t == Pipe'
           k == Len(s) + 1
<1>6. s \in Seq(Frames) /\ t = Append(s, f)
  BY <1>0, <1>4, PipeTyped
<1> HIDE DEF s, t
<1>7. t \in Seq(Frames) /\ Without(t, s, k) /\ t[k] = f
  BY <1>3, <1>6, AppendWithout
<1> HIDE DEF k
<1>8. Carried(s, t)
  BY <1>3, <1>6, <1>7, NeutralCarried DEF EventKinds
<1>9. SameDeltas(s, t)
  <2> SUFFICES ASSUME NEW u PROVE Count(t, Delta(u)) = Count(s, Delta(u))
    BY DEF SameDeltas
  <2> DEFINE d == Delta(u)
  <2>1. f # d
    BY <1>3
  <2> HIDE DEF d
  <2>2. Count(t, d) = Count(s, d) + (IF f = d THEN 1 ELSE 0) /\ Count(s, d) \in Nat
    BY <1>3, <1>6, MoreStory, CountTyped
  <2>3. QED
    BY <2>1, <2>2 DEF d
<1>10. Carried(Pipe, Pipe') /\ SameDeltas(Pipe, Pipe')
  BY <1>8, <1>9 DEF s, t
<1>11. QED
  BY <1>1, <1>5, <1>10, QuietStory

\* A turn begins: its grant is the first the terminal hears of it.
LEMMA BeginStory ==
  ASSUME TuiInv, Typed', Serve, TurnBegins
  PROVE  Flow' /\ Screen' /\ Heard'
<1>0. Typed /\ Wire /\ Flow /\ Screen /\ Heard
  BY DEF TuiInv
<1>1. /\ child = "up" /\ stdin # <<>> /\ Head(stdin) = "submit"
      /\ UNCHANGED <<ui, session, active, stream, overlay, refused, reader, incoming, reply, said>>
      /\ begun' = begun + 1 /\ running' = begun + 1 /\ running = NoTurn
  BY <1>0, ServeIs DEF TurnBegins, clientVars, screenVars, historyVars
<1>2. /\ stdin = <<ui.call>> /\ ui.at = "await" /\ pending /\ outbound = <<>> /\ reply = NoReply
      /\ Silent(stdout)
  BY <1>0, <1>1 DEF Wire, Connected, Waiting
<1>3. ui.call = "submit"
  <2>1. Head(<<ui.call>>) = ui.call
    OBVIOUS
  <2>2. QED
    BY <1>1, <1>2, <2>1
<1>4. session /\ active = NoTurn /\ overlay.kind = "none"
  BY <1>0, <1>3 DEF Screen
<1>5. begun \in Nat /\ begun' \in Turns /\ begun' = begun + 1 /\ begun' # NoTurn
  BY <1>0, <1>1, TuiAssumption DEF TurnBegins, Typed, ChildTyped, Turns, NoTurn
<1>6. PICK f \in Responses : f.call = "submit" /\ f.ok /\ f.turn = begun' /\ stdout' = Append(stdout, f)
  BY <1>1 DEF TurnBegins, Answer
<1>7. f \in Frames /\ f.type = "response" /\ (\A u : f # Delta(u))
      /\ \A t \in Turns : GrantedBy(f, t) <=> t = begun'
  BY <1>6, FrameIs, EventFields DEF Frames, GrantedBy, Delta
<1>8. Pipe' = Append(Pipe, f) /\ Pipe \in Seq(Frames)
  BY <1>0, <1>1, <1>6, <1>7, PipeGrows, PipeTyped
<1>9. \A t \in Turns : ~Granted(t) /\ (Granted(t)' <=> t = begun')
  <2> SUFFICES ASSUME NEW t \in Turns
               PROVE  ~Granted(t) /\ (Granted(t)' <=> t = begun')
    OBVIOUS
  <2>1. ~GrantedBy(reply, t) /\ UNCHANGED reply
    BY <1>1, <1>2, EventFields DEF GrantedBy
  <2>2. ~\E i \in DOMAIN stdout : GrantedBy(stdout[i], t)
    BY <1>2 DEF Silent, GrantedBy
  <2>3. stdout \in Seq(Frames)
    BY <1>0 DEF Typed, PipesTyped
  <2>4. (\E i \in DOMAIN stdout' : GrantedBy(stdout'[i], t)) <=> t = begun'
    BY <1>6, <1>7, <2>2, <2>3, GrantsMore
  <2>5. QED
    BY <2>1, <2>2, <2>4 DEF Granted
<1>10. Owners = {} /\ Owners' = {begun'}
  BY <1>1, <1>4, <1>5, <1>9 DEF Owners, Turns, NoTurn
<1>11. /\ Within(Pipe, begun) /\ Asks(Pipe, Owners) /\ EndsLast(Pipe, NoTurn) /\ ReadyOnce(Pipe) /\ NoReady(Pipe)
       /\ \A t \in Turns : t > begun => said[t] = 0
  BY <1>0, <1>1, <1>2 DEF Flow
<1>12. Within(Pipe, begun') /\ Asks(Pipe, Owners') /\ EndsLast(Pipe, begun')
       /\ \A i \in DOMAIN Pipe : Pipe[i] # Delta(begun')
  <2>1. \A i \in DOMAIN Pipe : Pipe[i].type \in EventKinds => Pipe[i].turn \in Nat /\ Pipe[i].turn <= begun
    BY <1>0, <1>11, EndsAreOfTurns DEF Within, Turns
  <2>2. Within(Pipe, begun')
    BY <1>5, <2>1 DEF Within
  <2>3. Asks(Pipe, Owners')
    BY <1>10, <1>11 DEF Asks
  <2>4. EndsLast(Pipe, begun')
    BY <1>5, <1>11, <2>1 DEF EndsLast, EventKinds
  <2>5. \A i \in DOMAIN Pipe : Pipe[i] # Delta(begun')
    <3>1. Delta(begun').type \in EventKinds /\ Delta(begun').turn = begun'
      BY EventFields DEF Delta, EventKinds
    <3>2. QED
      BY <1>5, <2>1, <3>1
  <2>6. QED
    BY <2>2, <2>3, <2>4, <2>5
<1>13. Within(Pipe', begun') /\ Asks(Pipe', Owners') /\ EndsLast(Pipe', begun') /\ ReadyOnce(Pipe') /\ NoReady(Pipe')
  BY <1>7, <1>8, <1>11, <1>12, MoreStory DEF EventKinds
<1>14. Count(Pipe', Delta(begun')) = 0
  <2> DEFINE d == Delta(begun')
  <2>1. Count(Pipe, d) = 0 /\ f # d
    BY <1>7, <1>12, CountNone
  <2> HIDE DEF d
  <2>2. Count(Append(Pipe, f), d) = Count(Pipe, d) + (IF f = d THEN 1 ELSE 0)
    BY <1>7, <1>8, MoreStory
  <2>3. QED
    BY <1>8, <2>1, <2>2 DEF d
<1>15. Flow'
  <2>1. ~Calm'
    BY <1>1, <1>2, <1>3 DEF Calm
  <2>2. \A t \in Turns : t > begun' => said'[t] = 0
    BY <1>1, <1>5, <1>11 DEF Turns
  <2>3. running' <= begun' /\ running' \in Owners'
    BY <1>1, <1>5, <1>10
  <2>4. running' = begun'
    BY <1>1
  <2>5. QED
    BY <1>13, <2>1, <2>2, <2>3, <2>4 DEF Flow
<1>16. Screen'
  BY <1>0, <1>1, <1>2, <1>3, <1>4 DEF Screen
<1>17. Heard'
  <2>1. said'[begun'] = 0
    BY <1>1, <1>5, <1>11
  <2>2. QED
    BY <1>1, <1>4, <1>9, <1>14, <2>1 DEF Heard
<1>18. QED
  BY <1>15, <1>16, <1>17

\* The facts Story asks for, of a sequence s that may come to be the pipe.
Tells(s, r) ==
  /\ s \in Seq(Frames) /\ Within(s, begun) /\ Asks(s, Owners) /\ EndsLast(s, r)
  /\ ReadyOnce(s) /\ (NoReady(Pipe) => NoReady(s))

LEMMA TellsMore ==
  ASSUME Typed, running \in Turns, running <= begun, running \in Owners,
         NEW s \in Seq(Frames), NEW r \in {running, NoTurn}, Tells(s, r), NEW e \in Frames
  PROVE  /\ Append(s, e) \in Seq(Frames)
         /\ e.type = "response" => Tells(Append(s, e), r)
         /\ \A k \in {"delta", "resolved"} : e = Event(k, running) => Tells(Append(s, e), r)
         /\ e = Event("requested", running) /\ r = running => Tells(Append(s, e), r)
         /\ \A k \in {"complete", "end"} :
              /\ e = Event(k, running)
              /\ \A i \in DOMAIN s : s[i].type \in {"complete", "end"} => s[i].turn # NoTurn
              => Tells(Append(s, e), NoTurn)
         /\ \A d : Count(Append(s, e), d) = Count(s, d) + (IF e = d THEN 1 ELSE 0) /\ Count(s, d) \in Nat
<1>1. Within(s, begun) /\ Asks(s, Owners) /\ EndsLast(s, r) /\ ReadyOnce(s) /\ (NoReady(Pipe) => NoReady(s))
  BY DEF Tells
<1> DEFINE t == Append(s, e)
<1>2. /\ t \in Seq(Frames)
      /\ e.type \in EventKinds /\ e.turn = running => Within(t, begun)
      /\ e.type \notin EventKinds => Within(t, begun)
      /\ (e.type = "requested" => e.turn = running) => Asks(t, Owners)
      /\ e.type \notin {"complete", "end", "requested"} => EndsLast(t, r)
      /\ e.type = "requested" /\ e.turn = r => EndsLast(t, r)
      /\ e.type \in {"complete", "end"} /\ e.turn # NoTurn
           /\ (\A i \in DOMAIN s : s[i].type \in {"complete", "end"} => s[i].turn # NoTurn)
           => EndsLast(t, NoTurn)
      /\ e.type # "ready" => ReadyOnce(t) /\ (NoReady(Pipe) => NoReady(t))
  BY <1>1, MoreStory
<1>3. \A d : Count(t, d) = Count(s, d) + (IF e = d THEN 1 ELSE 0) /\ Count(s, d) \in Nat
  BY MoreStory, CountTyped
<1> HIDE DEF t
<1>4. e.type = "response" => Tells(t, r)
  BY <1>2 DEF Tells, EventKinds
<1>5. \A k \in EventKinds : Event(k, running).type = k /\ Event(k, running).turn = running
  BY EventFields
<1>6. running # NoTurn
  BY DEF Turns, NoTurn
<1>7. \A k \in {"delta", "resolved"} : e = Event(k, running) => Tells(t, r)
  BY <1>2, <1>5 DEF Tells, EventKinds
<1>8. e = Event("requested", running) /\ r = running => Tells(t, r)
  BY <1>2, <1>5 DEF Tells, EventKinds
<1>9. \A k \in {"complete", "end"} :
        /\ e = Event(k, running)
        /\ \A i \in DOMAIN s : s[i].type \in {"complete", "end"} => s[i].turn # NoTurn
        => Tells(t, NoTurn)
  BY <1>2, <1>5, <1>6 DEF Tells, EventKinds
<1>10. QED
  BY <1>2, <1>3, <1>4, <1>7, <1>8, <1>9 DEF t

LEMMA SpeakStory ==
  ASSUME TuiInv, Typed', (Serve /\ Resolution) \/ Turn
  PROVE  Flow' /\ Screen' /\ Heard'
<1>0. Typed /\ Wire /\ Flow
  BY DEF TuiInv
<1>1. /\ UNCHANGED <<ui, session, active, stream, overlay, refused, begun, reader, incoming, reply>>
      /\ running \in Turns
  <2>1. CASE Serve /\ Resolution
    <3>1. running # NoTurn
      BY <1>0, <2>1 DEF Resolution, Wire
    <3>2. QED
      BY <1>0, <2>1, <3>1, ServeIs DEF Resolution, clientVars, screenVars, historyVars, Typed, ChildTyped
  <2>2. CASE Turn
    <3>1. UNCHANGED begun
      BY <1>0, <2>2, TurnIs DEF TurnSays, TurnAsks, TurnCloses
    <3>2. QED
      BY <1>0, <2>2, <3>1, TurnIs DEF clientVars, screenVars, historyVars
  <2>3. QED
    BY <2>1, <2>2
<1>2. running # NoTurn /\ running <= begun /\ running \in Owners /\ ~Calm
  BY <1>0, <1>1 DEF Flow, Turns, NoTurn
<1>3. Tells(Pipe, running) /\ Pipe \in Seq(Frames)
  BY <1>0, PipeTyped DEF Tells, Flow
<1>4. \A i \in DOMAIN Pipe : Pipe[i].type \in {"complete", "end"} => Pipe[i].turn # NoTurn
  BY <1>0, EndsAreOfTurns
<1>5. /\ said \in [Turns -> Nat] /\ \A t \in Turns : t > begun => said[t] = 0
      /\ \A t : Count(Pipe, Delta(t)) \in Nat
  BY <1>0, EndsAreOfTurns DEF Flow, Typed, ChildTyped
<1>6. \A k \in EventKinds : Event(k, running) \in Frames /\ \A t : ~GrantedBy(Event(k, running), t)
  BY <1>0, <1>1, MoreFrames, EventFields DEF GrantedBy, EventKinds
<1>7. \A k \in EventKinds \ {"delta"} : \A t : Event(k, running) # Delta(t)
  BY EventFields DEF Delta
<1>8. ASSUME Tells(Pipe', running'), running' \in {running, NoTurn},
             \A t \in Turns : Granted(t)' <=> Granted(t),
             UNCHANGED said, \A t : Count(Pipe', Delta(t)) = Count(Pipe, Delta(t))
      PROVE  Flow' /\ Screen' /\ Heard'
  <2>1. \A t \in Turns : t > begun => said'[t] = 0
    BY <1>5, <1>8
  <2>2. \A t \in Turns : Count(Pipe', Delta(t)) = Count(Pipe, Delta(t)) + (said'[t] - said[t])
    <3>1. \A t \in Turns : said'[t] - said[t] = 0
      BY <1>5, <1>8
    <3>2. QED
      BY <1>5, <1>8, <3>1
  <2>3. QED
    BY <1>1, <1>2, <1>8, <2>1, <2>2, Story DEF Tells
<1>9. CASE TurnSays
  <2> DEFINE e == Event("delta", running)
  <2>1. e \in Frames /\ e = Delta(running) /\ \A t : ~GrantedBy(e, t)
    BY <1>6 DEF EventKinds, Delta
  <2>2. stdout' = Append(stdout, e) /\ UNCHANGED running /\ said' = [said EXCEPT ![running] = @ + 1]
    BY <1>0, <1>9, <2>1, MoreFrames DEF TurnSays
  <2>3. Tells(Append(Pipe, e), running)
    BY <1>0, <1>1, <1>2, <1>3, <2>1, TellsMore
  <2>4. \A d : Count(Append(Pipe, e), d) = Count(Pipe, d) + (IF e = d THEN 1 ELSE 0)
    BY <1>3, <2>1, MoreStory
  <2> HIDE DEF e
  <2>5. Pipe' = Append(Pipe, e) /\ \A t \in Turns : Granted(t)' <=> Granted(t)
    BY <1>0, <1>1, <2>1, <2>2, PipeGrows, NothingGranted
  <2>6. \A t \in Turns : Count(Pipe', Delta(t)) = Count(Pipe, Delta(t)) + (said'[t] - said[t])
    <3> SUFFICES ASSUME NEW t \in Turns
                 PROVE  Count(Pipe', Delta(t)) = Count(Pipe, Delta(t)) + (said'[t] - said[t])
      OBVIOUS
    <3>1. Delta(running) = Delta(t) <=> running = t
      BY EventFields DEF Delta
    <3>2. Count(Pipe', Delta(t)) = Count(Pipe, Delta(t)) + (IF running = t THEN 1 ELSE 0)
      BY <2>1, <2>4, <2>5, <3>1
    <3>3. said[t] \in Nat /\ said'[t] = said[t] + (IF running = t THEN 1 ELSE 0)
      BY <1>5, <2>2
    <3>4. QED
      BY <1>5, <3>2, <3>3
  <2>7. \A t \in Turns : t > begun => said'[t] = 0
    <3>1. begun \in Nat /\ running \in Nat
      BY <1>0, <1>1, TuiAssumption DEF Typed, ChildTyped, Turns
    <3>2. ASSUME NEW t \in Turns, t > begun
          PROVE  said'[t] = said[t]
      <4>1. t \in Nat
        BY DEF Turns
      <4>2. t # running
        BY <1>2, <3>1, <3>2, <4>1
      <4>3. QED
        BY <1>5, <2>2, <4>2
    <3>3. QED
      BY <1>5, <3>2
  <2>8. QED
    BY <1>1, <1>2, <2>2, <2>3, <2>5, <2>6, <2>7, Story DEF Tells
<1>10. CASE TurnAsks
  <2>1. PICK k \in {"requested", "resolved"} : stdout' = stdout \o <<Event(k, running)>>
    BY <1>10 DEF TurnAsks
  <2> DEFINE e == Event(k, running)
  <2>2. e \in Frames /\ (\A t : e # Delta(t)) /\ \A t : ~GrantedBy(e, t)
    BY <1>6, <1>7 DEF EventKinds
  <2>3. stdout' = Append(stdout, e) /\ UNCHANGED <<running, said>>
    BY <1>0, <1>10, <2>1, <2>2, MoreFrames DEF TurnAsks
  <2>4. Tells(Append(Pipe, e), running)
    BY <1>0, <1>1, <1>2, <1>3, <2>2, TellsMore
  <2>5. \A d : Count(Append(Pipe, e), d) = Count(Pipe, d) + (IF e = d THEN 1 ELSE 0)
    BY <1>3, <2>2, MoreStory
  <2> HIDE DEF e
  <2>6. Pipe' = Append(Pipe, e) /\ \A t \in Turns : Granted(t)' <=> Granted(t)
    BY <1>0, <1>1, <2>2, <2>3, PipeGrows, NothingGranted
  <2>7. \A t : Count(Pipe', Delta(t)) = Count(Pipe, Delta(t))
    BY <1>5, <2>2, <2>5, <2>6
  <2>8. QED
    BY <1>8, <2>3, <2>4, <2>6, <2>7
<1>11. CASE TurnCloses
  <2> DEFINE c == Event("complete", running)
             e == Event("end", running)
             a == Append(Pipe, c)
             b == Append(a, e)
             d == Append(Pipe, e)
  <2>1. /\ c \in Frames /\ e \in Frames /\ (\A t : c # Delta(t) /\ e # Delta(t))
        /\ \A t : ~GrantedBy(c, t) /\ ~GrantedBy(e, t)
    BY <1>6, <1>7 DEF EventKinds
  <2>2. /\ stdout' = Append(Append(stdout, c), e) \/ stdout' = Append(stdout, e)
        /\ running' = NoTurn /\ UNCHANGED said
    BY <1>0, <1>11, <2>1, MoreFrames DEF TurnCloses
  <2>3. Tells(a, NoTurn) /\ Tells(d, NoTurn) /\ a \in Seq(Frames)
    BY <1>0, <1>1, <1>2, <1>3, <1>4, <2>1, TellsMore
  <2>4. /\ \A t : Count(a, Delta(t)) = Count(Pipe, Delta(t))
        /\ \A t : Count(d, Delta(t)) = Count(Pipe, Delta(t))
    BY <1>3, <1>5, <2>1, MoreStory
  <2>5. \A i \in DOMAIN a : a[i].type \in {"complete", "end"} => a[i].turn # NoTurn
    <3>1. \A i \in DOMAIN a : (i \in DOMAIN Pipe /\ a[i] = Pipe[i]) \/ a[i] = c
      <4>1. /\ Len(a) = Len(Pipe) + 1 /\ Len(Pipe) \in Nat /\ a[Len(Pipe) + 1] = c
            /\ \A i \in 1 .. Len(Pipe) : a[i] = Pipe[i]
        BY <1>3, <2>1, AppendProperties, LenProperties
      <4> HIDE DEF c, a
      <4>2. DOMAIN a = 1 .. Len(a) /\ DOMAIN Pipe = 1 .. Len(Pipe)
        BY <1>3, <2>3, LenProperties
      <4>3. QED
        BY <4>1, <4>2
    <3>2. c.turn = running
      BY EventFields
    <3> HIDE DEF c, a
    <3>3. QED
      BY <1>2, <1>4, <3>1, <3>2
  <2> HIDE DEF c, a, d
  <2>6. /\ Tells(b, NoTurn)
        /\ \A f : Count(b, f) = Count(a, f) + (IF e = f THEN 1 ELSE 0) /\ Count(a, f) \in Nat
    BY <1>0, <1>1, <1>2, <2>1, <2>3, <2>5, TellsMore
  <2> HIDE DEF e
  <2>7. \A t : Count(b, Delta(t)) = Count(Pipe, Delta(t))
    BY <2>1, <2>4, <2>6
  <2> HIDE DEF b
  <2>8. /\ Pipe' \in {b, d} /\ \A t \in Turns : Granted(t)' <=> Granted(t)
    <3>1. CASE stdout' = Append(Append(stdout, c), e)
      BY <1>0, <1>1, <2>1, <3>1, PipeGrows, NothingGranted DEF a, b
    <3>2. CASE stdout' = Append(stdout, e)
      BY <1>0, <1>1, <2>1, <3>2, PipeGrows, NothingGranted DEF d
    <3>3. QED
      BY <2>2, <3>1, <3>2
  <2>9. QED
    BY <1>8, <2>2, <2>3, <2>4, <2>6, <2>7, <2>8
<1>12. CASE Serve /\ Resolution
  <2> DEFINE e == Event("resolved", running)
  <2>1. PICK f \in Responses : f.call = "respond" /\ (stdout' = stdout \o <<f, e>> \/ stdout' = stdout \o <<e, f>>)
    BY <1>12 DEF Resolution
  <2>2. /\ e \in Frames /\ f \in Frames /\ f.type = "response" /\ (\A t : e # Delta(t) /\ f # Delta(t))
        /\ \A t : ~GrantedBy(e, t) /\ ~GrantedBy(f, t)
    <3>1. e \in Frames /\ (\A t : e # Delta(t)) /\ \A t : ~GrantedBy(e, t)
      BY <1>6, <1>7 DEF EventKinds
    <3>2. f \in Frames /\ f.type = "response" /\ (\A t : f # Delta(t)) /\ \A t : ~GrantedBy(f, t)
      BY <2>1, FrameIs, EventFields DEF Frames, GrantedBy, Delta
    <3>3. QED
      BY <3>1, <3>2
  <2>3. stdout' = Append(Append(stdout, f), e) \/ stdout' = Append(Append(stdout, e), f)
    BY <1>0, <2>1, <2>2, MoreFrames
  <2>4. UNCHANGED <<running, said>>
    BY <1>12 DEF Resolution
  <2> DEFINE a == Append(Pipe, f)
             b == Append(a, e)
             c == Append(Pipe, e)
             d == Append(c, f)
  <2>5. /\ Tells(a, running) /\ a \in Seq(Frames) /\ Tells(c, running) /\ c \in Seq(Frames)
    BY <1>0, <1>1, <1>2, <1>3, <2>2, TellsMore
  <2>6. /\ \A t : Count(a, Delta(t)) = Count(Pipe, Delta(t))
        /\ \A t : Count(c, Delta(t)) = Count(Pipe, Delta(t))
    BY <1>3, <1>5, <2>2, MoreStory
  <2> HIDE DEF a, c
  <2>7. Tells(b, running) /\ \A t : Count(b, Delta(t)) = Count(Pipe, Delta(t))
    <3>1. /\ Tells(b, running)
          /\ \A g : Count(b, g) = Count(a, g) + (IF e = g THEN 1 ELSE 0) /\ Count(a, g) \in Nat
      BY <1>0, <1>1, <1>2, <2>2, <2>5, TellsMore
    <3> HIDE DEF e, b
    <3>2. QED
      BY <2>2, <2>6, <3>1
  <2>8. Tells(d, running) /\ \A t : Count(d, Delta(t)) = Count(Pipe, Delta(t))
    <3>1. /\ Tells(d, running)
          /\ \A g : Count(d, g) = Count(c, g) + (IF f = g THEN 1 ELSE 0) /\ Count(c, g) \in Nat
      BY <1>0, <1>1, <1>2, <2>2, <2>5, TellsMore
    <3> HIDE DEF e, d
    <3>2. QED
      BY <2>2, <2>6, <3>1
  <2> HIDE DEF e, b, d
  <2>9. /\ Pipe' \in {b, d} /\ \A t \in Turns : Granted(t)' <=> Granted(t)
    <3>1. CASE stdout' = Append(Append(stdout, f), e)
      BY <1>0, <1>1, <2>2, <3>1, PipeGrows, NothingGranted DEF a, b
    <3>2. CASE stdout' = Append(Append(stdout, e), f)
      BY <1>0, <1>1, <2>2, <3>2, PipeGrows, NothingGranted DEF c, d
    <3>3. QED
      BY <2>3, <3>1, <3>2
  <2>10. QED
    BY <1>8, <2>4, <2>7, <2>8, <2>9
<1>13. QED
  BY <1>0, <1>9, <1>10, <1>11, <1>12, TurnIs

LEMMA ChildStory ==
  ASSUME TuiInv, Typed', Serve \/ Turn \/ ChildDies
  PROVE  Flow' /\ Screen' /\ Heard'
<1>1. CASE ChildDies
  BY <1>1, DeathStory
<1>2. CASE Turn
  BY <1>2, SpeakStory
<1>3. CASE Serve
  <2>1. UNCHANGED <<ui, clientVars, screenVars, historyVars>> /\ (PlainAnswer \/ TurnBegins \/ Resolution)
    BY <1>3, ServeIs DEF TuiInv
  <2>2. QED
    BY <1>3, <2>1, AnswerStory, BeginStory, SpeakStory
<1>4. QED
  BY <1>1, <1>2, <1>3

-----------------------------------------------------------------------------
(* the terminal loop *)

LEMMA NothingSaid ==
  /\ \A n, T, r : Within(<<>>, n) /\ Asks(<<>>, T) /\ EndsLast(<<>>, r)
  /\ ReadyOnce(<<>>) /\ NoReady(<<>>)
  BY DEF Within, Asks, EndsLast, ReadyOnce, NoReady

LEMMA SilenceGrantsNothing ==
  ASSUME reply' = NoReply, Silent(stdout')
  PROVE  \A t \in Turns : ~Granted(t)'
<1>1. NoReply.type # "response"
  BY EventFields
<1>2. QED
  BY <1>1 DEF Granted, GrantedBy, Silent

LEMMA ShutdownStory ==
  ASSUME TuiInv, Shutdown, ui'.at \in {"spawn", "exited"}, ui'.call = "none",
         UNCHANGED <<session, overlay, refused, begun, said>>,
         active' \in {active, NoTurn}, ui'.at = "spawn" => active' = NoTurn
  PROVE  Flow' /\ Screen' /\ Heard'
<1>0. Typed /\ Flow /\ Screen
  BY DEF TuiInv
<1>1. Pipe' = <<>>
  <2>1. incoming' = <<>> /\ Mid' = <<>> /\ stdout' = <<>>
    BY DEF Shutdown, Mid
  <2>2. Pipe' = incoming' \o Mid' \o stdout'
    BY DEF Pipe, Mid
  <2>3. <<>> \o <<>> = <<>>
    BY ConcatEmptySeq, QueueTyped
  <2>4. QED
    BY <2>1, <2>2, <2>3
<1>2. \A t \in Turns : ~Granted(t)'
  <2>1. reply' = NoReply /\ Silent(stdout')
    <3>1. stdout' = <<>> /\ DOMAIN <<>> = {}
      BY DEF Shutdown
    <3>2. QED
      BY <3>1 DEF Shutdown, Silent
  <2>2. QED
    BY <2>1, SilenceGrantsNothing
<1>3. running' = NoTurn
  BY DEF Shutdown
<1>4. Flow'
  BY <1>0, <1>1, <1>3, NothingSaid DEF Flow, Typed, ChildTyped, NoTurn
<1>5. Screen'
  BY <1>0, <1>3 DEF Screen, SettingUp
<1>6. Heard'
  BY <1>2 DEF Heard
<1>7. QED
  BY <1>4, <1>5, <1>6

LEMMA ExitStory ==
  ASSUME TuiInv, Exit, UNCHANGED <<screenVars, store, said, begun, historyVars>>
  PROVE  Flow' /\ Screen' /\ Heard'
<1>1. ui'.at = "exited" /\ ui'.call = "none" /\ Shutdown
  BY DEF Exit
<1>2. UNCHANGED <<session, overlay, refused, begun, said, active>>
  BY DEF screenVars, historyVars
<1>3. QED
  BY <1>1, <1>2, ShutdownStory

LEMMA LeavingStory ==
  ASSUME TuiInv, GivesUp \/ Quit \/ Reconnect
  PROVE  Flow' /\ Screen' /\ Heard'
<1>1. CASE GivesUp \/ Quit
  BY <1>1, ExitStory DEF GivesUp, Quit
<1>2. CASE Reconnect
  <2>1. /\ Shutdown /\ ui'.at = "spawn" /\ ui'.call = "none" /\ active' = NoTurn
        /\ UNCHANGED <<session, overlay, refused, begun, said>>
    BY <1>2 DEF Reconnect, historyVars
  <2>2. QED
    BY <2>1, ShutdownStory
<1>3. QED
  BY <1>1, <1>2

LEMMA SpawnStory ==
  ASSUME TuiInv, Spawn
  PROVE  Flow' /\ Screen' /\ Heard'
<1>0. Typed /\ Wire /\ Flow /\ Screen
  BY DEF TuiInv
<1>1. /\ ui.at = "spawn" /\ ui'.at = "ready" /\ ui'.call = "none"
      /\ UNCHANGED <<session, active, overlay, running, said, begun>>
      /\ incoming' = <<>> /\ stdout' = <<ReadyEvent>> /\ Mid' = <<>> /\ reply' = NoReply
  BY DEF Spawn, screenVars, Mid
<1>2. Calm /\ running = NoTurn /\ active = NoTurn
  BY <1>0, <1>1 DEF Calm, Flow, Screen
<1>3. Pipe' = <<ReadyEvent>>
  <2>1. <<ReadyEvent>> \in Seq(Events) /\ <<>> \in Seq(Events)
    <3>1. ReadyEvent \in Events
      BY EventFields
    <3>2. QED
      BY <3>1
  <2>2. Pipe' = incoming' \o Mid' \o stdout'
    BY DEF Pipe, Mid
  <2>3. <<>> \o <<>> = <<>>
    BY <2>1, ConcatEmptySeq
  <2>4. <<>> \o <<ReadyEvent>> = <<ReadyEvent>>
    <3> DEFINE x == <<ReadyEvent>>
    <3>1. x \in Seq(Events)
      BY <2>1
    <3> HIDE DEF x
    <3>2. <<>> \o x = x
      BY <3>1, ConcatEmptySeq
    <3>3. QED
      BY <3>2 DEF x
  <2>5. QED
    BY <1>1, <2>2, <2>3, <2>4
<1>4. \A i \in DOMAIN <<ReadyEvent>> : i = 1 /\ <<ReadyEvent>>[i].type = "ready"
  <2>1. \A i \in DOMAIN <<ReadyEvent>> : i = 1 /\ <<ReadyEvent>>[i] = ReadyEvent
    OBVIOUS
  <2>2. QED
    BY <2>1, EventFields
<1>5. /\ \A n, T, r : Within(Pipe', n) /\ Asks(Pipe', T) /\ EndsLast(Pipe', r)
      /\ ReadyOnce(Pipe') /\ Silent(Pipe')
  BY <1>3, <1>4 DEF Within, Asks, EndsLast, ReadyOnce, Silent, EventKinds
<1>6. \A t \in Turns : ~Granted(t)'
  <2>1. Silent(stdout')
    BY <1>1, <1>4 DEF Silent
  <2>2. QED
    BY <1>1, <2>1, SilenceGrantsNothing
<1>7. Flow'
  BY <1>0, <1>1, <1>2, <1>5 DEF Flow
<1>8. Screen'
  BY <1>0, <1>1, <1>2 DEF Screen, SettingUp
<1>9. Heard'
  BY <1>1, <1>2, <1>6 DEF Heard
<1>10. QED
  BY <1>7, <1>8, <1>9

\* The pipe, on the child's side or the terminal's, has lost its head at most.
LEMMA LoopFlow ==
  ASSUME TuiInv, UNCHANGED <<begun, said, running>>, Carried(Pipe, Pipe'),
         (Owners \subseteq Owners') \/ Calm, NoReady(Pipe'),
         Calm' => Calm \/ (running = NoTurn /\ Asks(Pipe', {}))
  PROVE  Flow'
<1>0. Flow
  BY DEF TuiInv
<1>1. Within(Pipe', begun) /\ Asks(Pipe', Owners) /\ EndsLast(Pipe', running) /\ ReadyOnce(Pipe')
      /\ (Calm => running = NoTurn /\ Asks(Pipe', {}))
  BY <1>0 DEF Flow, Carried
<1>2. Asks(Pipe', Owners') /\ (running # NoTurn => running \in Owners')
  BY <1>0, <1>1 DEF Flow, Asks
<1>3. QED
  BY <1>0, <1>1, <1>2 DEF Flow

LEMMA HeadGone ==
  ASSUME Typed, incoming # <<>>, incoming' = Tail(incoming), UNCHANGED <<reader, stdout>>
  PROVE  /\ Without(Pipe, Pipe', 1) /\ Carried(Pipe, Pipe')
         /\ \A f : Count(Pipe, f) = Count(Pipe', f) + (IF Head(incoming) = f THEN 1 ELSE 0)
         /\ \A f : Count(Pipe', f) \in Nat
         /\ \A i \in DOMAIN Pipe' : i + 1 \in DOMAIN Pipe /\ Pipe'[i] = Pipe[i + 1] /\ i + 1 # 1 /\ ~(i + 1 < 1)
<1>1. Without(Pipe, Tail(incoming) \o Mid \o stdout, 1) /\ Pipe[1] = Head(incoming)
  BY HeadOfPipe
<1>2. Pipe' = Tail(incoming) \o Mid \o stdout
  BY DEF Pipe, Mid
<1>3. Pipe \in Seq(Frames) /\ Pipe' \in Seq(Frames)
  <2>1. incoming \in Seq(Frames) /\ Mid \in Seq(Frames) /\ stdout \in Seq(Frames) /\ Pipe \in Seq(Frames)
    BY PipeTyped
  <2>2. Tail(incoming) \in Seq(Frames)
    BY <2>1, QueueTyped
  <2> DEFINE a == Tail(incoming)
             m == Mid
             b == stdout
  <2>3. a \in Seq(Frames) /\ m \in Seq(Frames) /\ b \in Seq(Frames)
    BY <2>1, <2>2
  <2> HIDE DEF a, m, b
  <2>4. a \o m \o b \in Seq(Frames)
    BY <2>3, ConcatThree
  <2>5. QED
    BY <1>2, <2>1, <2>4 DEF a, m, b
<1> DEFINE s == Pipe
           t == Pipe'
<1>4. s \in Seq(Frames) /\ t \in Seq(Frames) /\ Without(s, t, 1) /\ s[1] = Head(incoming)
  BY <1>1, <1>2, <1>3
<1> HIDE DEF s, t
<1>5. Carried(s, t)
  BY <1>4, FewerCarried
<1>6. \A f : Count(s, f) = Count(t, f) + (IF Head(incoming) = f THEN 1 ELSE 0) /\ Count(t, f) \in Nat
  BY <1>4, CountWithout, CountTyped
<1>7. \A i \in DOMAIN t : i + 1 \in DOMAIN s /\ t[i] = s[i + 1] /\ i + 1 # 1 /\ ~(i + 1 < 1)
  <2>1. DOMAIN s = 1 .. Len(s) /\ DOMAIN t = 1 .. Len(t) /\ Len(s) \in Nat /\ Len(t) \in Nat
    BY <1>4, LenProperties
  <2>2. QED
    BY <1>4, <2>1 DEF Without
<1>8. QED
  BY <1>4, <1>5, <1>6, <1>7 DEF s, t

LEMMA ReadyStory ==
  ASSUME TuiInv, WaitForReady
  PROVE  Flow' /\ Screen' /\ Heard'
<1>0. Typed /\ Wire /\ Flow /\ Screen
  BY DEF TuiInv
<1>1. CASE Exit
  BY <1>1, ExitStory DEF WaitForReady
<1>2. CASE ~Exit
  <2>1. /\ ui.at = "ready" /\ incoming # <<>> /\ Head(incoming) = ReadyEvent /\ incoming' = Tail(incoming)
        /\ ui'.at = "insert" /\ ui'.call = "hello"
        /\ UNCHANGED <<reader, stdout, reply, running, session, active, stream, overlay, refused, begun, said>>
    BY <1>2 DEF WaitForReady, Call, pipeVars, screenVars, historyVars
  <2>2. Calm /\ running = NoTurn /\ active = NoTurn
    BY <1>0, <2>1 DEF Calm, Flow, Screen
  <2>3. Carried(Pipe, Pipe') /\ \A i \in DOMAIN Pipe' : i + 1 \in DOMAIN Pipe /\ Pipe'[i] = Pipe[i + 1] /\ i + 1 # 1
    BY <1>0, <2>1, HeadGone
  <2>4. NoReady(Pipe')
    <3>1. 1 \in DOMAIN Pipe /\ Pipe[1].type = "ready"
      BY <1>0, <2>1, HeadOfPipe, EventFields
    <3>2. QED
      BY <1>0, <2>3, <3>1 DEF Flow, ReadyOnce, NoReady
  <2>5. Flow'
    BY <2>1, <2>2, <2>3, <2>4, LoopFlow
  <2>6. Screen'
    BY <1>0, <2>1, <2>2 DEF Screen, SettingUp
  <2>7. \A t \in Turns : ~Granted(t)'
    <3>1. reply = NoReply /\ Silent(stdout)
      BY <1>0, <2>1 DEF Wire, Waiting
    <3>2. Silent(stdout') /\ reply' = NoReply
      BY <2>1, <3>1
    <3>3. QED
      BY <3>2, SilenceGrantsNothing
  <2>8. Heard'
    BY <2>1, <2>2, <2>7 DEF Heard
  <2>9. QED
    BY <2>5, <2>6, <2>8
<1>3. QED
  BY <1>1, <1>2

\* The terminal loop awaits nothing.
LEMMA AtLoop ==
  ASSUME Typed, Wire, ui.at = "loop"
  PROVE  /\ ui.call = "none" /\ ~pending /\ reply = NoReply /\ Silent(stdout)
         /\ \A t \in Turns : ~Granted(t)
         /\ Owners = {t \in Turns : active = t}
<1>1. ui.call = "none" /\ ~pending /\ reply = NoReply /\ Silent(stdout)
  BY DEF Wire, Waiting, Calling
<1>2. QED
  BY <1>1, OwnersAre

LEMMA TakeStory ==
  ASSUME TuiInv, Typed', TakeEvent
  PROVE  Flow' /\ Screen' /\ Heard'
<1>0. Typed /\ Wire /\ Flow /\ Screen /\ Heard
  BY DEF TuiInv
<1>1. /\ ui.at = "loop" /\ incoming # <<>> /\ incoming' = Tail(incoming)
      /\ UNCHANGED <<reader, stdout, reply, session, active, refused, begun, said, running>>
  BY DEF TakeEvent, childVars, pipeVars, historyVars
<1>2. /\ ui.call = "none" /\ reply = NoReply /\ Silent(stdout)
      /\ \A t \in Turns : ~Granted(t)
      /\ Owners = {t \in Turns : active = t}
  BY <1>0, <1>1, AtLoop
<1>3. \A t \in Turns : ~Granted(t)'
  <2>1. Silent(stdout') /\ reply' = NoReply
    BY <1>1, <1>2
  <2>2. QED
    BY <2>1, SilenceGrantsNothing
<1>4. Owners' = Owners
  BY <1>1, <1>2, <1>3 DEF Owners
<1>5. /\ Carried(Pipe, Pipe')
      /\ \A f : Count(Pipe, f) = Count(Pipe', f) + (IF Head(incoming) = f THEN 1 ELSE 0)
      /\ \A f : Count(Pipe', f) \in Nat
      /\ \A i \in DOMAIN Pipe' : i + 1 \in DOMAIN Pipe /\ Pipe'[i] = Pipe[i + 1] /\ ~(i + 1 < 1)
  BY <1>0, <1>1, HeadGone
<1>6. PICK event \in Events :
        /\ event = Head(incoming) /\ event = Pipe[1]
        /\ event.type \in EventKinds /\ event.turn \in Turns /\ event = Event(event.type, event.turn)
        /\ \/ event.type = "delta" /\ TakeDelta(event.turn)
           \/ event.type \in {"complete", "end"} /\ TakeEnd(event.turn)
           \/ event.type = "requested" /\ TakeRequested(event.turn)
           \/ event.type = "resolved" /\ TakeResolved(event.turn)
  BY <1>0, TakenIs
<1>7. 1 \in DOMAIN Pipe
  BY <1>0, <1>1, HeadOfPipe
<1> DEFINE u == event.turn
<1>8. u \in Turns /\ u # NoTurn /\ \A t : event = Delta(t) <=> event.type = "delta" /\ u = t
  BY <1>6, EventFields DEF Delta, Turns, NoTurn
<1> HIDE DEF u
<1>9. NoReady(Pipe')
  BY <1>0, <1>1, <1>5 DEF Flow, Carried
<1>10. stream \in Nat /\ said \in [Turns -> Nat] /\ active \in Turns \union {NoTurn}
  BY <1>0 DEF Typed, ScreenTyped, ChildTyped
<1>11. Calm => running = NoTurn /\ Asks(Pipe', {})
  BY <1>0, <1>5 DEF Flow, Carried
\* The head is no fragment of the turn on the screen.
<1>12. ASSUME stream' = stream, event.type # "delta" \/ active # u
       PROVE  Heard'
  <2>1. active \in Turns => Count(Pipe, Delta(active)) = Count(Pipe', Delta(active))
    BY <1>5, <1>6, <1>8, <1>12
  <2>2. active # NoTurn => stream + Count(Pipe, Delta(active)) = said[active]
    BY <1>0, <1>1 DEF Heard
  <2>3. QED
    BY <1>1, <1>3, <1>10, <1>12, <2>1, <2>2 DEF Heard
<1>13. CASE event.type = "delta"
  <2>1. TakeDelta(u) /\ UNCHANGED <<ui, overlay>>
    BY <1>6, <1>13 DEF TakeDelta, u
  <2>2. Calm' => Calm
    BY <2>1 DEF Calm
  <2>3. Flow'
    BY <1>1, <1>4, <1>5, <1>9, <2>2, LoopFlow
  <2>4. Screen'
    BY <1>0, <1>1, <2>1 DEF Screen, SettingUp
  <2>5. Heard'
    <3>1. CASE active = u
      <4>1. stream' = stream + 1
        BY <2>1, <3>1 DEF TakeDelta
      <4>2. Count(Pipe, Delta(u)) = Count(Pipe', Delta(u)) + 1 /\ Count(Pipe', Delta(u)) \in Nat
        BY <1>5, <1>6, <1>8, <1>13
      <4>3. stream + Count(Pipe, Delta(u)) = said[u]
        BY <1>0, <1>1, <1>8, <3>1 DEF Heard
      <4>4. stream' + Count(Pipe', Delta(u)) = said'[u]
        BY <1>1, <1>10, <4>1, <4>2, <4>3
      <4>5. QED
        BY <1>1, <1>3, <3>1, <4>4 DEF Heard
    <3>2. CASE active # u
      <4>1. stream' = stream
        BY <2>1, <3>2 DEF TakeDelta
      <4>2. QED
        BY <1>12, <3>2, <4>1
    <3>3. QED
      BY <3>1, <3>2
  <2>6. QED
    BY <2>3, <2>4, <2>5
<1>14. CASE event.type \in {"complete", "end"}
  <2>1. TakeEnd(u) /\ stream' = stream
    BY <1>6, <1>14 DEF TakeEnd, u
  <2>2. CASE active = u
    <3>1. /\ overlay' = overlay \/ overlay' = NoOverlay
          /\ ui' = [at |-> "insert", call |-> "resume"]
      BY <2>1, <2>2 DEF TakeEnd, Call
    <3>2. Owners = {u}
      BY <1>2, <1>8, <2>2
    <3>3. running = NoTurn
      <4>1. running # u
        BY <1>0, <1>6, <1>7, <1>14 DEF Flow, EndsLast, u
      <4>2. QED
        BY <1>0, <3>2, <4>1 DEF Flow
    <3>4. Asks(Pipe', {})
      <4> SUFFICES ASSUME NEW i \in DOMAIN Pipe', Pipe'[i].type = "requested"
                   PROVE  FALSE
        BY DEF Asks
      <4>1. i + 1 \in DOMAIN Pipe /\ Pipe[i + 1].type = "requested" /\ ~(i + 1 < 1)
        BY <1>5
      <4>2. Pipe[i + 1].turn = u
        BY <1>0, <3>2, <4>1 DEF Flow, Asks
      <4>3. Pipe[1].type \in {"complete", "end"} /\ Pipe[1].turn = u
        BY <1>6, <1>14 DEF u
      <4>4. QED
        BY <1>0, <1>7, <4>1, <4>2, <4>3 DEF Flow, EndsLast
    <3>5. Flow'
      BY <1>1, <1>4, <1>5, <1>9, <3>3, <3>4, LoopFlow
    <3>6. Screen'
      <4>1. NoOverlay.kind = "none" /\ ui'.call = "resume" /\ ui'.at = "insert"
        BY <3>1 DEF NoOverlay
      <4>2. QED
        BY <1>0, <1>1, <1>2, <3>1, <4>1 DEF Screen, SettingUp
    <3>7. Heard'
      BY <1>12, <1>14, <2>1
    <3>8. QED
      BY <3>5, <3>6, <3>7
  <2>3. CASE active # u
    <3>1. UNCHANGED <<ui, overlay>>
      BY <2>1, <2>3 DEF TakeEnd
    <3>2. Calm' => Calm
      BY <3>1 DEF Calm
    <3>3. Flow'
      BY <1>1, <1>4, <1>5, <1>9, <3>2, LoopFlow
    <3>4. Screen'
      BY <1>0, <1>1, <3>1 DEF Screen, SettingUp
    <3>5. Heard'
      BY <1>12, <1>14, <2>1
    <3>6. QED
      BY <3>3, <3>4, <3>5
  <2>4. QED
    BY <2>2, <2>3
<1>15. CASE event.type \in {"requested", "resolved"}
  <2>1. UNCHANGED <<ui, stream>>
    BY <1>6, <1>15 DEF TakeRequested, TakeResolved
  <2>2. Calm' => Calm
    BY <2>1 DEF Calm
  <2>3. Flow'
    BY <1>1, <1>4, <1>5, <1>9, <2>2, LoopFlow
  <2>4. Screen'
    <3>1. CASE event.type = "requested"
      <4>1. overlay' = Dialogue(u)
        BY <1>6, <3>1 DEF TakeRequested, u
      <4>2. overlay'.kind = "approval" /\ overlay'.turn = u
        BY <4>1 DEF Dialogue
      <4>3. active = u
        BY <1>0, <1>2, <1>6, <1>7, <3>1 DEF Flow, Asks, u
      <4>4. session
        BY <1>0, <1>8, <4>3 DEF Screen
      <4>5. QED
        BY <1>0, <1>1, <1>2, <2>1, <4>2, <4>3, <4>4 DEF Screen
    <3>2. CASE event.type = "resolved"
      <4>1. overlay' = overlay \/ overlay'.kind = "none"
        BY <1>6, <3>2 DEF TakeResolved, NoOverlay
      <4>2. QED
        BY <1>0, <1>1, <1>2, <2>1, <4>1 DEF Screen, SettingUp
    <3>3. QED
      BY <1>15, <3>1, <3>2
  <2>5. Heard'
    BY <1>12, <1>15, <2>1
  <2>6. QED
    BY <2>3, <2>4, <2>5
<1>16. QED
  BY <1>6, <1>13, <1>14, <1>15

LEMMA KeysStory ==
  ASSUME TuiInv, Typed', Type \/ SubmitPrompt \/ Interrupt \/ Decide \/ Pick
  PROVE  Flow' /\ Screen' /\ Heard'
<1>0. Typed /\ Wire /\ Flow /\ Screen /\ Heard
  BY DEF TuiInv
<1>1. /\ ui.at = "loop"
      /\ UNCHANGED <<incoming, reader, stdout, reply, session, active, stream, refused, begun, said, running>>
  BY DEF Type, SubmitPrompt, Interrupt, Decide, Pick, clientVars, screenVars, childVars, pipeVars, historyVars
<1>2. /\ ui.call = "none" /\ reply = NoReply /\ Silent(stdout)
      /\ \A t \in Turns : ~Granted(t)
      /\ Owners = {t \in Turns : active = t}
  BY <1>0, <1>1, AtLoop
<1>3. \A t \in Turns : ~Granted(t)'
  <2>1. Silent(stdout') /\ reply' = NoReply
    BY <1>1, <1>2
  <2>2. QED
    BY <2>1, SilenceGrantsNothing
<1>4. Owners' = Owners
  BY <1>1, <1>2, <1>3 DEF Owners
<1>5. Pipe' = Pipe
  BY <1>1, PipeStays DEF Mid
<1>6. Carried(Pipe, Pipe') /\ NoReady(Pipe')
  BY <1>0, <1>1, <1>5, SameCarried DEF Flow
<1>7. Heard'
  BY <1>0, <1>1, <1>3, <1>5 DEF Heard
<1>8. Calm' => Calm \/ (running = NoTurn /\ Asks(Pipe', {}))
  <2>1. CASE Pick /\ ~UNCHANGED ui
    <3>1. overlay.kind = "picker"
      BY <2>1 DEF Pick, Picker
    <3>2. active = NoTurn /\ running = NoTurn
      BY <1>0, <3>1 DEF Screen
    <3>3. Owners = {}
      BY <1>2, <3>2 DEF Turns, NoTurn
    <3>4. QED
      BY <1>0, <1>5, <3>2, <3>3 DEF Flow
  <2>2. CASE UNCHANGED ui
    BY <2>2 DEF Calm
  <2>3. CASE SubmitPrompt \/ Interrupt \/ Decide
    <3>1. ui'.at = "insert" /\ ui'.call \in {"submit", "interrupt", "respond"}
      BY <2>3 DEF SubmitPrompt, Interrupt, Decide, Call
    <3>2. QED
      BY <3>1 DEF Calm
  <2>4. QED
    BY <2>1, <2>2, <2>3 DEF Type
<1>9. Flow'
  BY <1>1, <1>4, <1>6, <1>8, LoopFlow
<1>10. Screen'
  <2>1. CASE Type
    BY <1>0, <1>1, <2>1 DEF Type, Screen, SettingUp
  <2>2. CASE SubmitPrompt
    <3>1. ui'.at = "insert" /\ ui'.call = "submit" /\ session /\ active = NoTurn /\ overlay.kind = "none"
          /\ UNCHANGED overlay
      BY <2>2 DEF SubmitPrompt, Call, screenVars
    <3>2. QED
      BY <1>0, <1>1, <3>1 DEF Screen
  <2>3. CASE Interrupt
    <3>1. ui'.at = "insert" /\ ui'.call = "interrupt" /\ UNCHANGED overlay
      BY <2>3 DEF Interrupt, Call, screenVars
    <3>2. QED
      BY <1>0, <1>1, <1>2, <3>1 DEF Screen, SettingUp
  <2>4. CASE Decide
    <3>1. ui'.at = "insert" /\ ui'.call = "respond" /\ overlay'.kind = overlay.kind /\ overlay'.turn = overlay.turn
      <4>1. overlay' = [overlay EXCEPT !.busy = TRUE]
        BY <2>4 DEF Decide
      <4>2. overlay'.kind = overlay.kind /\ overlay'.turn = overlay.turn
        BY <1>0, <4>1 DEF Typed, ScreenTyped
      <4>3. QED
        BY <2>4, <4>2 DEF Decide, Call
    <3>2. QED
      BY <1>0, <1>1, <1>2, <3>1 DEF Screen, SettingUp
  <2>5. CASE Pick
    <3>1. overlay.kind = "picker" /\ ~session /\ active = NoTurn /\ running = NoTurn
      BY <1>0, <2>5 DEF Pick, Picker, Screen
    <3>2. overlay'.kind # "approval"
      BY <1>0, <2>5, <3>1, LoadingIs DEF Pick, NoOverlay
    <3>3. ui'.call \in {"none", "resume", "create"} /\ ui'.at \in {"insert", "loop"}
      <4>1. UNCHANGED ui \/ \E c \in {"resume", "create"} : Call(c)
        BY <2>5 DEF Pick
      <4>2. UNCHANGED ui \/ \E c \in {"resume", "create"} : ui'.at = "insert" /\ ui'.call = c
        BY <4>1 DEF Call
      <4>3. QED
        BY <1>1, <1>2, <4>2
    <3>4. QED
      BY <1>0, <1>1, <3>1, <3>2, <3>3 DEF Screen
  <2>6. QED
    BY <2>1, <2>2, <2>3, <2>4, <2>5
<1>11. QED
  BY <1>7, <1>9, <1>10

\* The answer is there, and nothing of the turn comes after it.
LEMMA DoneStory ==
  ASSUME TuiInv, Typed', Done
  PROVE  Flow' /\ Screen' /\ Heard'
<1>0. Typed /\ Wire /\ Flow /\ Screen /\ Heard
  BY DEF TuiInv
<1>1. /\ ui.at = "await" /\ reply \in Responses /\ reply # NoReply /\ reply.call = ui.call
      /\ reply' = NoReply /\ ~pending /\ Dones
      /\ UNCHANGED <<incoming, reader, stdout, running, said, begun>>
  BY <1>0, DoneIs
<1>2. Silent(stdout)
  BY <1>0, <1>1 DEF Wire, Waiting
<1>3. \A t \in Turns : ~Granted(t)'
  <2>1. Silent(stdout') /\ reply' = NoReply
    BY <1>1, <1>2
  <2>2. QED
    BY <2>1, SilenceGrantsNothing
<1>4. Owners' = {t \in Turns : active' = t}
  BY <1>3 DEF Owners
<1>5. Pipe' = Pipe
  BY <1>1, PipeStays DEF Mid
<1>6. Carried(Pipe, Pipe') /\ NoReady(Pipe')
  BY <1>0, <1>1, <1>5, SameCarried DEF Flow
<1>7. /\ overlay.kind \in {"none", "picker", "approval"}
      /\ \A busy \in BOOLEAN : Loading(busy).kind = overlay.kind /\ Loading(busy).turn = overlay.turn
      /\ \A busy \in BOOLEAN : Picker(busy).kind = "picker"
      /\ NoOverlay.kind = "none"
  BY <1>0, LoadingIs DEF Typed, ScreenTyped, Picker, NoOverlay
<1>8. /\ \A c : Call(c) => ui'.at = "insert" /\ ui'.call = c
      /\ Loop => ui'.at = "loop" /\ ui'.call = "none"
  BY DEF Call, Loop
\* The session is set up, listed or read again.
<1>9. CASE ui.call \in {"hello", "list", "create", "resume", "restore", "events"}
  <2>1. Calm
    BY <1>9 DEF Calm
  <2>2. Flow'
    BY <1>1, <1>6, <2>1, LoopFlow
  <2>3. running = NoTurn
    BY <1>0, <2>1 DEF Flow
  <2>4. (active' = active /\ stream' = stream) \/ active' = NoTurn
    BY <1>1, <1>9 DEF Dones, HelloDone, ListDone, CreateDone, ResumeDone, OperationFailed,
         RestoreDone, EventsDone, Resumed
  <2>5. Heard'
    BY <1>0, <1>1, <1>3, <1>5, <2>4 DEF Heard
  <2>6. Screen'
    <3>1. CASE ui.call = "hello"
      <4>1. HelloDone /\ active = NoTurn
        BY <1>0, <1>1, <3>1 DEF Dones, Screen
      <4>2. UNCHANGED <<session, active, refused>> /\ ui'.at = "insert"
            /\ \/ session /\ ui'.call = "restore" /\ UNCHANGED overlay
               \/ ~session /\ ui'.call = "list" /\ overlay'.kind = "picker"
        BY <1>7, <1>8, <4>1 DEF HelloDone
      <4>3. QED
        BY <1>0, <1>1, <2>3, <4>1, <4>2 DEF Screen, SettingUp
    <3>2. CASE ui.call = "list"
      <4>1. ListDone /\ ~session /\ active = NoTurn
        BY <1>0, <1>1, <3>2 DEF Dones, Screen
      <4>2. UNCHANGED <<session, active, refused>> /\ ui'.at = "loop" /\ ui'.call = "none"
            /\ overlay'.kind = "picker"
        BY <1>7, <1>8, <4>1 DEF ListDone
      <4>3. QED
        BY <1>1, <2>3, <4>1, <4>2 DEF Screen
    <3>3. CASE ui.call = "create"
      <4>1. CreateDone /\ ~session /\ active = NoTurn /\ overlay.kind # "approval"
        BY <1>0, <1>1, <3>3 DEF Dones, Screen
      <4>2. UNCHANGED <<session, active, refused>> /\ ui'.at \in {"loop", "insert"}
            /\ ui'.call \in {"none", "resume"} /\ overlay'.kind = overlay.kind
        BY <1>7, <1>8, <4>1 DEF CreateDone, OperationFailed
      <4>3. QED
        BY <1>1, <2>3, <4>1, <4>2 DEF Screen
    <3>4. CASE ui.call = "resume"
      <4>1. ResumeDone /\ ui'.at = "loop" /\ ui'.call = "none"
        BY <1>1, <1>8, <3>4 DEF Dones, ResumeDone
      <4>2. CASE reply.ok
        <5>1. session' /\ overlay'.kind = "none"
          BY <1>7, <4>1, <4>2 DEF ResumeDone, Resumed
        <5>2. QED
          BY <4>1, <5>1 DEF Screen
      <4>3. CASE ~reply.ok
        <5>1. UNCHANGED <<session, active>> /\ overlay'.kind = overlay.kind /\ refused' = TRUE
          BY <1>7, <4>1, <4>3 DEF ResumeDone, OperationFailed
        <5>2. QED
          BY <1>0, <1>1, <4>1, <5>1 DEF Screen
      <4>4. QED
        BY <4>2, <4>3
    <3>5. CASE ui.call = "restore"
      <4>1. RestoreDone /\ ui'.at = "insert" /\ ui'.call = "events" /\ active = NoTurn
        BY <1>0, <1>1, <1>8, <3>5 DEF Dones, RestoreDone, Screen
      <4>2. CASE reply.ok
        <5>1. session' /\ overlay'.kind = "none" /\ active' = NoTurn
          BY <1>7, <4>1, <4>2 DEF RestoreDone, Resumed
        <5>2. QED
          BY <4>1, <5>1 DEF Screen
      <4>3. CASE ~reply.ok
        <5>1. UNCHANGED <<session, active>> /\ overlay'.kind = overlay.kind /\ refused' = TRUE
          BY <1>7, <4>1, <4>3 DEF RestoreDone, OperationFailed
        <5>2. QED
          BY <1>0, <1>1, <4>1, <5>1 DEF Screen
      <4>4. QED
        BY <4>2, <4>3
    <3>6. CASE ui.call = "events"
      <4>1. EventsDone /\ active = NoTurn
        BY <1>0, <1>1, <3>6 DEF Dones, Screen
      <4>2. UNCHANGED <<session, active, overlay, refused>> /\ ui'.at \in {"loop", "insert"}
            /\ ui'.call \in {"none", "events"}
        BY <1>8, <4>1 DEF EventsDone
      <4>3. QED
        BY <1>0, <1>1, <3>6, <4>1, <4>2 DEF Screen, SettingUp
    <3>7. QED
      BY <1>9, <3>1, <3>2, <3>3, <3>4, <3>5, <3>6
  <2>7. QED
    BY <2>2, <2>5, <2>6
\* The turn is granted: all it has said is still under way.
<1>10. CASE ui.call = "submit" /\ reply.ok
  <2>1. SubmitDone
    BY <1>1, <1>10 DEF Dones
  <2>2. /\ active' = reply.turn /\ stream' = 0 /\ UNCHANGED <<session, overlay, refused>>
        /\ ui'.at = "loop" /\ ui'.call = "none"
    BY <1>8, <1>10, <2>1 DEF SubmitDone
  <2>3. session /\ active = NoTurn /\ overlay.kind = "none"
    BY <1>0, <1>10 DEF Screen
  <2>4. \A t \in Turns : Granted(t) <=> t = reply.turn
    <3>1. \A t : GrantedBy(reply, t) <=> t = reply.turn
      BY <1>1, <1>10, FrameIs DEF GrantedBy
    <3>2. \A t : ~\E i \in DOMAIN stdout : GrantedBy(stdout[i], t)
      BY <1>2 DEF Silent, GrantedBy
    <3>3. QED
      BY <3>1, <3>2 DEF Granted
  <2>5. Owners \subseteq Owners'
    BY <1>4, <2>2, <2>3, <2>4 DEF Owners, Turns, NoTurn
  <2>6. ~Calm'
    BY <2>2 DEF Calm
  <2>7. Flow'
    BY <1>1, <1>6, <2>5, <2>6, LoopFlow
  <2>8. Screen'
    BY <2>2, <2>3 DEF Screen
  <2>9. Heard'
    <3>1. active' # NoTurn => active' \in Turns
      BY DEF Typed, ScreenTyped
    <3>2. active' # NoTurn => Count(Pipe, Delta(active')) = said[active'] /\ said[active'] \in Nat
      BY <1>0, <2>2, <2>4, <3>1 DEF Heard, Typed, ChildTyped
    <3>3. QED
      BY <1>1, <1>3, <1>5, <2>2, <3>2 DEF Heard
  <2>10. QED
    BY <2>7, <2>8, <2>9
<1>11. CASE (ui.call = "submit" /\ ~reply.ok) \/ ui.call \in {"interrupt", "respond"}
  <2>1. /\ UNCHANGED <<session, active, stream, refused>> /\ overlay'.kind = overlay.kind
        /\ overlay'.turn = overlay.turn /\ ui'.at = "loop" /\ ui'.call = "none"
    <3>1. CASE ui.call = "submit" /\ ~reply.ok
      <4>1. SubmitDone
        BY <1>1, <3>1 DEF Dones
      <4>2. QED
        BY <1>7, <1>8, <3>1, <4>1 DEF SubmitDone, OperationFailed
    <3>2. CASE ui.call = "interrupt"
      <4>1. InterruptDone
        BY <1>1, <3>2 DEF Dones
      <4>2. QED
        BY <1>7, <1>8, <4>1 DEF InterruptDone, OperationFailed
    <3>3. CASE ui.call = "respond"
      <4>1. RespondDone
        BY <1>1, <3>3 DEF Dones
      <4>2. /\ [overlay EXCEPT !.busy = FALSE].kind = overlay.kind
            /\ [overlay EXCEPT !.busy = FALSE].turn = overlay.turn
        BY <1>0 DEF Typed, ScreenTyped
      <4>3. QED
        BY <1>8, <4>1, <4>2 DEF RespondDone
    <3>4. QED
      BY <1>11, <3>1, <3>2, <3>3
  <2>2. \A t \in Turns : ~Granted(t)
    <3>1. CASE ui.call = "submit" /\ ~reply.ok
      BY <1>2, <3>1 DEF Granted, GrantedBy, Silent
    <3>2. CASE ui.call # "submit"
      BY <1>0, <3>2, OwnersAre
    <3>3. QED
      BY <1>11, <3>1, <3>2
  <2>3. Owners \subseteq Owners'
    BY <1>4, <2>1, <2>2 DEF Owners
  <2>4. ~Calm'
    BY <2>1 DEF Calm
  <2>5. Flow'
    BY <1>1, <1>6, <2>3, <2>4, LoopFlow
  <2>6. Screen'
    BY <1>0, <1>1, <1>11, <2>1 DEF Screen, SettingUp
  <2>7. Heard'
    BY <1>0, <1>1, <1>3, <1>5, <2>1 DEF Heard
  <2>8. QED
    BY <2>5, <2>6, <2>7
<1>12. ui.call \in Calls
  BY <1>0, <1>1 DEF Wire, Calling, Typed, UiTyped
<1>13. QED
  BY <1>9, <1>10, <1>11, <1>12 DEF Calls

LEMMA StepHolds == TuiInv /\ [Next]_vars => TuiInv'
<1>1. ASSUME TuiInv, Next
      PROVE  TuiInv'
  <2>1. Typed' /\ Wire'
    BY <1>1, ConnectionHolds
  <2>2. CASE Spawn \/ WaitForReady \/ GivesUp \/ Reconnect \/ Quit
    BY <1>1, <2>1, <2>2, SpawnStory, ReadyStory, LeavingStory DEF TuiInv
  <2>3. CASE Insert \/ Send
    BY <1>1, <2>1, <2>3, RequestStory DEF TuiInv
  <2>4. CASE Done
    BY <1>1, <2>1, <2>4, DoneStory DEF TuiInv
  <2>5. CASE TakeEvent
    BY <1>1, <2>1, <2>5, TakeStory DEF TuiInv
  <2>6. CASE Type \/ SubmitPrompt \/ Interrupt \/ Decide \/ Pick
    BY <1>1, <2>1, <2>6, KeysStory DEF TuiInv
  <2>7. CASE Writer
    BY <1>1, <2>1, <2>7, WriterStory DEF TuiInv
  <2>8. CASE Reader
    BY <1>1, <2>1, <2>8, ReaderStory DEF TuiInv
  <2>9. CASE Serve \/ Turn \/ ChildDies
    BY <1>1, <2>1, <2>9, ChildStory DEF TuiInv
  <2>10. QED
    BY <1>1, <2>2, <2>3, <2>4, <2>5, <2>6, <2>7, <2>8, <2>9 DEF Next, Client, Keys
<1>2. ASSUME TuiInv, UNCHANGED vars
      PROVE  TuiInv'
  <2>1. UNCHANGED <<ui, pending, reply, outbound, incoming, cancelled, reader, writer, session, active,
                    stream, stopping, overlay, composer, child, store, running, said, asked, begun,
                    stdin, stdout, refused, late>>
    BY <1>2 DEF vars, clientVars, screenVars, childVars, pipeVars, historyVars
  <2>2. Pipe' = Pipe
    BY <2>1, PipeStays DEF Mid
  <2>3. \A t \in Turns : Granted(t)' <=> Granted(t)
    BY <2>1, GrantsStay
  <2>4. Typed'
    BY <1>2, Unchanged DEF Typed, TuiInv, vars, clientVars, screenVars, childVars, pipeVars, historyVars
  <2>5. Flow' /\ Screen' /\ Heard'
    BY <1>2, <2>1, <2>2, <2>3, <2>4, SameCarried, QuietStory
  <2>6. Connected' <=> Connected
    BY <2>1 DEF Connected
  <2>7. Waiting' <=> Waiting
    BY <2>1 DEF Waiting
  <2>8. Wire'
    BY <1>2, <2>1, <2>6, <2>7 DEF TuiInv, Wire, Silent, Answers, Calling
  <2>9. QED
    BY <2>4, <2>5, <2>8 DEF TuiInv
<1>3. QED
  BY <1>1, <1>2

\* The invariant says what the run's two invariants say.
LEMMA InvIsEnough == TuiInv => ScreenIsTrue /\ DialogueIsLive
<1> SUFFICES ASSUME TuiInv
             PROVE  ScreenIsTrue /\ DialogueIsLive
  OBVIOUS
<1>0. Typed /\ Wire /\ Screen /\ Heard
  BY DEF TuiInv
<1>1. TuiTypeOK
  BY <1>0 DEF Typed, UiTyped, ClientTyped, ScreenTyped, HistoryTyped, ChildTyped, TuiTypeOK, Ats
<1>2. \A t : InFlight(t) = Count(Pipe, Delta(t))
  BY DEF InFlight, Count, Places, Delta
<1>3. StreamIsWhole
  BY <1>0, <1>2 DEF StreamIsWhole, Heard
<1>4. DialogueIsLive
  <2>1. ui.at = "loop" => ui.call = "none"
    BY <1>0, AtLoop
  <2>2. QED
    BY <1>0, <2>1 DEF DialogueIsLive, Screen, SettingUp
<1>5. QED
  BY <1>1, <1>3, <1>4 DEF ScreenIsTrue

LEMMA Invariance == Spec => []TuiInv
  BY InitHolds, StepHolds, PTL DEF Spec

\* The terminal shows of the turn in progress what the child said of it, less
\* what is still under way between them: the reader's queue, the frame it
\* holds and the pipe (rpc/client.rs, app/reducer.rs), for every capacity of
\* the queue and however the child, its connection and the keys interleave.
THEOREM ScreenTellsTheTruth == Spec => []ScreenIsTrue
  BY Invariance, InvIsEnough, PTL

\* A dialogue the user faces is that of the turn on the screen, unless a
\* snapshot was refused on this connection (app/controller.rs, app/reducer.rs).
THEOREM DialoguesAreLive == Spec => []DialogueIsLive
  BY Invariance, InvIsEnough, PTL
=============================================================================
