-------------------------- MODULE RecursionLemmas --------------------------
(***************************************************************************)
(* Induction and recursion over intervals of integers, stated for sets and *)
(* functions.  The provers cannot instantiate a rule that has an operator  *)
(* as a parameter; of these rules, an instance is a set or a function.     *)
(***************************************************************************)
EXTENDS UriPath, SequencesExt, SequenceTheorems, WellFoundedInduction, TLAPS

(* Induction over the natural numbers, for a set of them.                  *)
LEMMA SetInduction ==
    ASSUME NEW T, 0 \in T, \A m \in Nat : m \in T => m + 1 \in T
    PROVE  \A m \in Nat : m \in T
<1> SUFFICES ASSUME Nat \ T # {} PROVE FALSE
  OBVIOUS
<1> DEFINE U == Nat \ T
           R == OpToRel(<, Nat)
<1>1. PICK x \in U : \A y \in U : ~ (<<y, x>> \in R)
  <2> HIDE DEF R, U
  <2>1. IsWellFoundedOn(R, Nat)
    BY NatLessThanWellFounded DEF R
  <2>2. U \subseteq Nat /\ U # {}
    BY DEF U
  <2> QED BY <2>1, <2>2, WFMin
<1>2. x \in Nat /\ x # 0 /\ x - 1 \in Nat /\ x - 1 < x
  OBVIOUS
<1>3. x - 1 \notin U
  BY <1>1, <1>2 DEF OpToRel
<1>4. (x - 1) + 1 \in T
  BY <1>2, <1>3
<1> QED BY <1>2, <1>4

(* Induction over the sequences over S, for a set of them.                 *)
LEMMA SeqInduction ==
    ASSUME NEW S, NEW T, <<>> \in T,
           \A q \in Seq(S), e \in S : q \in T => Append(q, e) \in T
    PROVE  \A q \in Seq(S) : q \in T
<1> DEFINE U == {m \in Nat : \A q \in Seq(S) : Len(q) = m => q \in T}
<1>1. 0 \in U
  <2>1. \A q \in Seq(S) : Len(q) = 0 => q = <<>>
    OBVIOUS
  <2> QED BY <2>1
<1>2. ASSUME NEW m \in Nat, m \in U PROVE m + 1 \in U
  <2> SUFFICES ASSUME NEW q \in Seq(S), Len(q) = m + 1 PROVE q \in T
    OBVIOUS
  <2>1. q # <<>>
    OBVIOUS
  <2>2. PICK p \in Seq(S), e \in S : q = Append(p, e)
    BY <2>1, SequenceEmptyOrAppend
  <2>3. Len(q) = Len(p) + 1 /\ Len(p) \in Nat
    BY <2>2, AppendProperties
  <2>4. p \in T
    BY <1>2, <2>3
  <2> QED BY <2>2, <2>4
<1>3. \A m \in Nat : m \in U
  <2> HIDE DEF U
  <2> QED BY <1>1, <1>2, SetInduction
<1> QED BY <1>3

(* Induction over an interval.                                             *)
LEMMA IntervalInduction ==
    ASSUME NEW a \in Int, NEW b \in Int, NEW T,
           a \in T, \A k \in a..b : k # a /\ k - 1 \in T => k \in T
    PROVE  \A k \in a..b : k \in T
<1> DEFINE U == {m \in Nat : a + m <= b => a + m \in T}
<1>1. 0 \in U
  OBVIOUS
<1>2. ASSUME NEW m \in Nat, m \in U PROVE m + 1 \in U
  <2> SUFFICES ASSUME a + (m + 1) <= b PROVE a + (m + 1) \in T
    OBVIOUS
  <2>1. /\ a + (m + 1) \in a..b /\ a + (m + 1) # a
        /\ (a + (m + 1)) - 1 = a + m /\ a + m <= b
    OBVIOUS
  <2> QED BY <1>2, <2>1
<1>3. \A m \in Nat : m \in U
  <2> HIDE DEF U
  <2> QED BY <1>1, <1>2, SetInduction
<1> TAKE k \in a..b
<1>4. k - a \in Nat /\ a + (k - a) = k
  OBVIOUS
<1>5. k - a \in U
  BY <1>3, <1>4
<1> QED BY <1>4, <1>5

(* What holds of a number if it holds of all greater ones.                 *)
Descends(T, N) ==
    \A m \in 1..N : (\A k \in 1..N : k > m => k \in T) => m \in T

(* Induction from the end of an interval to its beginning.                 *)
LEMMA DescendingInduction ==
    ASSUME NEW T, NEW N \in Nat, Descends(T, N)
    PROVE  \A m \in 1..N : m \in T
<1> DEFINE U == {d \in Nat : \A m \in 1..N : m + d > N => m \in T}
<1>1. 0 \in U
  OBVIOUS
<1>2. ASSUME NEW d \in Nat, d \in U PROVE d + 1 \in U
  <2> SUFFICES ASSUME NEW m \in 1..N, m + (d + 1) > N PROVE m \in T
    OBVIOUS
  <2>1. CASE m + d > N
    BY <1>2, <2>1
  <2>2. CASE ~ (m + d > N)
    <3>1. \A k \in 1..N : k > m => k \in T
      BY <1>2, <2>2
    <3> QED BY <3>1 DEF Descends
  <2> QED BY <2>1, <2>2
<1>3. \A d \in Nat : d \in U
  <2> HIDE DEF U
  <2> QED BY <1>1, <1>2, SetInduction
<1>4. N \in U
  BY <1>3
<1> QED BY <1>4

(* The steps of a recursion over a..b with values in S: the value at k     *)
(* from k and the value before it.                                         *)
Steps(a, b, S) == [(a..b) \X S -> S]

(* What they make of a first value.                                        *)
Made(g, a, b, S, first, step) ==
    /\ g \in [a..b -> S]
    /\ g[a] = first
    /\ \A k \in a..b : k # a => g[k] = step[<<k, g[k - 1]>>]

(* A function that is defined by a first value and by steps exists.        *)
LEMMA RecursionExists ==
    ASSUME NEW a \in Int, NEW b \in Int, a <= b, NEW S, NEW first \in S,
           NEW step \in Steps(a, b, S)
    PROVE  \E g : Made(g, a, b, S, first, step)
<1> DEFINE Good(g, c) ==
             g[a] = first /\ \A k \in a..c : k # a => g[k] = step[<<k, g[k - 1]>>]
           T == {c \in a..b : \E g \in [a..c -> S] : Good(g, c)}
<1> USE DEF Steps
<1>1. a \in T
  <2> DEFINE g == [k \in a..a |-> first]
  <2>1. g \in [a..a -> S] /\ Good(g, a)
    OBVIOUS
  <2>2. a \in a..b
    OBVIOUS
  <2> HIDE DEF g
  <2> QED BY <2>1, <2>2
<1>2. ASSUME NEW c \in a..b, c # a, c - 1 \in T PROVE c \in T
  <2>1. PICK g \in [a..(c - 1) -> S] : Good(g, c - 1)
    BY <1>2
  <2> DEFINE h == [k \in a..c |-> IF k = c THEN step[<<c, g[c - 1]>>] ELSE g[k]]
  <2>2. c - 1 \in a..(c - 1) /\ g[c - 1] \in S /\ a \in a..(c - 1)
    BY <1>2, <2>1
  <2>3. <<c, g[c - 1]>> \in (a..b) \X S
    BY <2>2
  <2>4. step[<<c, g[c - 1]>>] \in S
    BY <2>3
  <2>5. h \in [a..c -> S]
    <3>1. \A k \in a..c : k # c => k \in a..(c - 1)
      OBVIOUS
    <3> QED BY <2>1, <2>4, <3>1
  <2>6. h[a] = first
    BY <1>2, <2>1, <2>2
  <2>7. ASSUME NEW k \in a..c, k # a PROVE h[k] = step[<<k, h[k - 1]>>]
    <3>1. k \in a..c /\ k - 1 \in a..c /\ k - 1 # c
      BY <2>7
    <3>2. h[k - 1] = g[k - 1]
      BY <3>1
    <3>3. CASE k = c
      BY <3>1, <3>2, <3>3
    <3>4. CASE k # c
      <4>1. k \in a..(c - 1)
        BY <3>4
      <4>2. h[k] = g[k] /\ g[k] = step[<<k, g[k - 1]>>]
        BY <2>1, <2>7, <3>1, <3>4, <4>1
      <4> QED BY <3>2, <4>2
    <3> QED BY <3>3, <3>4
  <2> HIDE DEF h
  <2>8. Good(h, c)
    BY <2>6, <2>7
  <2> QED BY <2>5, <2>8
<1>3. \A k \in a..b : k \in T
  <2> HIDE DEF T
  <2> QED BY <1>1, <1>2, IntervalInduction
<1>4. b \in a..b
  OBVIOUS
<1> QED BY <1>3, <1>4 DEF Made

(* Two functions begin alike and go on alike.                              *)
Alike(f, g, a, b) ==
    /\ f[a] = g[a]
    /\ \A k \in a..b : k # a /\ f[k - 1] = g[k - 1] => f[k] = g[k]

(* Such functions have the same values.                                    *)
LEMMA RecursionUnique ==
    ASSUME NEW a \in Int, NEW b \in Int, NEW f, NEW g, Alike(f, g, a, b)
    PROVE  \A k \in a..b : f[k] = g[k]
<1> DEFINE T == {k \in Int : f[k] = g[k]}
<1>1. a \in T /\ \A k \in a..b : k # a /\ k - 1 \in T => k \in T
  BY DEF Alike
<1> HIDE DEF T
<1>2. \A k \in a..b : k \in T
  BY <1>1, IntervalInduction
<1> QED BY <1>2 DEF T

-----------------------------------------------------------------------------
(* FlattenSeq: the recursion it is defined by.                             *)
LEMMA FlattenDef ==
    ASSUME NEW S, NEW ss \in Seq(Seq(S)), ss # <<>>
    PROVE  \E f :
              /\ f \in [1..Len(ss) -> Seq(S)]
              /\ FlattenSeq(ss) = f[Len(ss)]
              /\ f[1] = ss[1]
              /\ \A k \in 1..Len(ss) : k # 1 => f[k] = f[k - 1] \o ss[k]
<1> DEFINE N == Len(ss)
           Joint(p, k) == p \o ss[k]
           Step(g, k) == IF k = 1 THEN ss[k] ELSE Joint(g[k - 1], k)
           step == [p \in (1..N) \X Seq(S) |-> Joint(p[2], p[1])]
           f == CHOOSE f : f = [k \in 1..N |-> Step(f, k)]
<1>1. N \in Nat /\ 1 <= N /\ \A k \in 1..N : ss[k] \in Seq(S)
  OBVIOUS
<1>2. FlattenSeq(ss) = f[N]
  BY <1>1 DEF FlattenSeq
<1>3. \A p \in Seq(S), k \in 1..N : Joint(p, k) \in Seq(S)
  BY <1>1, ConcatProperties
<1> HIDE DEF N, Joint
<1>4. step \in Steps(1, N, Seq(S))
  BY <1>3 DEF Steps
<1>5. PICK g \in [1..N -> Seq(S)] :
        g[1] = ss[1] /\ \A k \in 1..N : k # 1 => g[k] = step[<<k, g[k - 1]>>]
  <2>1. ss[1] \in Seq(S) /\ 1 \in Int /\ N \in Int
    BY <1>1
  <2>2. \E g : Made(g, 1, N, Seq(S), ss[1], step)
    <3> HIDE DEF step
    <3> QED BY <1>1, <1>4, <2>1, RecursionExists
  <2> QED BY <2>2 DEF Made
<1>6. ASSUME NEW k \in 1..N, k # 1 PROVE g[k] = Joint(g[k - 1], k)
  <2>1. k - 1 \in 1..N
    BY <1>1, <1>6
  <2>2. <<k, g[k - 1]>> \in (1..N) \X Seq(S)
    BY <1>5, <2>1
  <2>3. step[<<k, g[k - 1]>>] = Joint(g[k - 1], k)
    BY <2>2
  <2> HIDE DEF step
  <2> QED BY <1>5, <1>6, <2>3
<1>7. g = [k \in 1..N |-> Step(g, k)]
  <2>1. ASSUME NEW k \in 1..N PROVE g[k] = Step(g, k)
    BY <1>5, <1>6
  <2>2. g = [k \in 1..N |-> g[k]]
    BY <1>5
  <2> HIDE DEF Step
  <2> QED BY <2>1, <2>2
<1>8. f = [k \in 1..N |-> Step(f, k)]
  <2> HIDE DEF Step
  <2> QED BY <1>7
<1> HIDE DEF f
<1>9. \A k \in 1..N : f[k] = g[k]
  <2>1. f[1] = g[1]
    BY <1>1, <1>5, <1>8
  <2>2. ASSUME NEW k \in 1..N, k # 1, f[k - 1] = g[k - 1] PROVE f[k] = g[k]
    BY <1>6, <1>8, <2>2
  <2>3. Alike(f, g, 1, N)
    BY <2>1, <2>2 DEF Alike
  <2> QED BY <1>1, <2>3, RecursionUnique
<1>10. FlattenSeq(ss) = g[N]
  BY <1>1, <1>2, <1>9
<1> QED BY <1>5, <1>6, <1>10 DEF N, Joint

(* FlattenSeq of a sequence that grows at its end.                         *)
LEMMA FlattenAppend ==
    ASSUME NEW S, NEW ss \in Seq(Seq(S)), NEW x \in Seq(S)
    PROVE  /\ FlattenSeq(ss) \in Seq(S)
           /\ FlattenSeq(Append(ss, x)) = FlattenSeq(ss) \o x
<1> DEFINE tt == Append(ss, x)
           N == Len(ss)
<1>1. /\ tt \in Seq(Seq(S)) /\ tt # <<>> /\ Len(tt) = N + 1 /\ N \in Nat
      /\ tt[N + 1] = x /\ \A k \in 1..N : tt[k] = ss[k]
  BY AppendProperties
<1> HIDE DEF tt
<1>2. PICK g :
        /\ g \in [1..Len(tt) -> Seq(S)]
        /\ FlattenSeq(tt) = g[Len(tt)]
        /\ g[1] = tt[1]
        /\ \A k \in 1..Len(tt) : k # 1 => g[k] = g[k - 1] \o tt[k]
  <2>1. tt \in Seq(Seq(S)) /\ tt # <<>>
    BY <1>1
  <2> QED BY ONLY <2>1, FlattenDef
<1>3. CASE ss = <<>>
  <2>1. FlattenSeq(ss) = <<>> /\ <<>> \in Seq(S)
    BY <1>3 DEF FlattenSeq
  <2>2. N = 0 /\ FlattenSeq(tt) = x
    BY <1>1, <1>2, <1>3
  <2> QED BY <2>1, <2>2, ConcatEmptySeq DEF tt
<1>4. CASE ss # <<>>
  <2>1. PICK f :
          /\ f \in [1..N -> Seq(S)]
          /\ FlattenSeq(ss) = f[N]
          /\ f[1] = ss[1]
          /\ \A k \in 1..N : k # 1 => f[k] = f[k - 1] \o ss[k]
    BY <1>4, FlattenDef
  <2>2. 1 <= N
    BY <1>4
  <2> HIDE DEF N
  <2>3. \A k \in 1..N : f[k] = g[k]
    <3>1. f[1] = g[1]
      BY <1>1, <1>2, <2>1, <2>2
    <3>2. ASSUME NEW k \in 1..N, k # 1, f[k - 1] = g[k - 1] PROVE f[k] = g[k]
      <4>1. k \in 1..Len(tt) /\ tt[k] = ss[k]
        BY <1>1
      <4>2. f[k] = f[k - 1] \o ss[k]
        BY <2>1, <3>2
      <4>3. g[k] = g[k - 1] \o tt[k]
        BY <1>2, <3>2, <4>1
      <4> QED BY <3>2, <4>1, <4>2, <4>3
    <3>3. Alike(f, g, 1, N)
      BY <3>1, <3>2 DEF Alike
    <3>4. 1 \in Int /\ N \in Int
      BY <1>1
    <3> QED BY <3>3, <3>4, RecursionUnique
  <2>4. N + 1 \in 1..Len(tt) /\ N + 1 # 1 /\ (N + 1) - 1 = N /\ N \in 1..N
    BY <1>1, <2>2
  <2>5. g[N + 1] = g[N] \o x
    BY <1>1, <1>2, <2>4
  <2>6. FlattenSeq(tt) = g[N] \o x
    BY <1>1, <1>2, <2>5
  <2> QED BY <2>1, <2>3, <2>4, <2>6 DEF tt
<1> QED BY <1>3, <1>4

(* A sequence of which only the last entry grows.                          *)
LEMMA FlattenGrows ==
    ASSUME NEW S, NEW ss \in Seq(Seq(S)), NEW tt \in Seq(Seq(S)), NEW y \in Seq(S),
           ss # <<>>, Len(tt) = Len(ss),
           \A j \in 1..Len(ss) : j # Len(ss) => tt[j] = ss[j],
           tt[Len(ss)] = ss[Len(ss)] \o y
    PROVE  FlattenSeq(tt) = FlattenSeq(ss) \o y
<1> DEFINE N == Len(ss)
           F == SubSeq(ss, 1, N - 1)
<1>1. N \in Nat /\ N > 0 /\ ss[N] \in Seq(S) /\ tt[N] \in Seq(S)
  OBVIOUS
<1>2. F \in Seq(Seq(S)) /\ Len(F) = N - 1 /\ \A j \in 1..(N - 1) : F[j] = ss[j]
  BY <1>1
<1> HIDE DEF F
<1>3. ASSUME NEW uu \in Seq(Seq(S)), Len(uu) = N, uu[N] \in Seq(S),
             \A j \in 1..(N - 1) : uu[j] = F[j]
      PROVE  uu = Append(F, uu[N])
  <2> DEFINE w == Append(F, uu[N])
  <2>1. w \in Seq(Seq(S)) /\ Len(w) = N /\ w[N] = uu[N]
    BY <1>1, <1>2, <1>3, AppendProperties
  <2>2. \A j \in 1..(N - 1) : w[j] = F[j]
    BY <1>2, <1>3, AppendProperties
  <2>3. \A j \in 1..N : j = N \/ j \in 1..(N - 1)
    BY <1>1
  <2> HIDE DEF w
  <2>4. \A j \in 1..Len(w) : w[j] = uu[j]
    BY <1>3, <2>1, <2>2, <2>3
  <2>5. w = uu
    <3>1. w \in Seq(Seq(S)) /\ uu \in Seq(Seq(S)) /\ Len(w) = Len(uu)
      BY <1>3, <2>1
    <3> QED BY ONLY <2>4, <3>1, SeqEqual
  <2> QED BY <2>5 DEF w
<1>4. ss = Append(F, ss[N])
  BY <1>1, <1>2, <1>3
<1>5. tt = Append(F, tt[N])
  <2>1. \A j \in 1..(N - 1) : tt[j] = F[j]
    BY <1>1, <1>2
  <2> QED BY <1>1, <1>3, <2>1
<1>6. /\ FlattenSeq(F) \in Seq(S)
      /\ FlattenSeq(ss) = FlattenSeq(F) \o ss[N]
      /\ FlattenSeq(tt) = FlattenSeq(F) \o tt[N]
  <2>1. FlattenSeq(F) \in Seq(S) /\ FlattenSeq(Append(F, ss[N])) = FlattenSeq(F) \o ss[N]
    BY <1>1, <1>2, FlattenAppend
  <2>2. FlattenSeq(Append(F, tt[N])) = FlattenSeq(F) \o tt[N]
    BY <1>1, <1>2, FlattenAppend
  <2> QED BY <1>4, <1>5, <2>1, <2>2
<1>7. (FlattenSeq(F) \o ss[N]) \o y = FlattenSeq(F) \o (ss[N] \o y)
  <2>1. FlattenSeq(F) \in Seq(S) /\ ss[N] \in Seq(S) /\ y \in Seq(S)
    BY <1>1, <1>6
  <2>2. \A p, q \in Seq(S) : (p \o q) \o y = p \o (q \o y)
    BY ONLY y \in Seq(S), ConcatAssociative
  <2> QED BY ONLY <2>1, <2>2, Zenon
<1> QED BY <1>6, <1>7

(* What a function makes of the entries of a sequence.                     *)
Maps(S, T) == [S -> T]
Image(s, f) == [i \in DOMAIN s |-> f[s[i]]]

(* One more entry.                                                         *)
LEMMA ImageAppend ==
    ASSUME NEW S, NEW T, NEW f \in Maps(S, T), NEW s \in Seq(S), NEW x \in S
    PROVE  /\ Image(s, f) \in Seq(T)
           /\ Image(Append(s, x), f) = Append(Image(s, f), f[x])
<1> DEFINE N == Len(s)
           a == Image(Append(s, x), f)
           b == Append(Image(s, f), f[x])
<1> USE DEF Maps
<1>1. N \in Nat /\ DOMAIN s = 1..N /\ \A i \in 1..N : s[i] \in S
  BY ElementOfSeq
<1>2. Image(s, f) \in Seq(T) /\ Len(Image(s, f)) = N
  BY <1>1 DEF Image
<1>3. /\ Append(s, x) \in Seq(S) /\ Len(Append(s, x)) = N + 1
      /\ Append(s, x)[N + 1] = x /\ \A i \in 1..N : Append(s, x)[i] = s[i]
  BY AppendProperties
<1>4. a \in Seq(T) /\ Len(a) = N + 1
  <2>1. \A i \in 1..(N + 1) : Append(s, x)[i] \in S
    BY <1>3, ElementOfSeq
  <2> QED BY <1>1, <1>3, <2>1 DEF Image
<1>5. b \in Seq(T) /\ Len(b) = N + 1 /\ b[N + 1] = f[x]
  BY <1>2, AppendProperties
<1>6. ASSUME NEW i \in 1..(N + 1) PROVE a[i] = b[i]
  <2>1. a[i] = f[Append(s, x)[i]]
    BY <1>3 DEF Image
  <2>2. CASE i = N + 1
    BY <1>3, <1>5, <2>1, <2>2
  <2>3. CASE i \in 1..N
    <3>1. b[i] = Image(s, f)[i]
      BY <1>2, <2>3, AppendProperties
    <3>2. Image(s, f)[i] = f[s[i]]
      BY <1>1, <2>3 DEF Image
    <3> QED BY <1>3, <2>1, <2>3, <3>1, <3>2
  <2>4. i = N + 1 \/ i \in 1..N
    BY <1>1
  <2> QED BY <2>2, <2>3, <2>4
<1> HIDE DEF a, b
<1>7. a = b
  BY <1>4, <1>5, <1>6, SeqEqual
<1> QED BY <1>2, <1>7 DEF a, b

(* What is written for the entries of a sequence, one after the other.     *)
LEMMA FlattenImage ==
    ASSUME NEW S, NEW T, NEW f \in Maps(S, Seq(T)), NEW s \in Seq(S), NEW x \in S
    PROVE  /\ FlattenSeq(Image(s, f)) \in Seq(T)
           /\ FlattenSeq(Image(Append(s, x), f)) = FlattenSeq(Image(s, f)) \o f[x]
<1>1. /\ Image(s, f) \in Seq(Seq(T)) /\ f[x] \in Seq(T)
      /\ Image(Append(s, x), f) = Append(Image(s, f), f[x])
  <2>1. f[x] \in Seq(T)
    BY DEF Maps
  <2> QED BY <2>1, ImageAppend
<1> QED BY <1>1, FlattenAppend

-----------------------------------------------------------------------------
(* UriPath.  What an escape stands for is a character the model knows.     *)
LEMMA UnescapeKnown == \A a, b : Unescape(a, b) \subseteq Decoded
  BY DEF Unescape, OneDigit, Decoded, Escapes

(* One character of the loop over the URI: what g[i] is made of.           *)
Cat(x, p) == <<x>> \o p
DecodeEscape(u, i, P) == {Cat(x, p) : x \in Unescape(u[i + 1], u[i + 2]), p \in P}
DecodePlain(u, i, P) == {<<IF u[i] = "+" THEN "SP" ELSE u[i]>> \o p : p \in P}
DecodeStep(u, g, i) ==
    IF i > Len(u) THEN {<<>>}
    ELSE IF u[i] = "%"
         THEN IF i + 2 > Len(u) THEN {} ELSE DecodeEscape(u, i, g[i + 3])
         ELSE DecodePlain(u, i, g[i + 1])

(* The loop over the URI has a result for every URI, and its members are   *)
(* strings of characters of the URI and decoded ones.                      *)
LEMMA DecodeRuns ==
    ASSUME NEW C, NEW u \in Seq(C)
    PROVE  \E d : /\ Decode(u) = d[1]
                  /\ \A i \in 1..(Len(u) + 1) :
                       d[i] = DecodeStep(u, d, i) /\ d[i] \subseteq Seq(C \cup Decoded)
<1> DEFINE N == Len(u)
           From(g, i) == DecodeStep(u, g, i)
           Dom(m) == (N + 1 - m)..(N + 1)
           E == {m \in Nat : m <= N => \E g : g = [i \in Dom(m) |-> From(g, i)]}
<1>0. N \in Nat
  OBVIOUS
<1> HIDE DEF From, Dom
<1>1. \A m \in Nat : m \in E
  <2>1. 0 \in E
    <3> DEFINE g == [i \in Dom(0) |-> {<<>>}]
    <3>1. g = [i \in Dom(0) |-> From(g, i)]
      <4>1. ASSUME NEW i \in Dom(0) PROVE From(g, i) = {<<>>}
        BY <1>0 DEF From, DecodeStep, Dom
      <4> QED BY <4>1
    <3> QED BY <3>1
  <2>2. ASSUME NEW m \in Nat, m \in E PROVE m + 1 \in E
    <3> SUFFICES ASSUME m + 1 <= N
                 PROVE  \E g : g = [i \in Dom(m + 1) |-> From(g, i)]
      OBVIOUS
    <3>1. PICK g : g = [i \in Dom(m) |-> From(g, i)]
      BY <1>0, <2>2
    <3> DEFINE h == [i \in Dom(m + 1) |-> IF i = N - m THEN From(g, i) ELSE g[i]]
    <3>2. ASSUME NEW i \in Dom(m + 1) PROVE h[i] = From(h, i)
      <4>1. /\ i <= N => i + 1 \in Dom(m) /\ h[i + 1] = g[i + 1]
            /\ i + 2 <= N => i + 3 \in Dom(m) /\ h[i + 3] = g[i + 3]
        BY <1>0 DEF Dom
      <4>2. From(h, i) = From(g, i)
        <5> HIDE DEF h
        <5>0. i \in Int
          BY DEF Dom
        <5> QED BY <1>0, <4>1, <5>0 DEF From, DecodeStep
      <4>3. CASE i = N - m
        BY <4>2, <4>3
      <4>4. CASE i # N - m
        <5>1. i \in Dom(m)
          BY <1>0, <4>4 DEF Dom
        <5>2. g[i] = From(g, i)
          BY <3>1, <5>1
        <5> QED BY <4>2, <4>4, <5>2
      <4> QED BY <4>3, <4>4
    <3>3. h = [i \in Dom(m + 1) |-> h[i]]
      OBVIOUS
    <3> HIDE DEF h
    <3>4. h = [i \in Dom(m + 1) |-> From(h, i)]
      BY <3>2, <3>3
    <3> QED BY <3>4
  <2> HIDE DEF E
  <2> QED BY <2>1, <2>2, SetInduction
<1> DEFINE d == CHOOSE d : d = [i \in 1..(Len(u) + 1) |-> From(d, i)]
<1>2. d = [i \in 1..(Len(u) + 1) |-> From(d, i)]
  <2>1. \E g : g = [i \in Dom(N) |-> From(g, i)]
    BY <1>0, <1>1
  <2>2. Dom(N) = 1..(Len(u) + 1)
    BY <1>0 DEF Dom
  <2> QED BY <2>1, <2>2
<1>3. Decode(u) = d[1]
  BY DEF Decode, From, DecodeStep, Cat, DecodeEscape, DecodePlain
<1> HIDE DEF d
<1> DEFINE S == Seq(C \cup Decoded)
           T == {m \in Nat : m <= N => \A i \in Dom(m) : d[i] \subseteq S}
<1>4. \A m \in Nat : m \in T
  <2>0. \A i \in 1..(N + 1) : d[i] = From(d, i)
    BY <1>2
  <2>1. 0 \in T
    <3>1. ASSUME NEW i \in Dom(0) PROVE d[i] \subseteq S
      <4>1. i = N + 1
        BY <1>0 DEF Dom
      <4>2. d[i] = {<<>>}
        BY <1>0, <2>0, <4>1 DEF From, DecodeStep
      <4> QED BY <4>2
    <3> QED BY <3>1
  <2>2. ASSUME NEW m \in Nat, m \in T PROVE m + 1 \in T
    <3> SUFFICES ASSUME m + 1 <= N, NEW i \in Dom(m + 1) PROVE d[i] \subseteq S
      OBVIOUS
    <3>1. \A j \in Dom(m) : d[j] \subseteq S
      BY <1>0, <2>2
    <3>2. i \in Dom(m) \/ i = N - m
      BY <1>0 DEF Dom
    <3>3. CASE i = N - m
      <4>1. i \in 1..N /\ u[i] \in C
        BY <1>0, <3>3
      <4>2. i + 1 \in Dom(m)
        BY <1>0, <3>3 DEF Dom
      <4>3. i + 2 <= N => i + 3 \in Dom(m)
        BY <1>0, <3>3 DEF Dom
      <4>4. d[i] = From(d, i)
        BY <1>0, <2>0, <4>1
      <4>5. ASSUME NEW c \in C \cup Decoded, NEW p \in S PROVE <<c>> \o p \in S
        BY <4>5
      <4>6. "SP" \in Decoded
        BY DEF Decoded
      <4>7. CASE u[i] = "%" /\ i + 2 <= N
        <5> HIDE DEF S
        <5>1. d[i + 3] \subseteq S
          BY <3>1, <4>3, <4>7
        <5>2. d[i] = DecodeEscape(u, i, d[i + 3])
          BY <1>0, <4>1, <4>4, <4>7 DEF From, DecodeStep
        <5>3. ASSUME NEW x \in d[i] PROVE x \in S
          <6>2. PICK c \in Unescape(u[i + 1], u[i + 2]), p \in d[i + 3] : x = Cat(c, p)
            BY <5>2, <5>3, SMT DEF DecodeEscape
          <6> QED BY <4>5, <5>1, <6>2, UnescapeKnown DEF Cat
        <5> QED BY <5>3
      <4>8. CASE u[i] = "%" /\ ~ (i + 2 <= N)
        BY <1>0, <4>1, <4>4, <4>8 DEF From, DecodeStep
      <4>9. CASE u[i] # "%"
        <5> HIDE DEF S
        <5>1. d[i + 1] \subseteq S
          BY <3>1, <4>2
        <5>2. d[i] = DecodePlain(u, i, d[i + 1])
          BY <1>0, <4>1, <4>4, <4>9 DEF From, DecodeStep
        <5>3. ASSUME NEW x \in d[i] PROVE x \in S
          <6>1. PICK p \in d[i + 1] : x = <<IF u[i] = "+" THEN "SP" ELSE u[i]>> \o p
            BY <5>2, <5>3 DEF DecodePlain
          <6> QED BY <4>1, <4>5, <4>6, <5>1, <6>1
        <5> QED BY <5>3
      <4> QED BY <4>7, <4>8, <4>9
    <3> QED BY <3>1, <3>2, <3>3
  <2> HIDE DEF T
  <2> QED BY <2>1, <2>2, SetInduction
<1>5. \A i \in 1..(N + 1) : d[i] \subseteq S
  <2>1. Dom(N) = 1..(N + 1) /\ N \in T
    BY <1>0, <1>4 DEF Dom
  <2> QED BY <1>0, <2>1
<1>6. \A i \in 1..(N + 1) : d[i] = DecodeStep(u, d, i)
  BY <1>2 DEF From
<1> QED BY <1>3, <1>5, <1>6

(* Decoded paths are strings of such characters.                           *)
LEMMA DecodeTyped ==
    ASSUME NEW C, NEW u \in Seq(C)
    PROVE  Decode(u) \subseteq Seq(C \cup Decoded)
<1>1. 1 \in 1..(Len(u) + 1)
  OBVIOUS
<1> QED BY <1>1, DecodeRuns
=============================================================================
