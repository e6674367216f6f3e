------------------------ MODULE RequestParserProofs ------------------------
(***************************************************************************)
(* Proofs about RequestParser and UriPath, for requests of any length with *)
(* any characters and any width of the counter.                            *)
(*                                                                         *)
(* What a recursive function of the model computes (Number, Decode) is     *)
(* shown by SetInduction, the induction principle for a set of natural     *)
(* numbers: first that the function exists, then what its values are.  The *)
(* invariant ParserInv then says of every state of the parser how the text *)
(* read so far is made of the fields of the request.                       *)
(***************************************************************************)
EXTENDS RequestParser, RecursionLemmas

-----------------------------------------------------------------------------
(* std::stoull's number of a run of digits is a natural number.            *)
LEMMA NumberIsNat ==
    ASSUME NEW v, NEW i \in Nat, NEW j \in Int, i - 1 <= j,
           \A k \in i..j : is_digit(v[k])
    PROVE  Number(v, i, j) \in Nat
<1> DEFINE Value(g, k) == IF k = i - 1 THEN 0 ELSE 10 * g[k - 1] + Digit[v[k]]
           E == {m \in Nat : \E g : g = [k \in (i - 1)..(i - 1 + m) |-> Value(g, k)]}
<1>1. \A m \in Nat : m \in E
  <2>1. 0 \in E
    <3> DEFINE g == [k \in (i - 1)..(i - 1 + 0) |-> 0]
    <3>1. g = [k \in (i - 1)..(i - 1 + 0) |-> Value(g, k)]
      OBVIOUS
    <3> QED BY <3>1
  <2>2. ASSUME NEW m \in Nat, m \in E PROVE m + 1 \in E
    <3>1. PICK g : g = [k \in (i - 1)..(i - 1 + m) |-> Value(g, k)]
      BY <2>2
    <3> DEFINE h == [k \in (i - 1)..(i - 1 + (m + 1)) |->
                       IF k = i + m THEN Value(g, k) ELSE g[k]]
    <3>2. ASSUME NEW k \in (i - 1)..(i - 1 + (m + 1)) PROVE h[k] = Value(h, k)
      <4>1. CASE k = i + m
        BY <4>1
      <4>2. CASE k # i + m
        <5>1. k \in (i - 1)..(i - 1 + m)
          BY <4>2
        <5>2. h[k] = g[k] /\ g[k] = Value(g, k)
          BY <3>1, <4>2, <5>1
        <5>3. k # i - 1 => h[k - 1] = g[k - 1]
          BY <5>1
        <5> QED BY <5>2, <5>3
      <4> QED BY <4>1, <4>2
    <3>3. h = [k \in (i - 1)..(i - 1 + (m + 1)) |-> h[k]]
      OBVIOUS
    <3> HIDE DEF h
    <3>4. h = [k \in (i - 1)..(i - 1 + (m + 1)) |-> Value(h, k)]
      BY <3>2, <3>3
    <3> QED BY <3>4
  <2> HIDE DEF E
  <2> QED BY <2>1, <2>2, SetInduction
<1> DEFINE f == CHOOSE f : f = [k \in (i - 1)..j |-> Value(f, k)]
<1>2. f = [k \in (i - 1)..j |-> Value(f, k)]
  <2>1. j - (i - 1) \in Nat /\ i - 1 + (j - (i - 1)) = j
    OBVIOUS
  <2>2. \E g : g = [k \in (i - 1)..(i - 1 + (j - (i - 1))) |-> Value(g, k)]
    BY <1>1, <2>1
  <2>3. \E g : g = [k \in (i - 1)..j |-> Value(g, k)]
    BY <2>1, <2>2
  <2> QED BY <2>3
<1>3. Number(v, i, j) = f[j]
  BY DEF Number
<1> HIDE DEF f
<1> DEFINE T == {m \in Nat : i - 1 + m <= j => f[i - 1 + m] \in Nat}
<1>4. \A m \in Nat : m \in T
  <2>1. 0 \in T
    <3>1. f[i - 1 + 0] = 0
      BY <1>2
    <3> QED BY <3>1
  <2>2. ASSUME NEW m \in Nat, m \in T PROVE m + 1 \in T
    <3> SUFFICES ASSUME i - 1 + (m + 1) <= j PROVE f[i - 1 + (m + 1)] \in Nat
      OBVIOUS
    <3> DEFINE k == i + m
    <3>1. k \in i..j /\ k = i - 1 + (m + 1) /\ k - 1 = i - 1 + m
      OBVIOUS
    <3>2. f[k] = 10 * f[k - 1] + Digit[v[k]]
      BY <1>2, <3>1
    <3>3. f[k - 1] \in Nat
      BY <2>2, <3>1
    <3>4. Digit[v[k]] \in Nat
      <4>1. v[k] \in {"0", "1", "2", "3"}
        BY <3>1 DEF is_digit
      <4> QED BY <4>1 DEF Digit
    <3> HIDE DEF k
    <3> QED BY <3>1, <3>2, <3>3, <3>4
  <2> HIDE DEF T
  <2> QED BY <2>1, <2>2, SetInduction
<1>5. j - (i - 1) \in Nat /\ i - 1 + (j - (i - 1)) = j
  OBVIOUS
<1>6. f[i - 1 + (j - (i - 1))] \in Nat
  BY <1>4, <1>5
<1> QED BY <1>3, <1>5, <1>6

-----------------------------------------------------------------------------
(* A set of natural numbers that is not empty has a least member.          *)
LEMMA LeastMember ==
    ASSUME NEW S \in SUBSET Nat, S # {}
    PROVE  \E k \in S : \A j \in S : k <= j
<1> DEFINE R == OpToRel(<, Nat)
<1>1. PICK x \in S : \A y \in S : ~ (<<y, x>> \in R)
  <2> HIDE DEF R
  <2>1. IsWellFoundedOn(R, Nat)
    BY NatLessThanWellFounded DEF R
  <2> QED BY <2>1, WFMin
<1>2. ASSUME NEW j \in S PROVE x <= j
  <2>1. x \in Nat /\ j \in Nat
    OBVIOUS
  <2>2. ~ (j < x)
    BY <1>1, <2>1 DEF OpToRel
  <2> QED BY <2>1, <2>2
<1> QED BY <1>2

(* The longest run of members of S that follows position lo: what the      *)
(* CHOOSEs of Stoull pick exists.                                          *)
LEMMA LongestRun ==
    ASSUME NEW lo \in Nat, NEW n \in Nat, lo <= n, NEW S
    PROVE  \E k \in lo..n : /\ \A i \in (lo + 1)..k : i \in S
                            /\ k < n => k + 1 \notin S
<1> DEFINE K == {k \in lo..n : k = n \/ k + 1 \notin S}
<1>1. K \in SUBSET Nat /\ n \in K
  OBVIOUS
<1>2. PICK k \in K : \A j \in K : k <= j
  <2> HIDE DEF K
  <2> QED BY <1>1, LeastMember
<1>3. ASSUME NEW i \in (lo + 1)..k PROVE i \in S
  <2>1. i - 1 \in lo..n /\ i - 1 < k /\ i - 1 # n /\ (i - 1) + 1 = i
    BY <1>2
  <2>2. i - 1 \notin K
    <3> HIDE DEF K
    <3> QED BY <1>1, <1>2, <2>1
  <2> QED BY <2>1, <2>2
<1> QED BY <1>2, <1>3

(* std::stoull returns one value of unsigned long long or throws.          *)
LEMMA StoullRange ==
    ASSUME NEW v, Len(v) \in Nat
    PROVE  \A k \in Stoull(v) : k \in Nat /\ k < 2^Width /\ Stoull(v) = {k}
<1> DEFINE Blank == {i \in 1..Len(v) : v[i] \in {"SP", "HT"}}
           IsBlanks(k) == /\ \A i \in 1..k : v[i] \in {"SP", "HT"}
                          /\ k < Len(v) => v[k + 1] \notin {"SP", "HT"}
           blanks == CHOOSE k \in 0..Len(v) : IsBlanks(k)
<1>1. blanks \in 0..Len(v)
  <2>1. PICK k \in 0..Len(v) : /\ \A i \in (0 + 1)..k : i \in Blank
                               /\ k < Len(v) => k + 1 \notin Blank
    <3>1. 0 \in Nat /\ 0 <= Len(v)
      OBVIOUS
    <3> HIDE DEF Blank, IsBlanks
    <3> QED BY ONLY <3>1, Len(v) \in Nat, LongestRun
  <2>2. IsBlanks(k)
    BY <2>1
  <2> HIDE DEF IsBlanks
  <2> QED BY <2>2
<1> HIDE DEF blanks
<1> DEFINE signed == blanks < Len(v) /\ v[blanks + 1] \in {"+", "-"}
           first  == IF signed THEN blanks + 2 ELSE blanks + 1
<1>2. first \in Nat /\ first >= 1 /\ first - 1 <= Len(v)
  BY <1>1
<1> HIDE DEF first
<1> DEFINE Digits == {i \in first..Len(v) : is_digit(v[i])}
           IsLast(k) == /\ \A i \in first..k : is_digit(v[i])
                        /\ k < Len(v) => ~ is_digit(v[k + 1])
           last == CHOOSE k \in (first - 1)..Len(v) : IsLast(k)
<1>3. last \in (first - 1)..Len(v) /\ IsLast(last)
  <2>0. first - 1 \in Nat /\ (first - 1) + 1 = first
    BY <1>2
  <2>1. PICK k \in (first - 1)..Len(v) :
           /\ \A i \in ((first - 1) + 1)..k : i \in Digits
           /\ k < Len(v) => k + 1 \notin Digits
    <3> HIDE DEF Digits
    <3> QED BY <1>2, <2>0, LongestRun
  <2>2. IsLast(k)
    <3>1. ASSUME NEW i \in first..k PROVE is_digit(v[i])
      BY <2>0, <2>1
    <3>2. ASSUME k < Len(v) PROVE ~ is_digit(v[k + 1])
      BY <2>0, <2>1, <3>2, <1>2
    <3> QED BY <3>1, <3>2
  <2> HIDE DEF IsLast
  <2> QED BY <2>2
<1> HIDE DEF last
<1> DEFINE number == Number(v, first, last)
<1>4. number \in Nat
  <2>1. last \in Int /\ first - 1 <= last /\ \A k \in first..last : is_digit(v[k])
    BY <1>2, <1>3
  <2> QED BY <1>2, <2>1, NumberIsNat
<1>5. Stoull(v) = IF last < first \/ number >= 2^Width THEN {}
                  ELSE IF signed /\ v[blanks + 1] = "-"
                       THEN {(2^Width - number) % 2^Width}
                       ELSE {number}
  BY DEF Stoull, blanks, first, last
<1> HIDE DEF number, signed
<1>6. 2^Width \in Int
  BY ParserAssumption
<1>7. ASSUME NEW M \in Int, number < M
      PROVE  /\ (M - number) % M \in Nat
             /\ (M - number) % M < M
  BY <1>4, <1>7
<1>8. ~ (number >= 2^Width) => number < 2^Width
  BY <1>4, <1>6
<1> QED BY <1>4, <1>5, <1>6, <1>7, <1>8

(* GetHeaderValue returns a string.                                        *)
LEMMA HeaderValueString ==
    ASSUME NEW h \in Seq([name : Strings, value : Strings]), NEW n
    PROVE  GetHeaderValue(h, n) \in Strings
<1> DEFINE I == {i \in DOMAIN h : h[i].name = n}
<1>1. CASE I = {}
  BY <1>1 DEF GetHeaderValue, Strings
<1>2. CASE I # {}
  <2>1. I \in SUBSET Nat /\ I \subseteq DOMAIN h
    OBVIOUS
  <2>2. \E i \in I : \A j \in I : i <= j
    <3> HIDE DEF I
    <3> QED BY <1>2, <2>1, LeastMember
  <2> DEFINE i == CHOOSE i \in I : \A j \in I : i <= j
  <2>3. i \in DOMAIN h
    <3> HIDE DEF I
    <3> QED BY <2>1, <2>2
  <2>4. GetHeaderValue(h, n) = h[i].value
    BY <1>2 DEF GetHeaderValue
  <2> HIDE DEF i, I
  <2> DEFINE H == [name : Strings, value : Strings]
  <2>5. h[i] \in H
    <3> HIDE DEF H
    <3>1. h \in Seq(H)
      BY DEF H
    <3>2. i \in 1..Len(h)
      BY <2>3, <3>1, LenProperties
    <3> QED BY <3>1, <3>2, ElementOfSeq
  <2> QED BY <2>4, <2>5
<1> QED BY <1>1, <1>2

-----------------------------------------------------------------------------
(* The path of a request is a string of such characters.  It never holds   *)
(* "..", though an escape may have hidden it, nor ends in a slash.         *)
LEMMA InferPathSafe ==
    ASSUME NEW C, NEW u \in Seq(C)
    PROVE  /\ InferPath(<<>>, u) \in Seq(C \cup Decoded)
           /\ ~ HasDotDot(InferPath(<<>>, u))
           /\ InferPath(<<>>, u) # <<>>
                => InferPath(<<>>, u)[Len(InferPath(<<>>, u))] # "/"
<1> DEFINE S == C \cup Decoded
           q == CHOOSE q \in Decode(u) : TRUE
           p == InferPath(<<>>, u)
<1>0. ~ HasDotDot(<<>>)
  BY DEF HasDotDot
<1>1. CASE p = <<>>
  <2>1. <<>> \in Seq(S)
    OBVIOUS
  <2> QED BY <1>0, <1>1, <2>1
<1>2. CASE p # <<>>
  <2>1. Decode(u) # {}
    BY <1>2 DEF InferPath
  <2>2. q \in Seq(S)
    BY <2>1, DecodeTyped
  <2>3. <<>> \o q = q
    <3> HIDE DEF S, q
    <3> QED BY <2>2, ConcatEmptySeq
  <2>4. p = IF HasDotDot(q) THEN <<>>
            ELSE IF q # <<>> /\ q[Len(q)] = "/" THEN Append(q, "index") ELSE q
    BY <2>1, <2>3 DEF InferPath
  <2>5. "index" \in S
    BY DEF Decoded
  <2> HIDE DEF S, q, p
  <2>6. CASE p = q
    BY <1>2, <2>2, <2>4, <2>6 DEF S, p
  <2>7. CASE p = Append(q, "index")
    <3>1. ~ HasDotDot(q)
      BY <1>2, <2>4
    <3>2. /\ p \in Seq(S) /\ Len(p) = Len(q) + 1 /\ Len(q) \in Nat
          /\ \A i \in 1..Len(q) : p[i] = q[i]
          /\ p[Len(q) + 1] = "index"
      BY <2>2, <2>5, <2>7
    <3>3. ~ HasDotDot(p)
      <4> SUFFICES ASSUME NEW i \in 1..(Len(p) - 1), p[i] = ".", p[i + 1] = "."
                   PROVE  FALSE
        BY DEF HasDotDot
      <4>1. i # Len(q)
        BY <3>2
      <4>2. i \in 1..(Len(q) - 1) /\ q[i] = "." /\ q[i + 1] = "."
        BY <3>2, <4>1
      <4> QED BY <3>1, <4>2 DEF HasDotDot
    <3>4. p[Len(p)] # "/"
      BY <3>2
    <3> QED BY <3>2, <3>3, <3>4 DEF S, p
  <2> QED BY <1>2, <2>4, <2>6, <2>7
<1> QED BY <1>1, <1>2

-----------------------------------------------------------------------------
(* The inductive invariant.  Every request in the making is described by   *)
(* the state the parser is in.                                             *)
AnyChar == Char \cup {"SP", "CR", "LF", "/", "x"}
Text == Seq(AnyChar)

Line(r) == r.method \o <<"SP">> \o r.uri \o <<"SP">> \o r.version
Whole(r, tail) == \E q \in Text : r.raw = Line(r) \o <<"CR", "LF">> \o q \o tail
NoSpace(s) == \A i \in DOMAIN s : s[i] # "SP"

MethodStates == {"_method_start", "_method"}
LineStates == MethodStates \cup {"_uri"}
VersionStates ==
    {"_http_version_h", "_http_version_t_1", "_http_version_t_2", "_http_version_p",
     "_http_version_slash", "_http_version_major_start", "_http_version_major",
     "_http_version_minor_start", "_http_version_minor"}
BackStates ==
    {"_header_lws", "_header_name", "_space_before_header_value", "_header_value",
     "_expecting_newline_2"}
HeaderStates == BackStates \cup {"_header_line_start"}

(* The text read so far, and what of it the fields hold.                   *)
TextInv(r) ==
    /\ NoSpace(r.method) /\ NoSpace(r.uri)
    /\ r.state = "_method_start" => r.method = <<>>
    /\ r.state \in MethodStates => r.raw = r.method /\ r.uri = <<>>
    /\ r.state = "_uri" => r.raw = r.method \o <<"SP">> \o r.uri
    /\ r.state \in LineStates => r.version = <<>>
    /\ r.state \in VersionStates => r.raw = Line(r)
    /\ r.state = "_expecting_newline_1" => r.raw = Line(r) \o <<"CR">>
    /\ r.state \in HeaderStates => Whole(r, <<>>)
    /\ r.state = "_expecting_newline_3" => Whole(r, <<"CR">>)
    /\ r.state = "_body" => Whole(r, <<"CR", "LF">> \o r.body)

(* The path is the URI's from the second space on, and empty before.       *)
PathInv(r) ==
    /\ r.state \in LineStates => r.path = <<>>
    /\ r.state \notin LineStates => r.path = InferPath(<<>>, r.uri)

(* Headers begin after the first line; the last one is being added to.     *)
HeaderInv(r) ==
    /\ r.state \in LineStates => r.headers = <<>>
    /\ r.state \in BackStates => r.headers # <<>>

Announced(r) == Stoull(GetHeaderValue(r.headers, ContentLength))

(* Only the last state reads the body, and counts down what remains of it. *)
BodyInv(r) ==
    /\ r.state # "_body" => r.body = <<>>
    /\ r.state = "_body" => r.remaining > 0 /\ Announced(r) = {Len(r.body) + r.remaining}

Live(r) == r \in Request /\ TextInv(r) /\ PathInv(r) /\ HeaderInv(r) /\ BodyInv(r)

(* What is known of a request that Parse has returned.                     *)
Complete(r) ==
    /\ r \in Request
    /\ NoSpace(r.method) /\ NoSpace(r.uri)
    /\ Whole(r, <<"CR", "LF">> \o r.body)
    /\ r.path = InferPath(<<>>, r.uri)
    /\ IF Announced(r) = {} THEN r.body = <<>> ELSE Announced(r) = {Len(r.body)}

ParserInv ==
    /\ Live(req)
    /\ result \in {"good", "bad", "indeterminate"}
    /\ \A r \in parsed : Complete(r)
    /\ parsed # {} <=> result = "good"

-----------------------------------------------------------------------------
(* Records.  The fields of a request.                                      *)
LEMMA RequestFields ==
    ASSUME NEW r \in Request
    PROVE  /\ r.state \in States
           /\ r.raw \in Strings /\ r.method \in Strings /\ r.uri \in Strings
           /\ r.version \in Strings /\ r.body \in Strings
           /\ r.path \in Seq(Char \cup Decoded)
           /\ r.headers \in Seq([name : Strings, value : Strings])
           /\ r.remaining \in 0..(2^Width - 1)
  BY DEF Request

(* A request in the initial state of the parser.                           *)
LEMMA ResetLive ==
    ASSUME NEW r, r.remaining \in 0..(2^Width - 1)
    PROVE  Live(Reset(r))
<1> DEFINE s == Reset(r)
<1>1. /\ s.state = "_method_start" /\ s.raw = <<>> /\ s.method = <<>> /\ s.uri = <<>>
      /\ s.path = <<>> /\ s.version = <<>> /\ s.headers = <<>> /\ s.body = <<>>
  BY DEF Reset
<1>2. s \in Request
  BY DEF Reset, Request, States, Strings
<1> HIDE DEF s
<1>3. TextInv(s)
  BY <1>1 DEF TextInv, MethodStates, LineStates, VersionStates, HeaderStates,
              BackStates, NoSpace
<1>4. PathInv(s) /\ HeaderInv(s) /\ BodyInv(s)
  BY <1>1 DEF PathInv, HeaderInv, BodyInv, LineStates, MethodStates, BackStates
<1> QED BY <1>2, <1>3, <1>4 DEF Live, s

(* The three ways for Consume to return.                                   *)
LEMMA Outcomes ==
    ASSUME NEW r
    PROVE  /\ Live(r) /\ Continue(r) => ParserInv'
           /\ r \in Request /\ Bad(r) => ParserInv'
           /\ Complete(r) /\ Good(r) => ParserInv'
<1>1. ASSUME Live(r), Continue(r) PROVE ParserInv'
  <2>1. Live(req)'
    BY <1>1 DEF Continue
  <2> QED BY <1>1, <2>1 DEF Continue, ParserInv
<1>2. ASSUME r \in Request, Bad(r) PROVE ParserInv'
  <2>1. Live(Reset(r))
    BY <1>2, RequestFields, ResetLive
  <2>2. Live(req)'
    BY <1>2, <2>1 DEF Bad
  <2> QED BY <1>2, <2>2 DEF Bad, ParserInv
<1>3. ASSUME Complete(r), Good(r) PROVE ParserInv'
  <2>1. Live(Reset(r))
    BY <1>3, RequestFields, ResetLive DEF Complete
  <2>2. Live(req)'
    BY <1>3, <2>1 DEF Good
  <2>3. \A s \in parsed' : Complete(s)
    BY <1>3 DEF Good
  <2> QED BY <1>3, <2>2, <2>3 DEF Good, ParserInv
<1> QED BY <1>1, <1>2, <1>3

-----------------------------------------------------------------------------
(* Strings of characters are texts.                                        *)
LEMMA StringsAreText == Strings \subseteq Text /\ Char \subseteq AnyChar
<1>1. Char \subseteq AnyChar
  BY DEF AnyChar
<1>2. ASSUME NEW s \in Seq(Char) PROVE s \in Seq(AnyChar)
  BY <1>1, SeqMonotonic
<1> QED BY <1>1, <1>2 DEF Strings, Text

(* The first line and what it begins with.                                 *)
LEMMA LineText ==
    ASSUME NEW r \in Request
    PROVE  /\ r.method \o <<"SP">> \in Text
           /\ r.method \o <<"SP">> \o r.uri \in Text
           /\ r.method \o <<"SP">> \o r.uri \o <<"SP">> \in Text
           /\ Line(r) \in Text
           /\ Line(r) \o <<"CR", "LF">> \in Text
<1>1. r.method \in Seq(AnyChar) /\ r.uri \in Seq(AnyChar) /\ r.version \in Seq(AnyChar)
  BY RequestFields, StringsAreText DEF Text
<1>2. <<"SP">> \in Seq(AnyChar) /\ <<"CR", "LF">> \in Seq(AnyChar)
  BY DEF AnyChar
<1>3. r.method \o <<"SP">> \in Seq(AnyChar)
  BY <1>1, <1>2, ConcatProperties
<1>4. r.method \o <<"SP">> \o r.uri \in Seq(AnyChar)
  BY <1>1, <1>3, ConcatProperties
<1>5. r.method \o <<"SP">> \o r.uri \o <<"SP">> \in Seq(AnyChar)
  BY <1>2, <1>4, ConcatProperties
<1>6. Line(r) \in Seq(AnyChar)
  BY <1>1, <1>5, ConcatProperties DEF Line
<1>7. Line(r) \o <<"CR", "LF">> \in Seq(AnyChar)
  BY <1>2, <1>6, ConcatProperties
<1> QED BY <1>3, <1>4, <1>5, <1>6, <1>7 DEF Text

(* The end of a line.                                                      *)
LEMMA TwoChars ==
    ASSUME NEW S, NEW a \in S, NEW b \in S
    PROVE  <<a>> \o <<b>> = <<a, b>>
<1> DEFINE s == <<a>>
           t == <<b>>
           u == <<a, b>>
<1>1. /\ s \in Seq(S) /\ t \in Seq(S) /\ u \in Seq(S)
      /\ Len(s) = 1 /\ Len(t) = 1 /\ Len(u) = 2
      /\ s[1] = a /\ t[1] = b /\ u[1] = a /\ u[2] = b
  OBVIOUS
<1> HIDE DEF s, t, u
<1>2. s \o t \in Seq(S) /\ Len(s \o t) = 2 /\ (s \o t)[1] = a /\ (s \o t)[2] = b
  BY <1>1, ConcatProperties
<1>3. \A i \in 1..Len(s \o t) : (s \o t)[i] = u[i]
  BY <1>1, <1>2
<1>4. s \o t = u
  BY <1>1, <1>2, <1>3, SeqEqual
<1> QED BY <1>4 DEF s, t, u

(* Appending a character to two strings appends it to the second.          *)
LEMMA PushLast ==
    ASSUME NEW s \in Text, NEW t \in Text, NEW ch \in AnyChar
    PROVE  (s \o t) \o <<ch>> = s \o (t \o <<ch>>)
<1>1. <<ch>> \in Seq(AnyChar)
  OBVIOUS
<1> QED BY <1>1, ConcatAssociative DEF Text

(* Two texts make a text.                                                  *)
LEMMA ConcatText ==
    ASSUME NEW s \in Text, NEW t \in Text
    PROVE  s \o t \in Text
  BY ConcatProperties DEF Text

(* A character read after the first line belongs to what follows it.       *)
LEMMA WholeStep ==
    ASSUME NEW r \in Request, NEW s, NEW ch \in AnyChar,
           s.raw = r.raw \o <<ch>>,
           s.method = r.method, s.uri = r.uri, s.version = r.version
    PROVE  /\ Whole(r, <<>>) => Whole(s, <<>>)
           /\ \A tail \in Text : Whole(r, tail) => Whole(s, tail \o <<ch>>)
<1> DEFINE A == Line(r) \o <<"CR", "LF">>
<1>1. A \in Text
  BY LineText
<1>2. Line(s) = Line(r)
  BY DEF Line
<1> HIDE DEF A
<1>3. ASSUME Whole(r, <<>>) PROVE Whole(s, <<>>)
  <2>1. PICK q \in Text : r.raw = A \o q \o <<>>
    BY <1>3 DEF Whole, A
  <2>2. r.raw = A \o q
    <3>1. A \o q \in Seq(AnyChar)
      BY <1>1, ConcatText DEF Text
    <3> QED BY <2>1, <3>1, ConcatEmptySeq
  <2>3. s.raw = A \o (q \o <<ch>>)
    BY <1>1, <2>2, PushLast
  <2>4. q \o <<ch>> \in Text
    BY ConcatText DEF Text
  <2>5. s.raw = A \o (q \o <<ch>>) \o <<>>
    <3>1. A \o (q \o <<ch>>) \in Seq(AnyChar)
      BY <1>1, <2>4, ConcatText DEF Text
    <3> QED BY <2>3, <3>1, ConcatEmptySeq
  <2> QED BY <1>2, <2>4, <2>5 DEF Whole, A
<1>4. ASSUME NEW tail \in Text, Whole(r, tail) PROVE Whole(s, tail \o <<ch>>)
  <2>1. PICK q \in Text : r.raw = A \o q \o tail
    BY <1>4 DEF Whole, A
  <2>2. s.raw = A \o q \o (tail \o <<ch>>)
    <3>1. A \o q \in Text
      BY <1>1, ConcatText
    <3> QED BY <2>1, <3>1, PushLast
  <2> QED BY <1>2, <2>2 DEF Whole, A
<1> QED BY <1>3, <1>4

(* A string without a space has none after another character either.       *)
LEMMA NoSpaceAppend ==
    ASSUME NEW s \in Strings, NoSpace(s), NEW ch \in Char, ch # "SP"
    PROVE  NoSpace(s \o <<ch>>)
  BY DEF NoSpace, Strings

(* push_back on a string.                                                  *)
LEMMA AppendString ==
    ASSUME NEW s \in Strings, NEW ch \in Char
    PROVE  Append(s, ch) \in Strings /\ Append(s, ch) = s \o <<ch>>
  BY AppendProperties, AppendIsConcat DEF Strings

-----------------------------------------------------------------------------
(* The record after a character, with its state.                           *)
LEMMA ToFields ==
    ASSUME req \in Request, NEW ch \in Char, NEW st \in States
    PROVE  /\ To(st, ch) \in Request
           /\ To(st, ch).state = st
           /\ To(st, ch).raw = req.raw \o <<ch>>
           /\ To(st, ch).method = req.method
           /\ To(st, ch).uri = req.uri
           /\ To(st, ch).path = req.path
           /\ To(st, ch).version = req.version
           /\ To(st, ch).headers = req.headers
           /\ To(st, ch).body = req.body
           /\ To(st, ch).remaining = req.remaining
<1>1. Append(req.raw, ch) \in Strings
  BY RequestFields, AppendString
<1>2. Append(req.raw, ch) = req.raw \o <<ch>>
  BY RequestFields, AppendString
<1> QED BY <1>1, <1>2 DEF To, Read, Request

(* Reading without a change of state is the special case of it.            *)
LEMMA ReadIsTo ==
    ASSUME req \in Request, NEW ch \in Char
    PROVE  Read(ch) = To(req.state, ch) /\ Read(ch) \in Request
<1>1. Append(req.raw, ch) \in Strings
  BY RequestFields DEF Strings
<1> QED BY <1>1 DEF To, Read, Request

(* A refused character is harmless in every state.                         *)
LEMMA BadStep ==
    ASSUME Live(req), NEW ch \in Char, Bad(Read(ch))
    PROVE  ParserInv'
  BY ReadIsTo, Outcomes DEF Live

-----------------------------------------------------------------------------
(* The kinds of steps that read on.  In the method.                        *)
LEMMA PushMethod ==
    ASSUME Live(req), req.state \in MethodStates, NEW ch \in Char, IsToken(ch)
    PROVE  Live([To("_method", ch) EXCEPT !.method = Append(@, ch)])
<1> DEFINE t == To("_method", ch)
           r == [t EXCEPT !.method = Append(@, ch)]
<1>0. req \in Request /\ "_method" \in States
  BY DEF Live, States
<1>1. Append(req.method, ch) \in Strings /\ Append(req.method, ch) = req.method \o <<ch>>
  BY <1>0, RequestFields, AppendString
<1>2. /\ t \in Request /\ t.state = "_method"
      /\ t.raw = req.raw \o <<ch>> /\ t.method = req.method
      /\ t.uri = req.uri /\ t.path = req.path /\ t.version = req.version
      /\ t.headers = req.headers /\ t.body = req.body
  BY <1>0, ToFields
<1> HIDE DEF t
<1>3. /\ r \in Request /\ r.state = "_method"
      /\ r.raw = req.raw \o <<ch>> /\ r.method = req.method \o <<ch>>
      /\ r.uri = req.uri /\ r.path = req.path /\ r.version = req.version
      /\ r.headers = req.headers /\ r.body = req.body
  BY <1>1, <1>2 DEF Request
<1> HIDE DEF r
<1>4. NoSpace(r.method)
  BY <1>0, <1>3, NoSpaceAppend, RequestFields DEF Live, TextInv, IsToken, is_tspecial
<1>5. TextInv(r)
  BY <1>3, <1>4 DEF Live, TextInv, MethodStates, LineStates, VersionStates,
                    HeaderStates, BackStates
<1>6. PathInv(r) /\ HeaderInv(r) /\ BodyInv(r)
  BY <1>3 DEF Live, PathInv, HeaderInv, BodyInv, MethodStates, LineStates, BackStates
<1> QED BY <1>3, <1>5, <1>6 DEF Live, r, t

(* From the method to the URI.                                             *)
LEMMA BeginUri ==
    ASSUME Live(req), req.state = "_method", "SP" \in Char
    PROVE  Live(To("_uri", "SP"))
<1> DEFINE r == To("_uri", "SP")
<1>0. req \in Request /\ "_uri" \in States
  BY DEF Live, States
<1>1. /\ r \in Request /\ r.state = "_uri"
      /\ r.raw = req.raw \o <<"SP">> /\ r.method = req.method
      /\ r.uri = req.uri /\ r.path = req.path /\ r.version = req.version
      /\ r.headers = req.headers /\ r.body = req.body
  BY <1>0, ToFields
<1> HIDE DEF r
<1>2. r.uri = <<>> /\ r.raw = r.method \o <<"SP">>
  BY <1>1 DEF Live, TextInv, MethodStates
<1>3. r.raw = r.method \o <<"SP">> \o r.uri
  <2>1. r.method \o <<"SP">> \in Seq(AnyChar)
    BY <1>1, LineText DEF Text
  <2> QED BY <1>2, <2>1, ConcatEmptySeq
<1>4. TextInv(r)
  BY <1>1, <1>3 DEF Live, TextInv, MethodStates, LineStates, VersionStates,
                    HeaderStates, BackStates
<1>5. PathInv(r) /\ HeaderInv(r) /\ BodyInv(r)
  BY <1>1 DEF Live, PathInv, HeaderInv, BodyInv, MethodStates, LineStates, BackStates
<1> QED BY <1>1, <1>4, <1>5 DEF Live, r

(* In the URI.                                                             *)
LEMMA PushUri ==
    ASSUME Live(req), req.state = "_uri", NEW ch \in Char, ch # "SP"
    PROVE  Live([Read(ch) EXCEPT !.uri = Append(@, ch)])
<1> DEFINE t == To("_uri", ch)
           r == [t EXCEPT !.uri = Append(@, ch)]
<1>0. req \in Request /\ "_uri" \in States
  BY DEF Live, States
<1>1. Append(req.uri, ch) \in Strings /\ Append(req.uri, ch) = req.uri \o <<ch>>
  BY <1>0, RequestFields, AppendString
<1>2. /\ t \in Request /\ t.state = "_uri"
      /\ t.raw = req.raw \o <<ch>> /\ t.method = req.method
      /\ t.uri = req.uri /\ t.path = req.path /\ t.version = req.version
      /\ t.headers = req.headers /\ t.body = req.body
  BY <1>0, ToFields
<1>2a. Read(ch) = t
  BY <1>0, ReadIsTo
<1> HIDE DEF t
<1>3. /\ r \in Request /\ r.state = "_uri"
      /\ r.raw = req.raw \o <<ch>> /\ r.method = req.method
      /\ r.uri = req.uri \o <<ch>> /\ r.path = req.path /\ r.version = req.version
      /\ r.headers = req.headers /\ r.body = req.body
  BY <1>1, <1>2 DEF Request
<1> HIDE DEF r
<1>4. NoSpace(r.uri)
  BY <1>0, <1>3, NoSpaceAppend, RequestFields DEF Live, TextInv
<1>5. r.raw = r.method \o <<"SP">> \o r.uri
  <2>1. req.raw = req.method \o <<"SP">> \o req.uri
    BY DEF Live, TextInv
  <2>2. req.method \o <<"SP">> \in Text /\ req.uri \in Text /\ ch \in AnyChar
    BY <1>0, LineText, RequestFields, StringsAreText
  <2> QED BY <1>3, <2>1, <2>2, PushLast
<1>6. TextInv(r)
  BY <1>3, <1>4, <1>5 DEF Live, TextInv, MethodStates, LineStates, VersionStates,
                         HeaderStates, BackStates
<1>7. PathInv(r) /\ HeaderInv(r) /\ BodyInv(r)
  BY <1>3 DEF Live, PathInv, HeaderInv, BodyInv, MethodStates, LineStates, BackStates
<1> QED BY <1>2a, <1>3, <1>6, <1>7 DEF Live, r

(* From the URI to the version, where the path is inferred.                *)
LEMMA BeginVersion ==
    ASSUME Live(req), req.state = "_uri", "SP" \in Char
    PROVE  Live([To("_http_version_h", "SP") EXCEPT !.path = InferPath(@, req.uri)])
<1> DEFINE t == To("_http_version_h", "SP")
           r == [t EXCEPT !.path = InferPath(@, req.uri)]
<1>0. req \in Request /\ "_http_version_h" \in States
  BY DEF Live, States
<1>1. req.path = <<>>
  BY DEF Live, PathInv, LineStates
<1>2. InferPath(<<>>, req.uri) \in Seq(Char \cup Decoded)
  BY <1>0, RequestFields, InferPathSafe DEF Strings
<1>3. /\ t \in Request /\ t.state = "_http_version_h"
      /\ t.raw = req.raw \o <<"SP">> /\ t.method = req.method
      /\ t.uri = req.uri /\ t.path = req.path /\ t.version = req.version
      /\ t.headers = req.headers /\ t.body = req.body
  BY <1>0, ToFields
<1> HIDE DEF t
<1>4. /\ r \in Request /\ r.state = "_http_version_h"
      /\ r.raw = req.raw \o <<"SP">> /\ r.method = req.method
      /\ r.uri = req.uri /\ r.path = InferPath(<<>>, req.uri) /\ r.version = req.version
      /\ r.headers = req.headers /\ r.body = req.body
  BY <1>1, <1>2, <1>3 DEF Request
<1> HIDE DEF r
<1>5. r.raw = Line(r)
  <2>1. r.raw = r.method \o <<"SP">> \o r.uri \o <<"SP">> /\ r.version = <<>>
    BY <1>4 DEF Live, TextInv, LineStates
  <2>2. r.method \o <<"SP">> \o r.uri \o <<"SP">> \in Seq(AnyChar)
    BY <1>4, LineText DEF Text
  <2> QED BY <2>1, <2>2, ConcatEmptySeq DEF Line
<1>6. TextInv(r)
  BY <1>4, <1>5 DEF Live, TextInv, MethodStates, LineStates, VersionStates,
                    HeaderStates, BackStates
<1>7. PathInv(r) /\ HeaderInv(r) /\ BodyInv(r)
  BY <1>4 DEF Live, PathInv, HeaderInv, BodyInv, MethodStates, LineStates, BackStates
<1> QED BY <1>4, <1>6, <1>7 DEF Live, r, t

(* In the version.                                                         *)
LEMMA PushVersion ==
    ASSUME Live(req), req.state \in VersionStates, NEW st \in VersionStates, NEW ch \in Char
    PROVE  Live([To(st, ch) EXCEPT !.version = Append(@, ch)])
<1> DEFINE t == To(st, ch)
           r == [t EXCEPT !.version = Append(@, ch)]
<1>0. req \in Request /\ st \in States
  BY DEF Live, States, VersionStates
<1>1. Append(req.version, ch) \in Strings /\ Append(req.version, ch) = req.version \o <<ch>>
  BY <1>0, RequestFields, AppendString
<1>2. /\ t \in Request /\ t.state = st
      /\ t.raw = req.raw \o <<ch>> /\ t.method = req.method
      /\ t.uri = req.uri /\ t.path = req.path /\ t.version = req.version
      /\ t.headers = req.headers /\ t.body = req.body
  BY <1>0, ToFields
<1> HIDE DEF t
<1>3. /\ r \in Request /\ r.state = st
      /\ r.raw = req.raw \o <<ch>> /\ r.method = req.method
      /\ r.uri = req.uri /\ r.path = req.path /\ r.version = req.version \o <<ch>>
      /\ r.headers = req.headers /\ r.body = req.body
  BY <1>1, <1>2 DEF Request
<1> HIDE DEF r
<1>4. r.raw = Line(r)
  <2> DEFINE A == req.method \o <<"SP">> \o req.uri \o <<"SP">>
  <2>1. req.raw = A \o req.version
    BY DEF Live, TextInv, Line
  <2>2. A \in Text /\ req.version \in Text /\ ch \in AnyChar
    BY <1>0, LineText, RequestFields, StringsAreText
  <2>3. Line(r) = A \o (req.version \o <<ch>>)
    BY <1>3 DEF Line
  <2> HIDE DEF A
  <2> QED BY <1>3, <2>1, <2>2, <2>3, PushLast
<1>5. TextInv(r)
  BY <1>3, <1>4 DEF Live, TextInv, MethodStates, LineStates, VersionStates,
                    HeaderStates, BackStates
<1>6. PathInv(r) /\ HeaderInv(r) /\ BodyInv(r)
  BY <1>3 DEF Live, PathInv, HeaderInv, BodyInv, MethodStates, LineStates, VersionStates,
              BackStates
<1> QED BY <1>3, <1>5, <1>6 DEF Live, r, t

(* The end of the first line.                                              *)
LEMMA EndVersion ==
    ASSUME Live(req), req.state = "_http_version_minor", "CR" \in Char
    PROVE  Live(To("_expecting_newline_1", "CR"))
<1> DEFINE r == To("_expecting_newline_1", "CR")
<1>0. req \in Request /\ "_expecting_newline_1" \in States
  BY DEF Live, States
<1>1. /\ r \in Request /\ r.state = "_expecting_newline_1"
      /\ r.raw = req.raw \o <<"CR">> /\ r.method = req.method
      /\ r.uri = req.uri /\ r.path = req.path /\ r.version = req.version
      /\ r.headers = req.headers /\ r.body = req.body
  BY <1>0, ToFields
<1> HIDE DEF r
<1>2. r.raw = Line(r) \o <<"CR">>
  BY <1>1 DEF Live, TextInv, VersionStates, Line
<1>3. TextInv(r)
  BY <1>1, <1>2 DEF Live, TextInv, MethodStates, LineStates, VersionStates,
                    HeaderStates, BackStates
<1>4. PathInv(r) /\ HeaderInv(r) /\ BodyInv(r)
  BY <1>1 DEF Live, PathInv, HeaderInv, BodyInv, MethodStates, LineStates, BackStates
<1> QED BY <1>1, <1>3, <1>4 DEF Live, r

(* The line feed after the first line.                                     *)
LEMMA FirstNewline ==
    ASSUME Live(req), req.state = "_expecting_newline_1", "LF" \in Char
    PROVE  Live(To("_header_line_start", "LF"))
<1> DEFINE r == To("_header_line_start", "LF")
<1>0. req \in Request /\ "_header_line_start" \in States
  BY DEF Live, States
<1>1. /\ r \in Request /\ r.state = "_header_line_start"
      /\ r.raw = req.raw \o <<"LF">> /\ r.method = req.method
      /\ r.uri = req.uri /\ r.path = req.path /\ r.version = req.version
      /\ r.headers = req.headers /\ r.body = req.body
  BY <1>0, ToFields
<1> HIDE DEF r
<1>2. Whole(r, <<>>)
  <2> DEFINE A == Line(r) \o <<"CR", "LF">>
  <2>1. r.raw = (Line(r) \o <<"CR">>) \o <<"LF">>
    BY <1>1 DEF Live, TextInv, Line
  <2>2. Line(r) \in Text /\ <<"CR">> \in Text /\ "LF" \in AnyChar
    BY <1>1, LineText DEF Text, AnyChar
  <2>3. r.raw = Line(r) \o (<<"CR">> \o <<"LF">>)
    BY <2>1, <2>2, PushLast
  <2>4. <<"CR">> \o <<"LF">> = <<"CR", "LF">>
    <3>1. "CR" \in AnyChar /\ "LF" \in AnyChar
      BY DEF AnyChar
    <3> QED BY <3>1, TwoChars
  <2>5. A \in Seq(AnyChar) /\ r.raw = A
    BY <1>1, <2>3, <2>4, LineText DEF Text
  <2>6. <<>> \in Text /\ r.raw = A \o <<>> \o <<>>
    <3> HIDE DEF A
    <3>1. A \o <<>> = A
      BY <2>5, ConcatEmptySeq
    <3> QED BY <2>5, <3>1 DEF Text
  <2> QED BY <2>6 DEF Whole
<1>3. TextInv(r)
  BY <1>1, <1>2 DEF Live, TextInv, MethodStates, LineStates, VersionStates,
                    HeaderStates, BackStates
<1>4. PathInv(r) /\ HeaderInv(r) /\ BodyInv(r)
  BY <1>1 DEF Live, PathInv, HeaderInv, BodyInv, MethodStates, LineStates, BackStates
<1> QED BY <1>1, <1>3, <1>4 DEF Live, r

(* Among the headers: whatever happens to them, the last one must exist    *)
(* where it is added to.                                                   *)
LEMMA InHeaders ==
    ASSUME Live(req), req.state \in HeaderStates, NEW ch \in Char,
           NEW r \in Request, r.state \in HeaderStates,
           r.raw = req.raw \o <<ch>>, r.method = req.method, r.uri = req.uri,
           r.path = req.path, r.version = req.version, r.body = req.body,
           r.state \in BackStates => r.headers # <<>>
    PROVE  Live(r)
<1>1. Whole(r, <<>>)
  BY WholeStep, StringsAreText DEF Live, TextInv
<1>2. TextInv(r)
  BY <1>1 DEF Live, TextInv, MethodStates, LineStates, VersionStates, HeaderStates,
              BackStates
<1>3. PathInv(r)
  BY DEF Live, PathInv, MethodStates, LineStates, HeaderStates, BackStates
<1>4. HeaderInv(r)
  BY DEF HeaderInv, MethodStates, LineStates, HeaderStates, BackStates
<1>5. BodyInv(r)
  BY DEF Live, BodyInv, HeaderStates, BackStates
<1> QED BY <1>2, <1>3, <1>4, <1>5 DEF Live

(* Among the headers, without a change to them.                            *)
LEMMA ToInHeaders ==
    ASSUME Live(req), req.state \in HeaderStates, NEW ch \in Char,
           NEW st \in HeaderStates, st \in BackStates => req.headers # <<>>
    PROVE  Live(To(st, ch))
<1> DEFINE r == To(st, ch)
<1>0. req \in Request /\ st \in States
  BY DEF Live, States, HeaderStates, BackStates
<1>1. /\ r \in Request /\ r.state = st
      /\ r.raw = req.raw \o <<ch>> /\ r.method = req.method
      /\ r.uri = req.uri /\ r.path = req.path /\ r.version = req.version
      /\ r.headers = req.headers /\ r.body = req.body
  BY <1>0, ToFields
<1> HIDE DEF r
<1>2. Live(r)
  BY <1>1, InHeaders
<1> QED BY <1>2 DEF r

Header == [name : Strings, value : Strings]

(* A new header.                                                           *)
LEMMA NewHeader ==
    ASSUME Live(req), req.state = "_header_line_start", NEW ch \in Char
    PROVE  Live([To("_header_name", ch) EXCEPT
                   !.headers = Append(@, [name |-> <<ch>>, value |-> <<>>])])
<1> DEFINE t == To("_header_name", ch)
           h == Append(req.headers, [name |-> <<ch>>, value |-> <<>>])
           r == [t EXCEPT !.headers = Append(@, [name |-> <<ch>>, value |-> <<>>])]
<1>0. req \in Request /\ "_header_name" \in States
  BY DEF Live, States
<1>1. /\ t \in Request /\ t.state = "_header_name"
      /\ t.raw = req.raw \o <<ch>> /\ t.method = req.method
      /\ t.uri = req.uri /\ t.path = req.path /\ t.version = req.version
      /\ t.headers = req.headers /\ t.body = req.body
  BY <1>0, ToFields
<1>2. h \in Seq(Header) /\ h # <<>>
  <2>1. req.headers \in Seq(Header)
    BY <1>0, RequestFields DEF Header
  <2>2. [name |-> <<ch>>, value |-> <<>>] \in Header
    BY DEF Header, Strings
  <2> QED BY <2>1, <2>2, AppendProperties
<1> HIDE DEF t
<1>3. r = [t EXCEPT !.headers = h]
  BY <1>1
<1> HIDE DEF h, r
<1>4. /\ r \in Request /\ r.state = "_header_name"
      /\ r.raw = req.raw \o <<ch>> /\ r.method = req.method
      /\ r.uri = req.uri /\ r.path = req.path /\ r.version = req.version
      /\ r.headers = h /\ r.body = req.body
  BY <1>1, <1>2, <1>3 DEF Request, Header
<1>5. Live(r)
  BY <1>2, <1>4, InHeaders DEF HeaderStates, BackStates
<1> QED BY <1>5 DEF r, t

(* headers_.back(): the last header's name or value grows.                 *)
LEMMA PushHeader ==
    ASSUME Live(req), req.state \in BackStates, NEW st \in BackStates, NEW ch \in Char
    PROVE  Live(PushValue(To(st, ch), ch)) /\ Live(PushName(To(st, ch), ch))
<1> DEFINE t == To(st, ch)
           v == PushValue(t, ch)
           n == PushName(t, ch)
<1>0. req \in Request /\ st \in States
  BY DEF Live, States, BackStates
<1>1. /\ t \in Request /\ t.state = st
      /\ t.raw = req.raw \o <<ch>> /\ t.method = req.method
      /\ t.uri = req.uri /\ t.path = req.path /\ t.version = req.version
      /\ t.headers = req.headers /\ t.body = req.body
  BY <1>0, ToFields
<1>2. t.headers \in Seq(Header) /\ t.headers # <<>>
  BY <1>0, <1>1, RequestFields DEF Live, HeaderInv, Header
<1> HIDE DEF t
<1> DEFINE L == Len(t.headers)
           b == t.headers[L]
           hv == [t.headers EXCEPT ![L] = [b EXCEPT !.value = Append(@, ch)]]
           hn == [t.headers EXCEPT ![L] = [b EXCEPT !.name = Append(@, ch)]]
<1>3. L \in 1..Len(t.headers) /\ b \in Header
  <2>1. L \in 1..L
    BY <1>2, EmptySeq
  <2> QED BY <1>2, <2>1, ElementOfSeq
<1>4. hv \in Seq(Header) /\ hv # <<>> /\ hn \in Seq(Header) /\ hn # <<>>
  <2> HIDE DEF L, b
  <2>1. Append(b.value, ch) \in Strings /\ Append(b.name, ch) \in Strings
    <3>1. b.value \in Strings /\ b.name \in Strings
      BY <1>3 DEF Header
    <3> QED BY <3>1, AppendString
  <2>2. /\ [b EXCEPT !.value = Append(@, ch)] \in Header
        /\ [b EXCEPT !.name = Append(@, ch)] \in Header
    BY <1>3, <2>1 DEF Header
  <2> DEFINE bv == [b EXCEPT !.value = Append(@, ch)]
             bn == [b EXCEPT !.name = Append(@, ch)]
  <2> HIDE DEF bv, bn
  <2>3. bv \in Header /\ bn \in Header
    BY <2>2 DEF bv, bn
  <2>4. /\ [t.headers EXCEPT ![L] = bv] \in Seq(Header)
        /\ Len([t.headers EXCEPT ![L] = bv]) = Len(t.headers)
        /\ [t.headers EXCEPT ![L] = bn] \in Seq(Header)
        /\ Len([t.headers EXCEPT ![L] = bn]) = Len(t.headers)
    BY <1>2, <1>3, <2>3, ExceptSeq
  <2>5. Len(<<>>) = 0 /\ Len(t.headers) # 0
    BY <1>2, EmptySeq
  <2> QED BY <2>4, <2>5 DEF bv, bn
<1>5. v = [t EXCEPT !.headers = hv] /\ n = [t EXCEPT !.headers = hn]
  BY DEF PushValue, PushName
<1> HIDE DEF hv, hn, v, n
<1>6. /\ v \in Request /\ v.state = st
      /\ v.raw = req.raw \o <<ch>> /\ v.method = req.method
      /\ v.uri = req.uri /\ v.path = req.path /\ v.version = req.version
      /\ v.headers = hv /\ v.body = req.body
  BY <1>1, <1>4, <1>5 DEF Request, Header
<1>7. /\ n \in Request /\ n.state = st
      /\ n.raw = req.raw \o <<ch>> /\ n.method = req.method
      /\ n.uri = req.uri /\ n.path = req.path /\ n.version = req.version
      /\ n.headers = hn /\ n.body = req.body
  BY <1>1, <1>4, <1>5 DEF Request, Header
<1>8. req.state \in HeaderStates /\ st \in HeaderStates
  BY DEF HeaderStates
<1>9. Live(v)
  BY <1>4, <1>6, <1>8, InHeaders
<1>10. Live(n)
  BY <1>4, <1>7, <1>8, InHeaders
<1> QED BY <1>9, <1>10 DEF v, n, t

(* The empty line after the headers.                                       *)
LEMMA EmptyLine ==
    ASSUME Live(req), req.state = "_header_line_start", "CR" \in Char
    PROVE  Live(To("_expecting_newline_3", "CR"))
<1> DEFINE r == To("_expecting_newline_3", "CR")
<1>0. req \in Request /\ "_expecting_newline_3" \in States
  BY DEF Live, States
<1>1. /\ r \in Request /\ r.state = "_expecting_newline_3"
      /\ r.raw = req.raw \o <<"CR">> /\ r.method = req.method
      /\ r.uri = req.uri /\ r.path = req.path /\ r.version = req.version
      /\ r.headers = req.headers /\ r.body = req.body
  BY <1>0, ToFields
<1> HIDE DEF r
<1>2. Whole(r, <<"CR">>)
  <2>1. Whole(req, <<>>) /\ "CR" \in AnyChar /\ <<>> \in Text
    BY DEF Live, TextInv, HeaderStates, AnyChar, Text
  <2>2. Whole(r, <<>> \o <<"CR">>)
    BY <1>0, <1>1, <2>1, WholeStep
  <2>3. <<>> \o <<"CR">> = <<"CR">>
    OBVIOUS
  <2> QED BY <2>2, <2>3
<1>3. TextInv(r)
  BY <1>1, <1>2 DEF Live, TextInv, MethodStates, LineStates, VersionStates,
                    HeaderStates, BackStates
<1>4. PathInv(r) /\ HeaderInv(r) /\ BodyInv(r)
  BY <1>1 DEF Live, PathInv, HeaderInv, BodyInv, MethodStates, LineStates, BackStates
<1> QED BY <1>1, <1>3, <1>4 DEF Live, r

(* The line feed of the empty line, by what Content-Length says.           *)
LEMMA LastNewlineStep ==
    ASSUME Live(req), NEW ch \in Char, LastNewline(ch)
    PROVE  ParserInv'
<1>0. req \in Request /\ req.state = "_expecting_newline_3" /\ "_body" \in States
     /\ "_expecting_newline_3" \in States
  BY DEF Live, LastNewline, At, States
<1>1. CASE ch # "LF"
  BY <1>1, BadStep DEF LastNewline
<1>2. CASE ch = "LF"
  <2> DEFINE t == Read(ch)
             z == [t EXCEPT !.remaining = 0]
             b == To("_body", ch)
  <2>1. Read(ch) = To("_expecting_newline_3", ch) /\ Read(ch) \in Request
    BY <1>0, ReadIsTo
  <2>2. /\ t \in Request
        /\ t.raw = req.raw \o <<ch>> /\ t.method = req.method
        /\ t.uri = req.uri /\ t.path = req.path /\ t.version = req.version
        /\ t.headers = req.headers /\ t.body = req.body
    BY <1>0, <2>1, ToFields
  <2>3. /\ b \in Request /\ b.state = "_body"
        /\ b.raw = req.raw \o <<ch>> /\ b.method = req.method
        /\ b.uri = req.uri /\ b.path = req.path /\ b.version = req.version
        /\ b.headers = req.headers /\ b.body = req.body
    BY <1>0, ToFields
  <2> HIDE DEF t, b
  <2>4. ASSUME NEW r, r.raw = req.raw \o <<ch>>, r.method = req.method, r.uri = req.uri,
               r.version = req.version, r.body = req.body
        PROVE  /\ Whole(r, <<"CR", "LF">> \o r.body)
               /\ r.body = <<>> /\ NoSpace(r.method) /\ NoSpace(r.uri)
    <3>1. Whole(req, <<"CR">>) /\ req.body = <<>> /\ NoSpace(req.method) /\ NoSpace(req.uri)
      BY <1>0 DEF Live, TextInv, BodyInv
    <3>2. <<"CR">> \in Text /\ ch \in AnyChar /\ "CR" \in AnyChar /\ "LF" \in AnyChar
      BY StringsAreText DEF Text, AnyChar
    <3>3. Whole(r, <<"CR">> \o <<ch>>)
      BY <1>0, <2>4, <3>1, <3>2, WholeStep
    <3>4. <<"CR">> \o <<ch>> = <<"CR", "LF">>
      BY <1>2, <3>2, TwoChars
    <3>5. <<"CR", "LF">> \o <<>> = <<"CR", "LF">>
      <4>1. <<"CR", "LF">> \in Seq(AnyChar)
        BY <3>2
      <4> QED BY <4>1, ConcatEmptySeq
    <3> QED BY <2>4, <3>1, <3>3, <3>4, <3>5
  <2>5. req.path = InferPath(<<>>, req.uri)
    BY <1>0 DEF Live, PathInv, LineStates, MethodStates
  <2>6. Len(<<>>) = 0
    OBVIOUS
  <2>7. CASE Announced(req) = {} /\ Good(t)
    <3>1. Complete(t)
      BY <2>2, <2>4, <2>5, <2>7 DEF Complete, Announced
    <3> QED BY <2>7, <3>1, Outcomes
  <2>8. CASE Announced(req) = {0} /\ Good(z)
    <3>1. 0 \in 0..(2^Width - 1)
      BY ParserAssumption
    <3>2. /\ z \in Request
          /\ z.raw = req.raw \o <<ch>> /\ z.method = req.method
          /\ z.uri = req.uri /\ z.path = req.path /\ z.version = req.version
          /\ z.headers = req.headers /\ z.body = req.body
      BY <2>2, <3>1 DEF Request
    <3> HIDE DEF z
    <3>3. Complete(z)
      BY <2>4, <2>5, <2>6, <2>8, <3>2 DEF Complete, Announced
    <3> QED BY <2>8, <3>3, Outcomes
  <2>9. ASSUME NEW k \in Announced(req) \ {0}, Continue([b EXCEPT !.remaining = k])
        PROVE  ParserInv'
    <3> DEFINE r == [b EXCEPT !.remaining = k]
               v == GetHeaderValue(req.headers, ContentLength)
    <3>1. Len(v) \in Nat
      <4>1. v \in Seq(Char)
        BY <1>0, RequestFields, HeaderValueString DEF Strings
      <4> HIDE DEF v
      <4> QED BY <4>1
    <3>2. k \in Nat /\ k < 2^Width /\ Announced(req) = {k} /\ k > 0
      BY <3>1, StoullRange DEF Announced
    <3>3. k \in 0..(2^Width - 1)
      BY <3>2, ParserAssumption
    <3>4. /\ r \in Request /\ r.state = "_body" /\ r.remaining = k
          /\ r.raw = req.raw \o <<ch>> /\ r.method = req.method
          /\ r.uri = req.uri /\ r.path = req.path /\ r.version = req.version
          /\ r.headers = req.headers /\ r.body = req.body
      BY <2>3, <3>3 DEF Request
    <3> HIDE DEF r
    <3>5. TextInv(r)
      BY <2>4, <3>4 DEF TextInv, MethodStates, LineStates, VersionStates, HeaderStates,
                        BackStates
    <3>6. PathInv(r) /\ HeaderInv(r)
      BY <2>5, <3>4 DEF PathInv, HeaderInv, MethodStates, LineStates, BackStates
    <3>7. BodyInv(r)
      <4>1. Len(r.body) + r.remaining = k
        <5>1. r.body = <<>>
          BY <2>4, <3>4
        <5> QED BY <2>6, <3>2, <3>4, <5>1
      <4> QED BY <3>2, <3>4, <4>1 DEF BodyInv, Announced
    <3>8. Live(r)
      BY <3>4, <3>5, <3>6, <3>7 DEF Live
    <3> QED BY <2>9, <3>8, Outcomes DEF r
  <2> QED BY <1>2, <2>7, <2>8, <2>9 DEF LastNewline, Announced, t, b
<1> QED BY <1>1, <1>2

(* A character of the body; the counter, at least 1, does not wrap.        *)
LEMMA BodyStep ==
    ASSUME Live(req), NEW ch \in Char, Body(ch)
    PROVE  ParserInv'
<1> DEFINE t == Read(ch)
           r == [t EXCEPT !.body = Append(@, ch), !.remaining = (@ - 1) % 2^Width]
<1>0. req \in Request /\ req.state = "_body"
  BY DEF Live, Body, At
<1>1. Read(ch) = To("_body", ch) /\ "_body" \in States
  BY <1>0, ReadIsTo DEF States
<1>2. /\ t \in Request /\ t.state = "_body" /\ t.remaining = req.remaining
      /\ t.raw = req.raw \o <<ch>> /\ t.method = req.method
      /\ t.uri = req.uri /\ t.path = req.path /\ t.version = req.version
      /\ t.headers = req.headers /\ t.body = req.body
  BY <1>0, <1>1, ToFields
<1>3. Append(req.body, ch) \in Strings /\ Append(req.body, ch) = req.body \o <<ch>>
  BY <1>0, RequestFields, AppendString
<1>4. /\ req.remaining \in Nat /\ req.remaining > 0
      /\ (req.remaining - 1) % 2^Width = req.remaining - 1
      /\ req.remaining - 1 \in 0..(2^Width - 1)
  <2>1. req.remaining \in 0..(2^Width - 1) /\ req.remaining > 0
    BY <1>0, RequestFields DEF Live, BodyInv
  <2>2. 2^Width \in Int
    BY ParserAssumption
  <2>3. ASSUME NEW M \in Int, NEW n \in 0..(M - 1), n > 0
        PROVE  n \in Nat /\ (n - 1) % M = n - 1 /\ n - 1 \in 0..(M - 1)
    BY <2>3
  <2> QED BY <2>1, <2>2, <2>3
<1> HIDE DEF t
<1>5. /\ r \in Request /\ r.state = "_body" /\ r.remaining = req.remaining - 1
      /\ r.raw = req.raw \o <<ch>> /\ r.method = req.method
      /\ r.uri = req.uri /\ r.path = req.path /\ r.version = req.version
      /\ r.headers = req.headers /\ r.body = req.body \o <<ch>>
  BY <1>2, <1>3, <1>4 DEF Request
<1>6. IF r.remaining > 0 THEN Continue(r) ELSE Good(r)
  BY DEF Body, t
<1> HIDE DEF r
<1>7. Len(req.body) \in Nat /\ Len(r.body) = Len(req.body) + 1
  <2>1. req.body \in Seq(Char)
    BY <1>0, RequestFields DEF Strings
  <2> QED BY <1>5, <2>1
<1>8. Announced(r) = {Len(r.body) + r.remaining}
  <2>1. Announced(r) = {Len(req.body) + req.remaining}
    BY <1>0, <1>5 DEF Live, BodyInv, Announced
  <2>2. Len(req.body) + req.remaining = Len(r.body) + r.remaining
    <3> DEFINE n == Len(req.body)
               m == Len(r.body)
               j == req.remaining
               k == r.remaining
    <3>1. n \in Nat /\ m = n + 1 /\ j \in Nat /\ k = j - 1
      BY <1>4, <1>5, <1>7
    <3> HIDE DEF n, m, j, k
    <3>2. n + j = m + k
      BY <3>1
    <3> QED BY <3>2 DEF n, m, j, k
  <2> QED BY <2>1, <2>2
<1>9. Whole(r, <<"CR", "LF">> \o r.body)
  <2> DEFINE e == <<"CR", "LF">>
  <2>1. e \in Text /\ ch \in AnyChar /\ req.body \in Text
    BY <1>0, RequestFields, StringsAreText DEF Text, AnyChar
  <2>2. Whole(req, e \o req.body)
    BY <1>0 DEF Live, TextInv
  <2> HIDE DEF e
  <2>3. e \o req.body \in Text
    BY <2>1, ConcatText
  <2>4. Whole(r, (e \o req.body) \o <<ch>>)
    BY <1>0, <1>5, <2>1, <2>2, <2>3, WholeStep
  <2>5. (e \o req.body) \o <<ch>> = e \o r.body
    BY <1>5, <2>1, PushLast
  <2> QED BY <2>4, <2>5 DEF e
<1>10. /\ NoSpace(r.method) /\ NoSpace(r.uri)
       /\ r.path = InferPath(<<>>, r.uri)
  BY <1>0, <1>5 DEF Live, TextInv, PathInv, LineStates, MethodStates
<1>11. CASE r.remaining > 0
  <2>1. TextInv(r)
    BY <1>5, <1>9, <1>10 DEF TextInv, MethodStates, LineStates, VersionStates,
                            HeaderStates, BackStates
  <2>2. PathInv(r) /\ HeaderInv(r)
    BY <1>5, <1>10 DEF PathInv, HeaderInv, MethodStates, LineStates, BackStates
  <2>3. BodyInv(r)
    BY <1>5, <1>8, <1>11 DEF BodyInv
  <2>4. Live(r)
    BY <1>5, <2>1, <2>2, <2>3 DEF Live
  <2> QED BY <1>6, <1>11, <2>4, Outcomes
<1>12. CASE ~ (r.remaining > 0)
  <2>1. r.remaining = 0
    BY <1>4, <1>5, <1>12
  <2>2. Announced(r) = {Len(r.body)}
    BY <1>7, <1>8, <2>1
  <2>3. Complete(r)
    BY <1>5, <1>9, <1>10, <2>2 DEF Complete
  <2> QED BY <1>6, <1>12, <2>3, Outcomes
<1> QED BY <1>11, <1>12

-----------------------------------------------------------------------------
(* Every character that Consume is given preserves the invariant.  First   *)
(* the states of the request line.                                         *)
LEMMA RequestLineSteps ==
    ASSUME Live(req), NEW ch \in Char,
           \/ MethodStart(ch) \/ Method(ch) \/ Uri(ch)
           \/ HttpVersion(ch) \/ VersionStart(ch) \/ VersionMajor(ch) \/ VersionMinor(ch)
    PROVE  ParserInv'
<1> USE DEF At
<1>0. req \in Request
  BY DEF Live
<1>1. CASE MethodStart(ch)
  BY <1>1, BadStep, PushMethod, Outcomes DEF MethodStart, MethodStates
<1>2. CASE Method(ch)
  <2>1. req.state = "_method" /\ Read(ch) = To("_method", ch)
    BY <1>0, <1>2, ReadIsTo DEF Method
  <2>2. CASE ch = "SP"
    BY <1>2, <2>1, <2>2, BeginUri, Outcomes DEF Method, IsToken, is_tspecial
  <2>3. CASE ch # "SP"
    BY <1>2, <2>1, <2>3, BadStep, PushMethod, Outcomes DEF Method, MethodStates
  <2> QED BY <2>2, <2>3
<1>3. CASE Uri(ch)
  BY <1>3, BadStep, PushUri, BeginVersion, Outcomes DEF Uri
<1>4. CASE HttpVersion(ch)
  <2>1. PICK l \in Literal :
           /\ req.state = l[1]
           /\ \/ ch = l[2] /\ Continue([To(l[3], ch) EXCEPT !.version = Append(@, ch)])
              \/ ch # l[2] /\ Bad(Read(ch))
    BY <1>4 DEF HttpVersion
  <2>2. l[1] \in VersionStates /\ l[3] \in VersionStates
    BY DEF Literal, VersionStates
  <2>3. CASE Bad(Read(ch))
    BY <2>3, BadStep
  <2>4. CASE Continue([To(l[3], ch) EXCEPT !.version = Append(@, ch)])
    <3> DEFINE st == l[3]
    <3>1. st \in VersionStates /\ Continue([To(st, ch) EXCEPT !.version = Append(@, ch)])
      BY <2>2, <2>4
    <3> HIDE DEF st
    <3> QED BY <2>1, <2>2, <3>1, PushVersion, Outcomes
  <2> QED BY <2>1, <2>3, <2>4
<1>5. CASE VersionStart(ch)
  <2> DEFINE Pairs == {<<"_http_version_major_start", "_http_version_major">>,
                       <<"_http_version_minor_start", "_http_version_minor">>}
  <2>1. PICK next \in Pairs :
           /\ req.state = next[1]
           /\ \/ Continue([To(next[2], ch) EXCEPT !.version = Append(@, ch)])
              \/ Bad(Read(ch))
    BY <1>5 DEF VersionStart
  <2>2. next[1] \in VersionStates /\ next[2] \in VersionStates
    BY DEF VersionStates
  <2>3. CASE Bad(Read(ch))
    BY <2>3, BadStep
  <2>4. CASE Continue([To(next[2], ch) EXCEPT !.version = Append(@, ch)])
    <3> DEFINE st == next[2]
    <3>1. st \in VersionStates /\ Continue([To(st, ch) EXCEPT !.version = Append(@, ch)])
      BY <2>2, <2>4
    <3> HIDE DEF st
    <3> QED BY <2>1, <2>2, <3>1, PushVersion, Outcomes
  <2> QED BY <2>1, <2>3, <2>4
<1>6. CASE VersionMajor(ch)
  <2>1. req.state = "_http_version_major" /\ Read(ch) = To("_http_version_major", ch)
    BY <1>0, <1>6, ReadIsTo DEF VersionMajor
  <2>2. "_http_version_major" \in VersionStates /\ "_http_version_minor_start" \in VersionStates
    BY DEF VersionStates
  <2> QED BY <1>6, <2>1, <2>2, BadStep, PushVersion, Outcomes DEF VersionMajor
<1>7. CASE VersionMinor(ch)
  <2>1. req.state = "_http_version_minor" /\ Read(ch) = To("_http_version_minor", ch)
    BY <1>0, <1>7, ReadIsTo DEF VersionMinor
  <2>2. "_http_version_minor" \in VersionStates
    BY DEF VersionStates
  <2>3. CASE ch = "CR"
    BY <1>7, <2>1, <2>3, EndVersion, BadStep, Outcomes DEF VersionMinor, is_digit
  <2>4. CASE ch # "CR"
    BY <1>7, <2>1, <2>2, <2>4, BadStep, PushVersion, Outcomes DEF VersionMinor
  <2> QED BY <2>3, <2>4
<1> QED BY <1>1, <1>2, <1>3, <1>4, <1>5, <1>6, <1>7

(* The states of the headers; three of them share the third case.          *)
LEMMA HeaderSteps ==
    ASSUME Live(req), NEW ch \in Char,
           \/ Newline(ch) \/ HeaderLineStart(ch) \/ HeaderLws(ch) \/ HeaderName(ch)
           \/ SpaceBeforeHeaderValue(ch) \/ HeaderValue(ch)
    PROVE  ParserInv'
<1> USE DEF At
<1>0. req \in Request /\ (req.state \in BackStates => req.headers # <<>>)
  BY DEF Live, HeaderInv
<1>1. CASE Newline(ch)
  <2>1. CASE req.state = "_expecting_newline_1"
    BY <1>1, <2>1, FirstNewline, BadStep, Outcomes DEF Newline
  <2>2. CASE req.state = "_expecting_newline_2"
    <3>1. req.state \in HeaderStates /\ "_header_line_start" \in HeaderStates
          /\ "_header_line_start" \notin BackStates
      BY <2>2 DEF HeaderStates, BackStates
    <3>2. Live(To("_header_line_start", ch))
      BY <3>1, ToInHeaders
    <3> QED BY <1>1, <3>2, BadStep, Outcomes DEF Newline
  <2> QED BY <1>1, <2>1, <2>2 DEF Newline
<1>2. CASE HeaderLineStart(ch)
  <2>1. req.state = "_header_line_start"
    BY <1>2 DEF HeaderLineStart
  <2>2. CASE ch = "CR" /\ Continue(To("_expecting_newline_3", ch))
    BY <2>1, <2>2, EmptyLine, Outcomes
  <2>3. CASE req.headers # <<>> /\ Continue(To("_header_lws", ch))
    <3>1. req.state \in HeaderStates /\ "_header_lws" \in HeaderStates
      BY <2>1 DEF HeaderStates, BackStates
    <3>2. Live(To("_header_lws", ch))
      BY <2>3, <3>1, ToInHeaders
    <3> QED BY <2>3, <3>2, Outcomes
  <2>4. CASE Bad(Read(ch))
    BY <2>4, BadStep
  <2>5. CASE Continue([To("_header_name", ch) EXCEPT
                         !.headers = Append(@, [name |-> <<ch>>, value |-> <<>>])])
    BY <2>1, <2>5, NewHeader, Outcomes
  <2> QED BY <1>2, <2>2, <2>3, <2>4, <2>5 DEF HeaderLineStart
<1>3. CASE /\ req.state \in BackStates
           /\ \/ Bad(Read(ch))
              \/ \E st \in BackStates : Continue(To(st, ch))
              \/ \E st \in BackStates : \/ Continue(PushValue(To(st, ch), ch))
                                        \/ Continue(PushName(To(st, ch), ch))
  <2>1. CASE Bad(Read(ch))
    BY <2>1, BadStep
  <2>2. ASSUME NEW st \in BackStates, Continue(To(st, ch)) PROVE ParserInv'
    <3>1. req.state \in HeaderStates /\ st \in HeaderStates
      BY <1>3 DEF HeaderStates
    <3>2. Live(To(st, ch))
      BY <1>0, <1>3, <3>1, ToInHeaders
    <3> QED BY <2>2, <3>2, Outcomes
  <2>3. ASSUME NEW st \in BackStates,
               Continue(PushValue(To(st, ch), ch)) \/ Continue(PushName(To(st, ch), ch))
        PROVE  ParserInv'
    BY <1>3, <2>3, PushHeader, Outcomes
  <2> QED BY <1>3, <2>1, <2>2, <2>3
<1>4. CASE HeaderLws(ch)
  <2>1. req.state = "_header_lws" /\ Read(ch) = To("_header_lws", ch)
    BY <1>0, <1>4, ReadIsTo DEF HeaderLws
  <2> QED BY <1>3, <1>4, <2>1 DEF HeaderLws, BackStates
<1>5. CASE HeaderName(ch)
  <2>1. req.state = "_header_name" /\ Read(ch) = To("_header_name", ch)
    BY <1>0, <1>5, ReadIsTo DEF HeaderName
  <2> QED BY <1>3, <1>5, <2>1 DEF HeaderName, BackStates
<1>6. CASE SpaceBeforeHeaderValue(ch)
  BY <1>3, <1>6 DEF SpaceBeforeHeaderValue, BackStates
<1>7. CASE HeaderValue(ch)
  <2>1. req.state = "_header_value" /\ Read(ch) = To("_header_value", ch)
    BY <1>0, <1>7, ReadIsTo DEF HeaderValue
  <2> QED BY <1>3, <1>7, <2>1 DEF HeaderValue, BackStates
<1> QED BY <1>1, <1>2, <1>4, <1>5, <1>6, <1>7

(* The invariant holds before the first character.                        *)
LEMMA ParserInvInit == Init => ParserInv
<1> SUFFICES ASSUME Init PROVE ParserInv
  OBVIOUS
<1>1. 0 \in 0..(2^Width - 1)
  BY ParserAssumption
<1>2. Live(Reset([remaining |-> 0]))
  BY <1>1, ResetLive
<1> QED BY <1>2 DEF Init, ParserInv

(* The induction step: a step of Next is one call of Consume.              *)
LEMMA ParserInvNext == ParserInv /\ [Next]_vars => ParserInv'
<1> SUFFICES ASSUME ParserInv, [Next]_vars PROVE ParserInv'
  OBVIOUS
<1>1. CASE Next
  <2>0. Live(req)
    BY DEF ParserInv
  <2>1. PICK ch \in Input(req.state, req.uri = <<>>) : Consume(ch)
    BY <1>1 DEF Next
  <2>2. ch \in Char
    <3>1. req.state \in States /\ (req.uri = <<>>) \in BOOLEAN
      BY <2>0, RequestFields DEF Live
    <3> QED BY <2>1, <3>1, ParserAssumption
  <2> HIDE DEF Live
  <2> QED BY <2>0, <2>1, <2>2, RequestLineSteps, HeaderSteps, LastNewlineStep, BodyStep
          DEF Consume
<1>2. CASE UNCHANGED vars
  BY <1>2 DEF vars, ParserInv
<1> QED BY <1>1, <1>2

(* The inductive invariant of the parser: at every character the text read *)
(* so far is accounted for by the fields and the parser's state.           *)
THEOREM ParserInvariant == Spec => []ParserInv
  BY ParserInvInit, ParserInvNext, PTL DEF Spec

(* Type correctness: the counter keeps to the range of its type, and a     *)
(* request is handed over exactly with "good".                             *)
THEOREM ParserTypes == Spec => []TypeOK
<1>1. ParserInv => TypeOK
  BY DEF ParserInv, TypeOK, Live, Complete
<1> QED BY <1>1, ParserInvariant, PTL

(* headers_.back() is never called on an empty vector (request.cc).        *)
THEOREM BackIsDefined == Spec => []LastHeaderExists
<1>1. ParserInv => LastHeaderExists
  BY DEF ParserInv, Live, HeaderInv, BackStates, LastHeaderExists
<1> QED BY <1>1, ParserInvariant, PTL

(* The body is as long as the first Content-Length says, read one by one,  *)
(* and the counter of what remains never wraps.                            *)
THEOREM BodiesAsAnnounced == Spec => []BodyAsAnnounced
<1>1. ParserInv => BodyAsAnnounced
  BY DEF ParserInv, Live, BodyInv, Complete, Announced, BodyAsAnnounced
<1> QED BY <1>1, ParserInvariant, PTL

(* The path a handler is given is this request's, and has no "..".         *)
THEOREM PathsAreSafe == Spec => []PathIsSafe
<1>1. ParserInv => PathIsSafe
  <2> SUFFICES ASSUME NEW r, Complete(r)
               PROVE  /\ r.path = InferPath(<<>>, r.uri)
                      /\ ~ HasDotDot(r.path)
                      /\ r.path # <<>> => r.path[Len(r.path)] # "/"
    BY DEF ParserInv, PathIsSafe
  <2>1. r.uri \in Seq(Char) /\ r.path = InferPath(<<>>, r.uri)
    BY RequestFields DEF Complete, Strings
  <2> QED BY <2>1, InferPathSafe
<1> QED BY <1>1, ParserInvariant, PTL

-----------------------------------------------------------------------------
(* Where a text is cut.                                                    *)
LEMMA Assoc ==
    ASSUME NEW a \in Text, NEW b \in Text, NEW c \in Text
    PROVE  (a \o b) \o c = a \o (b \o c)
  BY ConcatAssociative DEF Text

(* b is cut out of s between a and c.                                      *)
IsPart(s, a, b, c) ==
    /\ SubSeq(s, Len(a) + 1, Len(a) + Len(b)) = b
    /\ Len(s) = Len(a) + Len(b) + Len(c)

(* The part between two others.                                            *)
LEMMA PartIs ==
    ASSUME NEW a \in Text, NEW b \in Text, NEW c \in Text
    PROVE  IsPart(a \o b \o c, a, b, c)
<1> DEFINE ab == a \o b
           s == ab \o c
           m == Len(a) + 1
           n == Len(a) + Len(b)
           t == SubSeq(s, m, n)
<1>0. Len(a) \in Nat /\ Len(b) \in Nat /\ Len(c) \in Nat
  BY LenProperties DEF Text
<1>1. /\ ab \in Seq(AnyChar) /\ Len(ab) = Len(a) + Len(b)
      /\ \A i \in 1..(Len(a) + Len(b)) : ab[i] = IF i <= Len(a) THEN a[i] ELSE b[i - Len(a)]
  BY ConcatProperties DEF Text
<1> HIDE DEF ab
<1>2. /\ s \in Seq(AnyChar) /\ Len(s) = Len(ab) + Len(c)
      /\ \A i \in 1..(Len(ab) + Len(c)) : s[i] = IF i <= Len(ab) THEN ab[i] ELSE c[i - Len(ab)]
  <2>1. ab \in Seq(AnyChar) /\ c \in Seq(AnyChar)
    BY <1>1 DEF Text
  <2> QED BY ONLY <2>1, ConcatProperties
<1> HIDE DEF s
<1>3. \A i \in 1..Len(b) : s[m + i - 1] = b[i] /\ b[i] \in AnyChar
  <2> SUFFICES ASSUME NEW i \in 1..Len(b) PROVE s[m + i - 1] = b[i] /\ b[i] \in AnyChar
    OBVIOUS
  <2> DEFINE k == m + i - 1
  <2>1. /\ k \in 1..(Len(ab) + Len(c)) /\ k <= Len(ab) /\ k \in 1..(Len(a) + Len(b))
        /\ ~ (k <= Len(a)) /\ k - Len(a) = i
    BY <1>0, <1>1
  <2>2. b[i] \in AnyChar
    BY ElementOfSeq DEF Text
  <2> HIDE DEF k
  <2>3. s[k] = b[i]
    BY <1>1, <1>2, <2>1
  <2> QED BY <2>2, <2>3 DEF k
<1>4. \A j \in m..n : s[j] \in AnyChar
  <2> SUFFICES ASSUME NEW j \in m..n PROVE s[j] \in AnyChar
    OBVIOUS
  <2>1. j - Len(a) \in 1..Len(b) /\ m + (j - Len(a)) - 1 = j
    BY <1>0
  <2> QED BY <1>3, <2>1
<1>5. /\ t \in Seq(AnyChar) /\ Len(t) = (IF m <= n THEN n - m + 1 ELSE 0)
      /\ \A i \in 1..(n - m + 1) : t[i] = s[m + i - 1]
  <2>1. m \in Int /\ n \in Int
    BY <1>0
  <2> HIDE DEF m, n
  <2> QED BY <1>4, <2>1, SubSeqProperties
<1>6. n - m + 1 = Len(b) /\ Len(t) = Len(b)
  BY <1>0, <1>5
<1> HIDE DEF t
<1>7. \A i \in 1..Len(t) : t[i] = b[i]
  BY <1>3, <1>5, <1>6
<1>8. t = b
  BY <1>5, <1>6, <1>7, SeqEqual DEF Text
<1>9. SubSeq(s, m, n) = b /\ Len(s) = Len(a) + Len(b) + Len(c)
  BY <1>0, <1>1, <1>2, <1>8 DEF t
<1>10. s = a \o b \o c
  BY DEF s, ab
<1> HIDE DEF s
<1> QED BY ONLY <1>9, <1>10 DEF IsPart, m, n

(* The first two spaces of s are at positions n1 and n2.                   *)
FirstSpaces(s, n1, n2) ==
    /\ n1 \in DOMAIN s /\ s[n1] = "SP" /\ n2 \in DOMAIN s /\ s[n2] = "SP"
    /\ \A j \in DOMAIN s : s[j] = "SP" => j = n1 \/ j >= n2
    /\ DOMAIN s = 1..Len(s)

(* The first two spaces of a request's text are those around its URI.      *)
LEMMA SpacesAre ==
    ASSUME NEW m \in Text, NEW u \in Text, NEW z \in Text, NoSpace(m), NoSpace(u),
           NEW s, s = m \o <<"SP">> \o u \o <<"SP">> \o z
    PROVE  FirstSpaces(s, Len(m) + 1, Len(m) + Len(u) + 2)
<1> DEFINE sp == <<"SP">>
           p == m \o sp
           t == p \o u
           w == t \o sp
<1>0. Len(m) \in Nat /\ Len(u) \in Nat /\ Len(z) \in Nat
  BY LenProperties DEF Text
<1>1. sp \in Seq(AnyChar) /\ Len(sp) = 1 /\ sp[1] = "SP"
  BY DEF AnyChar
<1> HIDE DEF sp
<1>2. /\ p \in Seq(AnyChar) /\ Len(p) = Len(m) + 1
      /\ \A i \in 1..(Len(m) + 1) : p[i] = IF i <= Len(m) THEN m[i] ELSE sp[i - Len(m)]
  <2>1. m \in Seq(AnyChar) /\ sp \in Seq(AnyChar)
    BY <1>1 DEF Text
  <2>2. /\ p \in Seq(AnyChar) /\ Len(p) = Len(m) + Len(sp)
        /\ \A i \in 1..(Len(m) + Len(sp)) : p[i] = IF i <= Len(m) THEN m[i] ELSE sp[i - Len(m)]
    BY ONLY <2>1, ConcatProperties
  <2> HIDE DEF p
  <2> QED BY <1>1, <2>2
<1> HIDE DEF p
<1>3. /\ t \in Seq(AnyChar) /\ Len(t) = Len(p) + Len(u)
      /\ \A i \in 1..(Len(p) + Len(u)) : t[i] = IF i <= Len(p) THEN p[i] ELSE u[i - Len(p)]
  <2>1. p \in Seq(AnyChar) /\ u \in Seq(AnyChar)
    BY <1>2 DEF Text
  <2> QED BY ONLY <2>1, ConcatProperties
<1> HIDE DEF t
<1>4. /\ w \in Seq(AnyChar) /\ Len(w) = Len(t) + 1
      /\ \A i \in 1..(Len(t) + 1) : w[i] = IF i <= Len(t) THEN t[i] ELSE sp[i - Len(t)]
  <2>1. t \in Seq(AnyChar) /\ sp \in Seq(AnyChar)
    BY <1>1, <1>3
  <2>2. /\ w \in Seq(AnyChar) /\ Len(w) = Len(t) + Len(sp)
        /\ \A i \in 1..(Len(t) + Len(sp)) : w[i] = IF i <= Len(t) THEN t[i] ELSE sp[i - Len(t)]
    BY ONLY <2>1, ConcatProperties
  <2> HIDE DEF w
  <2> QED BY <1>1, <2>2
<1> HIDE DEF w
<1>5. s = w \o z
  BY DEF w, t, p, sp
<1>6. /\ s \in Seq(AnyChar) /\ Len(s) = Len(w) + Len(z)
      /\ \A i \in 1..(Len(w) + Len(z)) : s[i] = IF i <= Len(w) THEN w[i] ELSE z[i - Len(w)]
  <2>1. w \in Seq(AnyChar) /\ z \in Seq(AnyChar)
    BY <1>4 DEF Text
  <2> QED BY ONLY <2>1, <1>5, ConcatProperties
<1>7. DOMAIN s = 1..Len(s) /\ DOMAIN m = 1..Len(m) /\ DOMAIN u = 1..Len(u)
  BY <1>6, LenProperties DEF Text
<1>8. /\ Len(m) + 1 \in DOMAIN s /\ s[Len(m) + 1] = "SP"
      /\ Len(m) + Len(u) + 2 \in DOMAIN s /\ s[Len(m) + Len(u) + 2] = "SP"
  <2>1. /\ Len(p) = Len(m) + 1 /\ Len(t) = Len(m) + 1 + Len(u)
        /\ Len(w) = Len(m) + Len(u) + 2 /\ Len(s) = Len(m) + Len(u) + 2 + Len(z)
    BY <1>0, <1>2, <1>3, <1>4, <1>6
  <2>2. p[Len(m) + 1] = "SP"
    BY <1>0, <1>1, <1>2
  <2>3. t[Len(m) + 1] = "SP"
    BY <1>0, <1>3, <2>1, <2>2
  <2>4. w[Len(m) + 1] = "SP"
    BY <1>0, <1>4, <2>1, <2>3
  <2>5. s[Len(m) + 1] = "SP"
    BY <1>0, <1>6, <2>1, <2>4
  <2>6. w[Len(m) + Len(u) + 2] = "SP"
    BY <1>0, <1>1, <1>4, <2>1
  <2>7. s[Len(m) + Len(u) + 2] = "SP"
    BY <1>0, <1>6, <2>1, <2>6
  <2> QED BY <1>0, <1>7, <2>1, <2>5, <2>7
<1>9. ASSUME NEW j \in DOMAIN s, j # Len(m) + 1, ~ (j >= Len(m) + Len(u) + 2)
      PROVE  s[j] # "SP"
  <2>0. /\ Len(p) = Len(m) + 1 /\ Len(t) = Len(m) + 1 + Len(u)
        /\ Len(w) = Len(m) + Len(u) + 2
    BY <1>0, <1>2, <1>3, <1>4
  <2>1. j \in 1..(Len(m) + Len(u) + 1)
    BY <1>0, <1>7, <1>9
  <2>2. s[j] = t[j]
    <3>1. s[j] = w[j]
      BY <1>0, <1>6, <2>0, <2>1
    <3>2. w[j] = t[j]
      BY <1>0, <1>4, <2>0, <2>1
    <3> QED BY <3>1, <3>2
  <2>3. CASE j <= Len(m)
    <3>1. t[j] = p[j] /\ p[j] = m[j] /\ j \in DOMAIN m
      BY <1>0, <1>2, <1>3, <1>7, <2>0, <2>1, <2>3
    <3> QED BY <2>2, <3>1 DEF NoSpace
  <2>4. CASE ~ (j <= Len(m))
    <3>1. t[j] = u[j - Len(p)] /\ j - Len(p) \in DOMAIN u
      BY <1>0, <1>3, <1>7, <1>9, <2>0, <2>1, <2>4
    <3> QED BY <2>2, <3>1 DEF NoSpace
  <2> QED BY <2>3, <2>4
<1> QED BY <1>7, <1>8, <1>9 DEF FirstSpaces

(* Three parts, grouped to the right.                                      *)
Associates(x, y, z) == (x \o y) \o z = x \o (y \o z)

LEMMA GroupRight ==
    ASSUME NEW x \in Text, NEW y \in Text, NEW z \in Text
    PROVE  Associates(x, y, z)
<1> DEFINE S == AnyChar
<1>1. x \in Seq(S) /\ y \in Seq(S) /\ z \in Seq(S)
  BY DEF Text
<1> HIDE DEF S
<1>2. (x \o y) \o z = x \o (y \o z)
  BY ONLY <1>1, ConcatAssociative
<1> QED BY <1>2 DEF Associates

(* A concatenation of five parts, and its grouping to the right.           *)
Grouped(a, b, c, d, f) == a \o b \o c \o d \o f = a \o (b \o (c \o (d \o f)))

(* Four parts after the first, grouped to the right.                       *)
LEMMA Regroup ==
    ASSUME NEW a \in Text, NEW b \in Text, NEW c \in Text, NEW d \in Text, NEW f \in Text
    PROVE  Grouped(a, b, c, d, f)
<1> DEFINE ab == a \o b
           abc == ab \o c
           df == d \o f
           cdf == c \o df
<1>1. ab \in Text /\ df \in Text
  BY ConcatText
<1> HIDE DEF ab, df
<1>2. abc \in Text /\ cdf \in Text
  BY <1>1, ConcatText
<1>3. abc = ab \o c /\ cdf = c \o df
  OBVIOUS
<1> HIDE DEF abc, cdf
<1>0. a \in Text /\ b \in Text /\ c \in Text /\ d \in Text /\ f \in Text
  OBVIOUS
<1>4. Associates(abc, d, f)
  BY ONLY <1>0, <1>2, GroupRight
<1>5. Associates(ab, c, df)
  BY ONLY <1>0, <1>1, GroupRight
<1>6. Associates(a, b, cdf)
  BY ONLY <1>0, <1>2, GroupRight
<1> QED BY <1>4, <1>5, <1>6 DEF Associates, ab, abc, df, cdf, Grouped

(* The least two members of a set.                                         *)
LEMMA LeastTwo ==
    ASSUME NEW S \in SUBSET Int, NEW n1 \in S, NEW n2 \in S, n1 < n2,
           \A j \in S : j = n1 \/ j >= n2
    PROVE  /\ (CHOOSE i \in S : \A j \in S : i <= j) = n1
           /\ \A f : f = n1 => (CHOOSE i \in S \ {f} : \A j \in S \ {f} : i <= j) = n2
<1>1. \A j \in S : n1 <= j
  OBVIOUS
<1>2. ASSUME NEW i \in S, \A j \in S : i <= j PROVE i = n1
  BY <1>1, <1>2
<1>3. n2 \in S \ {n1} /\ \A j \in S \ {n1} : n2 <= j
  OBVIOUS
<1>4. ASSUME NEW i \in S \ {n1}, \A j \in S \ {n1} : i <= j PROVE i = n2
  BY <1>3, <1>4
<1>5. (CHOOSE i \in S : \A j \in S : i <= j) = n1
  BY <1>1, <1>2
<1>6. ASSUME NEW f, f = n1
      PROVE  (CHOOSE i \in S \ {f} : \A j \in S \ {f} : i <= j) = n2
  <2> DEFINE T == S \ {f}
  <2>1. n2 \in T /\ (\A j \in T : n2 <= j) /\ \A i \in T : (\A j \in T : i <= j) => i = n2
    BY <1>3, <1>4, <1>6
  <2> HIDE DEF T
  <2>2. (CHOOSE i \in T : \A j \in T : i <= j) = n2
    BY <2>1
  <2> QED BY <2>2 DEF T
<1> QED BY <1>5, <1>6

(* The text up to the first space, and from the second one on.             *)
LEMMA CutAtSpaces ==
    ASSUME NEW m \in Text, NEW o \in Text, NEW z \in Text, NEW s,
           s = m \o <<"SP">> \o o \o <<"SP">> \o z
    PROVE  /\ SubSeq(s, 1, Len(m) + 1) = m \o <<"SP">>
           /\ SubSeq(s, Len(m) + Len(o) + 2, Len(s)) = <<"SP">> \o z
<1> DEFINE sp == <<"SP">>
           e == <<>>
<1>0. sp \in Text /\ Len(sp) = 1 /\ e \in Text /\ Len(e) = 0 /\ sp = <<"SP">> /\ e = <<>>
  BY DEF Text, AnyChar
<1> HIDE DEF sp, e
<1> DEFINE a == m \o sp
           b == sp \o z
           c == o \o b
           ao == a \o o
<1>1. Len(m) \in Nat /\ Len(o) \in Nat /\ Len(z) \in Nat
  BY LenProperties DEF Text
<1>2. a \in Text /\ b \in Text /\ Len(a) = Len(m) + 1 /\ Len(b) \in Nat
  <2>1. a \in Text /\ b \in Text
    BY <1>0, ConcatText
  <2>2. Len(a) = Len(m) + Len(sp)
    BY ONLY <1>0, m \in Text, ConcatProperties DEF Text
  <2> HIDE DEF a, b
  <2> QED BY <1>0, <2>1, <2>2, LenProperties DEF Text
<1>3. s = ((a \o o) \o sp) \o z
  BY <1>0
<1>4. b = sp \o z
  OBVIOUS
<1> HIDE DEF a, b
<1>5. c \in Text /\ ao \in Text /\ Len(ao) = Len(a) + Len(o)
  <2>1. c \in Text /\ ao \in Text
    BY <1>2, ConcatText
  <2>2. Len(ao) = Len(a) + Len(o)
    BY ONLY <1>2, o \in Text, ConcatProperties DEF Text
  <2> QED BY <2>1, <2>2
<1>6. c = o \o b /\ ao = a \o o
  OBVIOUS
<1> HIDE DEF c, ao
<1>7. s = ao \o b
  <2>1. (ao \o sp) \o z = ao \o (sp \o z)
    BY <1>0, <1>5 DEF Text
  <2> QED BY <1>3, <1>4, <1>6, <2>1
<1>8. ao \o b = a \o c
  BY <1>2, <1>6, Assoc
<1>9. SubSeq(s, 1, Len(m) + 1) = a
  <2>1. e \o a = a
    BY <1>0, <1>2, ConcatEmptySeq DEF Text
  <2>2. SubSeq((e \o a) \o c, Len(e) + 1, Len(e) + Len(a)) = a
    <3>1. IsPart((e \o a) \o c, e, a, c)
      BY <1>0, <1>2, <1>5, PartIs
    <3> QED BY ONLY <3>1 DEF IsPart
  <2>3. Len(e) + 1 = 1 /\ Len(e) + Len(a) = Len(m) + 1
    BY <1>0, <1>1, <1>2
  <2> QED BY <1>7, <1>8, <2>1, <2>2, <2>3
<1>10. SubSeq(s, Len(m) + Len(o) + 2, Len(s)) = b
  <2> DEFINE t == ao \o b
  <2>1. t \in Seq(AnyChar)
    BY <1>2, <1>5, ConcatText DEF Text
  <2>2. /\ SubSeq(t \o e, Len(ao) + 1, Len(ao) + Len(b)) = b
        /\ Len(t \o e) = Len(ao) + Len(b) + Len(e)
    <3>1. IsPart(t \o e, ao, b, e)
      BY <1>0, <1>2, <1>5, PartIs
    <3> HIDE DEF t
    <3> QED BY ONLY <3>1 DEF IsPart
  <2> HIDE DEF t
  <2>3. t \o e = t
    BY <1>0, <2>1, ConcatEmptySeq
  <2>4. s = t
    BY <1>7 DEF t
  <2>5. Len(ao) + 1 = Len(m) + Len(o) + 2
    BY ONLY <1>1, <1>2, <1>5
  <2>6. Len(s) = Len(ao) + Len(b) + Len(e)
    BY <2>2, <2>3, <2>4, Zenon
  <2>7. Len(ao) + Len(b) = Len(s)
    BY ONLY <1>0, <1>1, <1>2, <1>5, <2>6
  <2> QED BY <2>2, <2>3, <2>4, <2>5, <2>7, Zenon
<1> QED BY <1>0, <1>9, <1>10 DEF a, b

(* SetUri replaces o by u in the text of r.                                *)
Replaced(r, m, o, u, z) ==
    r.raw = m \o <<"SP">> \o o \o <<"SP">> \o z
      => SetUri(r, u).raw = (m \o <<"SP">>) \o u \o (<<"SP">> \o z)

(* SetUri finds those two spaces.                                          *)
LEMMA SetUriIs ==
    ASSUME NEW r \in Request, NEW m \in Text, NEW o \in Text, NoSpace(m), NoSpace(o),
           NEW z \in Text, NEW u
    PROVE  Replaced(r, m, o, u, z)
<1> SUFFICES ASSUME r.raw = m \o <<"SP">> \o o \o <<"SP">> \o z
             PROVE  SetUri(r, u).raw = (m \o <<"SP">>) \o u \o (<<"SP">> \o z)
  BY DEF Replaced
<1> DEFINE s == r.raw
           n1 == Len(m) + 1
           n2 == Len(m) + Len(o) + 2
           spaces == {i \in DOMAIN s : s[i] = "SP"}
           first  == CHOOSE i \in spaces : \A j \in spaces : i <= j
           second == CHOOSE i \in spaces \ {first} : \A j \in spaces \ {first} : i <= j
<1>1. s = m \o <<"SP">> \o o \o <<"SP">> \o z
  OBVIOUS
<1>2. SetUri(r, u).raw = SubSeq(s, 1, first) \o u \o SubSeq(s, second, Len(s))
  BY DEF SetUri, Request
<1> HIDE DEF s
<1>3. /\ n1 \in DOMAIN s /\ s[n1] = "SP" /\ n2 \in DOMAIN s /\ s[n2] = "SP"
      /\ \A j \in DOMAIN s : s[j] = "SP" => j = n1 \/ j >= n2
      /\ DOMAIN s = 1..Len(s)
  <2>1. FirstSpaces(s, n1, n2)
    BY <1>1, SpacesAre
  <2> HIDE DEF n1, n2
  <2> QED BY ONLY <2>1 DEF FirstSpaces
<1>4. SubSeq(s, 1, n1) = m \o <<"SP">> /\ SubSeq(s, n2, Len(s)) = <<"SP">> \o z
  BY <1>1, CutAtSpaces
<1>5. n1 < n2
  BY LenProperties DEF Text
<1> HIDE DEF n1, n2
<1>6. /\ spaces \in SUBSET Int /\ n1 \in spaces /\ n2 \in spaces
      /\ \A j \in spaces : j = n1 \/ j >= n2
  BY ONLY <1>3
<1> HIDE DEF spaces
<1>7. first = n1
  BY <1>5, <1>6, LeastTwo
<1>8. second = n2
  <2>1. \A f : f = n1 => (CHOOSE i \in spaces \ {f} : \A j \in spaces \ {f} : i <= j) = n2
    BY <1>5, <1>6, LeastTwo
  <2> HIDE DEF first
  <2>2. (CHOOSE i \in spaces \ {first} : \A j \in spaces \ {first} : i <= j) = n2
    BY <1>7, <2>1
  <2> QED BY <2>2
<1> HIDE DEF first, second
<1> QED BY <1>2, <1>4, <1>7, <1>8

(* The four characters that SetUri leaves around and puts into the URI.    *)
LEMMA NewUri ==
    ASSUME NEW m \in Text, NEW z \in Text
    PROVE  (m \o <<"SP">>) \o <<"/", "x">> \o (<<"SP">> \o z)
             = (m \o <<"SP", "/", "x", "SP">>) \o z
<1> DEFINE sp == <<"SP">>
           u == <<"/", "x">>
           four == <<"SP", "/", "x", "SP">>
           su == sp \o u
           sus == su \o sp
           ms == m \o sp
           msu == ms \o u
<1>1. /\ sp \in Seq(AnyChar) /\ u \in Seq(AnyChar) /\ four \in Seq(AnyChar)
      /\ Len(sp) = 1 /\ Len(u) = 2 /\ Len(four) = 4
      /\ sp[1] = "SP" /\ u[1] = "/" /\ u[2] = "x"
      /\ four[1] = "SP" /\ four[2] = "/" /\ four[3] = "x" /\ four[4] = "SP"
  BY DEF AnyChar
<1>2. sp \in Text /\ u \in Text /\ four \in Text
  BY <1>1 DEF Text
<1> HIDE DEF sp, u, four
<1>3. su \in Seq(AnyChar) /\ Len(su) = 3 /\ su[1] = "SP" /\ su[2] = "/" /\ su[3] = "x"
  <2>0. sp \in Seq(AnyChar) /\ u \in Seq(AnyChar)
    BY <1>1
  <2>1. /\ su \in Seq(AnyChar) /\ Len(su) = Len(sp) + Len(u)
        /\ \A i \in 1..(Len(sp) + Len(u)) : su[i] = IF i <= Len(sp) THEN sp[i] ELSE u[i - Len(sp)]
    BY ONLY <2>0, ConcatProperties
  <2> HIDE DEF su
  <2> QED BY <1>1, <2>1
<1>4. ms \in Seq(AnyChar)
  BY <1>2, ConcatText DEF Text
<1>5. su = sp \o u /\ ms = m \o sp
  OBVIOUS
<1> HIDE DEF su, ms
<1>6. /\ sus \in Seq(AnyChar) /\ Len(sus) = 4
      /\ sus[1] = "SP" /\ sus[2] = "/" /\ sus[3] = "x" /\ sus[4] = "SP"
  <2>0. su \in Seq(AnyChar) /\ sp \in Seq(AnyChar)
    BY <1>1, <1>3
  <2>1. /\ sus \in Seq(AnyChar) /\ Len(sus) = Len(su) + Len(sp)
        /\ \A i \in 1..(Len(su) + Len(sp)) : sus[i] = IF i <= Len(su) THEN su[i] ELSE sp[i - Len(su)]
    BY ONLY <2>0, ConcatProperties
  <2> HIDE DEF sus
  <2> QED BY <1>1, <1>3, <2>1
<1>7. msu \in Seq(AnyChar)
  BY <1>1, <1>4, ConcatProperties
<1>8. sus = su \o sp /\ msu = ms \o u
  OBVIOUS
<1> HIDE DEF sus, msu
<1>9. sus = four
  <2>1. \A i \in 1..Len(sus) : sus[i] = four[i]
    BY <1>1, <1>6
  <2> QED BY <1>1, <1>6, <2>1, SeqEqual
<1>10. msu \o (sp \o z) = (msu \o sp) \o z
  BY <1>1, <1>7 DEF Text
<1>11. (ms \o u) \o sp = ms \o (u \o sp)
  BY <1>1, <1>4
<1>12. (m \o sp) \o (u \o sp) = m \o (sp \o (u \o sp))
  <2> DEFINE us == u \o sp
  <2>1. us \in Seq(AnyChar) /\ m \in Seq(AnyChar)
    BY <1>1, ConcatProperties DEF Text
  <2> HIDE DEF us
  <2>2. (m \o sp) \o us = m \o (sp \o us)
    BY <1>1, <2>1
  <2> QED BY <2>2 DEF us
<1>13. sp \o (u \o sp) = (sp \o u) \o sp
  BY <1>1
<1>14. msu \o sp = m \o four
  BY <1>5, <1>8, <1>9, <1>11, <1>12, <1>13
<1>15. msu \o (sp \o z) = (m \o four) \o z
  BY <1>10, <1>14
<1> QED BY <1>15 DEF msu, ms, sp, u, four

(* A complete request is cut where it should be.                           *)
LEMMA CompleteIsSplit ==
    ASSUME NEW r, Complete(r)
    PROVE  LET line == r.method \o <<"SP">> \o r.uri \o <<"SP">> \o r.version \o <<"CR", "LF">>
               rest == SubSeq(r.raw, Len(line) + 1, Len(r.raw) - Len(r.body))
           IN  /\ r.raw = line \o rest \o r.body
               /\ SubSeq(rest, Len(rest) - 1, Len(rest)) = <<"CR", "LF">>
               /\ SetUri(r, <<"/", "x">>).raw
                    = r.method \o <<"SP", "/", "x", "SP">> \o r.version
                        \o <<"CR", "LF">> \o rest \o r.body
<1> DEFINE m == r.method
           o == r.uri
           v == r.version
           b == r.body
           e == <<"CR", "LF">>
           sp == <<"SP">>
           w == m \o sp \o o \o sp
           line == (w \o v) \o e
           rest == SubSeq(r.raw, Len(line) + 1, Len(r.raw) - Len(b))
<1>0. r \in Request
  BY DEF Complete
<1>1. /\ m \in Text /\ o \in Text /\ v \in Text /\ b \in Text
      /\ w \in Text /\ line \in Text /\ NoSpace(m) /\ NoSpace(o)
  BY <1>0, RequestFields, StringsAreText, LineText DEF Complete, Line
<1>2. PICK q \in Text : r.raw = line \o q \o (e \o b)
  BY DEF Complete, Whole, Line
<1>3. e \in Text /\ Len(e) = 2 /\ sp \in Text
  BY DEF Text, AnyChar
<1>4. line = (w \o v) \o e
  OBVIOUS
<1> HIDE DEF e, line, w
<1> DEFINE R == q \o e
<1>5. R \in Text /\ R = q \o e
  BY <1>3, ConcatText
<1> HIDE DEF R
<1>6. r.raw = line \o R \o b
  <2> DEFINE eb == e \o b
  <2>1. eb \in Text /\ eb = e \o b
    BY <1>1, <1>3, ConcatText
  <2> HIDE DEF eb, b
  <2>0. line \in Seq(AnyChar) /\ q \in Seq(AnyChar) /\ eb \in Seq(AnyChar)
    BY <1>1, <2>1 DEF Text
  <2>2. (line \o q) \o eb = line \o (q \o eb)
    BY ONLY <2>0
  <2>3. q \o (e \o b) = (q \o e) \o b
    BY <1>1, <1>3 DEF Text
  <2>4. line \o (R \o b) = (line \o R) \o b
    <3>1. line \in Seq(AnyChar) /\ R \in Seq(AnyChar) /\ b \in Seq(AnyChar)
      BY <1>1, <1>5 DEF Text
    <3> QED BY ONLY <3>1
  <2> QED BY <1>2, <1>5, <2>1, <2>2, <2>3, <2>4
<1>7. IsPart(line \o R \o b, line, R, b)
  <2> HIDE DEF b
  <2> QED BY <1>1, <1>5, PartIs
<1>8. rest = R
  <2>1. Len(line) \in Nat /\ Len(R) \in Nat /\ Len(b) \in Nat
    BY <1>1, <1>5, LenProperties DEF Text
  <2>2. /\ SubSeq(r.raw, Len(line) + 1, Len(line) + Len(R)) = R
        /\ Len(r.raw) = Len(line) + Len(R) + Len(b)
    BY <1>6, <1>7 DEF IsPart
  <2>3. Len(r.raw) - Len(b) = Len(line) + Len(R)
    BY <2>1, <2>2
  <2> QED BY <2>2, <2>3
<1> HIDE DEF rest
<1>9. SubSeq(R, Len(R) - 1, Len(R)) = e
  <2> DEFINE n == <<>>
  <2>1. n \in Text /\ Len(n) = 0 /\ R \o n = R
    BY <1>5, ConcatEmptySeq DEF Text
  <2> HIDE DEF n
  <2>2. IsPart(q \o e \o n, q, e, n)
    BY <1>3, <2>1, PartIs
  <2>3. SubSeq(R, Len(q) + 1, Len(q) + Len(e)) = e /\ Len(R) = Len(q) + Len(e) + Len(n)
    BY <1>5, <2>1, <2>2 DEF IsPart
  <2>4. Len(q) \in Nat
    BY LenProperties DEF Text
  <2>5. Len(R) = Len(q) + Len(e) /\ Len(R) - 1 = Len(q) + 1
    BY <1>3, <2>1, <2>3, <2>4
  <2> QED BY <2>3, <2>5
<1> DEFINE z == v \o (e \o (R \o b))
<1>10. z \in Text
  <2>1. R \o b \in Text
    BY <1>1, <1>5, ConcatText
  <2>2. e \o (R \o b) \in Text
    BY <1>3, <2>1, ConcatText
  <2> QED BY <1>1, <2>2, ConcatText
<1>11. \A a \in Text : a \o v \o e \o R \o b = a \o z
  <2> HIDE DEF v, b
  <2>1. v \in Text /\ e \in Text /\ R \in Text /\ b \in Text
    BY <1>1, <1>3, <1>5
  <2>2. TAKE a \in Text
  <2>3. a \o v \o e \o R \o b = a \o (v \o (e \o (R \o b)))
    <3>1. Grouped(a, v, e, R, b)
      BY <2>1, Regroup
    <3> QED BY <3>1 DEF Grouped
  <2> QED BY <2>3
<1> HIDE DEF z
<1>12. r.raw = w \o z
  BY <1>1, <1>4, <1>6, <1>11
<1>13. r.raw = m \o <<"SP">> \o o \o <<"SP">> \o z
  BY <1>12 DEF w
<1>14. SetUri(r, <<"/", "x">>).raw = (m \o <<"SP">>) \o <<"/", "x">> \o (<<"SP">> \o z)
  <2> HIDE DEF m, o
  <2>1. Replaced(r, m, o, <<"/", "x">>, z)
    BY <1>0, <1>1, <1>10, SetUriIs
  <2> QED BY <1>13, <2>1 DEF Replaced
<1>15. SetUri(r, <<"/", "x">>).raw = (m \o <<"SP", "/", "x", "SP">>) \o z
  <2> HIDE DEF m
  <2>1. (m \o <<"SP">>) \o <<"/", "x">> \o (<<"SP">> \o z) = (m \o <<"SP", "/", "x", "SP">>) \o z
    BY <1>1, <1>10, NewUri
  <2> QED BY <1>14, <2>1
<1>16. m \o <<"SP", "/", "x", "SP">> \in Text
  <2>1. <<"SP", "/", "x", "SP">> \in Text
    BY DEF Text, AnyChar
  <2> QED BY <1>1, <2>1, ConcatText
<1>17. SetUri(r, <<"/", "x">>).raw = (m \o <<"SP", "/", "x", "SP">>) \o v \o e \o R \o b
  BY <1>11, <1>15, <1>16
<1>18. /\ r.raw = line \o rest \o r.body
       /\ SubSeq(rest, Len(rest) - 1, Len(rest)) = e
       /\ SetUri(r, <<"/", "x">>).raw
            = r.method \o <<"SP", "/", "x", "SP">> \o r.version \o e \o rest \o r.body
  BY <1>6, <1>8, <1>9, <1>17
<1> QED BY <1>18 DEF rest, line, w, e

(* The text of a request is its method, URI, version, headers and body;    *)
(* SetUri, which sees nothing but the text, replaces the URI.              *)
THEOREM TextIsSplit == Spec => []SplitAtSpaces
<1>1. ParserInv => SplitAtSpaces
  BY CompleteIsSplit DEF ParserInv, SplitAtSpaces
<1> QED BY <1>1, ParserInvariant, PTL
====
