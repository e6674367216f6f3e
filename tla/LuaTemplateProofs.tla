------------------------- MODULE LuaTemplateProofs -------------------------
(***************************************************************************)
(* Proofs about LuaTemplate, for all pages: first that text and code stay  *)
(* apart in the script, from the pieces that it is made of; then what the  *)
(* script puts, from where do_lua is in the source of the page.            *)
(***************************************************************************)
EXTENDS LuaTemplate, RecursionLemmas

-----------------------------------------------------------------------------
(* The pieces of a script.                                                 *)
MarksOf(l) ==
    FlattenSeq([i \in DOMAIN l |-> IF l[i] \in Pieces THEN <<l[i]>> ELSE <<>>])

(* A script grows by a piece or by a character.                            *)
LEMMA MarksAppend ==
    ASSUME NEW S, NEW l \in Seq(S), NEW x \in S
    PROVE  /\ MarksOf(l) \in Seq(Pieces)
           /\ MarksOf(Append(l, x)) =
                IF x \in Pieces THEN Append(MarksOf(l), x) ELSE MarksOf(l)
<1> DEFINE f == [t \in S |-> IF t \in Pieces THEN <<t>> ELSE <<>>]
<1>1. f \in Maps(S, Seq(Pieces))
  BY DEF Maps
<1>2. ASSUME NEW m \in Seq(S) PROVE MarksOf(m) = FlattenSeq(Image(m, f))
  <2>1. \A i \in DOMAIN m : f[m[i]] = IF m[i] \in Pieces THEN <<m[i]>> ELSE <<>>
    BY ElementOfSeq
  <2>2. Image(m, f) = [i \in DOMAIN m |-> IF m[i] \in Pieces THEN <<m[i]>> ELSE <<>>]
    BY <2>1 DEF Image
  <2> QED BY <2>2 DEF MarksOf
<1>3. f[x] = IF x \in Pieces THEN <<x>> ELSE <<>>
  OBVIOUS
<1> HIDE DEF f
<1>4. /\ FlattenSeq(Image(l, f)) \in Seq(Pieces)
      /\ FlattenSeq(Image(Append(l, x), f)) = FlattenSeq(Image(l, f)) \o f[x]
  BY <1>1, FlattenImage
<1>5. MarksOf(l) \in Seq(Pieces) /\ MarksOf(Append(l, x)) = MarksOf(l) \o f[x]
  <2>1. Append(l, x) \in Seq(S)
    OBVIOUS
  <2> QED BY ONLY <1>2, <1>4, <2>1, l \in Seq(S)
<1>6. CASE x \in Pieces
  <2>1. MarksOf(l) \o <<x>> = Append(MarksOf(l), x)
    BY <1>5
  <2> QED BY <1>3, <1>5, <1>6, <2>1
<1>7. CASE x \notin Pieces
  <2>1. MarksOf(l) \o <<>> = MarksOf(l)
    BY <1>5, ConcatEmptySeq
  <2> QED BY <1>3, <1>5, <1>7, <2>1
<1> QED BY <1>5, <1>6, <1>7

(* Characters leave the pieces as they are.                                *)
LEMMA MarksPlain ==
    ASSUME NEW S, NEW l \in Seq(S), NEW t \in Seq(S \ Pieces)
    PROVE  MarksOf(l \o t) = MarksOf(l)
<1> DEFINE T == {q \in Seq(S \ Pieces) : MarksOf(l \o q) = MarksOf(l)}
<1>1. <<>> \in T
  BY ConcatEmptySeq, EmptySeq
<1>2. ASSUME NEW q \in Seq(S \ Pieces), NEW e \in S \ Pieces, q \in T
      PROVE  Append(q, e) \in T
  <2>1. q \in Seq(S)
    OBVIOUS
  <2>2. l \o q \in Seq(S)
    BY ONLY l \in Seq(S), <2>1, ConcatProperties
  <2>3. l \o Append(q, e) = Append(l \o q, e)
    BY <2>1
  <2>4. MarksOf(Append(l \o q, e)) = MarksOf(l \o q)
    BY <2>2, MarksAppend
  <2>5. Append(q, e) \in Seq(S \ Pieces)
    OBVIOUS
  <2> QED BY <1>2, <2>3, <2>4, <2>5
<1> HIDE DEF T
<1>3. \A q \in Seq(S \ Pieces) : q \in T
  BY ONLY <1>1, <1>2, SeqInduction
<1> QED BY <1>3 DEF T
-----------------------------------------------------------------------------
Symbols == Characters \cup Pieces

(* A script is made of characters and pieces; without the pieces it is     *)
(* made of characters.                                                     *)
LEMMA SymbolsPlain == Symbols \ Pieces = Characters
BY CharactersAssumption DEF Symbols

LEMMA StatesAre ==
    /\ TextStates = {"start", "ignore_newline", "expecting_question_mark",
                     "expecting_l", "expecting_u", "expecting_a", "expecting_space_1",
                     "expecting_space_2"}
    /\ TextStates \cap CodeStates = {}
<1>1. {l[1] : l \in Letters} = {"expecting_l", "expecting_u", "expecting_a"}
  BY DEF Letters
<1> QED BY <1>1 DEF TextStates, CodeStates

LEMMA SpecialAre ==
    /\ "<" \in Characters /\ "?" \in Characters /\ "%" \in Characters
    /\ "=" \in Characters /\ ">" \in Characters /\ "l" \in Characters
    /\ "u" \in Characters /\ "a" \in Characters /\ "[" \in Characters
    /\ "]" \in Characters /\ "\\" \in Characters /\ "'" \in Characters
    /\ "DQ" \in Characters /\ "SP" \in Characters /\ "LF" \in Characters
BY CharactersAssumption DEF Special, Forms, Blank

(* Short strings.                                                          *)
LEMMA String1 ==
    ASSUME NEW S, NEW c1 \in S
    PROVE  <<c1>> \in Seq(S)
OBVIOUS

LEMMA String2 ==
    ASSUME NEW S, NEW c1 \in S, NEW c2 \in S
    PROVE  <<c1, c2>> \in Seq(S)
OBVIOUS

LEMMA String3 ==
    ASSUME NEW S, NEW c1 \in S, NEW c2 \in S, NEW c3 \in S
    PROVE  <<c1, c2, c3>> \in Seq(S)
OBVIOUS

LEMMA String4 ==
    ASSUME NEW S, NEW c1 \in S, NEW c2 \in S, NEW c3 \in S, NEW c4 \in S
    PROVE  <<c1, c2, c3, c4>> \in Seq(S)
OBVIOUS

LEMMA String5 ==
    ASSUME NEW S, NEW c1 \in S, NEW c2 \in S, NEW c3 \in S, NEW c4 \in S, NEW c5 \in S
    PROVE  <<c1, c2, c3, c4, c5>> \in Seq(S)
OBVIOUS

(* How a tag begins is written in characters.                              *)
LEMMA OpeningTyped ==
    \A k \in Kinds, f \in Forms : Opening(k, f) \in Seq(Characters)
<1> TAKE k \in Kinds, f \in Forms
<1>1. /\ <<"<", "?", "l", "u", "a">> \in Seq(Characters) /\ <<"<", "%">> \in Seq(Characters)
      /\ <<"=">> \in Seq(Characters) /\ <<>> \in Seq(Characters)
  <2>1. <<"<", "?", "l", "u", "a">> \in Seq(Characters)
    BY ONLY SpecialAre, String1, String2, String3, String5
  <2>2. <<"<", "%">> \in Seq(Characters) /\ <<"=">> \in Seq(Characters)
    BY ONLY SpecialAre, String1, String2, String3, String5
  <2> QED BY <2>1, <2>2, EmptySeq
<1> DEFINE a == IF f = "?" THEN <<"<", "?", "l", "u", "a">> ELSE <<"<", "%">>
           b == IF k = "expression" THEN <<"=">> ELSE <<>>
<1>2. a \in Seq(Characters) /\ b \in Seq(Characters) /\ Opening(k, f) = a \o b
  BY <1>1 DEF Opening
<1> HIDE DEF a, b
<1> QED BY ONLY <1>2, ConcatProperties

(* The source of an element is written in characters.                      *)
LEMMA SourceTyped ==
    ASSUME NEW e \in Element
    PROVE  Source(e) \in Seq(Characters)
<1>1. CASE e.kind = "text"
  BY <1>1 DEF Source, Element
<1>2. CASE e.kind # "text"
  <2> DEFINE o == Opening(e.kind, e.form)
             x == IF e.closed THEN <<"SP", e.form, ">">> ELSE <<>>
  <2>1. e.kind \in Kinds /\ e.form \in Forms /\ e.inner \in Seq(Characters)
    BY DEF Element
  <2>2. o \in Seq(Characters)
    BY <2>1, OpeningTyped
  <2>3. <<"SP">> \in Seq(Characters) /\ x \in Seq(Characters)
    <3>1. e.form \in Characters /\ <<"SP">> \in Seq(Characters)
      BY <2>1, SpecialAre, String1, String2, String3, String5 DEF Forms
    <3>2. <<"SP", e.form, ">">> \in Seq(Characters)
      BY ONLY <3>1, SpecialAre, String1, String2, String3, String5
    <3> QED BY <3>1, <3>2, EmptySeq
  <2>4. Source(e) = o \o <<"SP">> \o e.inner \o x
    BY <1>2 DEF Source
  <2> DEFINE y == <<"SP">>
             z == e.inner
  <2> HIDE DEF o, x, y, z
  <2>5. o \in Seq(Characters) /\ x \in Seq(Characters) /\ y \in Seq(Characters)
        /\ z \in Seq(Characters)
    BY <2>1, <2>2, <2>3 DEF y, z
  <2>6. o \o y \in Seq(Characters)
    BY ONLY <2>5, ConcatProperties
  <2>7. o \o y \o z \in Seq(Characters)
    BY ONLY <2>5, <2>6, ConcatProperties
  <2>8. o \o y \o z \o x \in Seq(Characters)
    BY ONLY <2>5, <2>7, ConcatProperties
  <2> QED BY <2>4, <2>8 DEF y, z
<1> QED BY <1>1, <1>2

(* The source of a page is written in characters.                          *)
LEMMA SourcesTyped ==
    ASSUME NEW p \in Seq(Element)
    PROVE  /\ [i \in DOMAIN p |-> Source(p[i])] \in Seq(Seq(Characters))
           /\ FlattenSeq([i \in DOMAIN p |-> Source(p[i])]) \in Seq(Characters)
<1> DEFINE ss == [i \in DOMAIN p |-> Source(p[i])]
<1>1. \A i \in 1..Len(p) : Source(p[i]) \in Seq(Characters)
  BY ElementOfSeq, SourceTyped
<1>2. DOMAIN p = 1..Len(p) /\ Len(p) \in Nat
  BY LenProperties
<1>3. ss \in Seq(Seq(Characters))
  BY <1>1, <1>2
<1> HIDE DEF ss
<1>4. FlattenSeq(ss) \in Seq(Characters)
  BY <1>3, EmptySeq, FlattenAppend
<1> QED BY <1>3, <1>4 DEF ss

(* The values the variables have.                                          *)
TypeInv ==
    /\ page \in Pages
    /\ file \in Seq(Characters)
    /\ pos \in Nat \ {0}
    /\ s \in [at : TextStates \cup CodeStates, kind : {"chunk", "expression"}, form : Forms]
    /\ lua \in Seq(Symbols)

LEMMA TypeInvInit == Init => TypeInv
<1> SUFFICES ASSUME Init PROVE TypeInv
  OBVIOUS
<1>1. page \in Seq(Element)
  BY PagesAssumption DEF Init
<1>2. file \in Seq(Characters)
  BY <1>1, SourcesTyped DEF Init
<1>3. <<"put([[">> \in Seq(Symbols)
  BY DEF Symbols, Pieces
<1> QED BY <1>2, <1>3, StatesAre DEF Init, TypeInv, Forms

-----------------------------------------------------------------------------
(* Which piece may come after which.                                       *)
Follows ==
    {<<"put([[", "]])">>, <<"]])", "put([[">>, <<"]])", "put(">>,
     <<"put(", "put)">>, <<"put)", "put([[">>}

InTurn(m) == \A i \in 1..(Len(m) - 1) : <<m[i], m[i + 1]>> \in Follows

(* One more piece.                                                         *)
LEMMA InTurnAppend ==
    ASSUME NEW m \in Seq(Pieces), m # <<>>, InTurn(m),
           NEW x \in Pieces, <<Last(m), x>> \in Follows
    PROVE  /\ Append(m, x) \in Seq(Pieces) /\ Append(m, x) # <<>>
           /\ InTurn(Append(m, x)) /\ Last(Append(m, x)) = x
<1> DEFINE N == Len(m)
           w == Append(m, x)
<1>1. N \in Nat /\ N > 0 /\ Last(m) = m[N]
  BY DEF Last
<1>2. /\ w \in Seq(Pieces) /\ w # <<>> /\ Len(w) = N + 1
      /\ w[N + 1] = x /\ \A i \in 1..N : w[i] = m[i]
  BY AppendProperties
<1> HIDE DEF w
<1>3. ASSUME NEW i \in 1..(Len(w) - 1) PROVE <<w[i], w[i + 1]>> \in Follows
  <2>1. CASE i = N
    BY <1>1, <1>2, <2>1
  <2>2. CASE i # N
    <3>1. i \in 1..(N - 1) /\ i \in 1..N /\ i + 1 \in 1..N
      BY <1>1, <1>2, <2>2
    <3>2. w[i] = m[i] /\ w[i + 1] = m[i + 1]
      BY <1>2, <3>1
    <3> QED BY <3>1, <3>2 DEF InTurn
  <2> QED BY <2>1, <2>2
<1>4. Last(w) = x
  BY <1>1, <1>2 DEF Last
<1> QED BY <1>2, <1>3, <1>4 DEF InTurn, w

(* The pieces of a script that belongs to a state.                         *)
Fits(m, at, kind) ==
    /\ m \in Seq(Pieces) /\ m # <<>> /\ InTurn(m)
    /\ at \in TextStates <=> Last(m) = "put([["
    /\ at \in CodeStates => (kind = "expression" <=> Last(m) = "put(")

(* The script ends in a blank when the end of a tag may begin.             *)
EndsInBlank(l) == l # <<>> /\ Last(l) \in Blank

ScriptInv ==
    /\ Fits(MarksOf(lua), s.at, s.kind)
    /\ s.at \in {"whitespace", "question_mark"} => EndsInBlank(lua)

TemplateInv == TypeInv /\ (code = 0 => ScriptInv)

(* Characters, and a state of the same sort.                               *)
LEMMA PlainStep ==
    ASSUME TypeInv, ScriptInv, NEW t \in Seq(Characters), lua' = lua \o t,
           NEW at, NEW kind, s'.at = at, s'.kind = kind,
           \/ s.at \in TextStates /\ at \in TextStates
           \/ s.at \in CodeStates /\ at \in CodeStates /\ kind = s.kind
    PROVE  lua' \in Seq(Symbols) /\ Fits(MarksOf(lua'), at, kind)
<1>1. lua \in Seq(Symbols) /\ t \in Seq(Symbols)
  BY DEF TypeInv, Symbols
<1>2. lua \o t \in Seq(Symbols)
  BY ONLY <1>1, ConcatProperties
<1>3. MarksOf(lua \o t) = MarksOf(lua)
  <2>1. t \in Seq(Symbols \ Pieces)
    BY SymbolsPlain
  <2> QED BY ONLY <1>1, <2>1, MarksPlain
<1>4. Fits(MarksOf(lua), s.at, s.kind)
  BY DEF ScriptInv
<1>5. Fits(MarksOf(lua), at, kind)
  BY <1>4, StatesAre DEF Fits
<1> QED BY <1>2, <1>3, <1>5

(* The pieces in what a tag begins and ends with.                          *)
LEMMA MarksOpen ==
    ASSUME NEW l \in Seq(Symbols), NEW b \in Characters
    PROVE  LET k1 == l \o <<"]])", b>>
               k2 == l \o <<"]])", b, "put(">>
           IN  /\ k1 \in Seq(Symbols) /\ MarksOf(k1) = Append(MarksOf(l), "]])")
               /\ k2 \in Seq(Symbols)
               /\ MarksOf(k2) = Append(Append(MarksOf(l), "]])"), "put(")
<1> DEFINE l1 == Append(l, "]])")
           l2 == Append(l1, b)
           l3 == Append(l2, "put(")
<1>1. "]])" \in Pieces /\ "put(" \in Pieces
  BY DEF Pieces
<1>2. b \notin Pieces /\ b \in Symbols /\ "]])" \in Symbols /\ "put(" \in Symbols
  BY <1>1, CharactersAssumption DEF Symbols
<1>3. l \o <<"]])", b>> = l2 /\ l \o <<"]])", b, "put(">> = l3
  BY <1>2
<1>4. l1 \in Seq(Symbols) /\ MarksOf(l1) = Append(MarksOf(l), "]])")
  BY <1>1, <1>2, MarksAppend
<1> HIDE DEF l1
<1>5. l2 \in Seq(Symbols) /\ MarksOf(l2) = MarksOf(l1)
  <2>1. l2 \in Seq(Symbols)
    BY ONLY <1>2, <1>4, AppendProperties
  <2> QED BY ONLY <1>2, <1>4, <2>1, MarksAppend
<1> HIDE DEF l2
<1>6. l3 \in Seq(Symbols) /\ MarksOf(l3) = Append(MarksOf(l2), "put(")
  <2>1. "put(" \in Symbols
    BY <1>2
  <2>2. l3 \in Seq(Symbols)
    BY ONLY <1>5, <2>1, AppendProperties
  <2> QED BY ONLY <1>1, <1>5, <2>1, <2>2, MarksAppend
<1> QED BY <1>3, <1>4, <1>5, <1>6

LEMMA MarksClose ==
    ASSUME NEW l \in Seq(Symbols), EndsInBlank(l)
    PROVE  LET k1 == l \o <<"put([[">>
               k2 == InsertAt(l, Len(l), "put)") \o <<"put([[">>
           IN  /\ k1 \in Seq(Symbols) /\ MarksOf(k1) = Append(MarksOf(l), "put([[")
               /\ k2 \in Seq(Symbols)
               /\ MarksOf(k2) = Append(Append(MarksOf(l), "put)"), "put([[")
<1> DEFINE N == Len(l)
           h == SubSeq(l, 1, N - 1)
           b == l[N]
           h1 == Append(h, "put)")
           h2 == Append(h1, b)
<1>1. "put([[" \in Pieces /\ "put)" \in Pieces
  BY DEF Pieces
<1>2. N \in Nat /\ N > 0 /\ b \in Blank
  BY DEF EndsInBlank, Last
<1>3. b \in Characters /\ b \notin Pieces
  BY <1>2, CharactersAssumption DEF Special
<1>4. "put([[" \in Symbols /\ "put)" \in Symbols /\ b \in Symbols
  BY <1>1, <1>3 DEF Symbols
<1>5. h \in Seq(Symbols) /\ l = Append(h, b)
  BY <1>2
<1>6. InsertAt(l, N, "put)") = h2
  <2>1. SubSeq(l, N, N) = <<b>>
    <3> DEFINE v == SubSeq(l, N, N)
    <3>1. v \in Seq(Symbols) /\ Len(v) = 1 /\ v[1] = b
      <4>1. \A i \in N..N : l[i] \in Symbols
        BY <1>2, <1>4
      <4> QED BY <1>2, <4>1, SubSeqProperties
    <3> HIDE DEF v, b
    <3>2. v = <<b>>
      BY ONLY <3>1
    <3> QED BY <3>2 DEF v
  <2>2. InsertAt(l, N, "put)") = h \o <<"put)">> \o <<b>>
    BY <2>1 DEF InsertAt
  <2> HIDE DEF h, b
  <2>3. h \o <<"put)">> = h1
    BY <1>4, <1>5
  <2>4. h1 \in Seq(Symbols)
    BY <1>4, <1>5
  <2> HIDE DEF h1
  <2>5. h1 \o <<b>> = h2
    BY <1>4, <2>4
  <2> QED BY <2>2, <2>3, <2>5
<1> HIDE DEF h, b
<1>7. MarksOf(l) = MarksOf(h)
  BY <1>3, <1>4, <1>5, MarksAppend
<1>8. h1 \in Seq(Symbols) /\ MarksOf(h1) = Append(MarksOf(h), "put)")
  BY <1>1, <1>4, <1>5, MarksAppend
<1> HIDE DEF h1
<1>9. h2 \in Seq(Symbols) /\ MarksOf(h2) = MarksOf(h1)
  <2>1. h2 \in Seq(Symbols)
    BY ONLY <1>4, <1>8, AppendProperties
  <2> QED BY ONLY <1>3, <1>4, <1>8, <2>1, MarksAppend
<1> HIDE DEF h2
<1>10. \A k \in Seq(Symbols) : /\ k \o <<"put([[">> \in Seq(Symbols)
                              /\ MarksOf(k \o <<"put([[">>) = Append(MarksOf(k), "put([[")
  <2> TAKE k \in Seq(Symbols)
  <2>1. k \o <<"put([[">> = Append(k, "put([[") /\ Append(k, "put([[") \in Seq(Symbols)
    BY <1>4
  <2>2. MarksOf(Append(k, "put([[")) = Append(MarksOf(k), "put([[")
    BY <1>1, <1>4, MarksAppend
  <2> QED BY ONLY <2>1, <2>2
<1> QED BY <1>6, <1>7, <1>8, <1>9, <1>10

-----------------------------------------------------------------------------
(* Every step keeps the invariant.                                         *)
LEMMA TypeKept ==
    ASSUME TypeInv, UNCHANGED <<page, file>>, pos' = pos \/ pos' = pos + 1,
           NEW at \in TextStates \cup CodeStates, NEW kind \in {"chunk", "expression"},
           NEW form \in Forms, s' = [at |-> at, kind |-> kind, form |-> form],
           lua' \in Seq(Symbols)
    PROVE  TypeInv'
BY DEF TypeInv

LEMMA RecordIs ==
    ASSUME TypeInv, NEW at, To(at)
    PROVE  /\ s' = [at |-> at, kind |-> s.kind, form |-> s.form]
           /\ s.kind \in {"chunk", "expression"} /\ s.form \in Forms
BY DEF TypeInv, To

(* The character that is read.                                             *)
LEMMA CharacterRead ==
    ASSUME TypeInv, pos <= Len(file)
    PROVE  c \in Characters
BY ElementOfSeq DEF TypeInv, c

(* A step that appends characters.                                         *)
LEMMA PlainKeeps ==
    ASSUME TypeInv, ScriptInv, UNCHANGED <<page, file, code>>, pos' = pos \/ pos' = pos + 1,
           NEW t \in Seq(Characters), lua' = lua \o t,
           NEW at, NEW kind, NEW form,
           at \in TextStates \cup CodeStates, kind \in {"chunk", "expression"}, form \in Forms,
           s' = [at |-> at, kind |-> kind, form |-> form],
           \/ s.at \in TextStates /\ at \in TextStates
           \/ s.at \in CodeStates /\ at \in CodeStates /\ kind = s.kind,
           at \in {"whitespace", "question_mark"} => EndsInBlank(lua')
    PROVE  TypeInv' /\ ScriptInv'
<1>1. lua' \in Seq(Symbols) /\ Fits(MarksOf(lua'), at, kind)
  <2>1. s'.at = at /\ s'.kind = kind
    OBVIOUS
  <2> QED BY <2>1, PlainStep
<1>2. TypeInv'
  BY <1>1, TypeKept
<1>3. s'.at = at /\ s'.kind = kind
  OBVIOUS
<1> QED BY <1>1, <1>2, <1>3 DEF ScriptInv

LEMMA BlankAtEnd ==
    ASSUME NEW l \in Seq(Symbols), NEW b \in Blank
    PROVE  EndsInBlank(l \o <<b>>)
<1>1. b \in Symbols
  BY CharactersAssumption DEF Symbols, Special
<1> QED BY <1>1 DEF EndsInBlank, Last

LEMMA TextKeeps == TypeInv /\ ScriptInv /\ Text => TypeInv' /\ ScriptInv'
<1> SUFFICES ASSUME TypeInv, ScriptInv, Text PROVE TypeInv' /\ ScriptInv'
  OBVIOUS
<1>1. c \in Characters /\ s.at \in TextStates
  BY CharacterRead, StatesAre DEF Text, In
<1>2. PICK at \in {"start", "expecting_question_mark"}, t \in {<<>>, <<"\\", c>>, <<c>>} :
        To(at) /\ Emit(t)
  BY DEF Text
<1>3. t \in Seq(Characters)
  <2>1. c \in Characters /\ "\\" \in Characters
    BY <1>1, SpecialAre
  <2> QED BY ONLY <1>2, <2>1, String1, String2, EmptySeq
<1>4. /\ s' = [at |-> at, kind |-> s.kind, form |-> s.form]
      /\ s.kind \in {"chunk", "expression"} /\ s.form \in Forms
  BY <1>2, RecordIs
<1>5. at \in TextStates /\ at \notin {"whitespace", "question_mark"}
  BY StatesAre
<1> QED BY <1>1, <1>2, <1>3, <1>4, <1>5, PlainKeeps DEF Emit

(* It was no tag: what had been read is text.                              *)
LEMMA NoTagKeeps ==
    ASSUME TypeInv, ScriptInv, s.at \in TextStates, NEW t \in Seq(Characters), NoTag(t)
    PROVE  TypeInv' /\ ScriptInv'
<1>1. /\ s' = [at |-> "start", kind |-> s.kind, form |-> s.form]
      /\ s.kind \in {"chunk", "expression"} /\ s.form \in Forms
  BY RecordIs DEF NoTag
<1>2. "start" \in TextStates
  BY StatesAre
<1> QED BY <1>1, <1>2, PlainKeeps DEF NoTag, EmitAgain

(* A character of what may become the beginning of a tag.                  *)
LEMMA BeginningKeeps ==
    ASSUME TypeInv, ScriptInv, s.at \in TextStates, Emit(<<>>),
           NEW at \in TextStates, NEW form \in Forms,
           s' = [s EXCEPT !.at = at, !.form = form]
    PROVE  TypeInv' /\ ScriptInv'
<1>1. /\ s' = [at |-> at, kind |-> s.kind, form |-> form]
      /\ s.kind \in {"chunk", "expression"}
  BY DEF TypeInv
<1>2. at \notin {"whitespace", "question_mark"}
  BY StatesAre
<1>3. <<>> \in Seq(Characters)
  BY EmptySeq
<1> QED BY <1>1, <1>2, <1>3, PlainKeeps DEF Emit

LEMMA ToIsExcept ==
    ASSUME TypeInv, NEW at, To(at)
    PROVE  s' = [s EXCEPT !.at = at, !.form = s.form] /\ s.form \in Forms
BY DEF TypeInv, To

LEMMA ExpectingQuestionMarkKeeps ==
    TypeInv /\ ScriptInv /\ ExpectingQuestionMark => TypeInv' /\ ScriptInv'
<1> SUFFICES ASSUME TypeInv, ScriptInv, ExpectingQuestionMark PROVE TypeInv' /\ ScriptInv'
  OBVIOUS
<1>1. s.at \in TextStates
  BY StatesAre DEF ExpectingQuestionMark, In
<1>2. CASE \E at \in {"expecting_l", "expecting_space_1"} :
             c \in Forms /\ s' = [s EXCEPT !.at = at, !.form = c] /\ Emit(<<>>)
  BY <1>1, <1>2, BeginningKeeps, StatesAre
<1>3. CASE NoTag(<<"<">>)
  <2>1. <<"<">> \in Seq(Characters)
    BY SpecialAre, String1
  <2> QED BY <1>1, <1>3, <2>1, NoTagKeeps
<1> QED BY <1>2, <1>3 DEF ExpectingQuestionMark, Forms

LEMMA ExpectingLetterKeeps ==
    TypeInv /\ ScriptInv /\ ExpectingLetter => TypeInv' /\ ScriptInv'
<1> SUFFICES ASSUME TypeInv, ScriptInv, ExpectingLetter PROVE TypeInv' /\ ScriptInv'
  OBVIOUS
<1>1. PICK l \in Letters :
        /\ In({l[1]})
        /\ \/ c = l[2] /\ To(l[3]) /\ Emit(<<>>)
           \/ c # l[2] /\ NoTag(l[4])
  BY DEF ExpectingLetter
<1>2. s.at \in TextStates /\ l[3] \in TextStates
  BY <1>1, StatesAre DEF In, Letters
<1>3. l[4] \in Seq(Characters)
  <2>1. /\ <<"<", "?">> \in Seq(Characters) /\ <<"<", "?", "l">> \in Seq(Characters)
        /\ <<"<", "?", "l", "u">> \in Seq(Characters)
    BY SpecialAre, String2, String3, String4
  <2>2. l[4] \in {<<"<", "?">>, <<"<", "?", "l">>, <<"<", "?", "l", "u">>}
    BY DEF Letters
  <2> QED BY ONLY <2>1, <2>2
<1>4. CASE To(l[3]) /\ Emit(<<>>)
  BY <1>2, <1>4, ToIsExcept, BeginningKeeps
<1>5. CASE NoTag(l[4])
  BY <1>2, <1>3, <1>5, NoTagKeeps
<1> QED BY <1>1, <1>4, <1>5

(* A tag begins: the text ends and code follows.                           *)
LEMMA OpenKeeps ==
    ASSUME TypeInv, ScriptInv, s.at \in TextStates, NEW b \in Characters,
           NEW kind \in {"chunk", "expression"},
           s' = [s EXCEPT !.at = "code", !.kind = kind],
           \/ kind = "chunk" /\ Emit(<<"]])", b>>)
           \/ kind = "expression" /\ Emit(<<"]])", b, "put(">>)
    PROVE  TypeInv' /\ ScriptInv'
<1> DEFINE m == MarksOf(lua)
           m1 == Append(m, "]])")
           m2 == Append(m1, "put(")
<1>1. m \in Seq(Pieces) /\ m # <<>> /\ InTurn(m) /\ Last(m) = "put([["
  BY DEF ScriptInv, Fits
<1>2. "]])" \in Pieces /\ "put(" \in Pieces
      /\ <<"put([[", "]])">> \in Follows /\ <<"]])", "put(">> \in Follows
  BY DEF Pieces, Follows
<1> HIDE DEF m
<1>3. /\ m1 \in Seq(Pieces) /\ m1 # <<>> /\ InTurn(m1) /\ Last(m1) = "]])"
  BY ONLY <1>1, <1>2, InTurnAppend
<1> HIDE DEF m1
<1>4. /\ m2 \in Seq(Pieces) /\ m2 # <<>> /\ InTurn(m2) /\ Last(m2) = "put("
  BY ONLY <1>2, <1>3, InTurnAppend
<1> HIDE DEF m2
<1>5. "code" \in CodeStates /\ "code" \notin TextStates
  BY StatesAre DEF CodeStates
<1>6. lua' \in Seq(Symbols) /\ Fits(MarksOf(lua'), "code", kind)
  <2>1. lua \in Seq(Symbols)
    BY DEF TypeInv
  <2>2. CASE kind = "chunk" /\ lua' = lua \o <<"]])", b>>
    <3>1. lua' \in Seq(Symbols) /\ MarksOf(lua') = m1
      BY <2>1, <2>2, MarksOpen DEF m, m1
    <3> QED BY <1>3, <1>5, <2>2, <3>1 DEF Fits
  <2>3. CASE kind = "expression" /\ lua' = lua \o <<"]])", b, "put(">>
    <3>1. lua' \in Seq(Symbols) /\ MarksOf(lua') = m2
      BY <2>1, <2>3, MarksOpen DEF m, m1, m2
    <3> QED BY <1>4, <1>5, <2>3, <3>1 DEF Fits
  <2> QED BY <2>2, <2>3 DEF Emit
<1>7. s' = [at |-> "code", kind |-> kind, form |-> s.form] /\ s.form \in Forms
  BY DEF TypeInv
<1>8. TypeInv'
  BY <1>5, <1>6, <1>7, TypeKept DEF Emit
<1> QED BY <1>6, <1>7, <1>8 DEF ScriptInv

LEMMA ExpectingSpace1Keeps ==
    TypeInv /\ ScriptInv /\ ExpectingSpace1 => TypeInv' /\ ScriptInv'
<1> SUFFICES ASSUME TypeInv, ScriptInv, ExpectingSpace1 PROVE TypeInv' /\ ScriptInv'
  OBVIOUS
<1>1. s.at \in TextStates /\ c \in Characters
  BY CharacterRead, StatesAre DEF ExpectingSpace1, In
<1>2. CASE s' = [s EXCEPT !.at = "code", !.kind = "chunk"] /\ Emit(<<"]])", c>>)
  BY <1>1, <1>2, OpenKeeps
<1>3. CASE To("expecting_space_2") /\ Emit(<<>>)
  BY <1>1, <1>3, StatesAre, ToIsExcept, BeginningKeeps
<1>4. CASE NoTag(Opening("chunk", s.form))
  <2>1. Opening("chunk", s.form) \in Seq(Characters)
    BY OpeningTyped DEF TypeInv, Kinds
  <2> QED BY <1>1, <1>4, <2>1, NoTagKeeps
<1> QED BY <1>2, <1>3, <1>4 DEF ExpectingSpace1

LEMMA ExpectingSpace2Keeps ==
    TypeInv /\ ScriptInv /\ ExpectingSpace2 => TypeInv' /\ ScriptInv'
<1> SUFFICES ASSUME TypeInv, ScriptInv, ExpectingSpace2 PROVE TypeInv' /\ ScriptInv'
  OBVIOUS
<1>1. s.at \in TextStates /\ c \in Characters
  BY CharacterRead, StatesAre DEF ExpectingSpace2, In
<1>2. CASE s' = [s EXCEPT !.at = "code", !.kind = "expression"]
           /\ Emit(<<"]])", c, "put(">>)
  BY <1>1, <1>2, OpenKeeps
<1> DEFINE t == IF s.form = "?" THEN <<"<", "l", "u", "a", "=">> ELSE <<"<", "%", "=">>
<1>3. CASE NoTag(t)
  <2>1. <<"<", "l", "u", "a", "=">> \in Seq(Characters) /\ <<"<", "%", "=">> \in Seq(Characters)
    BY SpecialAre, String3, String5
  <2>2. t \in Seq(Characters)
    BY <2>1
  <2> QED BY <1>1, <1>3, <2>2, NoTagKeeps
<1> QED BY <1>2, <1>3 DEF ExpectingSpace2

(* Within a tag.                                                           *)
LEMMA InTagKeeps ==
    ASSUME TypeInv, ScriptInv, s.at \in CodeStates,
           UNCHANGED <<page, file, code>>, pos' = pos \/ pos' = pos + 1,
           NEW t \in Seq(Characters), lua' = lua \o t,
           NEW at \in CodeStates, To(at),
           at \in {"whitespace", "question_mark"} => EndsInBlank(lua')
    PROVE  TypeInv' /\ ScriptInv'
<1>1. /\ s' = [at |-> at, kind |-> s.kind, form |-> s.form]
      /\ s.kind \in {"chunk", "expression"} /\ s.form \in Forms
  BY RecordIs
<1> QED BY <1>1, PlainKeeps

LEMMA CodeKeeps == TypeInv /\ ScriptInv /\ Code => TypeInv' /\ ScriptInv'
<1> SUFFICES ASSUME TypeInv, ScriptInv, Code PROVE TypeInv' /\ ScriptInv'
  OBVIOUS
<1>1. s.at \in CodeStates /\ c \in Characters /\ <<c>> \in Seq(Characters)
  BY CharacterRead, String1 DEF Code, In, CodeStates
<1>2. PICK at : /\ at \in {"single_quote", "double_quote", "whitespace", "code"}
                /\ at = "whitespace" => c \in Blank
                /\ To(at) /\ Emit(<<c>>)
  BY DEF Code
<1>3. at = "whitespace" => EndsInBlank(lua')
  BY <1>2, BlankAtEnd DEF TypeInv, Emit
<1> QED BY <1>1, <1>2, <1>3, InTagKeeps DEF Emit, CodeStates

LEMMA WhitespaceKeeps == TypeInv /\ ScriptInv /\ Whitespace => TypeInv' /\ ScriptInv'
<1> SUFFICES ASSUME TypeInv, ScriptInv, Whitespace PROVE TypeInv' /\ ScriptInv'
  OBVIOUS
<1>1. /\ s.at = "whitespace" /\ s.at \in CodeStates /\ EndsInBlank(lua)
      /\ c \in Characters /\ <<c>> \in Seq(Characters) /\ <<>> \in Seq(Characters)
  BY CharacterRead, String1, EmptySeq DEF Whitespace, In, CodeStates, ScriptInv
<1>2. lua \o <<>> = lua
  BY ConcatEmptySeq DEF TypeInv
<1>3. CASE To("question_mark") /\ Emit(<<>>)
  BY <1>1, <1>2, <1>3, InTagKeeps DEF Emit, CodeStates
<1>4. CASE c \in Blank /\ UNCHANGED s /\ Emit(<<c>>)
  <2>1. To("whitespace")
    BY <1>1, <1>4 DEF TypeInv, To
  <2>2. EndsInBlank(lua')
    BY <1>4, BlankAtEnd DEF TypeInv, Emit
  <2> QED BY <1>1, <1>4, <2>1, <2>2, InTagKeeps DEF Emit, CodeStates
<1>5. CASE To("code") /\ EmitAgain(<<>>)
  BY <1>1, <1>5, InTagKeeps DEF EmitAgain, CodeStates
<1> QED BY <1>3, <1>4, <1>5 DEF Whitespace

LEMMA TwoQuotes ==
  ASSUME NEW x, NEW y, NEW q,
         q \in {<<"single_quote", x, "single_quote_escape">>,
                <<"double_quote", y, "double_quote_escape">>}
  PROVE  /\ q[1] \in {"single_quote", "single_quote_escape", "double_quote",
                       "double_quote_escape"}
         /\ q[3] \in {"single_quote", "single_quote_escape", "double_quote",
                       "double_quote_escape"}
<1>1. CASE q = <<"single_quote", x, "single_quote_escape">>
  BY <1>1
<1>2. CASE q = <<"double_quote", y, "double_quote_escape">>
  BY <1>2
<1> QED BY <1>1, <1>2

LEMMA QuotedKeeps == TypeInv /\ ScriptInv /\ Quoted => TypeInv' /\ ScriptInv'
<1> SUFFICES ASSUME TypeInv, ScriptInv, Quoted PROVE TypeInv' /\ ScriptInv'
  OBVIOUS
<1> DEFINE Q == {"single_quote", "single_quote_escape", "double_quote", "double_quote_escape"}
<1> DEFINE D == {<<"single_quote", "'", "single_quote_escape">>,
                <<"double_quote", "DQ", "double_quote_escape">>}
<1>a. PICK q \in D :
        /\ \/ In({q[1]}) /\ To(IF c = q[2] THEN "code" ELSE IF c = "\\" THEN q[3] ELSE q[1])
           \/ In({q[3]}) /\ To(q[1])
        /\ Emit(<<c>>)
  BY Zenon DEF Quoted
<1>b. q[1] \in Q /\ q[3] \in Q
  BY TwoQuotes, Zenon
<1> HIDE DEF D
<1>1. s.at \in Q /\ pos <= Len(file) /\ Emit(<<c>>)
  BY <1>a, <1>b DEF In
<1>2. PICK at \in Q \cup {"code"} : To(at)
  <2>1. CASE To(IF c = q[2] THEN "code" ELSE IF c = "\\" THEN q[3] ELSE q[1])
    <3> DEFINE at == IF c = q[2] THEN "code" ELSE IF c = "\\" THEN q[3] ELSE q[1]
    <3>1. at \in Q \cup {"code"}
      BY <1>b
    <3> QED BY <2>1, <3>1, Zenon
  <2>2. CASE To(q[1])
    BY <1>b, <2>2, Zenon
  <2> QED BY <1>a, <2>1, <2>2
<1>3. s.at \in CodeStates /\ at \in CodeStates /\ at \notin {"whitespace", "question_mark"}
  BY <1>1 DEF CodeStates
<1>4. <<c>> \in Seq(Characters)
  BY <1>1, CharacterRead, String1
<1> HIDE DEF Q
<1> QED BY <1>1, <1>2, <1>3, <1>4, InTagKeeps DEF Emit

(* The tag ends, or not.                                                   *)
LEMMA QuestionMarkKeeps == TypeInv /\ ScriptInv /\ QuestionMark => TypeInv' /\ ScriptInv'
<1> SUFFICES ASSUME TypeInv, ScriptInv, QuestionMark PROVE TypeInv' /\ ScriptInv'
  OBVIOUS
<1>1. /\ s.at = "question_mark" /\ s.at \in CodeStates /\ EndsInBlank(lua)
      /\ lua \in Seq(Symbols)
  BY DEF QuestionMark, In, CodeStates, ScriptInv, TypeInv
<1>2. CASE To("code") /\ EmitAgain(<<s.form>>)
  <2>1. <<s.form>> \in Seq(Characters)
    BY SpecialAre, String1 DEF TypeInv, Forms
  <2> QED BY <1>1, <1>2, <2>1, InTagKeeps DEF EmitAgain, CodeStates
<1>3. CASE c = ">"
  <2> DEFINE m == MarksOf(lua)
             m0 == IF s.kind = "expression" THEN Append(m, "put)") ELSE m
             m1 == Append(m0, "put([[")
  <2>1. /\ m \in Seq(Pieces) /\ m # <<>> /\ InTurn(m)
        /\ s.kind = "expression" <=> Last(m) = "put("
        /\ Last(m) # "put([["
    BY <1>1, StatesAre DEF ScriptInv, Fits
  <2>2. Last(m) \in Pieces
    BY <2>1 DEF Last
  <2>3. "put([[" \in Pieces /\ "put)" \in Pieces
        /\ <<"put(", "put)">> \in Follows /\ <<"put)", "put([[">> \in Follows
        /\ <<"]])", "put([[">> \in Follows
    BY DEF Pieces, Follows
  <2>4. Last(m) \in {"put(", "]])", "put)"}
    BY <2>1, <2>2 DEF Pieces
  <2>5. lua' \in Seq(Symbols) /\ MarksOf(lua') = m1
    <3>1. CASE s.kind = "expression"
      <4>1. lua' = InsertAt(lua, Len(lua), "put)") \o <<"put([[">>
        BY <1>3, <3>1 DEF QuestionMark
      <4> QED BY ONLY <1>1, <3>1, <4>1, MarksClose
    <3>2. CASE s.kind # "expression"
      <4>1. lua' = lua \o <<"put([[">>
        BY <1>3, <3>2 DEF QuestionMark
      <4> QED BY ONLY <1>1, <3>2, <4>1, MarksClose
    <3> QED BY <3>1, <3>2
  <2> HIDE DEF m
  <2>6. /\ m0 \in Seq(Pieces) /\ m0 # <<>> /\ InTurn(m0)
        /\ <<Last(m0), "put([[">> \in Follows
    <3>1. CASE s.kind = "expression"
      <4> DEFINE w == Append(m, "put)")
      <4>1. Last(m) = "put("
        BY <2>1, <3>1
      <4>2. w \in Seq(Pieces) /\ w # <<>> /\ InTurn(w) /\ Last(w) = "put)"
        BY ONLY <2>1, <2>3, <4>1, InTurnAppend
      <4> HIDE DEF w
      <4>3. m0 = w
        BY <3>1 DEF w
      <4> QED BY ONLY <2>3, <4>2, <4>3
    <3>2. CASE s.kind # "expression"
      BY <2>1, <2>3, <2>4, <3>2
    <3> QED BY <3>1, <3>2
  <2> HIDE DEF m0
  <2>7. /\ m1 \in Seq(Pieces) /\ m1 # <<>> /\ InTurn(m1) /\ Last(m1) = "put([["
    BY ONLY <2>3, <2>6, InTurnAppend
  <2> HIDE DEF m1
  <2>8. /\ To("ignore_newline") /\ pos' = pos + 1
        /\ UNCHANGED <<page, file, code>>
    BY <1>3 DEF QuestionMark
  <2>9. "ignore_newline" \in TextStates /\ "ignore_newline" \notin CodeStates
    BY StatesAre
  <2>10. /\ s' = [at |-> "ignore_newline", kind |-> s.kind, form |-> s.form]
         /\ s.kind \in {"chunk", "expression"} /\ s.form \in Forms
    BY <2>8, RecordIs
  <2>11. TypeInv'
    BY <2>5, <2>8, <2>9, <2>10, TypeKept
  <2>12. Fits(MarksOf(lua'), "ignore_newline", s.kind)
    BY <2>5, <2>7, <2>9 DEF Fits
  <2>13. s'.at = "ignore_newline" /\ s'.kind = s.kind
    BY <2>10
  <2> QED BY <2>11, <2>12, <2>13 DEF ScriptInv
<1> QED BY <1>2, <1>3 DEF QuestionMark

LEMMA TemplateInvInit == Init => TemplateInv
<1> SUFFICES ASSUME Init PROVE TemplateInv
  OBVIOUS
<1>1. lua = Append(<<>>, "put([[") /\ <<>> \in Seq(Symbols) /\ "put([[" \in Pieces
      /\ "put([[" \in Symbols
  BY EmptySeq DEF Init, Pieces, Symbols
<1>2. MarksOf(<<>>) = <<>>
  BY DEF MarksOf, FlattenSeq
<1>3. MarksOf(lua) = Append(<<>>, "put([[")
  BY <1>1, <1>2, MarksAppend
<1>4. Fits(MarksOf(lua), s.at, s.kind)
  <2> DEFINE m == MarksOf(lua)
  <2>1. /\ m \in Seq(Pieces) /\ m # <<>> /\ Len(m) = 1 /\ m[1] = "put([["
    <3>1. <<>> \in Seq(Pieces)
      BY EmptySeq
    <3>2. m = Append(<<>>, "put([[")
      BY <1>3
    <3>3. "put([[" \in Pieces
      BY DEF Pieces
    <3> HIDE DEF m
    <3> QED BY ONLY <3>1, <3>2, <3>3, AppendProperties
  <2> HIDE DEF m
  <2>2. InTurn(m) /\ Last(m) = "put([["
    BY <2>1 DEF InTurn, Last
  <2>3. s.at \in TextStates /\ s.at \notin CodeStates
    BY StatesAre DEF Init
  <2> QED BY <2>1, <2>2, <2>3 DEF Fits, m
<1>5. s.at \notin {"whitespace", "question_mark"}
  BY DEF Init
<1> QED BY <1>4, <1>5, TypeInvInit DEF TemplateInv, ScriptInv

LEMMA TemplateInvNext == TemplateInv /\ [Next]_vars => TemplateInv'
<1> SUFFICES ASSUME TemplateInv, [Next]_vars PROVE TemplateInv'
  OBVIOUS
<1>1. CASE RunLua
  <2>1. code' # 0 /\ UNCHANGED <<page, file, pos, s>> /\ lua' = Append(lua, "]])")
    BY <1>1 DEF RunLua
  <2>2. "]])" \in Symbols
    BY DEF Symbols, Pieces
  <2> QED BY <2>1, <2>2 DEF TemplateInv, TypeInv
<1>2. CASE UNCHANGED vars
  BY <1>2 DEF vars, TemplateInv, TypeInv, ScriptInv
<1>3. CASE Next /\ ~ RunLua
  <2>1. code = 0
    BY <1>3 DEF Next, In, Text, ExpectingQuestionMark, ExpectingLetter, ExpectingSpace1,
         ExpectingSpace2, Code, Whitespace, Quoted, QuestionMark
  <2>2. TypeInv /\ ScriptInv
    BY <2>1 DEF TemplateInv
  <2>3. TypeInv' /\ ScriptInv'
    BY <1>3, <2>2, TextKeeps, ExpectingQuestionMarkKeeps, ExpectingLetterKeeps,
       ExpectingSpace1Keeps, ExpectingSpace2Keeps, CodeKeeps, WhitespaceKeeps,
       QuotedKeeps, QuestionMarkKeeps DEF Next
  <2> QED BY <2>3 DEF TemplateInv
<1> QED BY <1>1, <1>2, <1>3

(* Every page is translated with the invariant.                            *)
THEOREM TemplateInvariant == Spec => []TemplateInv
<1> QED BY TemplateInvInit, TemplateInvNext, PTL DEF Spec

(* For every page, the text of it is never taken for code nor code for     *)
(* text: do_lua opens and closes the calls of put in turn and as its state *)
(* says, and has a blank to put the closing parenthesis before.            *)
THEOREM TextAndCodeApart == Spec => []ScriptStructure
<1>1. TemplateInv => ScriptStructure
  <2>1. Marks = MarksOf(lua)
    BY DEF Marks, MarksOf
  <2> QED BY <2>1 DEF TemplateInv, ScriptInv, Fits, InTurn, Follows, ScriptStructure,
                      EndsInBlank
<1> QED BY <1>1, TemplateInvariant, PTL

-----------------------------------------------------------------------------
(* What a script puts: the run of it exists for every script, and goes on  *)
(* statement by statement.                                                 *)
Fresh == [out |-> <<>>, text |-> FALSE]

LEMMA RunningIs ==
    ASSUME NEW S, NEW l \in Seq(S)
    PROVE  /\ Running(l)[0] = Fresh
           /\ \A i \in 1..Len(l) : Running(l)[i] = Statement(Running(l)[i - 1], l, i)
<1> DEFINE N == Len(l)
           StepOf(g, i) == IF i = 0 THEN Fresh ELSE Statement(g[i - 1], l, i)
           E == {m \in Nat : m <= N => \E g : g = [i \in 0..m |-> StepOf(g, i)]}
<1>0. N \in Nat
  OBVIOUS
<1>1. \A m \in Nat : m \in E
  <2>1. 0 \in E
    <3> DEFINE g == [i \in 0..0 |-> Fresh]
    <3>1. g = [i \in 0..0 |-> StepOf(g, i)]
      OBVIOUS
    <3> QED BY <3>1
  <2>2. ASSUME NEW m \in Nat, m \in E PROVE m + 1 \in E
    <3> SUFFICES ASSUME m + 1 <= N
                 PROVE  \E g : g = [i \in 0..(m + 1) |-> StepOf(g, i)]
      OBVIOUS
    <3>1. PICK g : g = [i \in 0..m |-> StepOf(g, i)]
      BY <1>0, <2>2
    <3> DEFINE h == [i \in 0..(m + 1) |-> IF i = m + 1 THEN StepOf(g, i) ELSE g[i]]
    <3>2. ASSUME NEW i \in 0..(m + 1) PROVE h[i] = StepOf(h, i)
      <4>1. i # 0 => i - 1 \in 0..m /\ h[i - 1] = g[i - 1]
        OBVIOUS
      <4>2. StepOf(h, i) = StepOf(g, i)
        <5> HIDE DEF h
        <5> QED BY <4>1
      <4>3. CASE i = m + 1
        BY <4>2, <4>3
      <4>4. CASE i # m + 1
        <5>1. i \in 0..m
          BY <4>4
        <5>2. g[i] = StepOf(g, i)
          BY <3>1, <5>1
        <5> QED BY <4>2, <4>4, <5>2
      <4> QED BY <4>3, <4>4
    <3>3. h = [i \in 0..(m + 1) |-> h[i]]
      OBVIOUS
    <3> HIDE DEF h
    <3>4. h = [i \in 0..(m + 1) |-> StepOf(h, i)]
      BY <3>2, <3>3
    <3> QED BY <3>4
  <2> HIDE DEF E
  <2> QED BY <2>1, <2>2, SetInduction
<1> DEFINE st == CHOOSE st : st = [i \in 0..Len(l) |-> StepOf(st, i)]
<1>2. st = [i \in 0..N |-> StepOf(st, i)]
  <2>1. \E g : g = [i \in 0..Len(l) |-> StepOf(g, i)]
    BY <1>0, <1>1
  <2> HIDE DEF StepOf
  <2> QED BY <2>1
<1>3. Running(l) = st
  BY DEF Running, Fresh
<1> HIDE DEF st
<1>4. st[0] = Fresh
  BY <1>0, <1>2
<1>5. \A i \in 1..N : st[i] = Statement(st[i - 1], l, i)
  BY <1>0, <1>2
<1> QED BY <1>3, <1>4, <1>5

(* The same for where Lua is in code.                                      *)
Outside == [quote |-> "", escape |-> FALSE]

LEMMA WhereIs ==
    ASSUME NEW S, NEW t \in Seq(S)
    PROVE  /\ Where(t)[0] = Outside
           /\ \A i \in 1..Len(t) : Where(t)[i] = Behind(Where(t)[i - 1], t[i])
<1> DEFINE N == Len(t)
           StepOf(g, i) == IF i = 0 THEN Outside ELSE Behind(g[i - 1], t[i])
           E == {m \in Nat : m <= N => \E g : g = [i \in 0..m |-> StepOf(g, i)]}
<1>0. N \in Nat
  OBVIOUS
<1>1. \A m \in Nat : m \in E
  <2>1. 0 \in E
    <3> DEFINE g == [i \in 0..0 |-> Outside]
    <3>1. g = [i \in 0..0 |-> StepOf(g, i)]
      OBVIOUS
    <3> QED BY <3>1
  <2>2. ASSUME NEW m \in Nat, m \in E PROVE m + 1 \in E
    <3> SUFFICES ASSUME m + 1 <= N
                 PROVE  \E g : g = [i \in 0..(m + 1) |-> StepOf(g, i)]
      OBVIOUS
    <3>1. PICK g : g = [i \in 0..m |-> StepOf(g, i)]
      BY <1>0, <2>2
    <3> DEFINE h == [i \in 0..(m + 1) |-> IF i = m + 1 THEN StepOf(g, i) ELSE g[i]]
    <3>2. ASSUME NEW i \in 0..(m + 1) PROVE h[i] = StepOf(h, i)
      <4>1. i # 0 => i - 1 \in 0..m /\ h[i - 1] = g[i - 1]
        OBVIOUS
      <4>2. StepOf(h, i) = StepOf(g, i)
        <5> HIDE DEF h
        <5> QED BY <4>1
      <4>3. CASE i = m + 1
        BY <4>2, <4>3
      <4>4. CASE i # m + 1
        <5>1. i \in 0..m
          BY <4>4
        <5>2. g[i] = StepOf(g, i)
          BY <3>1, <5>1
        <5> QED BY <4>2, <4>4, <5>2
      <4> QED BY <4>3, <4>4
    <3>3. h = [i \in 0..(m + 1) |-> h[i]]
      OBVIOUS
    <3> HIDE DEF h
    <3>4. h = [i \in 0..(m + 1) |-> StepOf(h, i)]
      BY <3>2, <3>3
    <3> QED BY <3>4
  <2> HIDE DEF E
  <2> QED BY <2>1, <2>2, SetInduction
<1> DEFINE st == CHOOSE st : st = [i \in 0..Len(t) |-> StepOf(st, i)]
<1>2. st = [i \in 0..N |-> StepOf(st, i)]
  BY <1>0, <1>1
<1>3. Where(t) = st
  BY DEF Where, Outside
<1> HIDE DEF st
<1>4. st[0] = Outside
  BY <1>0, <1>2
<1>5. \A i \in 1..N : st[i] = Behind(st[i - 1], t[i])
  BY <1>0, <1>2
<1> QED BY <1>3, <1>4, <1>5

(* What is behind the last statement of a script.                          *)
Run(l) == Running(l)[Len(l)]

(* One more statement.                                                     *)
LEMMA RunAppend ==
    ASSUME NEW S, NEW l \in Seq(S), NEW x \in S
    PROVE  Run(Append(l, x)) = Statement(Run(l), Append(l, x), Len(l) + 1)
<1> DEFINE k == Append(l, x)
           N == Len(l)
           f == Running(l)
           g == Running(k)
<1>1. /\ N \in Nat /\ k \in Seq(S) /\ Len(k) = N + 1
      /\ \A i \in 1..N : k[i] = l[i]
  BY AppendProperties
<1>2. f[0] = Fresh /\ \A i \in 1..N : f[i] = Statement(f[i - 1], l, i)
  BY RunningIs
<1>3. g[0] = Fresh /\ \A i \in 1..(N + 1) : g[i] = Statement(g[i - 1], k, i)
  <2> HIDE DEF k
  <2> QED BY <1>1, RunningIs
<1> DEFINE T == {m \in Nat : m <= N => g[m] = f[m]}
<1> HIDE DEF f, g, k
<1>4. 0 \in T
  BY <1>2, <1>3
<1>5. ASSUME NEW m \in Nat, m \in T PROVE m + 1 \in T
  <2> SUFFICES ASSUME m + 1 <= N PROVE g[m + 1] = f[m + 1]
    OBVIOUS
  <2>1. m + 1 \in 1..N /\ m + 1 \in 1..(N + 1) /\ (m + 1) - 1 = m /\ g[m] = f[m]
    BY <1>1, <1>5
  <2>2. g[m + 1] = Statement(f[m], k, m + 1) /\ f[m + 1] = Statement(f[m], l, m + 1)
    BY <1>2, <1>3, <2>1
  <2>3. k[m + 1] = l[m + 1]
    BY <1>1, <2>1
  <2>4. CASE m = 0
    <3>1. f[m].text = FALSE
      BY <1>2, <2>4 DEF Fresh
    <3> QED BY <2>2, <2>3, <3>1 DEF Statement
  <2>5. CASE m # 0
    <3>1. m \in 1..N
      BY <2>1, <2>5
    <3>2. k[(m + 1) - 1] = l[(m + 1) - 1]
      BY <1>1, <2>1, <3>1
    <3> QED BY <2>2, <2>3, <3>2 DEF Statement
  <2> QED BY <2>4, <2>5
<1>6. g[N] = f[N]
  <2> HIDE DEF T
  <2>1. N \in T
    BY <1>1, <1>4, <1>5, SetInduction
  <2> QED BY <1>1, <2>1 DEF T
<1>7. g[N + 1] = Statement(f[N], k, N + 1)
  <2>1. N + 1 \in 1..(N + 1) /\ (N + 1) - 1 = N
    BY <1>1
  <2> QED BY <1>3, <1>6, <2>1
<1> QED BY <1>1, <1>7 DEF Run, f, g, k

(* What scripts put.                                                       *)
Shows == Seq(Characters \cup {"value"})

(* The "]])" at i is followed by "put([[" before the next one.             *)
TextAgain(l, i) ==
    \E j \in (i + 1)..Len(l) : l[j] = "put([[" /\ \A k \in (i + 1)..(j - 1) : l[k] # "]])"

AllClosed(l) == \A i \in 1..Len(l) : l[i] = "]])" => TextAgain(l, i)

(* The last "]])" is not, and those before it are.                         *)
LastOpen(l) ==
    \E i \in 1..Len(l) :
        /\ l[i] = "]])" /\ \A k \in (i + 1)..Len(l) : l[k] \notin {"]])", "put([["}
        /\ \A k \in 1..(i - 1) : l[k] = "]])" => TextAgain(l, k)

LEMMA TextAgainAppend ==
    ASSUME NEW S, NEW l \in Seq(S), NEW x \in S, NEW i \in 1..Len(l), TextAgain(l, i)
    PROVE  TextAgain(Append(l, x), i)
<1> DEFINE k == Append(l, x)
           N == Len(l)
<1>1. N \in Nat /\ Len(k) = N + 1 /\ \A j \in 1..N : k[j] = l[j]
  BY AppendProperties
<1>2. PICK j \in (i + 1)..N : l[j] = "put([[" /\ \A m \in (i + 1)..(j - 1) : l[m] # "]])"
  BY DEF TextAgain
<1>3. j \in (i + 1)..Len(k) /\ j \in 1..N /\ (i + 1)..(j - 1) \subseteq 1..N
  BY <1>1
<1> HIDE DEF k
<1>4. k[j] = "put([[" /\ \A m \in (i + 1)..(j - 1) : k[m] # "]])"
  BY <1>1, <1>2, <1>3
<1> QED BY <1>3, <1>4 DEF TextAgain, k

LEMMA ClosedAppend ==
    ASSUME NEW S, NEW l \in Seq(S), NEW x \in S, AllClosed(l), x # "]])"
    PROVE  AllClosed(Append(l, x))
<1> DEFINE k == Append(l, x)
           N == Len(l)
<1>1. N \in Nat /\ Len(k) = N + 1 /\ k[N + 1] = x /\ \A j \in 1..N : k[j] = l[j]
  BY AppendProperties
<1> SUFFICES ASSUME NEW i \in 1..Len(k), k[i] = "]])" PROVE TextAgain(k, i)
  BY DEF AllClosed
<1>2. i \in 1..N /\ l[i] = "]])"
  BY <1>1
<1>3. TextAgain(l, i)
  BY <1>2 DEF AllClosed
<1> QED BY <1>2, <1>3, TextAgainAppend

LEMMA ClosedEnds ==
    ASSUME NEW S, NEW l \in Seq(S), "]])" \in S, AllClosed(l)
    PROVE  LastOpen(Append(l, "]])"))
<1> DEFINE k == Append(l, "]])")
           N == Len(l)
<1>1. N \in Nat /\ Len(k) = N + 1 /\ k[N + 1] = "]])" /\ \A j \in 1..N : k[j] = l[j]
  BY AppendProperties
<1>2. ASSUME NEW i \in 1..N, k[i] = "]])" PROVE TextAgain(k, i)
  <2>1. TextAgain(l, i)
    BY <1>1, <1>2 DEF AllClosed
  <2> QED BY <2>1, TextAgainAppend
<1> HIDE DEF k
<1>3. /\ N + 1 \in 1..Len(k) /\ (N + 1) - 1 = N
      /\ \A m \in ((N + 1) + 1)..Len(k) : k[m] \notin {"]])", "put([["}
  BY <1>1
<1> QED BY <1>1, <1>2, <1>3 DEF LastOpen, k

LEMMA OpenAppend ==
    ASSUME NEW S, NEW l \in Seq(S), NEW x \in S, LastOpen(l), x \notin {"]])", "put([["}
    PROVE  LastOpen(Append(l, x))
<1> DEFINE k == Append(l, x)
           N == Len(l)
<1>1. N \in Nat /\ Len(k) = N + 1 /\ k[N + 1] = x /\ \A j \in 1..N : k[j] = l[j]
  BY AppendProperties
<1>2. PICK i \in 1..N :
        /\ l[i] = "]])" /\ \A m \in (i + 1)..N : l[m] \notin {"]])", "put([["}
        /\ \A m \in 1..(i - 1) : l[m] = "]])" => TextAgain(l, m)
  BY DEF LastOpen
<1>3. ASSUME NEW m \in 1..(i - 1), k[m] = "]])" PROVE TextAgain(k, m)
  <2>1. m \in 1..N /\ TextAgain(l, m)
    BY <1>1, <1>2, <1>3
  <2> QED BY <2>1, TextAgainAppend
<1> HIDE DEF k
<1>4. \A m \in (i + 1)..Len(k) : k[m] \notin {"]])", "put([["}
  <2> TAKE m \in (i + 1)..Len(k)
  <2>1. m = N + 1 \/ (m \in (i + 1)..N /\ m \in 1..N)
    BY <1>1
  <2> QED BY <1>1, <1>2, <2>1
<1>5. i \in 1..Len(k) /\ k[i] = "]])"
  BY <1>1, <1>2
<1> QED BY <1>3, <1>4, <1>5 DEF LastOpen, k

LEMMA OpenEnds ==
    ASSUME NEW S, NEW l \in Seq(S), "put([[" \in S, LastOpen(l)
    PROVE  AllClosed(Append(l, "put([["))
<1> DEFINE k == Append(l, "put([[")
           N == Len(l)
<1>1. N \in Nat /\ Len(k) = N + 1 /\ k[N + 1] = "put([[" /\ \A j \in 1..N : k[j] = l[j]
  BY AppendProperties
<1>2. PICK i \in 1..N :
        /\ l[i] = "]])" /\ \A m \in (i + 1)..N : l[m] \notin {"]])", "put([["}
        /\ \A m \in 1..(i - 1) : l[m] = "]])" => TextAgain(l, m)
  BY DEF LastOpen
<1>3. ASSUME NEW m \in 1..Len(k), k[m] = "]])" PROVE TextAgain(k, m)
  <2>1. m \in 1..N /\ l[m] = "]])"
    BY <1>1, <1>3
  <2>2. CASE m \in 1..(i - 1)
    BY <1>2, <2>1, <2>2, TextAgainAppend
  <2>3. CASE m = i
    <3> HIDE DEF k
    <3>1. \A n \in (i + 1)..((N + 1) - 1) : k[n] # "]])"
      <4> TAKE n \in (i + 1)..((N + 1) - 1)
      <4>1. n \in (i + 1)..N /\ n \in 1..N
        BY <1>1
      <4> QED BY <1>1, <1>2, <4>1
    <3>2. N + 1 \in (i + 1)..Len(k)
      BY <1>1
    <3> QED BY <1>1, <2>3, <3>1, <3>2 DEF TextAgain
  <2>4. m \in 1..(i - 1) \/ m = i \/ m \in (i + 1)..N
    BY <2>1
  <2> QED BY <1>2, <2>1, <2>2, <2>3, <2>4
<1> QED BY <1>3 DEF AllClosed

(* A character less.                                                       *)
LEMMA OpenBefore ==
    ASSUME NEW S, NEW l \in Seq(S), NEW x \in S, LastOpen(Append(l, x)),
           x \notin {"]])", "put([["}
    PROVE  LastOpen(l)
<1> DEFINE k == Append(l, x)
           N == Len(l)
<1>1. N \in Nat /\ Len(k) = N + 1 /\ k[N + 1] = x /\ \A j \in 1..N : k[j] = l[j]
  BY AppendProperties
<1>2. PICK i \in 1..Len(k) :
        /\ k[i] = "]])" /\ \A m \in (i + 1)..Len(k) : k[m] \notin {"]])", "put([["}
        /\ \A m \in 1..(i - 1) : k[m] = "]])" => TextAgain(k, m)
  BY DEF LastOpen
<1> HIDE DEF k
<1>3. i \in 1..N /\ l[i] = "]])"
  BY <1>1, <1>2
<1>4. \A m \in (i + 1)..N : l[m] \notin {"]])", "put([["}
  BY <1>1, <1>2, <1>3
<1>5. ASSUME NEW m \in 1..(i - 1), l[m] = "]])" PROVE TextAgain(l, m)
  <2>1. m \in 1..N
    BY <1>3
  <2>2. TextAgain(k, m)
    BY <1>1, <1>2, <1>5, <2>1
  <2>3. PICK j \in (m + 1)..(N + 1) :
          k[j] = "put([[" /\ \A n \in (m + 1)..(j - 1) : k[n] # "]])"
    BY <1>1, <2>2 DEF TextAgain
  <2>4. j \in (m + 1)..N /\ (m + 1)..(j - 1) \subseteq 1..N /\ j \in 1..N
    BY <1>1, <2>1, <2>3
  <2>5. l[j] = "put([[" /\ \A n \in (m + 1)..(j - 1) : l[n] # "]])"
    BY <1>1, <2>3, <2>4
  <2> QED BY <2>4, <2>5 DEF TextAgain
<1> QED BY <1>3, <1>4, <1>5 DEF LastOpen

(* A script that goes on with text, or with code, and what it has put.     *)
InPut(l, o) ==
    /\ l \in Seq(Symbols) /\ l # <<>> /\ o \in Shows
    /\ Run(l) = [out |-> o, text |-> TRUE] /\ AllClosed(l)

InLua(l, o) ==
    /\ l \in Seq(Symbols) /\ l # <<>> /\ o \in Shows
    /\ Run(l) = [out |-> o, text |-> FALSE] /\ LastOpen(l)

LEMMA CharacterIs ==
    ASSUME NEW x \in Characters
    PROVE  x \in Symbols /\ x \notin Pieces /\ x \notin {"put([[", "]])", "put(", "put)"}
BY CharactersAssumption DEF Symbols, Pieces

LEMMA PieceNot ==
    "put([[" \notin Characters /\ "]])" \notin Characters /\ "put(" \notin Characters
BY CharactersAssumption DEF Pieces

LEMMA PieceIs ==
    /\ "put([[" \in Symbols /\ "]])" \in Symbols /\ "put(" \in Symbols /\ "put)" \in Symbols
BY DEF Symbols, Pieces

(* A character of text.                                                    *)
LEMMA PutCharacter ==
    ASSUME NEW l, NEW o, InPut(l, o), NEW x \in Characters
    PROVE  InPut(Append(l, x), IF x = "LF" /\ Last(l) = "put([[" THEN o ELSE Append(o, x))
<1> DEFINE k == Append(l, x)
           N == Len(l)
           r == [out |-> o, text |-> TRUE]
<1>1. /\ l \in Seq(Symbols) /\ l # <<>> /\ o \in Shows /\ Run(l) = r /\ AllClosed(l)
  BY DEF InPut
<1>2. x \in Symbols /\ x \notin {"put([[", "]])", "put(", "put)"}
  BY CharacterIs
<1>3. /\ N \in Nat /\ N > 0 /\ k \in Seq(Symbols) /\ k # <<>> /\ Len(k) = N + 1
      /\ k[N + 1] = x /\ k[N] = l[N] /\ Last(l) = l[N]
  BY <1>1, <1>2, AppendProperties DEF Last
<1>4. Run(k) = Statement(r, k, N + 1)
  BY <1>1, <1>2, RunAppend
<1>5. AllClosed(k)
  BY <1>1, <1>2, ClosedAppend
<1>6. Append(o, x) \in Shows
  BY <1>1 DEF Shows
<1> HIDE DEF k
<1>7. k[(N + 1) - 1] = Last(l)
  BY <1>3
<1>8. CASE x = "LF" /\ Last(l) = "put([["
  <2>1. Run(k) = r
    BY <1>2, <1>3, <1>4, <1>7, <1>8 DEF Statement
  <2> QED BY <1>1, <1>3, <1>5, <1>8, <2>1 DEF InPut, k
<1>9. CASE ~ (x = "LF" /\ Last(l) = "put([[")
  <2>1. Run(k) = [out |-> Append(o, x), text |-> TRUE]
    BY <1>2, <1>3, <1>4, <1>7, <1>9 DEF Statement
  <2> QED BY <1>3, <1>5, <1>6, <1>9, <2>1 DEF InPut, k
<1> QED BY <1>8, <1>9

(* A character of code, or the end of a call.                              *)
LEMMA LuaCharacter ==
    ASSUME NEW l, NEW o, InLua(l, o), NEW x \in Characters \cup {"put)"}
    PROVE  InLua(Append(l, x), o)
<1> DEFINE k == Append(l, x)
           N == Len(l)
           r == [out |-> o, text |-> FALSE]
<1>1. /\ l \in Seq(Symbols) /\ l # <<>> /\ o \in Shows /\ Run(l) = r /\ LastOpen(l)
  BY DEF InLua
<1>2. x \in Symbols /\ x \notin {"put([[", "]])", "put("}
  BY CharacterIs, PieceIs
<1>3. /\ N \in Nat /\ k \in Seq(Symbols) /\ k # <<>> /\ k[N + 1] = x
  BY <1>1, <1>2, AppendProperties
<1>4. Run(k) = Statement(r, k, N + 1)
  BY <1>1, <1>2, RunAppend
<1>5. LastOpen(k)
  BY <1>1, <1>2, OpenAppend
<1> HIDE DEF k
<1>6. Run(k) = r
  BY <1>2, <1>3, <1>4 DEF Statement
<1> QED BY <1>1, <1>3, <1>5, <1>6 DEF InLua, k

LEMMA LuaPut ==
    ASSUME NEW l, NEW o, InLua(l, o)
    PROVE  InLua(Append(l, "put("), Append(o, "value"))
<1> DEFINE k == Append(l, "put(")
           N == Len(l)
           r == [out |-> o, text |-> FALSE]
<1>1. /\ l \in Seq(Symbols) /\ l # <<>> /\ o \in Shows /\ Run(l) = r /\ LastOpen(l)
  BY DEF InLua
<1>2. "put(" \in Symbols
  BY PieceIs
<1>3. /\ N \in Nat /\ k \in Seq(Symbols) /\ k # <<>> /\ k[N + 1] = "put("
  BY <1>1, <1>2, AppendProperties
<1>4. Run(k) = Statement(r, k, N + 1)
  BY <1>1, <1>2, RunAppend
<1>5. LastOpen(k)
  BY <1>1, <1>2, OpenAppend
<1>6. Append(o, "value") \in Shows
  BY <1>1 DEF Shows
<1> HIDE DEF k
<1>7. Run(k) = [out |-> Append(o, "value"), text |-> FALSE]
  BY <1>3, <1>4, PieceNot DEF Statement
<1> QED BY <1>3, <1>5, <1>6, <1>7 DEF InLua, k

(* From text to code and back.                                             *)
LEMMA PutEnds ==
    ASSUME NEW l, NEW o, InPut(l, o)
    PROVE  InLua(Append(l, "]])"), o)
<1> DEFINE k == Append(l, "]])")
           N == Len(l)
           r == [out |-> o, text |-> TRUE]
<1>1. /\ l \in Seq(Symbols) /\ l # <<>> /\ o \in Shows /\ Run(l) = r /\ AllClosed(l)
  BY DEF InPut
<1>2. "]])" \in Symbols
  BY PieceIs
<1>3. /\ N \in Nat /\ k \in Seq(Symbols) /\ k # <<>> /\ k[N + 1] = "]])"
  BY <1>1, <1>2, AppendProperties
<1>4. Run(k) = Statement(r, k, N + 1)
  BY <1>1, <1>2, RunAppend
<1>5. LastOpen(k)
  BY <1>1, <1>2, ClosedEnds
<1> HIDE DEF k
<1>7. Run(k) = [out |-> o, text |-> FALSE]
  <2>1. Statement(r, k, N + 1) = [r EXCEPT !.text = FALSE]
    <3> HIDE DEF r
    <3> QED BY ONLY <1>3, PieceNot DEF Statement
  <2> QED BY <1>4, <2>1
<1> QED BY <1>1, <1>3, <1>5, <1>7 DEF InLua, k

LEMMA LuaEnds ==
    ASSUME NEW l, NEW o, InLua(l, o)
    PROVE  InPut(Append(l, "put([["), o)
<1> DEFINE k == Append(l, "put([[")
           N == Len(l)
           r == [out |-> o, text |-> FALSE]
<1>1. /\ l \in Seq(Symbols) /\ l # <<>> /\ o \in Shows /\ Run(l) = r /\ LastOpen(l)
  BY DEF InLua
<1>2. "put([[" \in Symbols
  BY PieceIs
<1>3. /\ N \in Nat /\ k \in Seq(Symbols) /\ k # <<>> /\ k[N + 1] = "put([["
  BY <1>1, <1>2, AppendProperties
<1>4. Run(k) = Statement(r, k, N + 1)
  BY <1>1, <1>2, RunAppend
<1>5. AllClosed(k)
  BY <1>1, <1>2, OpenEnds
<1> HIDE DEF k
<1>7. Run(k) = [out |-> o, text |-> TRUE]
  BY <1>3, <1>4, PieceNot DEF Statement
<1> QED BY <1>1, <1>3, <1>5, <1>7 DEF InPut, k

(* What a run is.                                                          *)
LEMMA RunTyped ==
    ASSUME NEW l \in Seq(Symbols)
    PROVE  Run(l) \in [out : Seq(Symbols \cup {"value"}), text : BOOLEAN]
<1> DEFINE R == [out : Seq(Symbols \cup {"value"}), text : BOOLEAN]
           T == {q \in Seq(Symbols) : Run(q) \in R}
<1>1. <<>> \in T
  <2>1. <<>> \in Seq(Symbols) /\ Len(<<>>) = 0 /\ <<>> \in Seq(Symbols \cup {"value"})
    BY EmptySeq
  <2>2. Running(<<>>)[0] = Fresh
    BY <2>1, RunningIs
  <2>3. Fresh \in R
    BY <2>1 DEF Fresh
  <2> HIDE DEF R
  <2> QED BY <2>1, <2>2, <2>3 DEF Run
<1>2. ASSUME NEW q \in Seq(Symbols), NEW e \in Symbols, q \in T PROVE Append(q, e) \in T
  <2> DEFINE k == Append(q, e)
             r == Run(q)
             a == [r EXCEPT !.text = TRUE]
             b == [r EXCEPT !.text = FALSE]
             d == [r EXCEPT !.out = Append(@, "value")]
             f == [r EXCEPT !.out = Append(@, e)]
  <2>1. Run(k) = Statement(r, k, Len(q) + 1) /\ r \in R
    BY <1>2, RunAppend
  <2>2. k \in Seq(Symbols) /\ k[Len(q) + 1] = e
    BY AppendProperties
  <2> HIDE DEF k, r
  <2>3. a \in R /\ b \in R
    BY <2>1
  <2>4. \A x \in Symbols \cup {"value"} : [r EXCEPT !.out = Append(@, x)] \in R
    <3> TAKE x \in Symbols \cup {"value"}
    <3>1. Append(r.out, x) \in Seq(Symbols \cup {"value"})
      BY <2>1, AppendProperties
    <3> QED BY <2>1, <3>1
  <2>5. d \in R /\ f \in R
    BY <2>4
  <2>6. Run(k) \in {a, b, d, f, r}
    BY <2>1, <2>2 DEF Statement
  <2> HIDE DEF a, b, d, f, R
  <2>7. Run(k) \in R
    BY <2>1, <2>3, <2>5, <2>6
  <2> QED BY <2>2, <2>7 DEF k
<1> HIDE DEF T
<1>3. \A q \in Seq(Symbols) : q \in T
  BY ONLY <1>1, <1>2, SeqInduction
<1> QED BY <1>3 DEF T

(* A character of code less.                                               *)
LEMMA LuaBefore ==
    ASSUME NEW l \in Seq(Symbols), l # <<>>, NEW x \in Characters, NEW o, InLua(Append(l, x), o)
    PROVE  InLua(l, o)
<1> DEFINE k == Append(l, x)
           N == Len(l)
           r == [out |-> o, text |-> FALSE]
<1>1. o \in Shows /\ Run(k) = r /\ LastOpen(k)
  BY DEF InLua
<1>2. x \in Symbols /\ x \notin {"put([[", "]])", "put("}
  BY CharacterIs
<1>3. N \in Nat /\ k[N + 1] = x
  BY <1>2, AppendProperties
<1>4. Run(k) = Statement(Run(l), k, N + 1)
  BY <1>2, RunAppend
<1>5. LastOpen(l)
  BY <1>1, <1>2, OpenBefore
<1> HIDE DEF k
<1>6. Run(l) = r
  <2> DEFINE q == Run(l)
             f == [q EXCEPT !.out = Append(@, x)]
  <2>1. q \in [out : Seq(Symbols \cup {"value"}), text : BOOLEAN]
    BY RunTyped
  <2> HIDE DEF q
  <2>2. r = q \/ (q.text /\ r = f)
    BY <1>1, <1>2, <1>3, <1>4 DEF Statement, q
  <2>3. f.text = q.text /\ r.text = FALSE
    BY <2>1
  <2> QED BY <2>2, <2>3 DEF q
<1> QED BY <1>1, <1>5, <1>6 DEF InLua

(* The end of the call is put in before the last character.                *)
LEMMA InsertIs ==
    ASSUME NEW l \in Seq(Symbols), EndsInBlank(l)
    PROVE  \E h \in Seq(Symbols), b \in Blank :
              l = Append(h, b) /\ InsertAt(l, Len(l), "put)") = Append(Append(h, "put)"), b)
<1> DEFINE N == Len(l)
           h == SubSeq(l, 1, N - 1)
           b == l[N]
           h1 == Append(h, "put)")
<1>1. N \in Nat /\ N > 0 /\ b \in Blank /\ b \in Symbols
  BY DEF EndsInBlank, Last
<1>2. "put)" \in Symbols
  BY PieceIs
<1>3. h \in Seq(Symbols) /\ l = Append(h, b)
  BY <1>1
<1>4. SubSeq(l, N, N) = <<b>>
  <2> DEFINE v == SubSeq(l, N, N)
  <2>1. v \in Seq(Symbols) /\ Len(v) = 1 /\ v[1] = b
    <3>1. \A i \in N..N : l[i] \in Symbols
      BY <1>1
    <3> QED BY <1>1, <3>1, SubSeqProperties
  <2> HIDE DEF v, b
  <2>2. v = <<b>>
    BY ONLY <2>1
  <2> QED BY <2>2 DEF v
<1>5. InsertAt(l, N, "put)") = h \o <<"put)">> \o <<b>>
  BY <1>4 DEF InsertAt
<1> HIDE DEF h, b
<1>6. h \o <<"put)">> = h1
  BY <1>2, <1>3
<1>7. h1 \in Seq(Symbols)
  BY <1>2, <1>3
<1> HIDE DEF h1
<1>8. h1 \o <<b>> = Append(h1, b)
  BY <1>1, <1>7
<1>9. InsertAt(l, N, "put)") = Append(Append(h, "put)"), b)
  BY <1>5, <1>6, <1>8 DEF h1
<1> QED BY <1>1, <1>3, <1>9

(* The end of a tag.                                                       *)
LEMMA LuaCloses ==
    ASSUME NEW l, NEW o, InLua(l, o), EndsInBlank(l)
    PROVE  /\ InPut(l \o <<"put([[">>, o)
           /\ InPut(InsertAt(l, Len(l), "put)") \o <<"put([[">>, o)
<1>1. l \in Seq(Symbols) /\ "put([[" \in Symbols
  BY PieceIs DEF InLua
<1>2. \A k \in Seq(Symbols) : k \o <<"put([[">> = Append(k, "put([[")
  BY <1>1
<1>3. InPut(l \o <<"put([[">>, o)
  <2>1. l \o <<"put([[">> = Append(l, "put([[")
    BY ONLY <1>1, <1>2
  <2> QED BY <2>1, LuaEnds
<1>4. PICK h \in Seq(Symbols), b \in Blank :
        l = Append(h, b) /\ InsertAt(l, Len(l), "put)") = Append(Append(h, "put)"), b)
  BY <1>1, InsertIs
<1>5. b \in Characters /\ b \notin {"]])"}
  BY SpecialAre, CharacterIs DEF Blank
<1>6. h # <<>>
  <2> SUFFICES ASSUME h = <<>> PROVE FALSE
    OBVIOUS
  <2>1. Len(l) = 1 /\ l[1] = b
    BY <1>4
  <2>2. LastOpen(l)
    BY DEF InLua
  <2> QED BY <1>5, <2>1, <2>2 DEF LastOpen
<1> DEFINE h1 == Append(h, "put)")
           h2 == Append(h1, b)
           h3 == Append(h2, "put([[")
<1>7. InLua(h, o)
  BY <1>4, <1>5, <1>6, LuaBefore
<1>8. InLua(h1, o)
  BY <1>7, LuaCharacter
<1> HIDE DEF h1
<1>9. InLua(h2, o)
  BY <1>5, <1>8, LuaCharacter
<1> HIDE DEF h2
<1>10. InPut(h3, o)
  BY <1>9, LuaEnds
<1>11. h2 \in Seq(Symbols)
  BY <1>9 DEF InLua
<1>12. h2 \o <<"put([[">> = h3
  BY <1>2, <1>11
<1> QED BY <1>3, <1>4, <1>10, <1>12 DEF h1, h2

(* No text ends in a bracket.                                              *)
Tidy(l) == \A i \in 1..(Len(l) - 1) : ~ (l[i] = "]" /\ l[i + 1] = "]])")

LEMMA TidyAppend ==
    ASSUME NEW S, NEW l \in Seq(S), NEW x \in S, l # <<>>, Tidy(l), x # "]])" \/ Last(l) # "]"
    PROVE  Tidy(Append(l, x)) /\ Last(Append(l, x)) = x
<1> DEFINE k == Append(l, x)
           N == Len(l)
<1>1. /\ N \in Nat /\ N > 0 /\ Len(k) = N + 1 /\ k[N + 1] = x /\ Last(l) = l[N]
      /\ \A j \in 1..N : k[j] = l[j]
  BY AppendProperties DEF Last
<1> HIDE DEF k
<1>2. ASSUME NEW i \in 1..(Len(k) - 1) PROVE ~ (k[i] = "]" /\ k[i + 1] = "]])")
  <2>1. CASE i = N
    BY <1>1, <2>1
  <2>2. CASE i # N
    <3>1. i \in 1..(N - 1) /\ i \in 1..N /\ i + 1 \in 1..N
      BY <1>1, <2>2
    <3> QED BY <1>1, <3>1 DEF Tidy
  <2> QED BY <2>1, <2>2
<1> QED BY <1>1, <1>2 DEF Tidy, Last, k

LEMMA TidyBefore ==
    ASSUME NEW S, NEW l \in Seq(S), NEW x \in S, Tidy(Append(l, x))
    PROVE  Tidy(l)
<1> DEFINE k == Append(l, x)
           N == Len(l)
<1>1. N \in Nat /\ Len(k) = N + 1 /\ \A j \in 1..N : k[j] = l[j]
  BY AppendProperties
<1> HIDE DEF k
<1>2. Tidy(k)
  BY DEF k
<1>3. ASSUME NEW i \in 1..(N - 1) PROVE ~ (l[i] = "]" /\ l[i + 1] = "]])")
  <2>1. i \in 1..(Len(k) - 1) /\ i \in 1..N /\ i + 1 \in 1..N
    BY <1>1
  <2> QED BY <1>1, <1>2, <2>1 DEF Tidy
<1> QED BY <1>3 DEF Tidy

LEMMA TidyCloses ==
    ASSUME NEW l \in Seq(Symbols), EndsInBlank(l), Tidy(l)
    PROVE  LET k1 == l \o <<"put([[">>
               k2 == InsertAt(l, Len(l), "put)") \o <<"put([[">>
           IN  Tidy(k1) /\ Last(k1) = "put([[" /\ Tidy(k2) /\ Last(k2) = "put([["
<1>1. "put([[" \in Symbols /\ "put)" \in Symbols
  BY PieceIs
<1>2. \A k \in Seq(Symbols) : k \o <<"put([[">> = Append(k, "put([[")
  BY <1>1
<1>3. ASSUME NEW k \in Seq(Symbols), k # <<>>, Tidy(k)
      PROVE  Tidy(k \o <<"put([[">>) /\ Last(k \o <<"put([[">>) = "put([["
  <2>1. k \o <<"put([[">> = Append(k, "put([[")
    BY ONLY <1>2, <1>3
  <2>2. Tidy(Append(k, "put([[")) /\ Last(Append(k, "put([[")) = "put([["
    BY <1>1, <1>3, TidyAppend
  <2> QED BY ONLY <2>1, <2>2
<1>4. PICK h \in Seq(Symbols), b \in Blank :
        l = Append(h, b) /\ InsertAt(l, Len(l), "put)") = Append(Append(h, "put)"), b)
  BY InsertIs
<1>5. b \in Symbols /\ b # "]])"
  BY SpecialAre, CharacterIs DEF Blank
<1> DEFINE h1 == Append(h, "put)")
           h2 == Append(h1, b)
<1>6. Tidy(h)
  BY <1>4, <1>5, TidyBefore
<1>7. h1 \in Seq(Symbols) /\ h1 # <<>> /\ Tidy(h1)
  <2>1. CASE h = <<>>
    BY <1>1, <2>1 DEF Tidy
  <2>2. CASE h # <<>>
    BY <1>1, <1>6, <2>2, TidyAppend
  <2> QED BY <2>1, <2>2
<1> HIDE DEF h1
<1>8. h2 \in Seq(Symbols) /\ h2 # <<>> /\ Tidy(h2)
  BY <1>5, <1>7, TidyAppend
<1>9. l # <<>>
  BY DEF EndsInBlank
<1> HIDE DEF h2
<1>10. InsertAt(l, Len(l), "put)") = h2
  BY <1>4 DEF h1, h2
<1>11. Tidy(l \o <<"put([[">>) /\ Last(l \o <<"put([[">>) = "put([["
  BY <1>3, <1>9
<1>12. Tidy(h2 \o <<"put([[">>) /\ Last(h2 \o <<"put([[">>) = "put([["
  BY <1>3, <1>8
<1> QED BY <1>10, <1>11, <1>12

(* The end of the page.                                                    *)
LEMMA ScriptRuns ==
    ASSUME NEW l, NEW o, InPut(l, o)
    PROVE  /\ Puts(Append(l, "]])")) = o
           /\ Tidy(l) /\ Last(l) # "]" => Loads(Append(l, "]])"))
<1> DEFINE k == Append(l, "]])")
<1>1. l \in Seq(Symbols) /\ l # <<>> /\ "]])" \in Symbols /\ AllClosed(l)
  BY PieceIs DEF InPut
<1>2. Run(k) = [out |-> o, text |-> FALSE]
  BY PutEnds DEF InLua
<1>3. Puts(k) = o
  BY <1>2 DEF Puts, Run
<1>4. ASSUME Tidy(l), Last(l) # "]" PROVE Loads(k)
  <2>1. Tidy(k)
    BY <1>1, <1>4, TidyAppend
  <2>2. /\ Len(l) \in Nat /\ Len(k) = Len(l) + 1 /\ DOMAIN k = 1..Len(k)
        /\ \A j \in 1..Len(l) : k[j] = l[j]
    BY <1>1, AppendProperties
  <2>3. ASSUME NEW i \in DOMAIN k, k[i] = "]])", i < Len(k) PROVE TextAgain(k, i)
    <3>1. i \in 1..Len(l) /\ l[i] = "]])"
      BY <2>2, <2>3
    <3> QED BY <1>1, <3>1, TextAgainAppend DEF AllClosed
  <2> HIDE DEF k
  <2>4. \A i \in 1..(Len(k) - 1) : k[i] = "]" /\ k[i + 1] = "]])" => ~ TextUpTo(k, i)
    BY <2>1 DEF Tidy
  <2>5. ASSUME NEW i \in DOMAIN k, k[i] = "]])", i < Len(k)
        PROVE  \E j \in (i + 1)..Len(k) :
                 k[j] \in {"put([[", "["} /\ \A m \in (i + 1)..(j - 1) : k[m] # "]])"
    BY <2>3, <2>5 DEF TextAgain
  <2> QED BY <2>4, <2>5 DEF Loads
<1> QED BY <1>3, <1>4

(* A script whose last "]])" is followed by nothing that text or a bracket *)
(* begins with.                                                            *)
NoBracket(l) ==
    \E i \in 1..Len(l) :
        l[i] = "]])" /\ \A k \in (i + 1)..Len(l) : l[k] \notin {"]])", "put([[", "["}

LEMMA NoBracketStarts ==
    ASSUME NEW S, NEW l \in Seq(S), NEW x \in S, x = "]])"
    PROVE  NoBracket(Append(l, x))
<1> DEFINE k == Append(l, x)
           N == Len(l)
<1>1. N \in Nat /\ Len(k) = N + 1 /\ k[N + 1] = x
  BY AppendProperties
<1> HIDE DEF k
<1>2. N + 1 \in 1..Len(k) /\ \A j \in ((N + 1) + 1)..Len(k) : FALSE
  BY <1>1
<1> QED BY <1>1, <1>2 DEF NoBracket, k

LEMMA NoBracketAppend ==
    ASSUME NEW S, NEW l \in Seq(S), NEW x \in S, NoBracket(l), x \notin {"]])", "put([[", "["}
    PROVE  NoBracket(Append(l, x))
<1> DEFINE k == Append(l, x)
           N == Len(l)
<1>1. N \in Nat /\ Len(k) = N + 1 /\ k[N + 1] = x /\ \A j \in 1..N : k[j] = l[j]
  BY AppendProperties
<1>2. PICK i \in 1..N :
        l[i] = "]])" /\ \A j \in (i + 1)..N : l[j] \notin {"]])", "put([[", "["}
  BY DEF NoBracket
<1> HIDE DEF k
<1>3. i \in 1..Len(k) /\ k[i] = "]])"
  BY <1>1, <1>2
<1>4. \A j \in (i + 1)..Len(k) : k[j] \notin {"]])", "put([[", "["}
  <2> TAKE j \in (i + 1)..Len(k)
  <2>1. j = N + 1 \/ (j \in (i + 1)..N /\ j \in 1..N)
    BY <1>1
  <2> QED BY <1>1, <1>2, <2>1
<1> QED BY <1>3, <1>4 DEF NoBracket, k

LEMMA ScriptFails ==
    ASSUME NEW l \in Seq(Symbols), NoBracket(l)
    PROVE  ~ Loads(Append(l, "]])"))
<1> DEFINE k == Append(l, "]])")
           N == Len(l)
<1>1. "]])" \in Symbols
  BY PieceIs
<1>2. PICK i \in 1..N :
        l[i] = "]])" /\ \A m \in (i + 1)..N : l[m] \notin {"]])", "put([[", "["}
  BY DEF NoBracket
<1>3. /\ N \in Nat /\ Len(k) = N + 1 /\ DOMAIN k = 1..(N + 1) /\ k[N + 1] = "]])"
      /\ \A j \in 1..N : k[j] = l[j]
  BY <1>1, AppendProperties
<1> HIDE DEF k
<1>4. i \in DOMAIN k /\ i < Len(k) /\ k[i] = "]])"
  BY <1>2, <1>3
<1>5. \A j \in (i + 1)..Len(k) : k[j] \notin {"put([[", "["}
  <2> TAKE j \in (i + 1)..Len(k)
  <2>1. j = N + 1 \/ (j \in (i + 1)..N /\ j \in 1..N)
    BY <1>3
  <2> QED BY <1>2, <1>3, <2>1
<1> QED BY <1>4, <1>5 DEF Loads, k

(* Several characters of text.                                             *)
LEMMA PutWord ==
    ASSUME NEW l, NEW o, InPut(l, o), NEW y \in Seq(Characters)
    PROVE  \E a : InPut(l \o y, a)
<1> DEFINE T == {q \in Seq(Characters) : \E a : InPut(l \o q, a)}
<1>1. l \in Seq(Symbols)
  BY DEF InPut
<1>2. <<>> \in T
  BY <1>1, ConcatEmptySeq, EmptySeq
<1>3. ASSUME NEW q \in Seq(Characters), NEW e \in Characters, q \in T PROVE Append(q, e) \in T
  <2>1. PICK a : InPut(l \o q, a)
    BY <1>3
  <2>2. q \in Seq(Symbols) /\ e \in Symbols
    BY DEF Symbols
  <2>3. l \o Append(q, e) = Append(l \o q, e)
    BY <1>1, <2>2
  <2>4. \E b : InPut(Append(l \o q, e), b)
    BY <2>1, PutCharacter
  <2>5. Append(q, e) \in Seq(Characters)
    OBVIOUS
  <2> QED BY <2>3, <2>4, <2>5
<1> HIDE DEF T
<1>4. \A q \in Seq(Characters) : q \in T
  BY ONLY <1>2, <1>3, SeqInduction
<1> QED BY <1>4 DEF T

LEMMA PutPlain ==
    ASSUME NEW l, NEW o, InPut(l, o), Tidy(l), NEW y \in Seq(Characters \ {"LF", "]"})
    PROVE  /\ InPut(l \o y, o \o y) /\ Tidy(l \o y)
           /\ y # <<>> => Last(l \o y) \in Characters \ {"LF", "]"}
<1> DEFINE C == Characters \ {"LF", "]"}
           Good(q) == /\ InPut(l \o q, o \o q) /\ Tidy(l \o q)
                      /\ q # <<>> => Last(l \o q) \in C
           T == {q \in Seq(C) : Good(q)}
<1>1. l \in Seq(Symbols) /\ l # <<>> /\ o \in Seq(Characters \cup {"value"})
  BY DEF InPut, Shows
<1>2. <<>> \in T
  <2>1. l \o <<>> = l /\ o \o <<>> = o /\ <<>> \in Seq(C)
    BY <1>1, ConcatEmptySeq, EmptySeq
  <2> QED BY <2>1
<1>3. ASSUME NEW q \in Seq(C), NEW e \in C, q \in T PROVE Append(q, e) \in T
  <2>1. InPut(l \o q, o \o q) /\ Tidy(l \o q)
    BY <1>3
  <2>2. q \in Seq(Symbols) /\ e \in Symbols /\ q \in Seq(Characters \cup {"value"})
        /\ e \in Characters \cup {"value"} /\ e \in Characters /\ e # "LF"
    BY DEF Symbols
  <2>3. l \o Append(q, e) = Append(l \o q, e)
    BY <1>1, <2>2
  <2>4. o \o Append(q, e) = Append(o \o q, e)
    BY <1>1, <2>2
  <2>5. InPut(Append(l \o q, e), Append(o \o q, e))
    BY <2>1, <2>2, PutCharacter
  <2>6. l \o q \in Seq(Symbols) /\ l \o q # <<>>
    BY <2>1 DEF InPut
  <2>7. e # "]])"
    BY <2>2, CharacterIs
  <2>8. Tidy(Append(l \o q, e)) /\ Last(Append(l \o q, e)) = e
    BY <2>1, <2>2, <2>6, <2>7, TidyAppend
  <2>9. Append(q, e) \in Seq(C)
    OBVIOUS
  <2>10. Good(Append(q, e))
    BY <2>3, <2>4, <2>5, <2>8
  <2> HIDE DEF Good, C
  <2> QED BY <2>9, <2>10
<1> HIDE DEF T
<1>4. \A q \in Seq(C) : q \in T
  <2> HIDE DEF C
  <2> QED BY ONLY <1>2, <1>3, SeqInduction
<1> QED BY <1>4 DEF T

-----------------------------------------------------------------------------
(* A sequence of numbers that grows is bounded by its last.                *)
LEMMA Growing ==
    ASSUME NEW N \in Nat, NEW off \in [0..N -> Nat], \A e \in 1..N : off[e - 1] <= off[e]
    PROVE  \A e \in 0..N : off[e] <= off[N]
<1> DEFINE U == {m \in Nat : m <= N => off[N - m] <= off[N]}
<1>1. 0 \in U
  OBVIOUS
<1>2. ASSUME NEW m \in Nat, m \in U PROVE m + 1 \in U
  <2> SUFFICES ASSUME m + 1 <= N PROVE off[N - (m + 1)] <= off[N]
    OBVIOUS
  <2> DEFINE d == N - m
  <2>1. d \in 1..N /\ d - 1 = N - (m + 1) /\ d - 1 \in 0..N /\ d \in 0..N /\ N \in 0..N
    OBVIOUS
  <2>2. off[d] <= off[N]
    BY <1>2
  <2> HIDE DEF d
  <2>3. off[d - 1] <= off[d] /\ off[d - 1] \in Nat /\ off[d] \in Nat /\ off[N] \in Nat
    BY <2>1
  <2>4. off[d - 1] <= off[N]
    BY ONLY <2>2, <2>3
  <2> QED BY <2>1, <2>4
<1> HIDE DEF U
<1>3. \A m \in Nat : m \in U
  BY <1>1, <1>2, SetInduction
<1> TAKE e \in 0..N
<1>4. N - e \in Nat /\ N - e <= N /\ N - (N - e) = e
  OBVIOUS
<1>5. N - e \in U
  BY <1>3, <1>4
<1> QED BY <1>4, <1>5 DEF U

(* Where the parts of a joined sequence are.                               *)
Offsets(ss, off) ==
    /\ off \in [0..Len(ss) -> Nat]
    /\ off[0] = 0 /\ off[Len(ss)] = Len(FlattenSeq(ss))
    /\ \A e \in 1..Len(ss) :
         /\ off[e] = off[e - 1] + Len(ss[e])
         /\ \A j \in 1..Len(ss[e]) : FlattenSeq(ss)[off[e - 1] + j] = ss[e][j]

LEMMA OffsetsExist ==
    ASSUME NEW S, NEW ss \in Seq(Seq(S))
    PROVE  \E off : Offsets(ss, off)
<1> DEFINE T == {q \in Seq(Seq(S)) : \E off : Offsets(q, off)}
<1>1. <<>> \in T
  <2>1. <<>> \in Seq(Seq(S)) /\ Len(<<>>) = 0 /\ FlattenSeq(<<>>) = <<>>
    BY EmptySeq DEF FlattenSeq
  <2>2. Offsets(<<>>, [e \in 0..0 |-> 0])
    BY <2>1 DEF Offsets
  <2> QED BY <2>1, <2>2
<1>2. ASSUME NEW q \in Seq(Seq(S)), NEW x \in Seq(S), q \in T PROVE Append(q, x) \in T
  <2> DEFINE k == Append(q, x)
             N == Len(q)
             f == FlattenSeq(q)
             g == FlattenSeq(k)
  <2>1. PICK off : Offsets(q, off)
    BY <1>2
  <2>2. /\ N \in Nat /\ k \in Seq(Seq(S)) /\ Len(k) = N + 1 /\ k[N + 1] = x
        /\ \A e \in 1..N : k[e] = q[e]
    BY AppendProperties
  <2>3. f \in Seq(S) /\ g = f \o x
    BY FlattenAppend
  <2> HIDE DEF f, g, k
  <2>4. /\ Len(g) = Len(f) + Len(x) /\ Len(f) \in Nat /\ Len(x) \in Nat
        /\ \A i \in 1..Len(f) : g[i] = f[i]
        /\ \A j \in 1..Len(x) : g[Len(f) + j] = x[j]
    BY <2>3
  <2>5. /\ off \in [0..N -> Nat] /\ off[0] = 0 /\ off[N] = Len(f)
        /\ \A e \in 1..N : /\ off[e] = off[e - 1] + Len(q[e])
                           /\ \A j \in 1..Len(q[e]) : f[off[e - 1] + j] = q[e][j]
    BY <2>1 DEF Offsets, f
  <2> DEFINE new == [e \in 0..(N + 1) |-> IF e = N + 1 THEN Len(g) ELSE off[e]]
  <2>6. new \in [0..(N + 1) -> Nat] /\ new[0] = 0 /\ new[N + 1] = Len(g)
    BY <2>2, <2>4, <2>5
  <2>7. \A e \in 0..N : new[e] = off[e]
    BY <2>2
  <2> HIDE DEF new
  <2>a. \A e \in 1..N : Len(q[e]) \in Nat
    OBVIOUS
  <2> HIDE DEF N
  <2>8. \A e \in 0..N : off[e] <= Len(f)
    <3>1. \A e \in 1..N : off[e - 1] <= off[e]
      <4> TAKE e \in 1..N
      <4>1. e - 1 \in 0..N /\ off[e - 1] \in Nat
        BY ONLY <2>2, <2>5
      <4> QED BY ONLY <2>a, <2>5, <4>1
    <3> QED BY ONLY <2>2, <2>5, <3>1, Growing
  <2>9. ASSUME NEW e \in 1..(N + 1)
        PROVE  /\ new[e] = new[e - 1] + Len(k[e])
               /\ \A j \in 1..Len(k[e]) : g[new[e - 1] + j] = k[e][j]
    <3>1. CASE e = N + 1
      <4>1. e - 1 = N /\ N \in 0..N
        BY ONLY <2>2, <3>1
      <4>2. new[e - 1] = Len(f) /\ new[e] = Len(g) /\ k[e] = x
        BY ONLY <2>2, <2>5, <2>6, <2>7, <3>1, <4>1
      <4> QED BY <2>4, <4>2
    <3>2. CASE e # N + 1
      <4>1. e \in 1..N /\ e \in 0..N /\ e - 1 \in 0..N
        BY ONLY <2>2, <3>2, e \in 1..(N + 1)
      <4>2. new[e] = off[e] /\ new[e - 1] = off[e - 1] /\ k[e] = q[e]
        BY ONLY <2>2, <2>7, <4>1
      <4>3. off[e] = off[e - 1] + Len(q[e]) /\ off[e] <= Len(f)
        BY ONLY <2>5, <2>8, <4>1
      <4>4. Len(q[e]) \in Nat /\ off[e - 1] \in Nat
        BY ONLY <2>a, <2>5, <4>1
      <4>5. ASSUME NEW j \in 1..Len(q[e]) PROVE g[off[e - 1] + j] = q[e][j]
        <5>1. off[e - 1] + j \in 1..Len(f)
          <6> DEFINE a == off[e - 1]
                     b == Len(q[e])
                     d == Len(f)
          <6>1. a \in Nat /\ b \in Nat /\ d \in Nat /\ a + b <= d /\ j \in 1..b
            BY <2>4, <4>3, <4>4
          <6> HIDE DEF a, b, d
          <6>2. a + j \in 1..d
            BY ONLY <6>1
          <6> QED BY <6>2 DEF a, d
        <5>2. f[off[e - 1] + j] = q[e][j]
          BY ONLY <2>5, <4>1, j \in 1..Len(q[e])
        <5> QED BY ONLY <2>4, <5>1, <5>2
      <4> QED BY <4>2, <4>3, <4>5
    <3> QED BY <3>1, <3>2
  <2>10. Offsets(k, new)
    BY <2>2, <2>6, <2>9 DEF Offsets, g, N
  <2> QED BY <2>2, <2>10 DEF k
<1> HIDE DEF T
<1>3. \A q \in Seq(Seq(S)) : q \in T
  BY ONLY <1>1, <1>2, SeqInduction
<1> QED BY <1>3 DEF T

(* They are in order.                                                      *)
LEMMA OffsetsGrow ==
    ASSUME NEW S, NEW ss \in Seq(Seq(S)), NEW off, Offsets(ss, off)
    PROVE  \A e \in 0..Len(ss) : off[e] \in Nat /\ off[e] <= Len(FlattenSeq(ss))
<1> DEFINE N == Len(ss)
<1>1. /\ off \in [0..N -> Nat] /\ off[N] = Len(FlattenSeq(ss)) /\ N \in Nat
      /\ \A e \in 1..N : off[e] = off[e - 1] + Len(ss[e]) /\ Len(ss[e]) \in Nat
  BY DEF Offsets
<1> HIDE DEF N
<1>2. \A e \in 1..N : off[e - 1] <= off[e]
  <2> TAKE e \in 1..N
  <2>1. e - 1 \in 0..N /\ off[e - 1] \in Nat
    BY ONLY <1>1
  <2> QED BY ONLY <1>1, <2>1
<1>3. \A e \in 0..N : off[e] <= off[N]
  BY ONLY <1>1, <1>2, Growing
<1> QED BY <1>1, <1>3 DEF N

(* How the tags begin.                                                     *)
LEMMA OpeningsAre ==
    /\ Opening("chunk", "?") = <<"<", "?", "l", "u", "a">>
    /\ Opening("expression", "?") = <<"<", "?", "l", "u", "a", "=">>
    /\ Opening("chunk", "%") = <<"<", "%">>
    /\ Opening("expression", "%") = <<"<", "%", "=">>
<1>1. \A S : \A t \in Seq(S), x \in S : t \o <<x>> = Append(t, x)
  OBVIOUS
<1>2. <<"<", "?", "l", "u", "a">> \in Seq(Characters) /\ <<"<", "%">> \in Seq(Characters)
      /\ "=" \in Characters
  BY ONLY SpecialAre, String2, String5
<1>3. /\ <<"<", "?", "l", "u", "a">> \o <<"=">> = Append(<<"<", "?", "l", "u", "a">>, "=")
      /\ <<"<", "%">> \o <<"=">> = Append(<<"<", "%">>, "=")
  BY ONLY <1>1, <1>2
<1>4. Append(<<"<", "?", "l", "u", "a">>, "=") = <<"<", "?", "l", "u", "a", "=">>
  <2> DEFINE t == <<"<", "?", "l", "u", "a">>
             a == Append(t, "=")
             b == <<"<", "?", "l", "u", "a", "=">>
  <2>1. b \in Seq(Characters) /\ Len(b) = 6
    BY SpecialAre
  <2>2. t \in Seq(Characters) /\ Len(t) = 5 /\ "=" \in Characters /\ b[6] = "="
        /\ b[1] = t[1] /\ b[2] = t[2] /\ b[3] = t[3] /\ b[4] = t[4] /\ b[5] = t[5]
    BY <1>2
  <2> HIDE DEF t, b
  <2>3. a \in Seq(Characters) /\ Len(a) = 6 /\ a[6] = "=" /\ \A i \in 1..5 : a[i] = t[i]
    <3>1. /\ a \in Seq(Characters) /\ Len(a) = Len(t) + 1 /\ a[Len(t) + 1] = "="
          /\ \A i \in 1..Len(t) : a[i] = t[i]
      <4>1. t \in Seq(Characters) /\ "=" \in Characters
        BY <2>2
      <4> QED BY ONLY <4>1, AppendProperties
    <3> HIDE DEF a
    <3> QED BY <2>2, <3>1
  <2>4. \A i \in 1..6 : a[i] = b[i]
    <3> HIDE DEF a
    <3>1. \A i \in 1..6 : i = 1 \/ i = 2 \/ i = 3 \/ i = 4 \/ i = 5 \/ i = 6
      OBVIOUS
    <3> QED BY ONLY <2>2, <2>3, <3>1
  <2>5. a = b
    <3> HIDE DEF a
    <3> QED BY ONLY <2>1, <2>3, <2>4, SeqEqual
  <2> QED BY <2>5 DEF t, b
<1>6. Append(<<"<", "%">>, "=") = <<"<", "%", "=">>
  <2> DEFINE t == <<"<", "%">>
             a == Append(t, "=")
             b == <<"<", "%", "=">>
  <2>1. b \in Seq(Characters) /\ Len(b) = 3
    BY SpecialAre
  <2>2. t \in Seq(Characters) /\ Len(t) = 2 /\ "=" \in Characters /\ b[3] = "="
        /\ b[1] = t[1] /\ b[2] = t[2]
    BY <1>2
  <2> HIDE DEF t, b
  <2>3. a \in Seq(Characters) /\ Len(a) = 3 /\ a[3] = "=" /\ \A i \in 1..2 : a[i] = t[i]
    <3>1. /\ a \in Seq(Characters) /\ Len(a) = Len(t) + 1 /\ a[Len(t) + 1] = "="
          /\ \A i \in 1..Len(t) : a[i] = t[i]
      <4>1. t \in Seq(Characters) /\ "=" \in Characters
        BY <2>2
      <4> QED BY ONLY <4>1, AppendProperties
    <3> HIDE DEF a
    <3> QED BY <2>2, <3>1
  <2>4. \A i \in 1..3 : a[i] = b[i]
    <3> HIDE DEF a
    <3>1. \A i \in 1..3 : i = 1 \/ i = 2 \/ i = 3
      OBVIOUS
    <3> QED BY ONLY <2>2, <2>3, <3>1
  <2>5. a = b
    <3> HIDE DEF a
    <3> QED BY ONLY <2>1, <2>3, <2>4, SeqEqual
  <2> QED BY <2>5 DEF t, b
<1>5. /\ <<"<", "?", "l", "u", "a">> \o <<>> = <<"<", "?", "l", "u", "a">>
      /\ <<"<", "%">> \o <<>> = <<"<", "%">>
  BY <1>2, ConcatEmptySeq
<1> QED BY <1>3, <1>4, <1>5, <1>6 DEF Opening

LEMMA OpeningLength ==
    ASSUME NEW k \in {"chunk", "expression"}, NEW f \in Forms
    PROVE  /\ Len(Opening(k, f)) \in 2..6
           /\ Opening(k, f)[1] = "<"
BY OpeningsAre DEF Forms

(* Two sequences, one behind the other.                                    *)
Joined(w, a, b) ==
    /\ Len(w) = Len(a) + Len(b)
    /\ \A j \in 1..Len(a) : w[j] = a[j]
    /\ \A i \in 1..Len(b) : w[Len(a) + i] = b[i]

LEMMA TwoParts ==
    ASSUME NEW C, NEW a \in Seq(C), NEW b \in Seq(C)
    PROVE  /\ a \o b \in Seq(C) /\ Len(a) \in Nat /\ Len(b) \in Nat
           /\ Joined(a \o b, a, b)
<1> DEFINE w == a \o b
<1>1. Len(w) = Len(a) + Len(b) /\ Len(a) \in Nat /\ Len(b) \in Nat /\ w \in Seq(C)
  OBVIOUS
<1>2. \A j \in 1..Len(a) : w[j] = a[j]
  OBVIOUS
<1>3. \A i \in 1..Len(b) : w[Len(a) + i] = b[i]
  OBVIOUS
<1> HIDE DEF w
<1> QED BY <1>1, <1>2, <1>3 DEF Joined, w

(* Four sequences, one behind the other.                                   *)
FourJoined(w, o, y, z, x) ==
    LET n == Len(o)
        k == Len(z)
    IN  /\ Len(w) = n + 1 + k + Len(x)
        /\ \A j \in 1..n : w[j] = o[j]
        /\ w[n + 1] = y[1]
        /\ \A i \in 1..k : w[n + 1 + i] = z[i]
        /\ \A i \in 1..Len(x) : w[n + 1 + k + i] = x[i]

LEMMA FourParts ==
    ASSUME NEW C, NEW o \in Seq(C), NEW y \in Seq(C), NEW z \in Seq(C), NEW x \in Seq(C),
           Len(y) = 1
    PROVE  FourJoined(o \o y \o z \o x, o, y, z, x)
<1> DEFINE n == Len(o)
           k == Len(z)
           r == Len(x)
           a == o \o y
           b == a \o z
           w == b \o x
<1>1. n \in Nat /\ k \in Nat /\ r \in Nat
  OBVIOUS
<1>2. /\ a \in Seq(C) /\ Len(a) = n + 1 /\ \A j \in 1..n : a[j] = o[j]
      /\ a[n + 1] = y[1]
  <2>1. a \in Seq(C) /\ Joined(a, o, y) /\ 1 \in 1..Len(y)
    BY TwoParts
  <2> HIDE DEF a
  <2> QED BY <2>1 DEF Joined
<1> HIDE DEF a
<1>3. /\ b \in Seq(C) /\ Len(b) = n + 1 + k /\ \A j \in 1..(n + 1) : b[j] = a[j]
      /\ \A i \in 1..k : b[n + 1 + i] = z[i]
  <2>1. b \in Seq(C) /\ Joined(b, a, z)
    BY <1>2, TwoParts
  <2> HIDE DEF b
  <2> QED BY <1>2, <2>1 DEF Joined
<1> HIDE DEF b
<1>4. /\ Len(w) = n + 1 + k + r /\ \A j \in 1..(n + 1 + k) : w[j] = b[j]
      /\ \A i \in 1..r : w[n + 1 + k + i] = x[i]
  <2>1. w \in Seq(C) /\ Joined(w, b, x)
    BY <1>3, TwoParts
  <2> HIDE DEF w
  <2> QED BY <1>3, <2>1 DEF Joined
<1> HIDE DEF w, n, k, r
<1>5. \A j \in 1..n : j \in 1..(n + 1) /\ j \in 1..(n + 1 + k)
  BY <1>1
<1>6. n + 1 \in 1..(n + 1) /\ n + 1 \in 1..(n + 1 + k)
  BY <1>1
<1>7. \A i \in 1..k : n + 1 + i \in 1..(n + 1 + k)
  BY <1>1
<1>8. /\ \A j \in 1..n : w[j] = o[j]
      /\ w[n + 1] = y[1]
      /\ \A i \in 1..k : w[n + 1 + i] = z[i]
  BY ONLY <1>2, <1>3, <1>4, <1>5, <1>6, <1>7
<1> QED BY <1>4, <1>8 DEF FourJoined, w, n, k, r, b, a

(* What the source of a tag has where.                                     *)
OpenLen(e) == Len(Opening(e.kind, e.form))
InnerLen(e) == Len(e.inner)
TailLen(e) == IF e.closed THEN 3 ELSE 0

TagReads(e) ==
    /\ OpenLen(e) \in 2..6 /\ InnerLen(e) \in Nat
    /\ Len(Source(e)) = OpenLen(e) + 1 + InnerLen(e) + TailLen(e)
    /\ \A j \in 1..OpenLen(e) : Source(e)[j] = Opening(e.kind, e.form)[j]
    /\ Source(e)[OpenLen(e) + 1] = "SP"
    /\ \A i \in 1..InnerLen(e) : Source(e)[OpenLen(e) + 1 + i] = e.inner[i]
    /\ e.closed => /\ Source(e)[OpenLen(e) + 1 + InnerLen(e) + 1] = "SP"
                   /\ Source(e)[OpenLen(e) + 1 + InnerLen(e) + 2] = e.form
                   /\ Source(e)[OpenLen(e) + 1 + InnerLen(e) + 3] = ">"

LEMMA TagSource ==
    ASSUME NEW e \in Element, e.kind # "text"
    PROVE  TagReads(e)
<1> DEFINE o == Opening(e.kind, e.form)
           y == <<"SP">>
           z == e.inner
           x == IF e.closed THEN <<"SP", e.form, ">">> ELSE <<>>
<1>1. /\ e.kind \in {"chunk", "expression"} /\ e.kind \in Kinds /\ e.form \in Forms
      /\ e.inner \in Seq(Characters) /\ e.form \in Characters
  BY SpecialAre DEF Element, Kinds, Forms
<1>2. o \in Seq(Characters) /\ Len(o) \in 2..6
  BY <1>1, OpeningTyped, OpeningLength
<1>3. y \in Seq(Characters) /\ Len(y) = 1 /\ y[1] = "SP" /\ z \in Seq(Characters)
  BY <1>1, SpecialAre
<1>4. x \in Seq(Characters) /\ Len(x) = TailLen(e)
      /\ (e.closed => x[1] = "SP" /\ x[2] = e.form /\ x[3] = ">")
  <2>1. <<"SP", e.form, ">">> \in Seq(Characters) /\ <<>> \in Seq(Characters)
    BY ONLY <1>1, SpecialAre, String3, EmptySeq
  <2> QED BY <2>1 DEF TailLen
<1>5. Source(e) = o \o y \o z \o x
  BY DEF Source
<1> HIDE DEF o, x, y, z
<1> DEFINE w == o \o y \o z \o x
           n == Len(o)
           k == Len(z)
<1>6. /\ Len(w) = n + 1 + k + Len(x)
      /\ \A j \in 1..n : w[j] = o[j]
      /\ w[n + 1] = y[1]
      /\ \A i \in 1..k : w[n + 1 + i] = z[i]
      /\ \A i \in 1..Len(x) : w[n + 1 + k + i] = x[i]
  <2>1. FourJoined(w, o, y, z, x)
    <3>1. /\ o \in Seq(Characters) /\ y \in Seq(Characters) /\ z \in Seq(Characters)
          /\ x \in Seq(Characters) /\ Len(y) = 1
      BY <1>2, <1>3, <1>4
    <3> QED BY ONLY <3>1, FourParts
  <2> QED BY <2>1 DEF FourJoined
<1> HIDE DEF w
<1>7. e.closed => 1 \in 1..Len(x) /\ 2 \in 1..Len(x) /\ 3 \in 1..Len(x)
  BY <1>4 DEF TailLen
<1>8. n = OpenLen(e) /\ k = InnerLen(e) /\ k \in Nat
  BY <1>3 DEF OpenLen, InnerLen, o, z
<1>9. e.closed => /\ w[n + 1 + k + 1] = "SP" /\ w[n + 1 + k + 2] = e.form
                  /\ w[n + 1 + k + 3] = ">"
  BY <1>4, <1>6, <1>7
<1>10. Source(e) = w
  BY <1>5 DEF w
<1> HIDE DEF n, k
<1> QED BY <1>2, <1>3, <1>4, <1>6, <1>8, <1>9, <1>10 DEF TagReads, o, z, n, k

-----------------------------------------------------------------------------
(* The source of a page, and where its elements are in it.                 *)
Sources(p) == [i \in DOMAIN p |-> Source(p[i])]
Off(p) == CHOOSE off : Offsets(Sources(p), off)

LEMMA SourceAt ==
    ASSUME NEW p \in Seq(Element)
    PROVE  /\ Off(p) \in [0..Len(p) -> Nat] /\ Len(p) \in Nat
           /\ Off(p)[0] = 0 /\ Off(p)[Len(p)] = Len(FlattenSeq(Sources(p)))
           /\ \A m \in 1..Len(p) :
                /\ Off(p)[m] = Off(p)[m - 1] + Len(Source(p[m]))
                /\ Off(p)[m] <= Len(FlattenSeq(Sources(p)))
                /\ \A j \in 1..Len(Source(p[m])) :
                     FlattenSeq(Sources(p))[Off(p)[m - 1] + j] = Source(p[m])[j]
<1> DEFINE ss == Sources(p)
           off == Off(p)
<1>1. ss \in Seq(Seq(Characters))
  BY SourcesTyped DEF Sources
<1>2. Len(p) \in Nat /\ DOMAIN p = 1..Len(p)
  BY LenProperties
<1>3. Len(ss) = Len(p) /\ \A m \in 1..Len(p) : ss[m] = Source(p[m])
  BY <1>2 DEF Sources
<1> HIDE DEF ss
<1>4. \E o : Offsets(ss, o)
  BY <1>1, OffsetsExist
<1>5. Offsets(ss, off)
  BY <1>4 DEF Off, ss
<1> HIDE DEF off
<1>6. \A e \in 0..Len(ss) : off[e] \in Nat /\ off[e] <= Len(FlattenSeq(ss))
  BY <1>1, <1>5, OffsetsGrow
<1>7. /\ off \in [0..Len(p) -> Nat] /\ off[0] = 0 /\ off[Len(p)] = Len(FlattenSeq(ss))
      /\ \A m \in 1..Len(p) :
           /\ off[m] = off[m - 1] + Len(Source(p[m]))
           /\ \A j \in 1..Len(Source(p[m])) : FlattenSeq(ss)[off[m - 1] + j] = Source(p[m])[j]
  BY <1>3, <1>5 DEF Offsets
<1>8. \A m \in 1..Len(p) : m \in 0..Len(ss)
  BY <1>2, <1>3
<1> QED BY <1>2, <1>6, <1>7, <1>8 DEF ss, off

-----------------------------------------------------------------------------
(* What has been read and may be the beginning of a tag.                   *)
Pend(x) ==
    IF x.at \in {"start", "ignore_newline"} THEN <<>>
    ELSE IF x.at = "expecting_question_mark" THEN <<"<">>
    ELSE IF x.at = "expecting_l" THEN <<"<", "?">>
    ELSE IF x.at = "expecting_u" THEN <<"<", "?", "l">>
    ELSE IF x.at = "expecting_a" THEN <<"<", "?", "l", "u">>
    ELSE IF x.at = "expecting_space_1" THEN Opening("chunk", x.form)
    ELSE Opening("expression", x.form)

(* A state in text; the letters are those of "<?lua".                      *)
InTextState(x) ==
    /\ x.at \in TextStates /\ x.form \in Forms
    /\ x.at \in {"expecting_l", "expecting_u", "expecting_a"} => x.form = "?"

PendCases(x) ==
    \/ x.at \in {"start", "ignore_newline"} /\ Pend(x) = <<>>
    \/ x.at = "expecting_question_mark" /\ Pend(x) = <<"<">>
    \/ x.at = "expecting_l" /\ x.form = "?" /\ Pend(x) = <<"<", "?">>
    \/ x.at = "expecting_u" /\ x.form = "?" /\ Pend(x) = <<"<", "?", "l">>
    \/ x.at = "expecting_a" /\ x.form = "?" /\ Pend(x) = <<"<", "?", "l", "u">>
    \/ x.at = "expecting_space_1" /\ x.form = "?" /\ Pend(x) = <<"<", "?", "l", "u", "a">>
    \/ x.at = "expecting_space_1" /\ x.form = "%" /\ Pend(x) = <<"<", "%">>
    \/ x.at = "expecting_space_2" /\ x.form = "?" /\ Pend(x) = <<"<", "?", "l", "u", "a", "=">>
    \/ x.at = "expecting_space_2" /\ x.form = "%" /\ Pend(x) = <<"<", "%", "=">>

LEMMA PendIs ==
    ASSUME NEW x, InTextState(x)
    PROVE  PendCases(x)
<1>1. /\ x.form = "?" \/ x.form = "%"
      /\ x.at \in {"start", "ignore_newline", "expecting_question_mark", "expecting_l",
                   "expecting_u", "expecting_a", "expecting_space_1", "expecting_space_2"}
  BY StatesAre DEF InTextState, Forms
<1>2. CASE x.at = "expecting_space_1"
  BY <1>1, <1>2, OpeningsAre DEF PendCases, Pend
<1>3. CASE x.at = "expecting_space_2"
  BY <1>1, <1>3, OpeningsAre DEF PendCases, Pend
<1>4. CASE x.at \notin {"expecting_space_1", "expecting_space_2"}
  BY <1>1, <1>4 DEF PendCases, Pend, InTextState
<1> QED BY <1>2, <1>3, <1>4

(* The characters at k..j of t begin a tag.                                *)
Full(f) == Opening("expression", f)

BeginsAs(t, k, j, f) ==
    (j - k) + 1 \in 1..Len(Full(f)) /\ \A i \in 1..((j - k) + 1) : t[(k + i) - 1] = Full(f)[i]

Begins(t, k, j) == \E f \in Forms : BeginsAs(t, k, j, f)

LEMMA FullIs ==
    /\ Full("?") = <<"<", "?", "l", "u", "a", "=">> /\ Len(Full("?")) = 6
    /\ Full("%") = <<"<", "%", "=">> /\ Len(Full("%")) = 3
<1>1. /\ Full("?") = <<"<", "?", "l", "u", "a", "=">>
      /\ Full("%") = <<"<", "%", "=">>
  BY OpeningsAre DEF Full
<1> QED BY <1>1

LEMMA FullTyped ==
    ASSUME NEW f \in Forms
    PROVE  /\ Full(f) \in Seq(Characters) /\ Len(Full(f)) \in {3, 6} /\ Full(f)[1] = "<"
           /\ \A i \in 2..Len(Full(f)) : Full(f)[i] # "<"
<1>1. Full(f) \in Seq(Characters)
  BY OpeningTyped DEF Full, Kinds
<1>2. CASE f = "?"
  BY <1>1, <1>2, FullIs
<1>3. CASE f = "%"
  BY <1>1, <1>3, FullIs
<1> QED BY <1>2, <1>3 DEF Forms

LEMMA BeginningsAre ==
    ASSUME NEW t \in Seq(Characters), NEW k \in 1..Len(t), NEW j \in k..Len(t)
    PROVE  SubSeq(t, k, j) \in Beginnings <=> Begins(t, k, j)
<1> DEFINE b == SubSeq(t, k, j)
           n == (j - k) + 1
<1>1. n \in Nat /\ n > 0 /\ Len(t) \in Nat
  OBVIOUS
<1>2. b \in Seq(Characters) /\ Len(b) = n /\ \A i \in 1..n : b[i] = t[(k + i) - 1]
  <2>1. \A i \in k..j : t[i] \in Characters
    OBVIOUS
  <2>2. /\ b \in Seq(Characters) /\ Len(b) = IF k <= j THEN (j - k) + 1 ELSE 0
        /\ \A i \in 1..((j - k) + 1) : b[i] = t[(k + i) - 1]
    BY <2>1, SubSeqProperties
  <2> HIDE DEF b
  <2> QED BY <2>2
<1> HIDE DEF b
<1>3. Beginnings = UNION {{SubSeq(Full(f), 1, m) : m \in DOMAIN Full(f)} : f \in Forms}
  BY DEF Beginnings, Full
<1>4. ASSUME NEW f \in Forms, NEW m \in 1..Len(Full(f))
      PROVE  LET d == SubSeq(Full(f), 1, m)
             IN d \in Seq(Characters) /\ Len(d) = m /\ \A i \in 1..m : d[i] = Full(f)[i]
  <2> DEFINE g == Full(f)
             d == SubSeq(g, 1, m)
  <2>1. g \in Seq(Characters)
    BY FullTyped
  <2> HIDE DEF g
  <2>2. \A i \in 1..m : g[i] \in Characters
    BY <1>4, <2>1 DEF g
  <2>3. m \in Nat /\ m > 0
    BY <2>1 DEF g
  <2>4. /\ d \in Seq(Characters) /\ Len(d) = IF 1 <= m THEN (m - 1) + 1 ELSE 0
        /\ \A i \in 1..((m - 1) + 1) : d[i] = g[(1 + i) - 1]
    BY <2>2, <2>3, SubSeqProperties
  <2> HIDE DEF d
  <2>5. \A i \in 1..m : i \in 1..((m - 1) + 1) /\ (1 + i) - 1 = i
    BY <2>3
  <2> QED BY <2>3, <2>4, <2>5 DEF d, g
<1>5. ASSUME b \in Beginnings PROVE Begins(t, k, j)
  <2>0. PICK f \in Forms : b \in {SubSeq(Full(f), 1, m) : m \in DOMAIN Full(f)}
    BY <1>3, <1>5
  <2>1. PICK m \in DOMAIN Full(f) : b = SubSeq(Full(f), 1, m)
    BY <2>0
  <2>2. m \in 1..Len(Full(f))
    BY <2>1, FullTyped
  <2>3. Len(b) = m /\ \A i \in 1..m : b[i] = Full(f)[i]
    BY <1>4, <2>1, <2>2
  <2>4. BeginsAs(t, k, j, f)
    BY <1>2, <2>2, <2>3 DEF BeginsAs
  <2> QED BY <2>4 DEF Begins
<1>6. ASSUME Begins(t, k, j) PROVE b \in Beginnings
  <2>1. PICK f \in Forms : n \in 1..Len(Full(f)) /\ \A i \in 1..n : t[(k + i) - 1] = Full(f)[i]
    BY <1>6 DEF Begins, BeginsAs
  <2> DEFINE d == SubSeq(Full(f), 1, n)
  <2>2. d \in Seq(Characters) /\ Len(d) = n /\ \A i \in 1..n : d[i] = Full(f)[i]
    BY <1>4, <2>1
  <2> HIDE DEF d, n
  <2>3. \A i \in 1..n : b[i] = d[i]
    BY <1>2, <2>1, <2>2
  <2>4. b = d
    BY ONLY <1>2, <2>2, <2>3, SeqEqual
  <2>5. n \in DOMAIN Full(f)
    BY <2>1, FullTyped
  <2>6. b \in {SubSeq(Full(f), 1, m) : m \in DOMAIN Full(f)}
    BY <2>4, <2>5 DEF d
  <2> DEFINE G(h) == {SubSeq(Full(h), 1, m) : m \in DOMAIN Full(h)}
  <2>7. b \in G(f) /\ Beginnings = UNION {G(h) : h \in Forms}
    BY <1>3, <2>6
  <2> HIDE DEF G
  <2> QED BY <2>7
<1> QED BY <1>5, <1>6 DEF b

LEMMA BeginsFirst ==
    ASSUME NEW t, NEW k \in Nat, NEW j \in Nat, Begins(t, k, j)
    PROVE  k <= j /\ t[k] = "<"
<1>1. PICK f \in Forms : BeginsAs(t, k, j, f)
  BY DEF Begins
<1>2. Len(Full(f)) \in {3, 6} /\ Full(f)[1] = "<"
  BY FullTyped
<1>3. (j - k) + 1 \in 1..Len(Full(f)) /\ \A i \in 1..((j - k) + 1) : t[(k + i) - 1] = Full(f)[i]
  BY <1>1 DEF BeginsAs
<1>4. k <= j /\ 1 \in 1..((j - k) + 1) /\ (k + 1) - 1 = k
  BY <1>2, <1>3
<1>5. t[(k + 1) - 1] = Full(f)[1]
  BY <1>3, <1>4
<1> QED BY <1>2, <1>4, <1>5

(* A beginning less its last character.                                    *)
LEMMA BeginsBefore ==
    ASSUME NEW t, NEW k \in Nat, NEW j \in Nat, k <= j, Begins(t, k, j + 1)
    PROVE  Begins(t, k, j)
<1>1. PICK f \in Forms : BeginsAs(t, k, j + 1, f)
  BY DEF Begins
<1>2. Len(Full(f)) \in {3, 6}
  BY FullTyped
<1>3. /\ ((j + 1) - k) + 1 \in 1..Len(Full(f))
      /\ \A i \in 1..(((j + 1) - k) + 1) : t[(k + i) - 1] = Full(f)[i]
  BY <1>1 DEF BeginsAs
<1>4. /\ (j - k) + 1 \in 1..Len(Full(f))
      /\ \A i \in 1..((j - k) + 1) : i \in 1..(((j + 1) - k) + 1)
  BY <1>2, <1>3
<1>5. BeginsAs(t, k, j, f)
  BY <1>3, <1>4 DEF BeginsAs
<1> QED BY <1>5 DEF Begins

(* The last characters of the j first ones of t.                           *)
Holds(t, j, w) ==
    Len(w) <= j /\ \A m \in 1..Len(w) : t[(j - Len(w)) + m] = w[m]

(* A beginning of the beginning of a tag.                                  *)
Word(w) ==
    /\ w \in Seq(Characters \ {"LF", "]"})
    /\ Len(w) \in 1..6 /\ w[1] = "<"
    /\ \A m \in 2..Len(w) : w[m] # "<"
    /\ \E f \in Forms : Len(w) <= Len(Full(f)) /\ \A m \in 1..Len(w) : w[m] = Full(f)[m]

LEMMA PrefixWord ==
    ASSUME NEW f \in Forms, NEW w \in Seq(Characters \ {"LF", "]"}), w # <<>>,
           Len(w) <= Len(Full(f)), \A m \in 1..Len(w) : w[m] = Full(f)[m]
    PROVE  Word(w)
<1>1. /\ Len(Full(f)) \in {3, 6} /\ Full(f)[1] = "<"
      /\ \A i \in 2..Len(Full(f)) : Full(f)[i] # "<"
  BY FullTyped
<1>2. Len(w) \in 1..6
  <2>1. Len(w) \in Nat /\ Len(w) # 0
    BY EmptySeq
  <2> DEFINE n == Len(w)
             b == Len(Full(f))
  <2>2. n \in Nat /\ n # 0 /\ n <= b /\ b \in {3, 6}
    BY <1>1, <2>1
  <2> HIDE DEF n, b
  <2>3. n \in 1..6
    BY ONLY <2>2
  <2> QED BY <2>3 DEF n
<1>3. w[1] = "<" /\ \A m \in 2..Len(w) : w[m] # "<"
  BY <1>1, <1>2
<1> QED BY <1>2, <1>3 DEF Word

LEMMA WordsAre ==
    /\ Word(<<"<">>) /\ Word(<<"<", "?">>) /\ Word(<<"<", "?", "l">>)
    /\ Word(<<"<", "?", "l", "u">>) /\ Word(<<"<", "?", "l", "u", "a">>)
    /\ Word(<<"<", "?", "l", "u", "a", "=">>)
    /\ Word(<<"<", "%">>) /\ Word(<<"<", "%", "=">>)
<1> DEFINE C == Characters \ {"LF", "]"}
<1>1. /\ "<" \in C /\ "?" \in C /\ "%" \in C /\ "=" \in C /\ "l" \in C /\ "u" \in C /\ "a" \in C
  BY SpecialAre
<1>2. "?" \in Forms /\ "%" \in Forms
  BY DEF Forms
<1>3. /\ Len(Full("?")) = 6 /\ Full("?")[1] = "<" /\ Full("?")[2] = "?" /\ Full("?")[3] = "l"
      /\ Full("?")[4] = "u" /\ Full("?")[5] = "a" /\ Full("?")[6] = "="
  BY FullIs
<1>4. Len(Full("%")) = 3 /\ Full("%")[1] = "<" /\ Full("%")[2] = "%" /\ Full("%")[3] = "="
  BY FullIs
<1> DEFINE Fits0(w, f) ==
             /\ w \in Seq(C) /\ w # <<>> /\ Len(w) <= Len(Full(f))
             /\ \A m \in 1..Len(w) : w[m] = Full(f)[m]
<1> HIDE DEF C
<1>5. Fits0(<<"<">>, "?") /\ Fits0(<<"<", "?">>, "?")
  BY ONLY <1>1, <1>3
<1>6. Fits0(<<"<", "?", "l">>, "?")
  BY ONLY <1>1, <1>3
<1>7. Fits0(<<"<", "?", "l", "u">>, "?")
  BY ONLY <1>1, <1>3
<1>8. Fits0(<<"<", "?", "l", "u", "a">>, "?")
  BY ONLY <1>1, <1>3
<1>9. Fits0(<<"<", "?", "l", "u", "a", "=">>, "?")
  BY ONLY <1>1, <1>3
<1>10. Fits0(<<"<", "%">>, "%") /\ Fits0(<<"<", "%", "=">>, "%")
  BY ONLY <1>1, <1>4
<1>11. ASSUME NEW w, NEW f \in Forms, Fits0(w, f) PROVE Word(w)
  BY <1>11, PrefixWord DEF C
<1> HIDE DEF Fits0
<1> QED BY <1>2, <1>5, <1>6, <1>7, <1>8, <1>9, <1>10, <1>11

(* What a state has read may begin a tag.                                  *)
LEMMA PendBegins ==
    ASSUME NEW x, InTextState(x)
    PROVE  /\ Pend(x) \in Seq(Characters \ {"LF", "]"})
           /\ Pend(x) = <<>> <=> x.at \in {"start", "ignore_newline"}
           /\ Pend(x) # <<>> => Word(Pend(x))
<1>1. PendCases(x)
  BY PendIs
<1>2. \A w : Word(w) => w \in Seq(Characters \ {"LF", "]"}) /\ w # <<>>
  BY DEF Word
<1>3. <<>> \in Seq(Characters \ {"LF", "]"})
  BY EmptySeq
<1>4. CASE x.at \in {"start", "ignore_newline"} /\ Pend(x) = <<>>
  BY <1>3, <1>4
<1>5. CASE x.at \notin {"start", "ignore_newline"}
  <2>1. Word(Pend(x))
    BY <1>1, <1>5, WordsAre DEF PendCases
  <2> QED BY <1>2, <1>5, <2>1
<1> QED BY <1>1, <1>4, <1>5 DEF PendCases

(* Of the first j characters of t the last n may begin a tag; nothing else *)
(* that ends there does, unless the next character shows that it does not. *)
Known(t, j, n) ==
    \A k \in 1..j : Begins(t, k, j) =>
        \/ n > 0 /\ k = (j - n) + 1
        \/ n = 0 /\ j < Len(t) /\ ~ Begins(t, k, j + 1)

(* A character more of a beginning.                                        *)
LEMMA KnownLonger ==
    ASSUME NEW t, NEW j \in Nat, NEW n \in Nat, Known(t, j, n),
           NEW w, Word(w), Len(w) = n + 1, Holds(t, j + 1, w)
    PROVE  Known(t, j + 1, n + 1)
<1> SUFFICES ASSUME NEW k \in 1..(j + 1), Begins(t, k, j + 1)
             PROVE  k = ((j + 1) - (n + 1)) + 1
  BY DEF Known
<1>1. t[k] = "<"
  BY BeginsFirst
<1>2. n + 1 <= j + 1 /\ \A m \in 1..(n + 1) : t[((j + 1) - (n + 1)) + m] = w[m]
  BY DEF Holds
<1>3. CASE k = j + 1
  <2>1. n + 1 \in 1..(n + 1) /\ ((j + 1) - (n + 1)) + (n + 1) = j + 1
    OBVIOUS
  <2>2. w[n + 1] = "<"
    BY <1>1, <1>2, <1>3, <2>1
  <2>3. n + 1 \notin 2..(n + 1)
    BY <2>2 DEF Word
  <2> QED BY <1>3, <2>3
<1>4. CASE k # j + 1
  <2>1. k \in 1..j /\ k \in Nat /\ k <= j
    BY <1>4
  <2>2. Begins(t, k, j)
    BY <2>1, BeginsBefore
  <2> QED BY <2>1, <2>2 DEF Known
<1> QED BY <1>3, <1>4

(* It was no tag.                                                          *)
LEMMA KnownNot ==
    ASSUME NEW t, NEW j \in Nat, NEW w, Word(w), Known(t, j, Len(w)), Holds(t, j, w),
           j < Len(t),
           \A f \in Forms : Len(w) + 1 <= Len(Full(f)) /\ (\A m \in 1..Len(w) : w[m] = Full(f)[m])
                              => t[j + 1] # Full(f)[Len(w) + 1]
    PROVE  Known(t, j, 0)
<1> DEFINE n == Len(w)
<1>1. n \in 1..6
  BY DEF Word
<1>2. n <= j /\ \A m \in 1..n : t[(j - n) + m] = w[m]
  BY DEF Holds
<1> HIDE DEF n
<1> SUFFICES ASSUME NEW k \in 1..j, Begins(t, k, j), Begins(t, k, j + 1) PROVE FALSE
  BY DEF Known
<1>3. k = (j - n) + 1
  BY <1>1 DEF Known, n
<1>4. PICK f \in Forms : BeginsAs(t, k, j + 1, f)
  BY DEF Begins
<1>5. ((j + 1) - k) + 1 = n + 1
  BY <1>1, <1>3
<1>6. n + 1 <= Len(Full(f)) /\ \A i \in 1..(n + 1) : t[(k + i) - 1] = Full(f)[i]
  BY <1>4, <1>5 DEF BeginsAs
<1>7. \A m \in 1..n : w[m] = Full(f)[m]
  <2> TAKE m \in 1..n
  <2>1. m \in 1..(n + 1) /\ (k + m) - 1 = (j - n) + m
    BY <1>1, <1>3
  <2> QED BY <1>2, <1>6, <2>1
<1>8. t[j + 1] = Full(f)[n + 1]
  <2>1. n + 1 \in 1..(n + 1) /\ (k + (n + 1)) - 1 = j + 1
    BY <1>1, <1>3
  <2> QED BY <1>6, <2>1
<1> QED BY <1>6, <1>7, <1>8 DEF n

(* Another character.                                                      *)
LEMMA KnownOther ==
    ASSUME NEW t, NEW j \in Nat, Known(t, j, 0), t[j + 1] # "<"
    PROVE  Known(t, j + 1, 0)
<1> SUFFICES ASSUME NEW k \in 1..(j + 1), Begins(t, k, j + 1) PROVE FALSE
  BY DEF Known
<1>1. t[k] = "<"
  BY BeginsFirst
<1>2. k \in 1..j /\ k \in Nat /\ k <= j
  BY <1>1
<1>3. Begins(t, k, j)
  BY <1>2, BeginsBefore
<1> QED BY <1>2, <1>3 DEF Known

-----------------------------------------------------------------------------
(* What should be seen of an element, and of the first elements.           *)
FirstOf(t) == IF t # <<>> /\ t[1] = "LF" THEN 2 ELSE 1

EndsOf(p, i) ==
    {k \in FirstOf(p[i].inner)..Len(p[i].inner) :
       i = Len(p) /\ SubSeq(p[i].inner, k, Len(p[i].inner)) \in Beginnings}

LastOf(p, i) ==
    IF EndsOf(p, i) = {} THEN Len(p[i].inner)
    ELSE CHOOSE k \in 0..Len(p[i].inner) : k + 1 \in EndsOf(p, i)

ShownOf(p, i) ==
    CASE p[i].kind = "text" -> SubSeq(p[i].inner, FirstOf(p[i].inner), LastOf(p, i))
      [] p[i].kind = "chunk" -> <<>>
      [] OTHER -> <<"value">>

AllShown(p) == [i \in DOMAIN p |-> ShownOf(p, i)]
BodyTo(p, e) == FlattenSeq(SubSeq(AllShown(p), 1, e))

LEMMA PartTyped ==
    ASSUME NEW t \in Seq(Characters), NEW a \in Nat \ {0}, NEW b \in 0..Len(t)
    PROVE  SubSeq(t, a, b) \in Shows
<1>1. \A i \in a..b : t[i] \in Characters \cup {"value"}
  <2> TAKE i \in a..b
  <2>1. i \in 1..Len(t)
    OBVIOUS
  <2> QED BY <2>1, ElementOfSeq
<1> QED BY <1>1, SubSeqProperties DEF Shows

LEMMA ShownTyped ==
    ASSUME NEW p \in Seq(Element), NEW i \in 1..Len(p)
    PROVE  ShownOf(p, i) \in Shows
<1> DEFINE t == p[i].inner
<1>1. p[i] \in Element
  BY ElementOfSeq
<1>2. p[i].kind \in Kinds /\ t \in Seq(Characters)
  BY <1>1 DEF Element
<1>3. CASE p[i].kind = "text"
  <2>1. ShownOf(p, i) = SubSeq(t, FirstOf(t), LastOf(p, i))
    BY <1>3 DEF ShownOf
  <2>2. FirstOf(t) \in Nat \ {0}
    BY DEF FirstOf
  <2>3. LastOf(p, i) \in 0..Len(t)
    <3>1. Len(t) \in Nat
      BY <1>2
    <3>2. CASE EndsOf(p, i) = {}
      BY <3>1, <3>2 DEF LastOf
    <3>3. CASE EndsOf(p, i) # {}
      <4>1. PICK k \in EndsOf(p, i) : TRUE
        BY <3>3
      <4>2. k \in FirstOf(t)..Len(t)
        BY <4>1 DEF EndsOf
      <4>3. k - 1 \in 0..Len(t) /\ (k - 1) + 1 = k
        BY <2>2, <3>1, <4>2
      <4>4. \E d \in 0..Len(t) : d + 1 \in EndsOf(p, i)
        BY <4>1, <4>3
      <4> QED BY <3>3, <4>4 DEF LastOf
    <3> QED BY <3>2, <3>3
  <2> HIDE DEF t
  <2> QED BY <1>2, <2>1, <2>2, <2>3, PartTyped
<1>4. CASE p[i].kind = "chunk"
  BY <1>4, EmptySeq DEF ShownOf, Shows
<1>5. CASE p[i].kind = "expression"
  <2>1. <<"value">> \in Shows
    BY DEF Shows
  <2> QED BY <1>5, <2>1 DEF ShownOf
<1> QED BY <1>2, <1>3, <1>4, <1>5 DEF Kinds

LEMMA BodyGrows ==
    ASSUME NEW p \in Seq(Element)
    PROVE  /\ BodyTo(p, 0) = <<>>
           /\ BodyTo(p, Len(p)) = FlattenSeq(AllShown(p))
           /\ \A e \in 0..Len(p) : BodyTo(p, e) \in Shows
           /\ \A e \in 1..Len(p) : BodyTo(p, e) = BodyTo(p, e - 1) \o ShownOf(p, e)
<1> DEFINE ss == AllShown(p)
           N == Len(p)
           C == Characters \cup {"value"}
<1>1. N \in Nat /\ DOMAIN p = 1..N
  BY LenProperties
<1>2. ss \in Seq(Seq(C)) /\ Len(ss) = N /\ \A i \in 1..N : ss[i] = ShownOf(p, i)
  <2>1. \A i \in 1..N : ShownOf(p, i) \in Seq(C)
    BY ShownTyped DEF Shows
  <2> QED BY <1>1, <2>1 DEF AllShown
<1> HIDE DEF ss, C, N
<1>3. SubSeq(ss, 1, 0) = <<>> /\ SubSeq(ss, 1, N) = ss
  BY <1>1, <1>2, SubSeqFull, SubSeqEmpty
<1>4. \A e \in 0..N : SubSeq(ss, 1, e) \in Seq(Seq(C))
  BY <1>1, <1>2
<1>5. \A e \in 0..N : FlattenSeq(SubSeq(ss, 1, e)) \in Seq(C)
  <2> TAKE e \in 0..N
  <2> DEFINE u == SubSeq(ss, 1, e)
  <2>1. u \in Seq(Seq(C))
    BY <1>4
  <2> HIDE DEF u
  <2>2. FlattenSeq(u) \in Seq(C)
    BY <2>1, EmptySeq, FlattenAppend
  <2> QED BY <2>2 DEF u
<1>6. ASSUME NEW e \in 1..N
      PROVE  FlattenSeq(SubSeq(ss, 1, e)) = FlattenSeq(SubSeq(ss, 1, e - 1)) \o ss[e]
  <2> DEFINE u == SubSeq(ss, 1, e - 1)
             x == ss[e]
  <2>1. u \in Seq(Seq(C)) /\ x \in Seq(C)
    BY <1>1, <1>2, <1>4
  <2>2. SubSeq(ss, 1, e) = Append(u, x)
    <3>1. SubSeq(ss, 1, e) = u \o <<x>>
      BY <1>1, <1>2, SubSeqRecursiveSecond
    <3> HIDE DEF u, x
    <3> QED BY <2>1, <3>1
  <2> HIDE DEF u, x
  <2>3. FlattenSeq(Append(u, x)) = FlattenSeq(u) \o x
    BY <2>1, FlattenAppend
  <2> QED BY <2>2, <2>3 DEF u, x
<1>7. FlattenSeq(<<>>) = <<>>
  BY DEF FlattenSeq
<1> QED BY <1>1, <1>2, <1>3, <1>5, <1>6, <1>7 DEF BodyTo, Shows, C, N, ss

-----------------------------------------------------------------------------
(* Between two tags: the text behind e elements, or none.                  *)
HasText(p, e) == e < Len(p) /\ p[e + 1].kind = "text"
TextRun(p, e) == IF HasText(p, e) THEN p[e + 1].inner ELSE <<>>
After(p, e) == IF HasText(p, e) THEN e + 1 ELSE e
SimplePage(p) == \A i \in DOMAIN p : p[i].kind = "text" => Simple(p[i].inner)
FileOf(p) == FlattenSeq(Sources(p))

TextFacts(p, e) ==
    /\ TextRun(p, e) \in Seq(Characters) /\ NoTagIn(TextRun(p, e))
    /\ SimplePage(p) => Simple(TextRun(p, e))
    /\ After(p, e) \in 0..Len(p)
    /\ Off(p)[e] \in Nat /\ Off(p)[After(p, e)] = Off(p)[e] + Len(TextRun(p, e))
    /\ Off(p)[After(p, e)] <= Len(FileOf(p)) /\ Off(p)[Len(p)] = Len(FileOf(p))
    /\ \A i \in 1..Len(TextRun(p, e)) : FileOf(p)[Off(p)[e] + i] = TextRun(p, e)[i]
    /\ After(p, e) < Len(p) =>
         /\ After(p, e) + 1 \in 1..Len(p) /\ p[After(p, e) + 1].kind # "text"

LEMMA PageIs ==
    ASSUME NEW p \in Pages, NEW i \in 1..Len(p)
    PROVE  /\ p \in Seq(Element) /\ p[i] \in Element
           /\ p[i].kind = "text" => NoTagIn(p[i].inner)
           /\ ~ p[i].closed => p[i].kind # "text" /\ i = Len(p)
<1>1. /\ p \in Seq(Element)
      /\ \A k \in DOMAIN p : /\ p[k].kind = "text" => NoTagIn(p[k].inner)
                             /\ ~ p[k].closed => p[k].kind # "text" /\ k = Len(p)
  BY PagesAssumption
<1>2. DOMAIN p = 1..Len(p) /\ p[i] \in Element
  BY <1>1, LenProperties, ElementOfSeq
<1>3. i \in DOMAIN p
  BY <1>2
<1> QED BY <1>1, <1>2, <1>3

LEMMA TextIs ==
    ASSUME NEW p \in Pages, Clear(p), NEW e \in 0..Len(p)
    PROVE  TextFacts(p, e)
<1> DEFINE t == TextRun(p, e)
           off == Off(p)
           F == FileOf(p)
           N == Len(p)
<1>1. p \in Seq(Element) /\ N \in Nat /\ DOMAIN p = 1..N
  BY PagesAssumption, LenProperties
<1>2. /\ off \in [0..N -> Nat] /\ off[N] = Len(F)
      /\ \A m \in 1..N :
           /\ off[m] = off[m - 1] + Len(Source(p[m])) /\ off[m] <= Len(F)
           /\ \A j \in 1..Len(Source(p[m])) : F[off[m - 1] + j] = Source(p[m])[j]
  BY <1>1, SourceAt DEF FileOf
<1>3. off[e] \in Nat /\ off[0] = 0 /\ off[e] <= Len(F)
  <2>1. e \in 1..N \/ e = 0
    BY <1>1
  <2>2. off[0] = 0
    BY <1>1, SourceAt
  <2>3. Len(F) \in Nat
    <3>1. N \in 0..N
      BY <1>1
    <3> QED BY <1>2, <3>1
  <2> QED BY <1>2, <2>1, <2>2, <2>3
<1> HIDE DEF off, F
<1>4. CASE HasText(p, e)
  <2> DEFINE m == e + 1
  <2>1. m \in 1..N /\ m - 1 = e /\ p[m].kind = "text"
    BY <1>1, <1>4 DEF HasText
  <2>2. p[m] \in Element
    BY <1>1, <2>1, ElementOfSeq
  <2>3. t = p[m].inner /\ t \in Seq(Characters) /\ Source(p[m]) = t
    BY <1>4, <2>1, <2>2 DEF TextRun, Element, Source
  <2>4. NoTagIn(t) /\ (SimplePage(p) => Simple(t))
    <3>1. p[m].kind = "text" => NoTagIn(p[m].inner)
      BY <2>1, PageIs
    <3>2. m \in DOMAIN p
      BY <1>1, <2>1
    <3> HIDE DEF m
    <3> QED BY <2>1, <2>3, <3>1, <3>2 DEF SimplePage
  <2>5. After(p, e) = m
    BY <1>4 DEF After
  <2>6. m < N => m + 1 \in 1..N /\ p[m + 1].kind # "text"
    <3>1. m < N => m \in 1..(N - 1)
      BY <1>1, <2>1
    <3> QED BY <1>1, <2>1, <3>1 DEF Clear
  <2>7. /\ off[m] = off[e] + Len(t) /\ off[m] <= Len(F)
        /\ \A j \in 1..Len(t) : F[off[e] + j] = t[j]
    BY <1>2, <2>1, <2>3
  <2>8. m \in 0..N
    BY <1>1, <2>1
  <2> HIDE DEF t, m
  <2> QED BY <1>2, <1>3, <2>3, <2>4, <2>5, <2>6, <2>7, <2>8 DEF TextFacts, t, off, F
<1>5. CASE ~ HasText(p, e)
  <2>1. t = <<>> /\ After(p, e) = e
    BY <1>5 DEF TextRun, After
  <2>2. t \in Seq(Characters) /\ Len(t) = 0
    BY <2>1, EmptySeq
  <2>3. NoTagIn(t) /\ Simple(t)
    BY <2>1 DEF NoTagIn, Simple
  <2>4. e < N => e + 1 \in 1..N /\ p[e + 1].kind # "text"
    BY <1>1, <1>5 DEF HasText
  <2> HIDE DEF t
  <2> QED BY <1>1, <1>2, <1>3, <2>1, <2>2, <2>3, <2>4 DEF TextFacts, t, off, F
<1> QED BY <1>4, <1>5

(* j characters of the text are read and all but what may begin a tag is   *)
(* put.                                                                    *)
PutsText(p, e, q, l) ==
    LET t == TextRun(p, e)
    IN  /\ InPut(l, BodyTo(p, e) \o SubSeq(t, FirstOf(t), q))
        /\ Tidy(l) /\ Last(l) # "]" /\ (Last(l) = "put([[" <=> q = 0)

TextAt(p, e, j, x, ps, l) ==
    LET t == TextRun(p, e)
    IN  /\ e \in 0..Len(p) /\ j \in 0..Len(t) /\ InTextState(x)
        /\ ps = (Off(p)[e] + j) + 1
        /\ e > 0 => p[e].closed
        /\ Holds(t, j, Pend(x))
        /\ After(p, e) = Len(p) => Known(t, j, Len(Pend(x)))
        /\ \E o : InPut(l, o)
        /\ SimplePage(p) => PutsText(p, e, j - Len(Pend(x)), l)

(* The next character.                                                     *)
LEMMA TextNext ==
    ASSUME NEW p \in Pages, Clear(p), NEW e, NEW j, NEW x, NEW ps, NEW l,
           TextAt(p, e, j, x, ps, l), ps <= Len(FileOf(p))
    PROVE  /\ e \in 0..Len(p) /\ j \in Nat /\ TextFacts(p, e)
           /\ Len(TextRun(p, e)) \in Nat /\ j <= Len(TextRun(p, e))
           /\ j < Len(TextRun(p, e)) => FileOf(p)[ps] = TextRun(p, e)[j + 1]
           /\ j = Len(TextRun(p, e)) =>
                /\ After(p, e) < Len(p) /\ FileOf(p)[ps] = "<"
                /\ ps = Off(p)[After(p, e)] + 1
<1> DEFINE t == TextRun(p, e)
           off == Off(p)
           F == FileOf(p)
           a == After(p, e)
<1>1. e \in 0..Len(p) /\ j \in 0..Len(t) /\ ps = (off[e] + j) + 1
  BY DEF TextAt
<1>2. TextFacts(p, e)
  BY <1>1, TextIs
<1>3. t \in Seq(Characters) /\ Len(t) \in Nat /\ off[e] \in Nat
  BY <1>2 DEF TextFacts
<1>4. ASSUME j < Len(t) PROVE F[ps] = t[j + 1]
  <2>1. j + 1 \in 1..Len(t) /\ ps = off[e] + (j + 1)
    BY <1>1, <1>3, <1>4
  <2> QED BY <1>2, <2>1 DEF TextFacts
<1>5. ASSUME j = Len(t) PROVE a < Len(p) /\ F[ps] = "<" /\ ps = off[a] + 1
  <2>1. off[a] = off[e] + Len(t) /\ a \in 0..Len(p) /\ off[Len(p)] = Len(F)
    BY <1>2 DEF TextFacts
  <2>2. ps = off[a] + 1
    BY <1>1, <1>5, <2>1
  <2>3. p \in Seq(Element) /\ Len(p) \in Nat
    BY PagesAssumption, LenProperties
  <2>4. a # Len(p)
    <3> SUFFICES ASSUME a = Len(p) PROVE FALSE
      OBVIOUS
    <3>1. off[a] = Len(F) /\ off[a] \in Nat
      BY <1>3, <2>1
    <3> QED BY <2>2, <3>1
  <2>5. a < Len(p) /\ a + 1 \in 1..Len(p) /\ p[a + 1].kind # "text"
    BY <1>2, <2>1, <2>3, <2>4 DEF TextFacts
  <2> DEFINE m == a + 1
             d == p[m]
  <2>6. d \in Element /\ d.kind # "text"
    BY <2>3, <2>5, ElementOfSeq
  <2>7. TagReads(d) /\ d.kind \in {"chunk", "expression"} /\ d.form \in Forms
    BY <2>6, TagSource DEF Element, Kinds
  <2>8. OpenLen(d) \in 2..6 /\ Source(d)[1] = Opening(d.kind, d.form)[1] /\ 1 \in 1..Len(Source(d))
    <3>1. 1 \in 1..OpenLen(d)
      BY <2>7 DEF TagReads
    <3>2. TailLen(d) \in Nat
      BY DEF TailLen
    <3> QED BY <2>7, <3>1, <3>2 DEF TagReads
  <2>9. Source(d)[1] = "<"
    BY <2>7, <2>8, OpeningLength
  <2>10. F[off[m - 1] + 1] = Source(d)[1]
    BY <2>3, <2>5, <2>8, SourceAt DEF FileOf
  <2>11. m - 1 = a
    BY <2>1
  <2> QED BY <2>2, <2>5, <2>9, <2>10, <2>11
<1> QED BY <1>1, <1>2, <1>3, <1>4, <1>5

(* A character more of what may begin a tag.                               *)
LEMMA TextLonger ==
    ASSUME NEW p \in Pages, Clear(p), NEW e, NEW j, NEW x, NEW ps, NEW l,
           TextAt(p, e, j, x, ps, l), ps <= Len(FileOf(p)), j < Len(TextRun(p, e)),
           NEW x2, InTextState(x2), Word(Pend(x2)),
           Len(Pend(x2)) = Len(Pend(x)) + 1,
           \A m \in 1..Len(Pend(x)) : Pend(x2)[m] = Pend(x)[m],
           Pend(x2)[Len(Pend(x)) + 1] = FileOf(p)[ps]
    PROVE  TextAt(p, e, j + 1, x2, ps + 1, l)
<1> DEFINE t == TextRun(p, e)
           w == Pend(x)
           v == Pend(x2)
           n == Len(w)
<1>1. /\ e \in 0..Len(p) /\ j \in Nat /\ Len(t) \in Nat /\ FileOf(p)[ps] = t[j + 1]
      /\ TextFacts(p, e)
  BY TextNext
<1>2. /\ j \in 0..Len(t) /\ InTextState(x) /\ ps = (Off(p)[e] + j) + 1
      /\ e > 0 => p[e].closed
      /\ Holds(t, j, w)
      /\ After(p, e) = Len(p) => Known(t, j, n)
      /\ \E o : InPut(l, o)
      /\ SimplePage(p) => PutsText(p, e, j - n, l)
  BY DEF TextAt
<1>3. n \in Nat
  BY <1>2, PendBegins
<1>4. j + 1 \in 0..Len(t) /\ Off(p)[e] \in Nat /\ ps + 1 = (Off(p)[e] + (j + 1)) + 1
  <2>1. Off(p)[e] \in Nat
    BY <1>1 DEF TextFacts
  <2> HIDE DEF t
  <2>2. j < Len(t)
    BY DEF t
  <2> QED BY ONLY <1>1, <1>2, <2>1, <2>2
<1>5. Holds(t, j + 1, v)
  <2>1. n <= j /\ \A m \in 1..n : t[(j - n) + m] = w[m]
    BY <1>2 DEF Holds
  <2>2. ASSUME NEW m \in 1..(n + 1) PROVE t[((j + 1) - (n + 1)) + m] = v[m]
    <3>1. ((j + 1) - (n + 1)) + m = (j - n) + m
      BY <1>1, <1>3
    <3>2. CASE m = n + 1
      <4>1. (j - n) + m = j + 1
        BY <1>1, <1>3, <3>2
      <4> QED BY <1>1, <3>1, <3>2, <4>1
    <3>3. CASE m # n + 1
      <4>1. m \in 1..n
        BY <1>3, <3>3
      <4> QED BY <2>1, <3>1, <4>1
    <3> QED BY <3>2, <3>3
  <2>3. n + 1 <= j + 1
    BY <1>1, <1>3, <2>1
  <2> QED BY <2>2, <2>3 DEF Holds
<1>6. After(p, e) = Len(p) => Known(t, j + 1, n + 1)
  BY <1>1, <1>2, <1>3, <1>5, KnownLonger
<1>7. (j + 1) - (n + 1) = j - n
  BY <1>1, <1>3
<1> QED BY <1>1, <1>2, <1>4, <1>5, <1>6, <1>7 DEF TextAt

-----------------------------------------------------------------------------
(* The next characters of the text that is shown.                          *)
LEMMA PartLonger ==
    ASSUME NEW t \in Seq(Characters), NEW q \in Nat, NEW w \in Seq(Characters),
           q + Len(w) <= Len(t), FirstOf(t) <= q + 1,
           \A m \in 1..Len(w) : t[q + m] = w[m]
    PROVE  SubSeq(t, FirstOf(t), q) \o w = SubSeq(t, FirstOf(t), q + Len(w))
<1> DEFINE f == FirstOf(t)
           n == Len(w)
           N == Len(t)
<1>1. n \in Nat /\ N \in Nat /\ f \in {1, 2}
  BY LenProperties DEF FirstOf
<1>2. w = SubSeq(t, q + 1, q + n)
  <2> DEFINE u == SubSeq(t, q + 1, q + n)
  <2>1. \A i \in (q + 1)..(q + n) : t[i] \in Characters
    <3> TAKE i \in (q + 1)..(q + n)
    <3>1. i \in 1..N
      BY <1>1
    <3> QED BY <3>1, ElementOfSeq
  <2>2. q + 1 \in Int /\ q + n \in Int
    BY <1>1
  <2>3. /\ u \in Seq(Characters)
        /\ Len(u) = IF q + 1 <= q + n THEN (q + n) - (q + 1) + 1 ELSE 0
        /\ \A i \in 1..((q + n) - (q + 1) + 1) : u[i] = t[(q + 1) + i - 1]
    <3> HIDE DEF n
    <3> QED BY <2>1, <2>2, SubSeqProperties
  <2> HIDE DEF u
  <2>4. Len(u) = n
    BY <1>1, <2>3
  <2>5. \A i \in 1..n : u[i] = w[i]
    <3> TAKE i \in 1..n
    <3>1. i \in 1..((q + n) - (q + 1) + 1) /\ (q + 1) + i - 1 = q + i
      BY <1>1
    <3> QED BY <2>3, <3>1
  <2>6. u = w
    BY <2>3, <2>4, <2>5, SeqEqual
  <2> QED BY <2>6 DEF u
<1> HIDE DEF f, n, N
<1>3. f \in 1..(N + 1) /\ q \in (f - 1)..N /\ q + n \in q..N
  BY <1>1 DEF f, n, N
<1>4. SubSeq(t, f, q) \o SubSeq(t, q + 1, q + n) = SubSeq(t, f, q + n)
  <2> QED BY <1>3, ConcatAdjacentSubSeq DEF N
<1> QED BY <1>2, <1>4 DEF f, n

(* It was no tag: what was read is text.                                   *)
LEMMA TextBack ==
    ASSUME NEW p \in Pages, Clear(p), NEW e, NEW j, NEW x, NEW ps, NEW l,
           TextAt(p, e, j, x, ps, l), ps <= Len(FileOf(p)), Pend(x) # <<>>,
           NEW x2, InTextState(x2), Pend(x2) = <<>>,
           NEW u \in Seq(Characters),
           Pend(x) # Opening("expression", "?") => u = Pend(x),
           \A f \in Forms :
              /\ Len(Pend(x)) + 1 <= Len(Full(f))
              /\ \A m \in 1..Len(Pend(x)) : Pend(x)[m] = Full(f)[m]
              => FileOf(p)[ps] # Full(f)[Len(Pend(x)) + 1]
    PROVE  TextAt(p, e, j, x2, ps, l \o u)
<1> DEFINE t == TextRun(p, e)
           w == Pend(x)
           n == Len(w)
           N == Len(t)
<1>1. /\ e \in 0..Len(p) /\ j \in Nat /\ N \in Nat /\ TextFacts(p, e)
      /\ j < N => FileOf(p)[ps] = t[j + 1]
      /\ j = N => After(p, e) < Len(p)
  BY TextNext
<1>2. /\ j \in 0..N /\ InTextState(x) /\ ps = (Off(p)[e] + j) + 1
      /\ e > 0 => p[e].closed
      /\ Holds(t, j, w)
      /\ After(p, e) = Len(p) => Known(t, j, n)
      /\ \E o : InPut(l, o)
      /\ SimplePage(p) => PutsText(p, e, j - n, l)
  BY DEF TextAt
<1>3. w \in Seq(Characters \ {"LF", "]"}) /\ Word(w) /\ n \in 1..6 /\ w[1] = "<"
  BY <1>2, PendBegins DEF Word
<1>4. t \in Seq(Characters)
  BY <1>1 DEF TextFacts
<1>5. Holds(t, j, Pend(x2)) /\ Len(Pend(x2)) = 0
  BY <1>1, EmptySeq DEF Holds
<1>6. ASSUME After(p, e) = Len(p) PROVE Known(t, j, 0)
  <2>1. Len(p) \in Nat
    BY PagesAssumption, LenProperties
  <2>2. j < N
    BY <1>1, <1>2, <1>6, <2>1
  <2>3. \A f \in Forms :
              /\ n + 1 <= Len(Full(f))
              /\ \A m \in 1..n : w[m] = Full(f)[m]
              => t[j + 1] # Full(f)[n + 1]
    BY <1>1, <2>2
  <2>4. Known(t, j, n)
    BY <1>2, <1>6
  <2> HIDE DEF t, w
  <2> QED BY <1>1, <1>2, <1>3, <2>2, <2>3, <2>4, KnownNot DEF n, N
<1>7. \E o : InPut(l \o u, o)
  BY <1>2, PutWord
<1>8. ASSUME SimplePage(p) PROVE PutsText(p, e, j, l \o u)
  <2> DEFINE q == j - n
             B == BodyTo(p, e)
             P == SubSeq(t, FirstOf(t), q)
  <2>1. n <= j /\ \A m \in 1..n : t[(j - n) + m] = w[m]
    BY <1>2 DEF Holds
  <2>2. q \in Nat /\ q + n = j /\ j # 0 /\ n # 0
    BY <1>1, <1>3, <2>1
  <2>3. u = w
    <3> SUFFICES ASSUME w = Opening("expression", "?") PROVE FALSE
      OBVIOUS
    <3>1. n = 6
      BY OpeningsAre
    <3>2. \A i \in 1..(N - 5) : SubSeq(t, i, i + 5) # w
      BY <1>1, <1>8 DEF TextFacts, Simple
    <3>3. j - 5 \in 1..(N - 5) /\ j - 5 \in Int /\ j \in Int /\ (j - 5) + 5 = j
      <4>1. j \in Nat /\ N \in Nat /\ j <= N /\ n <= j /\ n = 6
        BY <1>1, <1>2, <2>1, <3>1
      <4> HIDE DEF t, w, n, N
      <4> QED BY ONLY <4>1
    <3>4. SubSeq(t, j - 5, j) # w
      BY <3>2, <3>3
    <3>5. \A i \in (j - 5)..j : t[i] \in Characters
      <4> TAKE i \in (j - 5)..j
      <4>1. i \in 1..N
        BY <1>1, <1>2, <3>3
      <4> QED BY <1>4, <4>1, ElementOfSeq
    <3> DEFINE y == SubSeq(t, j - 5, j)
    <3>6. /\ y \in Seq(Characters)
          /\ Len(y) = IF j - 5 <= j THEN j - (j - 5) + 1 ELSE 0
          /\ \A i \in 1..(j - (j - 5) + 1) : y[i] = t[(j - 5) + i - 1]
      <4> HIDE DEF t
      <4> QED BY <3>3, <3>5, SubSeqProperties
    <3> HIDE DEF y, t, w, n
    <3>7. Len(y) = n
      BY <1>1, <3>1, <3>6
    <3>8. \A i \in 1..n : y[i] = w[i]
      <4> TAKE i \in 1..n
      <4>1. i \in 1..(j - (j - 5) + 1) /\ (j - 5) + i - 1 = (j - n) + i
        BY <1>1, <3>1
      <4> QED BY <2>1, <3>6, <4>1
    <3>9. w \in Seq(Characters)
      BY <1>3
    <3>10. y = w
      BY <3>6, <3>7, <3>8, <3>9, SeqEqual DEF n
    <3> QED BY <3>4, <3>10 DEF y
  <2>4. /\ InPut(l, B \o P)
        /\ Tidy(l) /\ Last(l) # "]"
    BY <1>2, <1>8 DEF PutsText
  <2>5. InPut(l \o w, (B \o P) \o w) /\ Tidy(l \o w) /\ Last(l \o w) \in Characters \ {"LF", "]"}
    <3>1. w # <<>>
      OBVIOUS
    <3> HIDE DEF w, B, P
    <3> QED BY <1>3, <2>4, <3>1, PutPlain
  <2>6. FirstOf(t) <= q + 1
    <3>1. t[q + 1] = "<"
      <4>1. 1 \in 1..n
        BY <1>3
      <4> QED BY <1>3, <2>1, <4>1
    <3>2. q = 0 => t[1] # "LF"
      BY <3>1
    <3>3. FirstOf(t) \in {1, 2} /\ (q = 0 => FirstOf(t) = 1)
      BY <3>2 DEF FirstOf
    <3> HIDE DEF q, t
    <3> QED BY ONLY <2>2, <3>3
  <2>7. P \o w = SubSeq(t, FirstOf(t), j)
    <3>1. w \in Seq(Characters) /\ q + Len(w) <= Len(t)
      BY <1>2, <1>3, <2>2
    <3>2. \A m \in 1..Len(w) : t[q + m] = w[m]
      BY <2>1
    <3>3. q + Len(w) = j
      BY <2>2
    <3> HIDE DEF q, t, w
    <3>4. SubSeq(t, FirstOf(t), q) \o w = SubSeq(t, FirstOf(t), q + Len(w))
      BY <1>4, <2>2, <2>6, <3>1, <3>2, PartLonger
    <3> QED BY <3>3, <3>4 DEF t
  <2>8. (B \o P) \o w = B \o SubSeq(t, FirstOf(t), j)
    <3>1. B \in Shows
      <4>1. p \in Seq(Element)
        BY PagesAssumption
      <4> QED BY <1>1, <4>1, BodyGrows
    <3>2. P \in Shows
      <4>1. FirstOf(t) \in Nat \ {0}
        BY DEF FirstOf
      <4>2. q \in 0..Len(t)
        BY <1>2, <2>2
      <4> HIDE DEF q, t
      <4> QED BY <1>4, <4>1, <4>2, PartTyped
    <3>3. w \in Shows
      BY <1>3 DEF Shows
    <3> DEFINE PJ == SubSeq(t, FirstOf(t), j)
    <3>4. P \o w = PJ
      BY <2>7
    <3> HIDE DEF B, P, w, PJ
    <3>5. (B \o P) \o w = B \o (P \o w)
      BY <3>1, <3>2, <3>3, ConcatAssociative DEF Shows
    <3> QED BY <3>4, <3>5 DEF PJ
  <2>9. "put([[" \notin Characters
    BY PieceNot
  <2>10. Last(l \o w) # "put([[" /\ Last(l \o w) # "]"
    BY <2>5, <2>9
  <2> HIDE DEF w
  <2> QED BY <2>2, <2>3, <2>5, <2>8, <2>10 DEF PutsText
<1>9. j - 0 = j
  BY <1>1
<1> QED BY <1>1, <1>2, <1>5, <1>6, <1>7, <1>8, <1>9 DEF TextAt

(* A character that cannot begin a tag.                                    *)
LEMMA TextOther ==
    ASSUME NEW p \in Pages, Clear(p), NEW e, NEW j, NEW x, NEW ps, NEW l,
           TextAt(p, e, j, x, ps, l), ps <= Len(FileOf(p)), Pend(x) = <<>>,
           FileOf(p)[ps] # "<",
           NEW x2, InTextState(x2), Pend(x2) = <<>>,
           NEW u \in Seq(Characters),
           FileOf(p)[ps] \notin {"[", "]"} => u = <<FileOf(p)[ps]>>
    PROVE  TextAt(p, e, j + 1, x2, ps + 1, l \o u)
<1> DEFINE t == TextRun(p, e)
           N == Len(t)
           d == FileOf(p)[ps]
<1>1. /\ e \in 0..Len(p) /\ j \in Nat /\ N \in Nat /\ TextFacts(p, e)
      /\ j < N /\ d = t[j + 1]
  <2>1. /\ e \in 0..Len(p) /\ j \in Nat /\ N \in Nat /\ TextFacts(p, e) /\ j <= N
        /\ j < N => d = t[j + 1]
        /\ j = N => d = "<"
    BY TextNext
  <2> HIDE DEF d, N
  <2>2. j # N
    BY <2>1 DEF d
  <2> QED BY <2>1, <2>2
<1>2. /\ ps = (Off(p)[e] + j) + 1
      /\ e > 0 => p[e].closed
      /\ After(p, e) = Len(p) => Known(t, j, Len(Pend(x)))
      /\ \E o : InPut(l, o)
      /\ SimplePage(p) => PutsText(p, e, j - Len(Pend(x)), l)
  BY DEF TextAt
<1>3. Len(Pend(x)) = 0 /\ Len(Pend(x2)) = 0 /\ j - 0 = j /\ (j + 1) - 0 = j + 1
  BY <1>1, EmptySeq
<1>4. t \in Seq(Characters) /\ Off(p)[e] \in Nat
  BY <1>1 DEF TextFacts
<1>5. d \in Characters /\ j + 1 \in 1..N
  BY <1>1, <1>4, ElementOfSeq
<1>6. Holds(t, j + 1, Pend(x2))
  BY <1>1, <1>3 DEF Holds
<1>7. After(p, e) = Len(p) => Known(t, j + 1, 0)
  <2>1. After(p, e) = Len(p) => Known(t, j, 0)
    BY <1>2, <1>3
  <2>2. t[j + 1] # "<"
    BY <1>1
  <2> HIDE DEF t
  <2> QED BY <1>1, <2>1, <2>2, KnownOther
<1>8. \E o : InPut(l \o u, o)
  BY <1>2, PutWord
<1>9. ASSUME SimplePage(p) PROVE PutsText(p, e, j + 1, l \o u)
  <2> DEFINE B == BodyTo(p, e)
             f == FirstOf(t)
             P == SubSeq(t, f, j)
             PJ == SubSeq(t, f, j + 1)
  <2>1. InPut(l, B \o P) /\ Tidy(l) /\ Last(l) # "]" /\ (Last(l) = "put([[" <=> j = 0)
    BY <1>2, <1>3, <1>9 DEF PutsText
  <2>2. d \notin {"[", "]"}
    <3>1. \A i \in 1..N : t[i] \notin {"[", "]"}
      <4>1. DOMAIN t = 1..N
        BY <1>4, LenProperties
      <4> QED BY <1>1, <1>9, <4>1 DEF TextFacts, Simple
    <3> QED BY <1>1, <1>5, <3>1
  <2>3. l \in Seq(Symbols) /\ l # <<>> /\ d \in Symbols /\ d # "]])" /\ d # "put([["
    BY <1>5, <2>1, CharacterIs DEF InPut
  <2>4. l \o u = Append(l, d)
    BY <2>2, <2>3, AppendIsConcat
  <2>5. Tidy(Append(l, d)) /\ Last(Append(l, d)) = d
    BY <2>1, <2>3, TidyAppend
  <2>6. InPut(Append(l, d), IF d = "LF" /\ j = 0 THEN B \o P ELSE Append(B \o P, d))
    <3>1. InPut(Append(l, d), IF d = "LF" /\ Last(l) = "put([[" THEN B \o P ELSE Append(B \o P, d))
      <4> HIDE DEF B, P, d
      <4> QED BY <1>5, <2>1, PutCharacter
    <3> QED BY <2>1, <3>1
  <2>7. B \in Shows /\ P \in Shows
    <3>1. p \in Seq(Element)
      BY PagesAssumption
    <3>2. f \in Nat \ {0} /\ j \in 0..N
      BY <1>1 DEF FirstOf
    <3> HIDE DEF t
    <3>3. P \in Shows
      BY <1>4, <3>2, PartTyped DEF N
    <3> QED BY <1>1, <3>1, <3>3, BodyGrows
  <2>8. CASE d = "LF" /\ j = 0
    <3>1. f = 2
      <4>1. t # <<>> /\ t[1] = "LF"
        <5>1. j + 1 = 1 /\ t # <<>>
          BY <1>1, <1>4, <2>8, EmptySeq
        <5> HIDE DEF t
        <5> QED BY <1>1, <2>8, <5>1
      <4> HIDE DEF t
      <4> QED BY <4>1 DEF FirstOf
    <3>2. P = <<>> /\ PJ = <<>>
      BY <2>8, <3>1, SubSeqEmpty
    <3>3. InPut(l \o u, B \o PJ)
      BY <2>4, <2>6, <2>8, <3>2
    <3>4. j + 1 # 0
      BY <1>1
    <3> QED BY <2>2, <2>3, <2>4, <2>5, <3>3, <3>4 DEF PutsText
  <2>9. CASE ~ (d = "LF" /\ j = 0)
    <3>1. f <= j + 1
      <4>1. f \in {1, 2} /\ (j = 0 => f = 1)
        <5>1. j = 0 => t[1] # "LF"
          BY <1>1, <2>9
        <5> QED BY <5>1 DEF FirstOf
      <4> HIDE DEF f
      <4> QED BY ONLY <1>1, <4>1
    <3>2. <<d>> \in Seq(Characters) /\ Len(<<d>>) = 1
      BY <1>5, String1
    <3>3. \A m \in 1..Len(<<d>>) : t[j + m] = <<d>>[m]
      BY <1>1
    <3>4. P \o <<d>> = PJ
      <4>1. j + Len(<<d>>) <= Len(t)
        BY <1>1, <3>2
      <4> DEFINE w == <<d>>
      <4>2. w \in Seq(Characters) /\ Len(w) = 1
        BY <3>2
      <4>3. \A m \in 1..Len(w) : t[j + m] = w[m]
        BY <3>3
      <4>4. j + Len(w) <= Len(t)
        BY <4>1
      <4> HIDE DEF w, t
      <4>5. SubSeq(t, FirstOf(t), j) \o w = SubSeq(t, FirstOf(t), j + Len(w))
        BY <1>1, <1>4, <3>1, <4>2, <4>3, <4>4, PartLonger
      <4> QED BY <4>2, <4>5 DEF w
    <3>5. Append(B \o P, d) = B \o PJ
      <4>1. <<d>> \in Shows /\ d \in Characters \cup {"value"}
        <5> HIDE DEF d
        <5> QED BY <1>5 DEF Shows
      <4> HIDE DEF B, P, PJ, d
      <4>2. (B \o P) \o <<d>> = B \o (P \o <<d>>)
        BY <2>7, <4>1, ConcatAssociative DEF Shows
      <4>3. B \o P \in Shows
        BY <2>7 DEF Shows
      <4>4. Append(B \o P, d) = (B \o P) \o <<d>>
        BY <4>1, <4>3, AppendIsConcat DEF Shows
      <4> QED BY <3>4, <4>2, <4>4
    <3>6. InPut(l \o u, B \o PJ)
      BY <2>4, <2>6, <2>9, <3>5
    <3>7. j + 1 # 0
      BY <1>1
    <3> QED BY <2>2, <2>3, <2>4, <2>5, <3>6, <3>7 DEF PutsText
  <2> QED BY <2>8, <2>9
<1>10. /\ j + 1 \in 0..N /\ ps + 1 = (Off(p)[e] + (j + 1)) + 1
  <2> DEFINE o == Off(p)[e]
  <2>1. j \in Nat /\ N \in Nat /\ j < N /\ ps = (o + j) + 1 /\ o \in Nat
    BY <1>1, <1>2, <1>4
  <2> HIDE DEF t, N, o
  <2>2. j + 1 \in 0..N /\ ps + 1 = (o + (j + 1)) + 1
    BY ONLY <2>1
  <2> QED BY <2>2 DEF o
<1> QED BY <1>1, <1>2, <1>3, <1>6, <1>7, <1>8, <1>9, <1>10 DEF TextAt

(* The beginning of a tag and a blank do not occur in text.                *)
LEMMA PrefixIs ==
    ASSUME NEW S, NEW v \in Seq(S), NEW y \in Seq(S), Len(v) <= Len(y),
           \A m \in 1..Len(v) : y[m] = v[m]
    PROVE  IsPrefix(v, y)
<1> DEFINE z == SubSeq(y, 1, Len(v))
<1>1. Len(v) \in Nat /\ Len(y) \in Nat
  BY LenProperties
<1>2. \A i \in 1..Len(v) : y[i] \in S
  <2> TAKE i \in 1..Len(v)
  <2>1. i \in 1..Len(y)
    BY <1>1
  <2> QED BY <2>1, ElementOfSeq
<1>3. /\ z \in Seq(S) /\ Len(z) = (IF 1 <= Len(v) THEN Len(v) - 1 + 1 ELSE 0)
      /\ \A i \in 1..(Len(v) - 1 + 1) : z[i] = y[1 + i - 1]
  BY <1>1, <1>2, SubSeqProperties
<1> HIDE DEF z
<1>4. Len(z) = Len(v) /\ \A i \in 1..Len(v) : z[i] = v[i]
  BY <1>1, <1>3
<1>5. z = v
  BY <1>3, <1>4, SeqEqual
<1>6. SubSeq(v, 1, Len(v)) = v
  BY SubSeqFull
<1> QED BY <1>5, <1>6 DEF IsPrefix, z

LEMMA NoTagBegins ==
    ASSUME NEW p \in Pages, Clear(p), NEW e, NEW j, NEW x, NEW ps, NEW l,
           TextAt(p, e, j, x, ps, l), ps <= Len(FileOf(p)),
           x.at \in {"expecting_space_1", "expecting_space_2"}, FileOf(p)[ps] \in Blank
    PROVE  FALSE
<1> DEFINE t == TextRun(p, e)
           N == Len(t)
           b == FileOf(p)[ps]
           k == IF x.at = "expecting_space_1" THEN "chunk" ELSE "expression"
           w == Opening(k, x.form)
           n == Len(w)
<1>1. /\ j \in Nat /\ N \in Nat /\ TextFacts(p, e) /\ j < N /\ b = t[j + 1]
  <2>1. /\ j \in Nat /\ N \in Nat /\ TextFacts(p, e) /\ j <= N
        /\ j < N => b = t[j + 1]
        /\ j = N => b = "<"
    BY TextNext
  <2>2. b # "<"
    BY DEF Blank
  <2> HIDE DEF b, N
  <2> QED BY <2>1, <2>2
<1>2. InTextState(x) /\ Holds(t, j, Pend(x))
  BY DEF TextAt
<1>3. /\ k \in {"chunk", "expression"} /\ x.form \in Forms /\ Pend(x) = w
  BY <1>2 DEF InTextState, Pend
<1>4. t \in Seq(Characters) /\ NoTagIn(t)
  BY <1>1 DEF TextFacts
<1>5. w \in Seq(Characters) /\ n \in 2..6 /\ n <= j /\ \A m \in 1..n : t[(j - n) + m] = w[m]
  <2>1. w \in Seq(Characters)
    BY <1>3, OpeningTyped DEF Kinds
  <2>2. n \in 2..6
    BY <1>3, OpeningLength
  <2> QED BY <1>2, <1>3, <2>1, <2>2 DEF Holds
<1>6. b \in Characters
  BY <1>1, <1>4, ElementOfSeq
<1> HIDE DEF w, k, b, t
<1> DEFINE v == w \o <<b>>
           i == (j - n) + 1
           y == SubSeq(t, i, N)
<1>7. /\ v \in Seq(Characters) /\ Len(v) = n + 1 /\ v[n + 1] = b
      /\ \A m \in 1..n : v[m] = w[m]
  <2>1. v = Append(w, b)
    BY <1>5, <1>6, AppendIsConcat
  <2> HIDE DEF v
  <2> QED BY <1>5, <1>6, <2>1, AppendProperties
<1>8. i \in 1..N /\ i \in Int /\ N \in Int /\ DOMAIN t = 1..N
  <2>1. DOMAIN t = 1..N
    BY <1>4, LenProperties
  <2> HIDE DEF n, N
  <2>2. i \in 1..N /\ i \in Int /\ N \in Int
    BY <1>1, <1>5
  <2> QED BY <2>1, <2>2
<1>9. /\ y \in Seq(Characters)
      /\ Len(y) = (IF i <= N THEN N - i + 1 ELSE 0)
      /\ \A m \in 1..(N - i + 1) : y[m] = t[i + m - 1]
  <2>1. \A m \in i..N : t[m] \in Characters
    <3> TAKE m \in i..N
    <3>1. m \in 1..N
      BY <1>8
    <3> QED BY <1>4, <3>1, ElementOfSeq
  <2> HIDE DEF i, N
  <2> QED BY <1>8, <2>1, SubSeqProperties
<1> HIDE DEF v, y
<1>10. Len(v) <= Len(y) /\ \A m \in 1..Len(v) : y[m] = v[m]
  <2>1. Len(y) = N - i + 1 /\ n + 1 <= N - i + 1
    <3> HIDE DEF n, N
    <3> QED BY <1>1, <1>5, <1>8, <1>9
  <2>2. ASSUME NEW m \in 1..(n + 1) PROVE y[m] = v[m]
    <3>1. m \in 1..(N - i + 1) /\ i + m - 1 = (j - n) + m
      <4>1. j \in Nat /\ N \in Nat /\ n \in 2..6 /\ n + 1 <= N - i + 1
        BY <1>1, <1>5, <2>1
      <4> HIDE DEF n, N
      <4> QED BY ONLY <4>1
    <3>2. y[m] = t[(j - n) + m]
      BY <1>9, <3>1
    <3>3. CASE m = n + 1
      <4>1. (j - n) + m = j + 1
        <5> HIDE DEF n
        <5> QED BY <1>1, <1>5, <3>3
      <4> QED BY <1>1, <1>7, <3>2, <3>3, <4>1
    <3>4. CASE m # n + 1
      <4>1. m \in 1..n
        <5> HIDE DEF n
        <5> QED BY <1>5, <3>4
      <4> QED BY <1>5, <1>7, <3>2, <4>1
    <3> QED BY <3>3, <3>4
  <2> QED BY <1>7, <2>1, <2>2
<1>11. IsPrefix(v, y)
  BY <1>7, <1>9, <1>10, PrefixIs
<1>12. b \in Blank
  BY DEF b
<1>13. ~ IsPrefix(Opening(k, x.form) \o <<b>>, SubSeq(t, i, Len(t)))
  <2> HIDE DEF i
  <2> QED BY <1>3, <1>4, <1>8, <1>12 DEF NoTagIn
<1> QED BY <1>11, <1>13 DEF v, w, y, N

-----------------------------------------------------------------------------
(* A tag in the source of the page.                                        *)
TagFacts(p, m) ==
    /\ p[m] \in Element /\ TagReads(p[m])
    /\ p[m].kind \in {"chunk", "expression"} /\ p[m].form \in Forms
    /\ Off(p)[m - 1] \in Nat /\ Len(Source(p[m])) \in Nat /\ Len(FileOf(p)) \in Nat
    /\ Off(p)[m] = Off(p)[m - 1] + Len(Source(p[m])) /\ Off(p)[m] <= Len(FileOf(p))
    /\ \A k \in 1..Len(Source(p[m])) : FileOf(p)[Off(p)[m - 1] + k] = Source(p[m])[k]

LEMMA TagIs ==
    ASSUME NEW p \in Pages, NEW m \in 1..Len(p), p[m].kind # "text"
    PROVE  TagFacts(p, m)
<1>1. p \in Seq(Element) /\ p[m] \in Element
  BY PageIs
<1>2. TagReads(p[m]) /\ p[m].kind \in {"chunk", "expression"} /\ p[m].form \in Forms
  BY <1>1, TagSource DEF Element, Kinds
<1>3. Len(Source(p[m])) \in Nat
  BY <1>1, SourceTyped, LenProperties
<1>4. Len(FileOf(p)) \in Nat
  <2>1. Len(p) \in 0..Len(p)
    BY <1>1, LenProperties
  <2> QED BY <1>1, <2>1, SourceAt DEF FileOf
<1>5. m - 1 \in 0..Len(p)
  BY <1>1, LenProperties
<1>6. /\ Off(p)[m - 1] \in Nat
      /\ Off(p)[m] = Off(p)[m - 1] + Len(Source(p[m])) /\ Off(p)[m] <= Len(FileOf(p))
      /\ \A k \in 1..Len(Source(p[m])) : FileOf(p)[Off(p)[m - 1] + k] = Source(p[m])[k]
  BY <1>1, <1>5, SourceAt DEF FileOf
<1> QED BY <1>1, <1>2, <1>3, <1>4, <1>6 DEF TagFacts

(* What is shown of text before a tag.                                     *)
LEMMA BodyText ==
    ASSUME NEW p \in Pages, NEW e \in 0..Len(p), After(p, e) < Len(p)
    PROVE  LET t == TextRun(p, e)
           IN  BodyTo(p, After(p, e)) = BodyTo(p, e) \o SubSeq(t, FirstOf(t), Len(t))
<1> DEFINE t == TextRun(p, e)
<1>1. p \in Seq(Element) /\ Len(p) \in Nat
  BY PagesAssumption, LenProperties
<1>2. CASE HasText(p, e)
  <2> DEFINE m == e + 1
  <2>1. m \in 1..Len(p) /\ m - 1 = e /\ m # Len(p) /\ After(p, e) = m
    BY <1>1, <1>2 DEF HasText, After
  <2>2. p[m].kind = "text" /\ t = p[m].inner
    BY <1>2 DEF HasText, TextRun
  <2> HIDE DEF m, t
  <2>3. EndsOf(p, m) = {}
    BY <2>1 DEF EndsOf
  <2>4. ShownOf(p, m) = SubSeq(t, FirstOf(t), Len(t))
    BY <2>2, <2>3 DEF ShownOf, LastOf
  <2>5. BodyTo(p, m) = BodyTo(p, m - 1) \o ShownOf(p, m)
    BY <1>1, <2>1, BodyGrows
  <2> QED BY <2>1, <2>4, <2>5 DEF t
<1>3. CASE ~ HasText(p, e)
  <2>1. After(p, e) = e /\ t = <<>>
    BY <1>3 DEF After, TextRun
  <2>2. FirstOf(t) = 1 /\ Len(t) = 0
    BY <2>1 DEF FirstOf
  <2>3. SubSeq(t, FirstOf(t), Len(t)) = <<>>
    BY <2>2, SubSeqEmpty
  <2>4. BodyTo(p, e) \in Shows
    BY <1>1, BodyGrows
  <2> HIDE DEF t
  <2>5. BodyTo(p, e) \o <<>> = BodyTo(p, e)
    BY <2>4, ConcatEmptySeq DEF Shows
  <2> QED BY <2>1, <2>3, <2>5 DEF t
<1> QED BY <1>2, <1>3

(* The first j characters of the beginning of a tag are read.              *)
OpeningAt(p, m, j, x, ps, l) ==
    LET d == p[m]
    IN  /\ m \in 1..Len(p) /\ d.kind # "text"
        /\ j \in 1..OpenLen(d) /\ InTextState(x)
        /\ ps = (Off(p)[m - 1] + j) + 1
        /\ Len(Pend(x)) = j /\ \A i \in 1..j : Pend(x)[i] = Opening(d.kind, d.form)[i]
        /\ \E o : InPut(l, o)
        /\ SimplePage(p) => InPut(l, BodyTo(p, m - 1)) /\ Tidy(l) /\ Last(l) # "]"

LEMMA OpeningStarts ==
    ASSUME NEW p \in Pages, Clear(p), NEW e, NEW j, NEW x, NEW ps, NEW l,
           TextAt(p, e, j, x, ps, l), ps <= Len(FileOf(p)), j = Len(TextRun(p, e)),
           Pend(x) = <<>>, NEW x2, InTextState(x2), Pend(x2) = <<"<">>
    PROVE  OpeningAt(p, After(p, e) + 1, 1, x2, ps + 1, l)
<1> DEFINE t == TextRun(p, e)
           m == After(p, e) + 1
           d == p[m]
<1>1. /\ e \in 0..Len(p) /\ j \in Nat /\ TextFacts(p, e)
      /\ After(p, e) < Len(p) /\ ps = Off(p)[After(p, e)] + 1
  BY TextNext
<1>2. m \in 1..Len(p) /\ d.kind # "text" /\ m - 1 = After(p, e)
  BY <1>1 DEF TextFacts
<1>3. TagFacts(p, m)
  <2> HIDE DEF m
  <2> QED BY <1>2, TagIs
<1> HIDE DEF m
<1>4. /\ OpenLen(d) \in 2..6 /\ Opening(d.kind, d.form)[1] = "<" /\ Off(p)[m - 1] \in Nat
  BY <1>3, OpeningLength DEF TagFacts, OpenLen
<1>5. Len(<<"<">>) = 1 /\ \A i \in 1..1 : <<"<">>[i] = Opening(d.kind, d.form)[i]
  BY <1>4
<1>6. 1 \in 1..OpenLen(d) /\ ps + 1 = (Off(p)[m - 1] + 1) + 1
  BY <1>1, <1>2, <1>4
<1>7. \E o : InPut(l, o)
  BY DEF TextAt
<1>8. SimplePage(p) => InPut(l, BodyTo(p, m - 1)) /\ Tidy(l) /\ Last(l) # "]"
  <2> SUFFICES ASSUME SimplePage(p) PROVE InPut(l, BodyTo(p, m - 1)) /\ Tidy(l) /\ Last(l) # "]"
    OBVIOUS
  <2>1. PutsText(p, e, j, l)
    <3>1. Len(Pend(x)) = 0 /\ j - 0 = j
      BY <1>1, EmptySeq
    <3> QED BY <3>1 DEF TextAt
  <2>2. BodyTo(p, m - 1) = BodyTo(p, e) \o SubSeq(t, FirstOf(t), j)
    BY <1>1, <1>2, BodyText
  <2> HIDE DEF t
  <2> QED BY <2>1, <2>2 DEF PutsText, t
<1> QED BY <1>2, <1>5, <1>6, <1>7, <1>8 DEF OpeningAt

(* What comes next is more of the beginning, or the blank behind it.       *)
OpeningCases(d, j, x, b) ==
    LET n == OpenLen(d)
    IN  \/ x.at = "expecting_question_mark" /\ b = d.form /\ j < n
        \/ x.at = "expecting_l" /\ b = "l" /\ j < n
        \/ x.at = "expecting_u" /\ b = "u" /\ j < n
        \/ x.at = "expecting_a" /\ b = "a" /\ j < n
        \/ x.at = "expecting_space_1" /\ b = "=" /\ j < n
        \/ /\ x.at = "expecting_space_1" /\ b = "SP" /\ j = n
           /\ d.kind = "chunk" /\ d.form = x.form
        \/ /\ x.at = "expecting_space_2" /\ b = "SP" /\ j = n
           /\ d.kind = "expression" /\ d.form = x.form

LEMMA OpeningNext ==
    ASSUME NEW p \in Pages, NEW m, NEW j, NEW x, NEW ps, NEW l, OpeningAt(p, m, j, x, ps, l)
    PROVE  /\ TagFacts(p, m) /\ ps <= Len(FileOf(p)) /\ j \in Nat
           /\ j < OpenLen(p[m]) => FileOf(p)[ps] = Opening(p[m].kind, p[m].form)[j + 1]
           /\ OpeningCases(p[m], j, x, FileOf(p)[ps])
<1> DEFINE d == p[m]
           O == Opening(d.kind, d.form)
           n == OpenLen(d)
           w == Pend(x)
           b == FileOf(p)[ps]
<1>1. /\ m \in 1..Len(p) /\ d.kind # "text"
      /\ j \in 1..n /\ InTextState(x)
      /\ ps = (Off(p)[m - 1] + j) + 1
      /\ Len(w) = j /\ \A i \in 1..j : w[i] = O[i]
  BY DEF OpeningAt
<1>2. TagFacts(p, m)
  BY <1>1, TagIs
<1>3. /\ n \in 2..6 /\ InnerLen(d) \in Nat /\ TailLen(d) \in {0, 3}
      /\ Len(Source(d)) = n + 1 + InnerLen(d) + TailLen(d)
      /\ \A i \in 1..n : Source(d)[i] = O[i]
      /\ Source(d)[n + 1] = "SP"
  BY <1>2 DEF TagFacts, TagReads, TailLen
<1>4. j + 1 \in 1..Len(Source(d))
  <2> HIDE DEF n
  <2> QED BY <1>1, <1>3
<1>5. ps <= Len(FileOf(p)) /\ b = Source(d)[j + 1]
  <2> DEFINE o == Off(p)[m - 1]
             L == Len(Source(d))
             M == Len(FileOf(p))
  <2>1. ps = o + (j + 1) /\ o \in Nat /\ L \in Nat /\ M \in Nat /\ o + L <= M
    BY <1>1, <1>2 DEF TagFacts
  <2>2. b = Source(d)[j + 1]
    BY <1>2, <1>4, <2>1 DEF TagFacts
  <2> HIDE DEF o, L, M, b
  <2>3. ps <= M
    BY <1>4, <2>1 DEF L
  <2> QED BY <2>2, <2>3 DEF M
<1>6. j < n => b = O[j + 1]
  <2> HIDE DEF n, b
  <2>1. j < n => j + 1 \in 1..n
    BY <1>1, <1>3
  <2> QED BY <1>3, <1>5, <2>1 DEF b
<1>7. j = n => b = "SP"
  BY <1>3, <1>5
<1>8. /\ d.kind \in {"chunk", "expression"} /\ d.form \in {"?", "%"}
      /\ d.form = "?" => /\ O[2] = "?" /\ O[3] = "l" /\ O[4] = "u" /\ O[5] = "a"
                         /\ d.kind = "chunk" => n = 5
                         /\ d.kind = "expression" => n = 6 /\ O[6] = "="
      /\ d.form = "%" => /\ O[2] = "%"
                         /\ d.kind = "chunk" => n = 2
                         /\ d.kind = "expression" => n = 3 /\ O[3] = "="
  <2>1. d.kind \in {"chunk", "expression"} /\ d.form \in {"?", "%"}
    BY <1>2 DEF TagFacts, Forms
  <2>2. CASE d.kind = "chunk" /\ d.form = "?"
    <3>1. O = <<"<", "?", "l", "u", "a">>
      BY <2>2, OpeningsAre
    <3> QED BY <2>2, <3>1 DEF OpenLen
  <2>3. CASE d.kind = "expression" /\ d.form = "?"
    <3>1. O = <<"<", "?", "l", "u", "a", "=">>
      BY <2>3, OpeningsAre
    <3> QED BY <2>3, <3>1 DEF OpenLen
  <2>4. CASE d.kind = "chunk" /\ d.form = "%"
    <3>1. O = <<"<", "%">>
      BY <2>4, OpeningsAre
    <3> QED BY <2>4, <3>1 DEF OpenLen
  <2>5. CASE d.kind = "expression" /\ d.form = "%"
    <3>1. O = <<"<", "%", "=">>
      BY <2>5, OpeningsAre
    <3> QED BY <2>5, <3>1 DEF OpenLen
  <2> QED BY <2>1, <2>2, <2>3, <2>4, <2>5
<1>9. \/ x.at = "expecting_question_mark" /\ j = 1
      \/ x.at = "expecting_l" /\ x.form = "?" /\ j = 2 /\ w[2] = "?"
      \/ x.at = "expecting_u" /\ x.form = "?" /\ j = 3 /\ w[2] = "?"
      \/ x.at = "expecting_a" /\ x.form = "?" /\ j = 4 /\ w[2] = "?"
      \/ x.at = "expecting_space_1" /\ x.form = "?" /\ j = 5 /\ w[2] = "?"
      \/ x.at = "expecting_space_1" /\ x.form = "%" /\ j = 2 /\ w[2] = "%"
      \/ x.at = "expecting_space_2" /\ x.form = "?" /\ j = 6 /\ w[2] = "?"
      \/ x.at = "expecting_space_2" /\ x.form = "%" /\ j = 3 /\ w[2] = "%"
  <2>1. PendCases(x)
    BY <1>1, PendIs
  <2>2. w # <<>>
    BY <1>1, EmptySeq
  <2>3. j = Len(w)
    BY <1>1
  <2> HIDE DEF w
  <2> QED BY ONLY <2>1, <2>2, <2>3 DEF PendCases, w
<1>10. j >= 2 => w[2] = O[2]
  <2>1. j >= 2 => 2 \in 1..j
    BY <1>1, <1>3
  <2> QED BY <1>1, <2>1
<1>11. j \in Nat /\ j <= n
  <2> HIDE DEF n
  <2> QED BY <1>1, <1>3
<1>12. OpeningCases(d, j, x, b)
  <2>1. j < n \/ j = n
    <3> HIDE DEF n
    <3> QED BY <1>3, <1>11
  <2> HIDE DEF d, O, n, w, b
  <2> QED BY ONLY <1>3, <1>6, <1>7, <1>8, <1>9, <1>10, <1>11, <2>1 DEF OpeningCases, n
<1> QED BY <1>2, <1>5, <1>6, <1>11, <1>12

LEMMA OpeningLonger ==
    ASSUME NEW p \in Pages, NEW m, NEW j, NEW x, NEW ps, NEW l, OpeningAt(p, m, j, x, ps, l),
           j < OpenLen(p[m]), NEW x2, InTextState(x2),
           Len(Pend(x2)) = Len(Pend(x)) + 1,
           \A i \in 1..Len(Pend(x)) : Pend(x2)[i] = Pend(x)[i],
           Pend(x2)[Len(Pend(x)) + 1] = FileOf(p)[ps]
    PROVE  OpeningAt(p, m, j + 1, x2, ps + 1, l)
<1> DEFINE d == p[m]
           O == Opening(d.kind, d.form)
           n == OpenLen(d)
           w == Pend(x)
           v == Pend(x2)
<1>1. /\ m \in 1..Len(p) /\ d.kind # "text"
      /\ j \in 1..n /\ ps = (Off(p)[m - 1] + j) + 1
      /\ Len(w) = j /\ \A i \in 1..j : w[i] = O[i]
      /\ \E o : InPut(l, o)
      /\ SimplePage(p) => InPut(l, BodyTo(p, m - 1)) /\ Tidy(l) /\ Last(l) # "]"
  BY DEF OpeningAt
<1>2. TagFacts(p, m) /\ j \in Nat /\ FileOf(p)[ps] = O[j + 1]
  BY OpeningNext
<1>3. n \in 2..6 /\ Off(p)[m - 1] \in Nat
  BY <1>2 DEF TagFacts, TagReads
<1>4. Len(v) = j + 1 /\ \A i \in 1..(j + 1) : v[i] = O[i]
  <2>1. Len(v) = j + 1 /\ v[j + 1] = O[j + 1] /\ \A i \in 1..j : v[i] = w[i]
    BY <1>1, <1>2
  <2>2. \A i \in 1..(j + 1) : i = j + 1 \/ i \in 1..j
    BY <1>2
  <2> HIDE DEF v, w, O
  <2> QED BY <1>1, <2>1, <2>2
<1>5. j + 1 \in 1..n /\ ps + 1 = (Off(p)[m - 1] + (j + 1)) + 1
  <2> DEFINE o == Off(p)[m - 1]
  <2>1. j < n /\ ps = (o + j) + 1 /\ o \in Nat
    BY <1>1, <1>3
  <2> HIDE DEF n, o
  <2>2. j + 1 \in 1..n /\ ps + 1 = (o + (j + 1)) + 1
    BY ONLY <1>2, <1>3, <2>1
  <2> QED BY <2>2 DEF o
<1> QED BY <1>1, <1>4, <1>5 DEF OpeningAt

-----------------------------------------------------------------------------
(* Where Lua is behind the first i characters of the code K: in no string, *)
(* or in one that begins with q, possibly behind a backslash.              *)
Unquoted(w) == w.quote = ""
Quoting(w, q, y) == w = [quote |-> q, escape |-> y]
Bare(K, i) == Unquoted(Where(K)[i])
InString(K, i, q, y) == Quoting(Where(K)[i], q, y)

(* Within a tag: the state is where Lua is behind the i characters of the  *)
(* code K that are read, but that it may be about to see the end of a tag. *)
CodeState(K, f, i, at) ==
    \/ /\ i <= Len(K)
       /\ at \in {"code", "whitespace", "question_mark"} => Bare(K, i)
       /\ at = "single_quote" => InString(K, i, "'", FALSE)
       /\ at = "single_quote_escape" => InString(K, i, "'", TRUE)
       /\ at = "double_quote" => InString(K, i, "DQ", FALSE)
       /\ at = "double_quote_escape" => InString(K, i, "DQ", TRUE)
       /\ at = "whitespace" => i >= 1 /\ K[i] \in Blank
       /\ at = "question_mark" => i >= 2 /\ K[i] = f /\ K[i - 1] \in Blank /\ Bare(K, i - 1)
    \/ i = Len(K) + 1 /\ at = "whitespace"
    \/ i = Len(K) + 2 /\ at = "question_mark"

(* Code without an opening bracket.                                        *)
BracketFree(K) == \A k \in DOMAIN K : K[k] # "["

CodeAt(p, m, i, x, ps, l) ==
    LET d == p[m]
    IN  /\ m \in 1..Len(p) /\ d.kind # "text"
        /\ x.at \in CodeStates /\ x.kind = d.kind /\ x.form = d.form
        /\ i \in Nat /\ (i <= InnerLen(d) \/ d.closed)
        /\ ps = ((Off(p)[m - 1] + OpenLen(d)) + 1 + i) + 1
        /\ CodeState(d.inner, d.form, i, x.at)
        /\ \E o : InLua(l, o)
        /\ BracketFree(d.inner) => NoBracket(l)
        /\ SimplePage(p) => InLua(l, BodyTo(p, m)) /\ Tidy(l)

(* The beginning of a tag ends.                                            *)
LEMMA LuaOpens ==
    ASSUME NEW l, NEW o, InPut(l, o), NEW b \in Characters
    PROVE  /\ InLua(l \o <<"]])", b>>, o)
           /\ InLua(l \o <<"]])", b, "put(">>, Append(o, "value"))
           /\ Tidy(l) /\ Last(l) # "]" =>
                Tidy(l \o <<"]])", b>>) /\ Tidy(l \o <<"]])", b, "put(">>)
           /\ b # "[" => NoBracket(l \o <<"]])", b>>) /\ NoBracket(l \o <<"]])", b, "put(">>)
<1> DEFINE l1 == Append(l, "]])")
           l2 == Append(l1, b)
           l3 == Append(l2, "put(")
<1>1. l \in Seq(Symbols) /\ l # <<>>
  BY DEF InPut
<1>2. b \in Symbols /\ "]])" \in Symbols /\ "put(" \in Symbols /\ b \notin {"]])", "put([["}
  BY CharacterIs, PieceIs
<1>3. \A S : \A t \in Seq(S), x \in S, y \in S, z \in S :
         t \o <<x, y>> = Append(Append(t, x), y)
         /\ t \o <<x, y, z>> = Append(Append(Append(t, x), y), z)
  OBVIOUS
<1>4. l \o <<"]])", b>> = l2 /\ l \o <<"]])", b, "put(">> = l3
  BY <1>1, <1>2, <1>3
<1>5. l1 \in Seq(Symbols) /\ l1 # <<>> /\ l2 \in Seq(Symbols) /\ l2 # <<>>
  BY <1>1, <1>2, AppendProperties
<1> HIDE DEF l1, l2, l3
<1>6. InLua(l1, o)
  BY PutEnds DEF l1
<1>7. InLua(l2, o)
  BY <1>6, LuaCharacter DEF l2
<1>8. InLua(l3, Append(o, "value"))
  BY <1>7, LuaPut DEF l3
<1>9. ASSUME Tidy(l), Last(l) # "]" PROVE Tidy(l2) /\ Tidy(l3)
  <2>1. Tidy(l1)
    BY <1>1, <1>2, <1>9, TidyAppend DEF l1
  <2>2. Tidy(l2)
    BY <1>2, <1>5, <2>1, TidyAppend DEF l2
  <2>3. Tidy(l3)
    BY <1>2, <1>5, <2>2, TidyAppend DEF l3
  <2> QED BY <2>2, <2>3
<1>10. ASSUME b # "[" PROVE NoBracket(l2) /\ NoBracket(l3)
  <2>1. NoBracket(l1)
    BY <1>1, <1>2, NoBracketStarts DEF l1
  <2>2. NoBracket(l2)
    BY <1>2, <1>5, <1>10, <2>1, NoBracketAppend DEF l2
  <2>3. NoBracket(l3)
    BY <1>2, <1>5, <2>2, NoBracketAppend DEF l3
  <2> QED BY <2>2, <2>3
<1> QED BY <1>4, <1>7, <1>8, <1>9, <1>10

LEMMA CodeStarts ==
    ASSUME NEW K \in Seq(Characters), NEW f
    PROVE  CodeState(K, f, 0, "code")
<1>1. Where(K)[0] = Outside /\ Len(K) \in Nat
  BY WhereIs, LenProperties
<1>2. Bare(K, 0)
  <2>1. Where(K)[0] = [quote |-> "", escape |-> FALSE]
    BY <1>1 DEF Outside
  <2> DEFINE r == Where(K)[0]
  <2>2. r = [quote |-> "", escape |-> FALSE]
    BY <2>1
  <2> HIDE DEF r
  <2>3. Unquoted(r)
    BY ONLY <2>2 DEF Unquoted
  <2> QED BY ONLY <2>3 DEF r, Bare
<1>3. 0 <= Len(K)
  BY <1>1
<1> QED BY <1>2, <1>3 DEF CodeState

LEMMA OpeningEnds ==
    ASSUME NEW p \in Pages, NEW m, NEW j, NEW x, NEW ps, NEW l, OpeningAt(p, m, j, x, ps, l),
           FileOf(p)[ps] \in Blank, NEW x2, x2.at = "code", x2.form = x.form, NEW l2,
           \/ /\ x.at = "expecting_space_1" /\ x2.kind = "chunk"
              /\ l2 = l \o <<"]])", FileOf(p)[ps]>>
           \/ /\ x.at = "expecting_space_2" /\ x2.kind = "expression"
              /\ l2 = l \o <<"]])", FileOf(p)[ps], "put(">>
    PROVE  CodeAt(p, m, 0, x2, ps + 1, l2)
<1> DEFINE d == p[m]
           n == OpenLen(d)
           b == FileOf(p)[ps]
           o0 == Off(p)[m - 1]
<1>1. /\ m \in 1..Len(p) /\ d.kind # "text"
      /\ ps = (o0 + j) + 1
      /\ \E o : InPut(l, o)
      /\ SimplePage(p) => InPut(l, BodyTo(p, m - 1)) /\ Tidy(l) /\ Last(l) # "]"
  BY DEF OpeningAt
<1>2. TagFacts(p, m) /\ OpeningCases(d, j, x, b)
  BY OpeningNext
<1>3. j = n /\ x2.kind = d.kind /\ x2.form = d.form
  BY <1>2 DEF OpeningCases, Blank
<1>4. n \in 2..6 /\ o0 \in Nat /\ InnerLen(d) \in Nat
  BY <1>2 DEF TagFacts, TagReads
<1>5. ps + 1 = ((o0 + n) + 1 + 0) + 1
  <2> HIDE DEF n, o0
  <2> QED BY <1>1, <1>3, <1>4
<1>6. d.inner \in Seq(Characters)
  BY <1>2 DEF TagFacts, Element
<1>7. CodeState(d.inner, d.form, 0, "code") /\ 0 <= InnerLen(d)
  <2> HIDE DEF d
  <2> QED BY <1>4, <1>6, CodeStarts
<1>8. x2.at \in CodeStates
  BY DEF CodeStates
<1>9. b \in Characters
  BY SpecialAre, CharactersAssumption DEF Special
<1>10. (\E o : InLua(l2, o)) /\ NoBracket(l2)
  <2>1. PICK o : InPut(l, o)
    BY <1>1
  <2>2. b # "["
    BY DEF Blank
  <2> HIDE DEF b
  <2>3. /\ InLua(l \o <<"]])", b>>, o) /\ InLua(l \o <<"]])", b, "put(">>, Append(o, "value"))
        /\ NoBracket(l \o <<"]])", b>>) /\ NoBracket(l \o <<"]])", b, "put(">>)
    BY <1>9, <2>1, <2>2, LuaOpens
  <2> QED BY <2>3 DEF b
<1>11. ASSUME SimplePage(p) PROVE InLua(l2, BodyTo(p, m)) /\ Tidy(l2)
  <2> DEFINE B == BodyTo(p, m - 1)
  <2>1. InPut(l, B) /\ Tidy(l) /\ Last(l) # "]"
    BY <1>1, <1>11
  <2>2. BodyTo(p, m) = B \o ShownOf(p, m) /\ B \in Shows
    <3>1. p \in Seq(Element)
      BY PagesAssumption
    <3>2. m - 1 \in 0..Len(p)
      BY <1>1, <3>1, LenProperties
    <3> QED BY <1>1, <3>1, <3>2, BodyGrows
  <2> HIDE DEF B, b
  <2>3. /\ InLua(l \o <<"]])", b>>, B) /\ InLua(l \o <<"]])", b, "put(">>, Append(B, "value"))
        /\ Tidy(l \o <<"]])", b>>) /\ Tidy(l \o <<"]])", b, "put(">>)
    BY <1>9, <2>1, LuaOpens
  <2>4. CASE x2.kind = "chunk" /\ l2 = l \o <<"]])", b>>
    <3>1. ShownOf(p, m) = <<>>
      BY <1>3, <2>4 DEF ShownOf
    <3>2. B \o <<>> = B
      BY <2>2, ConcatEmptySeq DEF Shows
    <3> QED BY <2>2, <2>3, <2>4, <3>1, <3>2
  <2>5. CASE x2.kind = "expression" /\ l2 = l \o <<"]])", b, "put(">>
    <3>1. ShownOf(p, m) = <<"value">>
      BY <1>3, <2>5 DEF ShownOf
    <3>2. B \o <<"value">> = Append(B, "value")
      BY <2>2, AppendIsConcat DEF Shows
    <3> QED BY <2>2, <2>3, <2>5, <3>1, <3>2
  <2> QED BY <2>4, <2>5 DEF b
<1> HIDE DEF n, o0
<1> QED BY <1>1, <1>3, <1>5, <1>7, <1>8, <1>10, <1>11 DEF CodeAt, n, o0

-----------------------------------------------------------------------------
(* A character of code.                                                    *)
Quotes == {"'", "DQ"}

LEMMA BehindIs ==
    ASSUME NEW w, NEW b
    PROVE  /\ Unquoted(w) /\ b \notin Quotes => Unquoted(Behind(w, b))
           /\ Unquoted(w) /\ b \in Quotes => Quoting(Behind(w, b), b, FALSE)
           /\ \A q \in Quotes :
                /\ Quoting(w, q, TRUE) => Quoting(Behind(w, b), q, FALSE)
                /\ Quoting(w, q, FALSE) /\ b = q => Unquoted(Behind(w, b))
                /\ Quoting(w, q, FALSE) /\ b # q /\ b = "\\" => Quoting(Behind(w, b), q, TRUE)
                /\ Quoting(w, q, FALSE) /\ b # q /\ b # "\\" => Quoting(Behind(w, b), q, FALSE)
<1>1. Unquoted(w) /\ b \notin Quotes => Unquoted(Behind(w, b))
  BY DEF Behind, Quotes, Unquoted
<1>2. Unquoted(w) /\ b \in Quotes => Quoting(Behind(w, b), b, FALSE)
  BY DEF Behind, Quotes, Unquoted, Quoting
<1>3. ASSUME NEW q \in Quotes, Quoting(w, q, TRUE) PROVE Quoting(Behind(w, b), q, FALSE)
  BY <1>3 DEF Behind, Quotes, Quoting
<1>4. ASSUME NEW q \in Quotes, Quoting(w, q, FALSE)
      PROVE  /\ b = q => Unquoted(Behind(w, b))
             /\ b # q => Behind(w, b) = [quote |-> q, escape |-> b = "\\"]
  BY <1>4 DEF Behind, Quotes, Quoting, Unquoted
<1>5. ASSUME NEW q \in Quotes, Quoting(w, q, FALSE), b # q, b = "\\"
      PROVE  Quoting(Behind(w, b), q, TRUE)
  <2>1. (b = "\\") = TRUE
    BY <1>5
  <2> QED BY <1>4, <1>5, <2>1 DEF Quoting
<1>6. ASSUME NEW q \in Quotes, Quoting(w, q, FALSE), b # q, b # "\\"
      PROVE  Quoting(Behind(w, b), q, FALSE)
  <2>1. (b = "\\") = FALSE
    BY <1>6
  <2> QED BY <1>4, <1>6, <2>1 DEF Quoting
<1> QED BY <1>1, <1>2, <1>3, <1>4, <1>5, <1>6

LEMMA WhereNext ==
    ASSUME NEW K \in Seq(Characters), NEW i \in Nat, i < Len(K)
    PROVE  LET b == K[i + 1]
           IN  /\ Bare(K, i) /\ b \notin Quotes => Bare(K, i + 1)
               /\ Bare(K, i) /\ b \in Quotes => InString(K, i + 1, b, FALSE)
               /\ \A q \in Quotes :
                    /\ InString(K, i, q, TRUE) => InString(K, i + 1, q, FALSE)
                    /\ InString(K, i, q, FALSE) /\ b = q => Bare(K, i + 1)
                    /\ InString(K, i, q, FALSE) /\ b # q /\ b = "\\" => InString(K, i + 1, q, TRUE)
                    /\ InString(K, i, q, FALSE) /\ b # q /\ b # "\\" => InString(K, i + 1, q, FALSE)
<1> DEFINE w == Where(K)[i]
           v == Where(K)[i + 1]
           b == K[i + 1]
<1>1. v = Behind(w, b)
  <2>1. \A k \in 1..Len(K) : Where(K)[k] = Behind(Where(K)[k - 1], K[k])
    BY WhereIs
  <2>2. i + 1 \in 1..Len(K) /\ (i + 1) - 1 = i
    BY LenProperties
  <2> QED BY <2>1, <2>2
<1> HIDE DEF w, v, b
<1> QED BY <1>1, BehindIs DEF Bare, InString, w, v, b

(* A string has not ended in code that ends there.                         *)
LEMMA StringGoesOn ==
    ASSUME NEW K, NEW i, NEW q \in Quotes, NEW y, InString(K, i, q, y)
    PROVE  ~ Bare(K, i)
<1> DEFINE w == Where(K)[i]
<1>1. w = [quote |-> q, escape |-> y]
  BY DEF InString, Quoting
<1> HIDE DEF w
<1>2. ~ Unquoted(w)
  BY <1>1 DEF Quotes, Unquoted
<1> QED BY <1>2 DEF Bare, w

(* The character b behind i characters: of the code, or of the end.        *)
Reads(K, f, i, b) ==
    /\ K \in Seq(Characters) /\ Len(K) \in Nat /\ f \in Forms /\ i \in Nat /\ i <= Len(K) + 2
    /\ i < Len(K) => b = K[i + 1]
    /\ i = Len(K) => b = "SP"
    /\ i = Len(K) + 1 => b = f
    /\ i = Len(K) + 2 => b = ">"
    /\ Bare(K, Len(K))
    /\ \A k \in 1..(Len(K) - 2) :
         ~ (K[k] \in Blank /\ Bare(K, k) /\ K[k + 1] = f /\ K[k + 2] = ">")

LEMMA FormIs == ASSUME NEW f \in Forms PROVE f \notin Quotes /\ f \notin Blank
BY DEF Forms, Quotes, Blank

LEMMA StateCode ==
    ASSUME NEW K, NEW f, NEW i, NEW b, Reads(K, f, i, b), CodeState(K, f, i, "code")
    PROVE  CodeState(K, f, i + 1, CASE b = "'" -> "single_quote" [] b = "DQ" -> "double_quote"
                                    [] b \in Blank -> "whitespace" [] OTHER -> "code")
<1> DEFINE N == Len(K)
           at == CASE b = "'" -> "single_quote" [] b = "DQ" -> "double_quote"
                   [] b \in Blank -> "whitespace" [] OTHER -> "code"
<1>1. i \in Nat /\ N \in Nat /\ i <= N /\ Bare(K, i) /\ K \in Seq(Characters)
  BY DEF Reads, CodeState
<1>2. CASE i < N
  <2>1. b = K[i + 1]
    BY <1>2 DEF Reads
  <2>2. i + 1 <= N /\ i + 1 >= 1
    BY <1>1, <1>2
  <2>3. /\ b \notin Quotes => Bare(K, i + 1)
        /\ b \in Quotes => InString(K, i + 1, b, FALSE)
    BY <1>1, <1>2, <2>1, WhereNext
  <2>4. CASE b = "'"
    <3>1. at = "single_quote"
      BY <2>4 DEF Blank
    <3> QED BY <2>2, <2>3, <2>4, <3>1 DEF CodeState, Quotes
  <2>5. CASE b = "DQ"
    <3>1. at = "double_quote"
      BY <2>5 DEF Blank
    <3> QED BY <2>2, <2>3, <2>5, <3>1 DEF CodeState, Quotes
  <2>6. CASE b \in Blank
    <3>1. at = "whitespace" /\ b \notin Quotes
      BY <2>6 DEF Blank, Quotes
    <3> QED BY <2>1, <2>2, <2>3, <2>6, <3>1 DEF CodeState
  <2>7. CASE b \notin Blank \cup Quotes
    <3>1. at = "code" /\ b \notin Quotes
      BY <2>7 DEF Quotes
    <3> QED BY <2>2, <2>3, <3>1 DEF CodeState
  <2> QED BY <2>4, <2>5, <2>6, <2>7 DEF Quotes
<1>3. CASE i = N
  <2>1. b = "SP"
    BY <1>3 DEF Reads
  <2>2. at = "whitespace"
    BY <2>1 DEF Blank
  <2> QED BY <1>3, <2>2 DEF CodeState
<1> QED
  <2> HIDE DEF N
  <2>1. i < N \/ i = N
    BY <1>1
  <2> QED BY <1>2, <1>3, <2>1

LEMMA StateWhitespace ==
    ASSUME NEW K, NEW f, NEW i, NEW b, Reads(K, f, i, b), CodeState(K, f, i, "whitespace")
    PROVE  /\ b = f => CodeState(K, f, i + 1, "question_mark")
           /\ b \in Blank => CodeState(K, f, i + 1, "whitespace")
           /\ b \notin Blank \cup {f} => CodeState(K, f, i, "code")
<1> DEFINE N == Len(K)
<1>1. i \in Nat /\ N \in Nat /\ K \in Seq(Characters) /\ f \notin Quotes /\ f \notin Blank
  BY FormIs DEF Reads
<1>2. CASE i < N
  <2>1. b = K[i + 1] /\ i + 1 <= N /\ i + 1 >= 1 /\ (i + 1) - 1 = i
    BY <1>1, <1>2 DEF Reads
  <2>2. Bare(K, i) /\ i >= 1 /\ K[i] \in Blank /\ i + 1 >= 2 /\ i <= N
    BY <1>1, <1>2 DEF CodeState
  <2>3. b \notin Quotes => Bare(K, i + 1)
    BY <1>1, <1>2, <2>1, <2>2, WhereNext
  <2>4. b \in Blank => b \notin Quotes
    BY DEF Blank, Quotes
  <2> QED BY <1>1, <2>1, <2>2, <2>3, <2>4 DEF CodeState
<1>3. CASE i = N
  <2>1. b = "SP" /\ b \in Blank
    BY <1>3 DEF Reads, Blank
  <2> QED BY <1>1, <1>3, <2>1 DEF CodeState
<1>4. CASE i = N + 1
  <2>1. b = f /\ i + 1 = N + 2
    BY <1>1, <1>4 DEF Reads
  <2> QED BY <1>1, <2>1 DEF CodeState
<1> QED
  <2>1. i <= N \/ i = N + 1
    BY DEF CodeState
  <2> HIDE DEF N
  <2>2. i < N \/ i = N \/ i = N + 1
    BY <1>1, <2>1
  <2> QED BY <1>2, <1>3, <1>4, <2>2

LEMMA StateQuoted ==
    ASSUME NEW K, NEW f, NEW i, NEW b, Reads(K, f, i, b),
           NEW q, q \in {<<"single_quote", "'", "single_quote_escape">>,
                         <<"double_quote", "DQ", "double_quote_escape">>}
    PROVE  /\ CodeState(K, f, i, q[1]) =>
                CodeState(K, f, i + 1, IF b = q[2] THEN "code" ELSE IF b = "\\" THEN q[3] ELSE q[1])
           /\ CodeState(K, f, i, q[3]) => CodeState(K, f, i + 1, q[1])
<1> DEFINE N == Len(K)
<1>1. i \in Nat /\ N \in Nat /\ K \in Seq(Characters) /\ Bare(K, N)
  BY DEF Reads
<1>2. ASSUME i < N
      PROVE  /\ b = K[i + 1] /\ i + 1 <= N /\ i <= N
             /\ \A k \in Quotes :
                    /\ InString(K, i, k, TRUE) => InString(K, i + 1, k, FALSE)
                    /\ InString(K, i, k, FALSE) /\ b = k => Bare(K, i + 1)
                    /\ InString(K, i, k, FALSE) /\ b # k /\ b = "\\" => InString(K, i + 1, k, TRUE)
                    /\ InString(K, i, k, FALSE) /\ b # k /\ b # "\\" => InString(K, i + 1, k, FALSE)
  <2>1. b = K[i + 1] /\ i + 1 <= N /\ i <= N
    BY <1>1, <1>2 DEF Reads
  <2> QED BY <1>1, <1>2, <2>1, WhereNext
<1>3. \A k \in Quotes, y \in BOOLEAN : i <= N /\ InString(K, i, k, y) => i < N
  <2> SUFFICES ASSUME NEW k \in Quotes, NEW y \in BOOLEAN, i <= N, InString(K, i, k, y) PROVE i < N
    OBVIOUS
  <2>1. ~ Bare(K, i)
    BY StringGoesOn
  <2>2. i # N
    BY <1>1, <2>1
  <2> HIDE DEF N
  <2> QED BY <1>1, <2>2
<1>4. "'" \in Quotes /\ "DQ" \in Quotes /\ TRUE \in BOOLEAN /\ FALSE \in BOOLEAN
  BY DEF Quotes
<1>5. CASE q = <<"single_quote", "'", "single_quote_escape">>
  <2>1. q[1] = "single_quote" /\ q[2] = "'" /\ q[3] = "single_quote_escape"
    BY <1>5
  <2>2. ASSUME CodeState(K, f, i, "single_quote")
        PROVE  CodeState(K, f, i + 1, IF b = "'" THEN "code"
                                      ELSE IF b = "\\" THEN "single_quote_escape" ELSE "single_quote")
    <3>1. i <= N /\ InString(K, i, "'", FALSE)
      BY <2>2 DEF CodeState
    <3>2. i < N
      BY <1>3, <1>4, <3>1
    <3>3. /\ i + 1 <= N
          /\ b = "'" => Bare(K, i + 1)
          /\ b # "'" /\ b = "\\" => InString(K, i + 1, "'", TRUE)
          /\ b # "'" /\ b # "\\" => InString(K, i + 1, "'", FALSE)
      BY <1>2, <1>4, <3>1, <3>2
    <3> QED BY <3>3 DEF CodeState
  <2>3. ASSUME CodeState(K, f, i, "single_quote_escape")
        PROVE  CodeState(K, f, i + 1, "single_quote")
    <3>1. i <= N /\ InString(K, i, "'", TRUE)
      BY <2>3 DEF CodeState
    <3>2. i < N
      BY <1>3, <1>4, <3>1
    <3>3. i + 1 <= N /\ InString(K, i + 1, "'", FALSE)
      BY <1>2, <1>4, <3>1, <3>2
    <3> QED BY <3>3 DEF CodeState
  <2> QED BY <2>1, <2>2, <2>3
<1>6. CASE q = <<"double_quote", "DQ", "double_quote_escape">>
  <2>1. q[1] = "double_quote" /\ q[2] = "DQ" /\ q[3] = "double_quote_escape"
    BY <1>6
  <2>2. ASSUME CodeState(K, f, i, "double_quote")
        PROVE  CodeState(K, f, i + 1, IF b = "DQ" THEN "code"
                                      ELSE IF b = "\\" THEN "double_quote_escape" ELSE "double_quote")
    <3>1. i <= N /\ InString(K, i, "DQ", FALSE)
      BY <2>2 DEF CodeState
    <3>2. i < N
      BY <1>3, <1>4, <3>1
    <3>3. /\ i + 1 <= N
          /\ b = "DQ" => Bare(K, i + 1)
          /\ b # "DQ" /\ b = "\\" => InString(K, i + 1, "DQ", TRUE)
          /\ b # "DQ" /\ b # "\\" => InString(K, i + 1, "DQ", FALSE)
      BY <1>2, <1>4, <3>1, <3>2
    <3> QED BY <3>3 DEF CodeState
  <2>3. ASSUME CodeState(K, f, i, "double_quote_escape")
        PROVE  CodeState(K, f, i + 1, "double_quote")
    <3>1. i <= N /\ InString(K, i, "DQ", TRUE)
      BY <2>3 DEF CodeState
    <3>2. i < N
      BY <1>3, <1>4, <3>1
    <3>3. i + 1 <= N /\ InString(K, i + 1, "DQ", FALSE)
      BY <1>2, <1>4, <3>1, <3>2
    <3> QED BY <3>3 DEF CodeState
  <2> QED BY <2>1, <2>2, <2>3
<1> QED BY <1>5, <1>6

LEMMA StateQuestionMark ==
    ASSUME NEW K, NEW f, NEW i, NEW b, Reads(K, f, i, b), CodeState(K, f, i, "question_mark")
    PROVE  IF b = ">" THEN i = Len(K) + 2 ELSE CodeState(K, f, i, "code")
<1> DEFINE N == Len(K)
<1>1. i \in Nat /\ N \in Nat
  BY DEF Reads
<1>2. CASE i = N + 2
  <2>1. b = ">"
    BY <1>2 DEF Reads
  <2> QED BY <1>2, <2>1
<1>3. CASE i # N + 2
  <2>1. i <= N /\ Bare(K, i) /\ i >= 2 /\ K[i] = f /\ K[i - 1] \in Blank /\ Bare(K, i - 1)
    BY <1>3 DEF CodeState
  <2>2. CodeState(K, f, i, "code")
    BY <2>1 DEF CodeState
  <2>3. b # ">"
    <3>1. CASE i = N
      BY <3>1 DEF Reads
    <3>2. CASE i # N
      <4>1. i < N /\ i - 1 \in 1..(N - 2) /\ (i - 1) + 1 = i /\ (i - 1) + 2 = i + 1
        <5> HIDE DEF N
        <5> QED BY <1>1, <2>1, <3>2
      <4>2. b = K[i + 1]
        BY <4>1 DEF Reads
      <4>3. ~ (K[i - 1] \in Blank /\ Bare(K, i - 1) /\ K[(i - 1) + 1] = f /\ K[(i - 1) + 2] = ">")
        BY <4>1 DEF Reads
      <4> QED BY <2>1, <4>1, <4>2, <4>3
    <3> QED BY <3>1, <3>2
  <2> QED BY <2>2, <2>3
<1> QED BY <1>2, <1>3

-----------------------------------------------------------------------------
(* The next character of a tag.                                            *)
LEMMA CodeNext ==
    ASSUME NEW p \in Pages, Clear(p), NEW m, NEW i, NEW x, NEW ps, NEW l,
           CodeAt(p, m, i, x, ps, l), ps <= Len(FileOf(p))
    PROVE  LET d == p[m]
               b == FileOf(p)[ps]
           IN  /\ TagFacts(p, m) /\ b \in Characters
               /\ Reads(d.inner, d.form, i, b) /\ (i >= InnerLen(d) => d.closed)
<1> DEFINE d == p[m]
           b == FileOf(p)[ps]
           K == d.inner
           n == InnerLen(d)
           o == Off(p)[m - 1]
           r == OpenLen(d)
           L == Len(Source(d))
           M == Len(FileOf(p))
<1>1. /\ m \in 1..Len(p) /\ d.kind # "text"
      /\ i \in Nat /\ (i <= n \/ d.closed)
      /\ ps = ((o + r) + 1 + i) + 1
      /\ CodeState(K, d.form, i, x.at)
  BY DEF CodeAt
<1>2. TagFacts(p, m)
  BY <1>1, TagIs
<1>3. /\ d \in Element /\ d.form \in Forms /\ o \in Nat /\ L \in Nat /\ M \in Nat
      /\ o + L <= M
      /\ \A k \in 1..L : FileOf(p)[o + k] = Source(d)[k]
  BY <1>2 DEF TagFacts
<1>4. /\ r \in 2..6 /\ n \in Nat /\ L = r + 1 + n + TailLen(d)
      /\ Source(d)[r + 1] = "SP"
      /\ \A k \in 1..n : Source(d)[r + 1 + k] = K[k]
      /\ d.closed => /\ Source(d)[r + 1 + n + 1] = "SP"
                     /\ Source(d)[r + 1 + n + 2] = d.form
                     /\ Source(d)[r + 1 + n + 3] = ">"
  BY <1>2 DEF TagFacts, TagReads
<1>5. K \in Seq(Characters) /\ n = Len(K)
  BY <1>3 DEF Element, InnerLen
<1>14. i \in Nat /\ n \in Nat /\ r \in 2..6
  BY <1>1, <1>4
<1>6. i <= n + 2
  <2>1. i <= Len(K) \/ i = Len(K) + 1 \/ i = Len(K) + 2
    BY <1>1 DEF CodeState
  <2>2. i <= n \/ i = n + 1 \/ i = n + 2
    BY <1>5, <2>1
  <2> HIDE DEF n
  <2> QED BY ONLY <1>14, <2>2
<1>7. i >= n => d.closed
  <2> SUFFICES ASSUME ~ d.closed, i >= n PROVE FALSE
    OBVIOUS
  <2>1. i = n /\ TailLen(d) = 0
    <3>1. i <= n
      BY <1>1
    <3> HIDE DEF n, d
    <3> QED BY <1>14, <3>1 DEF TailLen
  <2>2. L = r + 1 + n
    BY <1>4, <2>1
  <2>3. d.kind \in {"chunk", "expression"} /\ ~ d.closed
    BY <1>2 DEF TagFacts
  <2>4. m = Len(p)
    BY <1>1, <2>3, PageIs
  <2>5. Off(p)[m] = o + L /\ Off(p)[Len(p)] = M
    <3>1. p \in Seq(Element)
      BY PagesAssumption
    <3> QED BY <1>2, <3>1, SourceAt DEF TagFacts, FileOf
  <2>6. ps = M + 1
    <3>1. M = o + L
      BY <2>4, <2>5
    <3> HIDE DEF o, r, n, L, M
    <3> QED BY ONLY <1>1, <1>3, <1>4, <2>1, <2>2, <3>1
  <2> QED BY <1>3, <2>6
<1>8. r + 1 + (i + 1) \in 1..L /\ ps = o + (r + 1 + (i + 1))
  <2>1. i < n \/ (i >= n /\ TailLen(d) = 3)
    <3>1. i >= n => TailLen(d) = 3
      BY <1>7 DEF TailLen
    <3> HIDE DEF n
    <3> QED BY <1>1, <1>4, <3>1
  <2>2. TailLen(d) \in Nat
    BY DEF TailLen
  <2>3. ps = ((o + r) + 1 + i) + 1 /\ i \in Nat
    BY <1>1
  <2>4. /\ r \in 2..6 /\ n \in Nat /\ L = r + 1 + n + TailLen(d) /\ o \in Nat
    BY <1>3, <1>4
  <2> HIDE DEF o, r, n, L
  <2> QED BY ONLY <1>6, <2>1, <2>2, <2>3, <2>4
<1>9. b = Source(d)[r + 1 + (i + 1)]
  BY <1>3, <1>8
<1>10. b \in Characters
  <2>1. Source(d) \in Seq(Characters)
    BY <1>3, SourceTyped
  <2> HIDE DEF b, r, d
  <2> QED BY <1>8, <1>9, <2>1, ElementOfSeq DEF L
<1>11. /\ i < n => b = K[i + 1]
       /\ i = n => b = "SP"
       /\ i = n + 1 => b = d.form
       /\ i = n + 2 => b = ">"
  <2>1. ASSUME i < n PROVE b = K[i + 1]
    <3>1. i + 1 \in 1..n
      <4> HIDE DEF n
      <4> QED BY <1>1, <1>4, <2>1
    <3> QED BY <1>4, <1>9, <3>1
  <2>2. ASSUME i = n PROVE b = "SP"
    <3>1. i >= n /\ r + 1 + (i + 1) = r + 1 + n + 1
      <4> HIDE DEF n, r
      <4> QED BY ONLY <1>14, <2>2
    <3>2. d.closed
      BY <1>7, <3>1
    <3> QED BY <1>4, <1>9, <3>1, <3>2
  <2>3. ASSUME i = n + 1 PROVE b = d.form
    <3>1. i >= n /\ r + 1 + (i + 1) = r + 1 + n + 2
      <4> HIDE DEF n, r
      <4> QED BY ONLY <1>14, <2>3
    <3>2. d.closed
      BY <1>7, <3>1
    <3> QED BY <1>4, <1>9, <3>1, <3>2
  <2>4. ASSUME i = n + 2 PROVE b = ">"
    <3>1. i >= n /\ r + 1 + (i + 1) = r + 1 + n + 3
      <4> HIDE DEF n, r
      <4> QED BY ONLY <1>14, <2>4
    <3>2. d.closed
      BY <1>7, <3>1
    <3> QED BY <1>4, <1>9, <3>1, <3>2
  <2> QED BY <2>1, <2>2, <2>3, <2>4
<1>12. /\ Bare(K, Len(K))
       /\ \A k \in 1..(Len(K) - 2) :
            ~ (K[k] \in Blank /\ Bare(K, k) /\ K[k + 1] = d.form /\ K[k + 2] = ">")
  <2>1. m \in DOMAIN p
    BY <1>1, PagesAssumption, LenProperties
  <2>2. Sound(K, d.form)
    BY <1>1, <2>1 DEF Clear
  <2> QED BY <2>2 DEF Sound, Bare, Unquoted
<1> HIDE DEF b, K
<1>13. Reads(K, d.form, i, b)
  BY <1>1, <1>3, <1>4, <1>5, <1>6, <1>11, <1>12 DEF Reads
<1> QED BY <1>2, <1>7, <1>10, <1>13 DEF b, K

(* A step within the tag.                                                  *)
LEMMA CodeGoesOn ==
    ASSUME NEW p \in Pages, Clear(p), NEW m, NEW i, NEW x, NEW ps, NEW l,
           CodeAt(p, m, i, x, ps, l), ps <= Len(FileOf(p)),
           NEW x2, x2.at \in CodeStates, x2.kind = x.kind, x2.form = x.form,
           NEW i2, NEW ps2,
           \/ i2 = i /\ ps2 = ps
           \/ i2 = i + 1 /\ ps2 = ps + 1,
           CodeState(p[m].inner, p[m].form, i2, x2.at),
           NEW u, \/ u = <<>>
                  \/ \E b \in Characters : u = <<b>> /\ (BracketFree(p[m].inner) => b # "[")
    PROVE  CodeAt(p, m, i2, x2, ps2, l \o u)
<1> DEFINE d == p[m]
           n == InnerLen(d)
           o == Off(p)[m - 1]
           r == OpenLen(d)
<1>1. /\ m \in 1..Len(p) /\ d.kind # "text" /\ x.kind = d.kind /\ x.form = d.form
      /\ i \in Nat /\ (i <= n \/ d.closed)
      /\ ps = ((o + r) + 1 + i) + 1
      /\ \E y : InLua(l, y)
      /\ BracketFree(d.inner) => NoBracket(l)
      /\ SimplePage(p) => InLua(l, BodyTo(p, m)) /\ Tidy(l)
  BY DEF CodeAt
<1>2. TagFacts(p, m) /\ (i >= n => d.closed)
  BY CodeNext
<1>3. n \in Nat /\ o \in Nat /\ r \in 2..6
  BY <1>2 DEF TagFacts, TagReads
<1>4. i2 \in Nat /\ (i2 <= n \/ d.closed) /\ ps2 = ((o + r) + 1 + i2) + 1
  <2> HIDE DEF n, o, r, d
  <2>1. i2 \in Nat
    BY <1>1
  <2>2. i2 <= n \/ d.closed
    BY <1>1, <1>2, <1>3
  <2>3. ps2 = ((o + r) + 1 + i2) + 1
    BY <1>1, <1>3
  <2> QED BY <2>1, <2>2, <2>3
<1>5. ASSUME NEW y, InLua(l, y)
      PROVE  /\ InLua(l \o u, y) /\ (Tidy(l) => Tidy(l \o u))
             /\ BracketFree(d.inner) => NoBracket(l \o u)
  <2>1. l \in Seq(Symbols) /\ l # <<>>
    BY <1>5 DEF InLua
  <2>2. CASE u = <<>>
    <3>1. l \o u = l
      BY <2>1, <2>2, ConcatEmptySeq
    <3> QED BY <1>1, <1>5, <3>1
  <2>3. CASE u # <<>>
    <3>1. PICK b \in Characters : u = <<b>> /\ (BracketFree(d.inner) => b # "[")
      BY <2>3
    <3>2. b \in Symbols /\ b \notin {"]])", "put([["}
      BY CharacterIs
    <3>3. l \o u = Append(l, b)
      BY <2>1, <3>1, <3>2, AppendIsConcat
    <3>4. InLua(Append(l, b), y)
      BY <1>5, LuaCharacter
    <3>5. Tidy(l) => Tidy(Append(l, b))
      BY <2>1, <3>2, TidyAppend
    <3>6. BracketFree(d.inner) => NoBracket(Append(l, b))
      BY <1>1, <2>1, <3>1, <3>2, NoBracketAppend
    <3> QED BY <3>3, <3>4, <3>5, <3>6
  <2> QED BY <2>2, <2>3
<1>6. (\E y : InLua(l \o u, y)) /\ (BracketFree(d.inner) => NoBracket(l \o u))
  BY <1>1, <1>5
<1>7. SimplePage(p) => InLua(l \o u, BodyTo(p, m)) /\ Tidy(l \o u)
  BY <1>1, <1>5
<1> HIDE DEF n, o, r
<1> QED BY <1>1, <1>4, <1>6, <1>7 DEF CodeAt, n, o, r

(* The end of the tag: text follows, or the next tag.                      *)
LEMMA CodeEnds ==
    ASSUME NEW p \in Pages, Clear(p), NEW m, NEW i, NEW x, NEW ps, NEW l,
           CodeAt(p, m, i, x, ps, l), ps <= Len(FileOf(p)), EndsInBlank(l),
           i = InnerLen(p[m]) + 2,
           NEW x2, InTextState(x2), Pend(x2) = <<>>,
           NEW l2, l2 = l \o <<"put([[">> \/ l2 = InsertAt(l, Len(l), "put)") \o <<"put([[">>
    PROVE  TextAt(p, m, 0, x2, ps + 1, l2)
<1> DEFINE d == p[m]
           n == InnerLen(d)
           o == Off(p)[m - 1]
           r == OpenLen(d)
           t == TextRun(p, m)
<1>1. /\ m \in 1..Len(p) /\ i \in Nat
      /\ ps = ((o + r) + 1 + i) + 1
      /\ \E y : InLua(l, y)
      /\ SimplePage(p) => InLua(l, BodyTo(p, m)) /\ Tidy(l)
  BY DEF CodeAt
<1>2. TagFacts(p, m) /\ (i >= n => d.closed)
  BY CodeNext
<1>3. n \in Nat /\ o \in Nat /\ r \in 2..6 /\ Off(p)[m] = o + (r + 1 + n + TailLen(d))
  BY <1>2 DEF TagFacts, TagReads
<1>4. d.closed /\ TailLen(d) = 3
  <2>1. i >= n
    <3> HIDE DEF n
    <3> QED BY <1>3 DEF n
  <2> QED BY <1>2, <2>1 DEF TailLen
<1>5. ps + 1 = (Off(p)[m] + 0) + 1
  <2>1. i = n + 2
    OBVIOUS
  <2>2. ps = ((o + r) + 1 + i) + 1 /\ Off(p)[m] = o + (r + 1 + n + 3)
    BY <1>1, <1>3, <1>4
  <2> HIDE DEF n, o, r
  <2> QED BY ONLY <1>3, <2>1, <2>2
<1>6. Len(p) \in Nat /\ m \in 0..Len(p)
  BY <1>1, PagesAssumption, LenProperties
<1>7. TextFacts(p, m)
  BY <1>6, TextIs
<1>8. t \in Seq(Characters) /\ Len(t) \in Nat
  BY <1>7 DEF TextFacts
<1>9. Len(Pend(x2)) = 0 /\ Holds(t, 0, Pend(x2)) /\ Known(t, 0, 0)
  <2>1. Len(Pend(x2)) = 0
    BY EmptySeq
  <2> QED BY <2>1 DEF Holds, Known
<1>10. \E y : InPut(l2, y)
  BY <1>1, LuaCloses
<1>11. ASSUME SimplePage(p) PROVE PutsText(p, m, 0, l2)
  <2>1. InLua(l, BodyTo(p, m)) /\ Tidy(l) /\ l \in Seq(Symbols)
    BY <1>1, <1>11 DEF InLua
  <2>2. InPut(l2, BodyTo(p, m))
    BY <2>1, LuaCloses
  <2>3. Tidy(l2) /\ Last(l2) = "put([["
    BY <2>1, TidyCloses
  <2>4. SubSeq(t, FirstOf(t), 0) = <<>>
    <3>1. FirstOf(t) \in Int /\ 0 < FirstOf(t)
      BY DEF FirstOf
    <3> HIDE DEF t
    <3> QED BY <3>1, SubSeqEmpty
  <2>5. BodyTo(p, m) \o <<>> = BodyTo(p, m)
    <3>1. BodyTo(p, m) \in Shows
      BY <2>1 DEF InLua
    <3> QED BY <3>1, ConcatEmptySeq DEF Shows
  <2> HIDE DEF t
  <2>6. Last(l2) # "]"
    BY <2>3
  <2> QED BY <2>2, <2>3, <2>4, <2>5, <2>6 DEF PutsText, t
<1>12. 0 - 0 = 0 /\ 0 \in 0..Len(t)
  BY <1>8
<1> QED BY <1>4, <1>5, <1>6, <1>9, <1>10, <1>11, <1>12 DEF TextAt

-----------------------------------------------------------------------------
(* The steps of do_lua in text.                                            *)
InText(p, x, ps, l) ==
    \E e, j : TextAt(p, e, j, x, ps, l) \/ OpeningAt(p, e, j, x, ps, l)

LEMMA LongerReads ==
    ASSUME NEW p \in Pages, Clear(p), NEW x, NEW ps, NEW l, InText(p, x, ps, l),
           ps <= Len(FileOf(p)), FileOf(p)[ps] \notin {"<", "SP"},
           NEW x2, InTextState(x2), Word(Pend(x2)),
           Len(Pend(x2)) = Len(Pend(x)) + 1,
           \A m \in 1..Len(Pend(x)) : Pend(x2)[m] = Pend(x)[m],
           Pend(x2)[Len(Pend(x)) + 1] = FileOf(p)[ps]
    PROVE  InText(p, x2, ps + 1, l)
<1>1. PICK e, j : TextAt(p, e, j, x, ps, l) \/ OpeningAt(p, e, j, x, ps, l)
  BY DEF InText
<1>2. CASE TextAt(p, e, j, x, ps, l)
  <2> DEFINE N == Len(TextRun(p, e))
  <2>1. j \in Nat /\ N \in Nat /\ j <= N /\ (j = N => FileOf(p)[ps] = "<")
    BY <1>2, TextNext
  <2>2. j < N
    <3> HIDE DEF N
    <3> QED BY <2>1
  <2>3. TextAt(p, e, j + 1, x2, ps + 1, l)
    BY <1>2, <2>2, TextLonger
  <2> QED BY <2>3 DEF InText
<1>3. CASE OpeningAt(p, e, j, x, ps, l)
  <2>1. OpeningCases(p[e], j, x, FileOf(p)[ps])
    BY <1>3, OpeningNext
  <2>2. j < OpenLen(p[e])
    BY <2>1 DEF OpeningCases
  <2>3. OpeningAt(p, e, j + 1, x2, ps + 1, l)
    BY <1>3, <2>2, OpeningLonger
  <2> QED BY <2>3 DEF InText
<1> QED BY <1>1, <1>2, <1>3

(* The character that shows that it is no tag.                             *)
NotExpected(x, b) ==
    \/ x.at = "expecting_question_mark" /\ b \notin Forms
    \/ x.at = "expecting_l" /\ b # "l"
    \/ x.at = "expecting_u" /\ b # "u"
    \/ x.at = "expecting_a" /\ b # "a"
    \/ x.at = "expecting_space_1" /\ b \notin Blank \cup {"="}
    \/ x.at = "expecting_space_2" /\ b \notin Blank

LEMMA NotExpectedIs ==
    ASSUME NEW x, InTextState(x), NEW b, NotExpected(x, b), NEW f \in Forms,
           Len(Pend(x)) + 1 <= Len(Full(f)),
           \A m \in 1..Len(Pend(x)) : Pend(x)[m] = Full(f)[m]
    PROVE  b # Full(f)[Len(Pend(x)) + 1]
<1> DEFINE w == Pend(x)
           F == Full(f)
           n == Len(w)
<1>1. PendCases(x)
  BY PendIs
<1>2. \/ x.at = "expecting_question_mark" /\ n = 1
      \/ x.at = "expecting_l" /\ n = 2 /\ w[2] = "?"
      \/ x.at = "expecting_u" /\ n = 3 /\ w[2] = "?"
      \/ x.at = "expecting_a" /\ n = 4 /\ w[2] = "?"
      \/ x.at = "expecting_space_1" /\ n = 5 /\ w[2] = "?"
      \/ x.at = "expecting_space_1" /\ n = 2 /\ w[2] = "%"
      \/ x.at = "expecting_space_2" /\ n = 6 /\ w[2] = "?"
      \/ x.at = "expecting_space_2" /\ n = 3 /\ w[2] = "%"
  BY <1>1 DEF PendCases, NotExpected
<1>3. \/ /\ f = "?" /\ Len(F) = 6 /\ F[2] = "?" /\ F[3] = "l" /\ F[4] = "u" /\ F[5] = "a"
         /\ F[6] = "="
      \/ f = "%" /\ Len(F) = 3 /\ F[2] = "%" /\ F[3] = "="
  BY FullIs DEF Forms
<1>4. n >= 2 => w[2] = F[2]
  <2>1. n >= 2 => 2 \in 1..n
    BY <1>2
  <2> QED BY <2>1
<1>5. n + 1 <= Len(F)
  OBVIOUS
<1>6. NotExpected(x, b)
  OBVIOUS
<1> HIDE DEF w, F, n
<1>7. b # F[n + 1]
  BY ONLY <1>2, <1>3, <1>4, <1>5, <1>6 DEF NotExpected, Forms, Blank
<1> QED BY <1>7 DEF w, F, n

LEMMA BackReads ==
    ASSUME NEW p \in Pages, Clear(p), NEW x, NEW ps, NEW l, InText(p, x, ps, l),
           ps <= Len(FileOf(p)), InTextState(x), NotExpected(x, FileOf(p)[ps]),
           NEW x2, InTextState(x2), Pend(x2) = <<>>,
           NEW u \in Seq(Characters), Pend(x) # Opening("expression", "?") => u = Pend(x)
    PROVE  InText(p, x2, ps, l \o u)
<1>1. PICK e, j : TextAt(p, e, j, x, ps, l) \/ OpeningAt(p, e, j, x, ps, l)
  BY DEF InText
<1>2. CASE TextAt(p, e, j, x, ps, l)
  <2>1. Pend(x) # <<>>
    <3>1. x.at \notin {"start", "ignore_newline"}
      BY DEF NotExpected
    <3> QED BY <3>1, PendBegins
  <2>2. \A f \in Forms :
              /\ Len(Pend(x)) + 1 <= Len(Full(f))
              /\ \A m \in 1..Len(Pend(x)) : Pend(x)[m] = Full(f)[m]
              => FileOf(p)[ps] # Full(f)[Len(Pend(x)) + 1]
    BY NotExpectedIs
  <2>3. TextAt(p, e, j, x2, ps, l \o u)
    BY <1>2, <2>1, <2>2, TextBack
  <2> QED BY <2>3 DEF InText
<1>3. CASE OpeningAt(p, e, j, x, ps, l)
  <2>1. OpeningCases(p[e], j, x, FileOf(p)[ps]) /\ p[e].form \in Forms
    BY <1>3, OpeningNext DEF TagFacts
  <2> QED BY <2>1 DEF OpeningCases, NotExpected, Blank
<1> QED BY <1>1, <1>2, <1>3

(* A page and its source.                                                  *)
Ready == TypeInv /\ ScriptInv /\ file = FileOf(page) /\ Clear(page)

InCode(p, x, ps, l) == \E m, i : CodeAt(p, m, i, x, ps, l)

LEMMA ReadyIs ==
    ASSUME Ready
    PROVE  /\ page \in Pages /\ Clear(page) /\ file = FileOf(page) /\ lua \in Seq(Symbols)
           /\ s.form \in Forms /\ lua \o <<>> = lua
           /\ \A at : To(at) => s'.at = at /\ s'.kind = s.kind /\ s'.form = s.form
           /\ pos <= Len(file) => c \in Characters
<1>1. page \in Pages /\ Clear(page) /\ file = FileOf(page) /\ lua \in Seq(Symbols)
      /\ s.form \in Forms
  BY DEF Ready, TypeInv
<1>2. lua \o <<>> = lua
  BY <1>1, ConcatEmptySeq
<1>3. \A at : To(at) => s'.at = at /\ s'.kind = s.kind /\ s'.form = s.form
  BY DEF To, Ready, TypeInv
<1>4. pos <= Len(file) => c \in Characters
  BY CharacterRead DEF Ready
<1> QED BY <1>1, <1>2, <1>3, <1>4

(* The states, what has been read in them, and where they are.             *)
LEMMA TextStateIs ==
    ASSUME NEW x, x.form \in Forms
    PROVE  /\ x.at \in {"start", "ignore_newline"} => InTextState(x) /\ Pend(x) = <<>>
           /\ x.at = "expecting_question_mark" => InTextState(x) /\ Pend(x) = <<"<">>
           /\ x.at = "expecting_l" /\ x.form = "?" => InTextState(x) /\ Pend(x) = <<"<", "?">>
           /\ x.at = "expecting_u" /\ x.form = "?" => InTextState(x) /\ Pend(x) = <<"<", "?", "l">>
           /\ x.at = "expecting_a" /\ x.form = "?" =>
                InTextState(x) /\ Pend(x) = <<"<", "?", "l", "u">>
           /\ x.at = "expecting_space_1" =>
                /\ InTextState(x) /\ Pend(x) = Opening("chunk", x.form)
                /\ x.form = "?" => Pend(x) = <<"<", "?", "l", "u", "a">>
                /\ x.form = "%" => Pend(x) = <<"<", "%">>
           /\ x.at = "expecting_space_2" =>
                /\ InTextState(x) /\ Pend(x) = Opening("expression", x.form)
                /\ x.form = "?" => Pend(x) = <<"<", "?", "l", "u", "a", "=">>
                /\ x.form = "%" => Pend(x) = <<"<", "%", "=">>
<1>1. x.at = "expecting_space_1" =>
        /\ Pend(x) = Opening("chunk", x.form)
        /\ x.form = "?" => Pend(x) = <<"<", "?", "l", "u", "a">>
        /\ x.form = "%" => Pend(x) = <<"<", "%">>
  BY OpeningsAre DEF Pend
<1>2. x.at = "expecting_space_2" =>
        /\ Pend(x) = Opening("expression", x.form)
        /\ x.form = "?" => Pend(x) = <<"<", "?", "l", "u", "a", "=">>
        /\ x.form = "%" => Pend(x) = <<"<", "%", "=">>
  BY OpeningsAre DEF Pend
<1>3. /\ x.at \in {"start", "ignore_newline"} => Pend(x) = <<>>
      /\ x.at = "expecting_question_mark" => Pend(x) = <<"<">>
      /\ x.at = "expecting_l" => Pend(x) = <<"<", "?">>
      /\ x.at = "expecting_u" => Pend(x) = <<"<", "?", "l">>
      /\ x.at = "expecting_a" => Pend(x) = <<"<", "?", "l", "u">>
  BY DEF Pend
<1>4. x.at \in TextStates /\ (x.at \in {"expecting_l", "expecting_u", "expecting_a"} => x.form = "?")
        => InTextState(x)
  BY DEF InTextState
<1> QED BY <1>1, <1>2, <1>3, <1>4, StatesAre

LEMMA InTextIs ==
    ASSUME NEW p, NEW x, NEW ps, NEW l, InText(p, x, ps, l)
    PROVE  InTextState(x)
BY DEF InText, TextAt, OpeningAt

LEMMA TextReads ==
    ASSUME Ready, InText(page, s, pos, lua), Text
    PROVE  InText(page, s', pos', lua')
<1>1. /\ s.at \in {"start", "ignore_newline"} /\ pos <= Len(file)
      /\ page \in Pages /\ Clear(page) /\ file = FileOf(page) /\ lua \in Seq(Symbols)
      /\ s.form \in Forms /\ lua \o <<>> = lua /\ c \in Characters /\ c = FileOf(page)[pos]
  BY ReadyIs DEF Text, In, c
<1>2. Pend(s) = <<>>
  BY <1>1, TextStateIs
<1>3. PICK e, j : TextAt(page, e, j, s, pos, lua)
  <2>1. PICK e, j : TextAt(page, e, j, s, pos, lua) \/ OpeningAt(page, e, j, s, pos, lua)
    BY DEF InText
  <2>2. ~ OpeningAt(page, e, j, s, pos, lua)
    <3> SUFFICES ASSUME OpeningAt(page, e, j, s, pos, lua) PROVE FALSE
      OBVIOUS
    <3>1. j \in 1..OpenLen(page[e]) /\ j = 0
      BY <1>2, EmptySeq DEF OpeningAt
    <3> QED BY <3>1
  <2> QED BY <2>1, <2>2
<1>4. CASE c = "<" /\ To("expecting_question_mark") /\ Emit(<<>>)
  <2>1. s'.at = "expecting_question_mark" /\ s'.form \in Forms /\ pos' = pos + 1 /\ lua' = lua
    BY <1>1, <1>4, ReadyIs DEF Emit
  <2>2. InTextState(s') /\ Pend(s') = <<"<">>
    BY <2>1, TextStateIs
  <2> DEFINE N == Len(TextRun(page, e))
  <2>3. j \in Nat /\ N \in Nat /\ j <= N
    BY <1>1, <1>3, TextNext
  <2>4. CASE j < N
    <3>1. Word(Pend(s')) /\ Len(Pend(s)) = 0 /\ Len(Pend(s')) = 1 /\ Pend(s')[1] = "<"
      BY <1>2, <2>2, WordsAre, EmptySeq
    <3>2. Len(Pend(s')) = Len(Pend(s)) + 1 /\ Pend(s')[Len(Pend(s)) + 1] = FileOf(page)[pos]
      BY <1>1, <1>4, <3>1
    <3>3. \A m \in 1..Len(Pend(s)) : Pend(s')[m] = Pend(s)[m]
      BY <3>1
    <3>4. pos <= Len(FileOf(page)) /\ j < Len(TextRun(page, e))
      BY <1>1, <2>4
    <3>5. TextAt(page, e, j + 1, s', pos + 1, lua)
      BY <1>1, <1>3, <2>2, <3>1, <3>2, <3>3, <3>4, TextLonger
    <3> QED BY <2>1, <3>5 DEF InText
  <2>5. CASE j = N
    <3>1. OpeningAt(page, After(page, e) + 1, 1, s', pos + 1, lua)
      BY <1>1, <1>2, <1>3, <2>2, <2>5, OpeningStarts
    <3> QED BY <2>1, <3>1 DEF InText
  <2> QED
    <3> HIDE DEF N
    <3>1. j < N \/ j = N
      BY <2>3
    <3> QED BY <2>4, <2>5, <3>1
<1>5. ASSUME NEW u \in Seq(Characters), c # "<", To("start"), Emit(u),
             c \notin {"[", "]"} => u = <<c>>
      PROVE  InText(page, s', pos', lua')
  <2>1. s'.at = "start" /\ s'.form \in Forms /\ pos' = pos + 1 /\ lua' = lua \o u
    BY <1>1, <1>5, ReadyIs DEF Emit
  <2>2. InTextState(s') /\ Pend(s') = <<>>
    BY <2>1, TextStateIs
  <2>3. TextAt(page, e, j + 1, s', pos + 1, lua \o u)
    BY <1>1, <1>2, <1>3, <1>5, <2>2, TextOther
  <2> QED BY <2>1, <2>3 DEF InText
<1>6. CASE c \in {"[", "]"} /\ To("start") /\ Emit(<<"\\", c>>)
  <2>1. <<"\\", c>> \in Seq(Characters)
    BY <1>1, SpecialAre, String2
  <2> QED BY <1>5, <1>6, <2>1
<1>7. CASE c \notin {"<", "[", "]"} /\ To("start") /\ Emit(<<c>>)
  <2>1. <<c>> \in Seq(Characters)
    BY <1>1, String1
  <2> QED BY <1>5, <1>7, <2>1
<1> QED BY <1>4, <1>6, <1>7 DEF Text

(* It was no tag.                                                          *)
LEMMA NoTagReads ==
    ASSUME Ready, InText(page, s, pos, lua), pos <= Len(file), NotExpected(s, c),
           NEW u \in Seq(Characters), Pend(s) # Opening("expression", "?") => u = Pend(s),
           NoTag(u)
    PROVE  InText(page, s', pos', lua')
<1>1. /\ page \in Pages /\ Clear(page) /\ file = FileOf(page) /\ s.form \in Forms
      /\ c = FileOf(page)[pos]
  BY ReadyIs DEF c
<1>2. s'.at = "start" /\ s'.form \in Forms /\ pos' = pos /\ lua' = lua \o u
  BY <1>1, ReadyIs DEF NoTag, EmitAgain
<1>3. InTextState(s') /\ Pend(s') = <<>>
  BY <1>2, TextStateIs
<1>4. InTextState(s)
  BY InTextIs
<1>5. InText(page, s', pos, lua \o u)
  BY <1>1, <1>3, <1>4, BackReads
<1> QED BY <1>2, <1>5

(* One more character of what may be the beginning of a tag.               *)
LEMMA EmitReads ==
    ASSUME Ready, InText(page, s, pos, lua), pos <= Len(file), c \notin {"<", "SP"},
           Emit(<<>>), InTextState(s'), Word(Pend(s')),
           Len(Pend(s')) = Len(Pend(s)) + 1,
           \A m \in 1..Len(Pend(s)) : Pend(s')[m] = Pend(s)[m],
           Pend(s')[Len(Pend(s)) + 1] = c
    PROVE  InText(page, s', pos', lua')
<1>1. /\ page \in Pages /\ Clear(page) /\ file = FileOf(page)
      /\ c = FileOf(page)[pos] /\ lua \o <<>> = lua
  BY ReadyIs DEF c
<1>2. pos' = pos + 1 /\ lua' = lua
  BY <1>1 DEF Emit
<1>3. InText(page, s', pos + 1, lua)
  BY <1>1, LongerReads
<1> QED BY <1>2, <1>3

LEMMA ExpectingQuestionMarkReads ==
    ASSUME Ready, InText(page, s, pos, lua), ExpectingQuestionMark
    PROVE  InText(page, s', pos', lua')
<1>1. s.at = "expecting_question_mark" /\ pos <= Len(file) /\ s.form \in Forms
  BY ReadyIs DEF ExpectingQuestionMark, In
<1>2. Pend(s) = <<"<">>
  BY <1>1, TextStateIs
<1>3. CASE c = "?" /\ s' = [s EXCEPT !.at = "expecting_l", !.form = c] /\ Emit(<<>>)
  <2>1. s'.at = "expecting_l" /\ s'.form = "?" /\ "?" \in Forms
    BY <1>3 DEF Ready, TypeInv, Forms
  <2>2. InTextState(s') /\ Pend(s') = <<"<", "?">>
    BY <2>1, TextStateIs
  <2>3. Word(Pend(s'))
    BY <2>2, WordsAre
  <2>4. /\ Len(Pend(s')) = Len(Pend(s)) + 1
        /\ \A m \in 1..Len(Pend(s)) : Pend(s')[m] = Pend(s)[m]
        /\ Pend(s')[Len(Pend(s)) + 1] = c
    BY <1>2, <1>3, <2>2
  <2> QED BY <1>1, <1>3, <2>2, <2>3, <2>4, EmitReads
<1>4. CASE c = "%" /\ s' = [s EXCEPT !.at = "expecting_space_1", !.form = c] /\ Emit(<<>>)
  <2>1. s'.at = "expecting_space_1" /\ s'.form = "%" /\ "%" \in Forms
    BY <1>4 DEF Ready, TypeInv, Forms
  <2>2. InTextState(s') /\ Pend(s') = <<"<", "%">>
    BY <2>1, TextStateIs
  <2>3. Word(Pend(s'))
    BY <2>2, WordsAre
  <2>4. /\ Len(Pend(s')) = Len(Pend(s)) + 1
        /\ \A m \in 1..Len(Pend(s)) : Pend(s')[m] = Pend(s)[m]
        /\ Pend(s')[Len(Pend(s)) + 1] = c
    BY <1>2, <1>4, <2>2
  <2> QED BY <1>1, <1>4, <2>2, <2>3, <2>4, EmitReads
<1>5. CASE c \notin Forms /\ NoTag(<<"<">>)
  <2>1. <<"<">> \in Seq(Characters)
    BY SpecialAre, String1
  <2>2. NotExpected(s, c)
    BY <1>1, <1>5 DEF NotExpected
  <2> QED BY <1>1, <1>2, <1>5, <2>1, <2>2, NoTagReads
<1> QED BY <1>3, <1>4, <1>5 DEF ExpectingQuestionMark

LEMMA ExpectingLetterReads ==
    ASSUME Ready, InText(page, s, pos, lua), ExpectingLetter
    PROVE  InText(page, s', pos', lua')
<1>1. PICK l \in Letters :
        /\ In({l[1]})
        /\ \/ c = l[2] /\ To(l[3]) /\ Emit(<<>>)
           \/ c # l[2] /\ NoTag(l[4])
  BY DEF ExpectingLetter
<1>2. /\ s.at = l[1] /\ pos <= Len(file) /\ s.form \in Forms
  BY <1>1, ReadyIs DEF In
<1>3. InTextState(s)
  BY InTextIs
<1>4. \/ l[1] = "expecting_l" /\ l[2] = "l" /\ l[3] = "expecting_u" /\ l[4] = <<"<", "?">>
      \/ l[1] = "expecting_u" /\ l[2] = "u" /\ l[3] = "expecting_a" /\ l[4] = <<"<", "?", "l">>
      \/ l[1] = "expecting_a" /\ l[2] = "a" /\ l[3] = "expecting_space_1"
         /\ l[4] = <<"<", "?", "l", "u">>
  BY DEF Letters
<1>5. s.form = "?" /\ Pend(s) = l[4]
  BY <1>2, <1>3, <1>4, TextStateIs DEF InTextState
<1>6. CASE c = l[2] /\ To(l[3]) /\ Emit(<<>>)
  <2>1. s'.at = l[3] /\ s'.form = "?" /\ "?" \in Forms
    BY <1>5, <1>6, ReadyIs DEF Forms
  <2>2. InTextState(s')
    BY <1>4, <2>1, TextStateIs
  <2>3. \/ l[4] = <<"<", "?">> /\ l[2] = "l" /\ Pend(s') = <<"<", "?", "l">>
        \/ l[4] = <<"<", "?", "l">> /\ l[2] = "u" /\ Pend(s') = <<"<", "?", "l", "u">>
        \/ l[4] = <<"<", "?", "l", "u">> /\ l[2] = "a" /\ Pend(s') = <<"<", "?", "l", "u", "a">>
    BY <1>4, <2>1, TextStateIs
  <2>4. Word(Pend(s'))
    BY <2>3, WordsAre
  <2> DEFINE w == Pend(s)
             v == Pend(s')
  <2>5. /\ Len(v) = Len(w) + 1 /\ \A m \in 1..Len(w) : v[m] = w[m]
        /\ v[Len(w) + 1] = c
    <3>1. CASE w = <<"<", "?">> /\ c = "l" /\ v = <<"<", "?", "l">>
      BY <3>1
    <3>2. CASE w = <<"<", "?", "l">> /\ c = "u" /\ v = <<"<", "?", "l", "u">>
      BY <3>2
    <3>3. CASE w = <<"<", "?", "l", "u">> /\ c = "a" /\ v = <<"<", "?", "l", "u", "a">>
      BY <3>3
    <3> QED BY <1>5, <1>6, <2>3, <3>1, <3>2, <3>3
  <2>6. c \notin {"<", "SP"}
    BY <1>4, <1>6
  <2> QED BY <1>2, <1>6, <2>2, <2>4, <2>5, <2>6, EmitReads
<1>7. CASE c # l[2] /\ NoTag(l[4])
  <2>1. l[4] \in Seq(Characters)
    <3>1. /\ <<"<", "?">> \in Seq(Characters) /\ <<"<", "?", "l">> \in Seq(Characters)
          /\ <<"<", "?", "l", "u">> \in Seq(Characters)
      BY SpecialAre, String2, String3, String4
    <3> QED BY <1>4, <3>1
  <2>2. NotExpected(s, c)
    BY <1>2, <1>4, <1>7 DEF NotExpected
  <2> QED BY <1>2, <1>5, <1>7, <2>1, <2>2, NoTagReads
<1> QED BY <1>1, <1>6, <1>7

(* A tag begins.                                                           *)
LEMMA BlankReads ==
    ASSUME Ready, InText(page, s, pos, lua), pos <= Len(file), c \in Blank,
           NEW x2, s' = x2, x2.at = "code", x2.form = s.form,
           \/ s.at = "expecting_space_1" /\ x2.kind = "chunk" /\ Emit(<<"]])", c>>)
           \/ s.at = "expecting_space_2" /\ x2.kind = "expression" /\ Emit(<<"]])", c, "put(">>)
    PROVE  InCode(page, s', pos', lua')
<1>1. /\ page \in Pages /\ Clear(page) /\ file = FileOf(page) /\ c = FileOf(page)[pos]
  BY ReadyIs DEF c
<1>2. pos' = pos + 1
  BY DEF Emit
<1>3. PICK e, j : TextAt(page, e, j, s, pos, lua) \/ OpeningAt(page, e, j, s, pos, lua)
  BY DEF InText
<1>4. OpeningAt(page, e, j, s, pos, lua)
  <2>1. s.at \in {"expecting_space_1", "expecting_space_2"}
    OBVIOUS
  <2> QED BY <1>1, <1>3, <2>1, NoTagBegins
<1>5. \/ s.at = "expecting_space_1" /\ x2.kind = "chunk" /\ lua' = lua \o <<"]])", c>>
      \/ s.at = "expecting_space_2" /\ x2.kind = "expression" /\ lua' = lua \o <<"]])", c, "put(">>
  BY DEF Emit
<1>6. CodeAt(page, e, 0, x2, pos + 1, lua')
  BY <1>1, <1>4, <1>5, OpeningEnds
<1> QED BY <1>2, <1>6 DEF InCode

LEMMA ExpectingSpace1Reads ==
    ASSUME Ready, InText(page, s, pos, lua), ExpectingSpace1
    PROVE  InText(page, s', pos', lua') \/ InCode(page, s', pos', lua')
<1>1. s.at = "expecting_space_1" /\ pos <= Len(file) /\ s.form \in Forms
  BY ReadyIs DEF ExpectingSpace1, In
<1>2. CASE c \in Blank /\ s' = [s EXCEPT !.at = "code", !.kind = "chunk"] /\ Emit(<<"]])", c>>)
  <2> DEFINE x2 == [s EXCEPT !.at = "code", !.kind = "chunk"]
  <2>1. x2.at = "code" /\ x2.form = s.form /\ x2.kind = "chunk" /\ s' = x2
    BY <1>2 DEF Ready, TypeInv
  <2> HIDE DEF x2
  <2> QED BY <1>1, <1>2, <2>1, BlankReads
<1>3. CASE c = "=" /\ To("expecting_space_2") /\ Emit(<<>>)
  <2>1. s'.at = "expecting_space_2" /\ s'.form = s.form
    BY <1>3, ReadyIs
  <2>2. InTextState(s')
    BY <1>1, <2>1, TextStateIs
  <2>3. \/ Pend(s) = <<"<", "?", "l", "u", "a">> /\ Pend(s') = <<"<", "?", "l", "u", "a", "=">>
        \/ Pend(s) = <<"<", "%">> /\ Pend(s') = <<"<", "%", "=">>
    BY <1>1, <2>1, TextStateIs DEF Forms
  <2>4. Word(Pend(s'))
    BY <2>3, WordsAre
  <2> DEFINE w == Pend(s)
             v == Pend(s')
  <2>5. /\ Len(v) = Len(w) + 1 /\ \A m \in 1..Len(w) : v[m] = w[m]
        /\ v[Len(w) + 1] = c
    <3>1. CASE w = <<"<", "?", "l", "u", "a">> /\ v = <<"<", "?", "l", "u", "a", "=">>
      BY <1>3, <3>1
    <3>2. CASE w = <<"<", "%">> /\ v = <<"<", "%", "=">>
      BY <1>3, <3>2
    <3> QED BY <2>3, <3>1, <3>2
  <2>6. c \notin {"<", "SP"}
    BY <1>3
  <2> QED BY <1>1, <1>3, <2>2, <2>4, <2>5, <2>6, EmitReads
<1>4. CASE c \notin Blank \cup {"="} /\ NoTag(Opening("chunk", s.form))
  <2>1. Opening("chunk", s.form) \in Seq(Characters)
    BY <1>1, OpeningTyped DEF Kinds
  <2>2. NotExpected(s, c) /\ Pend(s) = Opening("chunk", s.form)
    BY <1>1, <1>4, TextStateIs DEF NotExpected
  <2> QED BY <1>1, <1>4, <2>1, <2>2, NoTagReads
<1> QED BY <1>2, <1>3, <1>4 DEF ExpectingSpace1

LEMMA ExpectingSpace2Reads ==
    ASSUME Ready, InText(page, s, pos, lua), ExpectingSpace2
    PROVE  InText(page, s', pos', lua') \/ InCode(page, s', pos', lua')
<1>1. s.at = "expecting_space_2" /\ pos <= Len(file) /\ s.form \in Forms
  BY ReadyIs DEF ExpectingSpace2, In
<1>2. CASE c \in Blank /\ s' = [s EXCEPT !.at = "code", !.kind = "expression"]
           /\ Emit(<<"]])", c, "put(">>)
  <2> DEFINE x2 == [s EXCEPT !.at = "code", !.kind = "expression"]
  <2>1. x2.at = "code" /\ x2.form = s.form /\ x2.kind = "expression" /\ s' = x2
    BY <1>2 DEF Ready, TypeInv
  <2> HIDE DEF x2
  <2> QED BY <1>1, <1>2, <2>1, BlankReads
<1> DEFINE u == IF s.form = "?" THEN <<"<", "l", "u", "a", "=">> ELSE <<"<", "%", "=">>
<1>3. CASE c \notin Blank /\ NoTag(u)
  <2>1. <<"<", "l", "u", "a", "=">> \in Seq(Characters) /\ <<"<", "%", "=">> \in Seq(Characters)
    BY SpecialAre, String3, String5
  <2>2. u \in Seq(Characters)
    BY <2>1
  <2>3. NotExpected(s, c)
    BY <1>1, <1>3 DEF NotExpected
  <2>4. Pend(s) # Opening("expression", "?") => u = Pend(s)
    BY <1>1, TextStateIs DEF Forms
  <2> HIDE DEF u
  <2> QED BY <1>1, <1>3, <2>2, <2>3, <2>4, NoTagReads
<1> QED BY <1>2, <1>3 DEF ExpectingSpace2

-----------------------------------------------------------------------------
(* The steps of do_lua in a tag.                                           *)
LEMMA InTagReads ==
    ASSUME Ready, pos <= Len(file), NEW m, NEW i, CodeAt(page, m, i, s, pos, lua),
           NEW at \in CodeStates, To(at), NEW i2,
           CodeState(page[m].inner, page[m].form, i2, at),
           \/ i2 = i + 1 /\ Emit(<<c>>)
           \/ i2 = i + 1 /\ Emit(<<>>)
           \/ i2 = i /\ EmitAgain(<<>>)
           \/ i2 = i /\ EmitAgain(<<s.form>>)
    PROVE  InCode(page, s', pos', lua')
<1>1. /\ page \in Pages /\ Clear(page) /\ file = FileOf(page) /\ c \in Characters
      /\ s.form \in Forms
  BY ReadyIs
<1>2. s'.at = at /\ s'.kind = s.kind /\ s'.form = s.form
  BY ReadyIs
<1> DEFINE K == page[m].inner
           Free == BracketFree(K)
<1>3. Free => c # "[" /\ s.form # "["
  <2>1. c = FileOf(page)[pos]
    BY <1>1 DEF c
  <2>2. Reads(K, page[m].form, i, c)
    BY <1>1, <2>1, CodeNext
  <2>3. DOMAIN K = 1..Len(K)
    BY <2>2 DEF Reads
  <2>4. \/ i + 1 \in 1..Len(K) /\ c = K[i + 1]
        \/ c \in {"SP", ">"} \cup Forms
    BY <2>2 DEF Reads
  <2> QED BY <1>1, <2>3, <2>4 DEF BracketFree, Forms
<1> HIDE DEF Free
<1>4. PICK u : /\ u = <<>> \/ \E b \in Characters : u = <<b>> /\ (Free => b # "[")
               /\ lua' = lua \o u
               /\ \/ i2 = i /\ pos' = pos
                  \/ i2 = i + 1 /\ pos' = pos + 1
  <2>1. s.form \in Characters
    BY <1>1, SpecialAre DEF Forms
  <2>2. CASE i2 = i + 1 /\ Emit(<<c>>)
    BY <1>1, <1>3, <2>2 DEF Emit
  <2>3. CASE i2 = i + 1 /\ Emit(<<>>)
    BY <2>3 DEF Emit
  <2>4. CASE i2 = i /\ EmitAgain(<<>>)
    BY <2>4 DEF EmitAgain
  <2>5. CASE i2 = i /\ EmitAgain(<<s.form>>)
    BY <1>3, <2>1, <2>5 DEF EmitAgain
  <2> QED BY <2>2, <2>3, <2>4, <2>5
<1>5. CodeAt(page, m, i2, s', pos', lua')
  BY <1>1, <1>2, <1>4, CodeGoesOn DEF Free
<1> QED BY <1>5 DEF InCode

LEMMA TagReadsNext ==
    ASSUME Ready, pos <= Len(file), InCode(page, s, pos, lua)
    PROVE  \E m, i :
             /\ CodeAt(page, m, i, s, pos, lua) /\ page[m].form = s.form /\ page[m].kind = s.kind
             /\ page[m].form \in Forms
             /\ Reads(page[m].inner, page[m].form, i, c)
             /\ CodeState(page[m].inner, page[m].form, i, s.at)
<1>1. /\ page \in Pages /\ Clear(page) /\ file = FileOf(page) /\ c = FileOf(page)[pos]
  BY ReadyIs DEF c
<1>2. PICK m, i : CodeAt(page, m, i, s, pos, lua)
  BY DEF InCode
<1>3. /\ page[m].form = s.form /\ page[m].kind = s.kind
      /\ CodeState(page[m].inner, page[m].form, i, s.at)
  BY <1>2 DEF CodeAt
<1>4. TagFacts(page, m) /\ Reads(page[m].inner, page[m].form, i, c)
  BY <1>1, <1>2, CodeNext
<1> QED BY <1>2, <1>3, <1>4 DEF TagFacts

LEMMA CodeReads ==
    ASSUME Ready, InCode(page, s, pos, lua), Code
    PROVE  InCode(page, s', pos', lua')
<1> DEFINE at == CASE c = "'" -> "single_quote" [] c = "DQ" -> "double_quote"
                   [] c \in Blank -> "whitespace" [] OTHER -> "code"
<1>1. s.at = "code" /\ pos <= Len(file) /\ To(at) /\ Emit(<<c>>)
  BY DEF Code, In
<1>2. PICK m, i :
             /\ CodeAt(page, m, i, s, pos, lua)
             /\ Reads(page[m].inner, page[m].form, i, c)
             /\ CodeState(page[m].inner, page[m].form, i, s.at)
  BY <1>1, TagReadsNext
<1>3. CodeState(page[m].inner, page[m].form, i + 1, at)
  BY <1>1, <1>2, StateCode
<1>4. at \in CodeStates
  BY DEF CodeStates
<1> HIDE DEF at
<1> QED BY <1>1, <1>2, <1>3, <1>4, InTagReads

LEMMA WhitespaceReads ==
    ASSUME Ready, InCode(page, s, pos, lua), Whitespace
    PROVE  InCode(page, s', pos', lua')
<1>1. s.at = "whitespace" /\ pos <= Len(file)
  BY DEF Whitespace, In
<1>2. PICK m, i :
             /\ CodeAt(page, m, i, s, pos, lua) /\ page[m].form = s.form
             /\ Reads(page[m].inner, page[m].form, i, c)
             /\ CodeState(page[m].inner, page[m].form, i, s.at)
  BY <1>1, TagReadsNext
<1> DEFINE K == page[m].inner
           f == page[m].form
<1>3. /\ c = f => CodeState(K, f, i + 1, "question_mark")
      /\ c \in Blank => CodeState(K, f, i + 1, "whitespace")
      /\ c \notin Blank \cup {f} => CodeState(K, f, i, "code")
  BY <1>1, <1>2, StateWhitespace
<1>4. "question_mark" \in CodeStates /\ "whitespace" \in CodeStates /\ "code" \in CodeStates
  BY DEF CodeStates
<1>5. CASE c = s.form /\ To("question_mark") /\ Emit(<<>>)
  BY <1>1, <1>2, <1>3, <1>4, <1>5, InTagReads
<1>6. CASE c \in Blank /\ UNCHANGED s /\ Emit(<<c>>)
  <2>1. To("whitespace")
    BY <1>1, <1>6 DEF To, Ready, TypeInv
  <2> QED BY <1>1, <1>2, <1>3, <1>4, <1>6, <2>1, InTagReads
<1>7. CASE c \notin Blank \cup {s.form} /\ To("code") /\ EmitAgain(<<>>)
  BY <1>1, <1>2, <1>3, <1>4, <1>7, InTagReads
<1> QED BY <1>5, <1>6, <1>7 DEF Whitespace

LEMMA QuotedReads ==
    ASSUME Ready, InCode(page, s, pos, lua), Quoted
    PROVE  InCode(page, s', pos', lua')
<1> DEFINE Q == {<<"single_quote", "'", "single_quote_escape">>,
                 <<"double_quote", "DQ", "double_quote_escape">>}
<1>1. PICK q \in Q :
        /\ \/ In({q[1]}) /\ To(IF c = q[2] THEN "code" ELSE IF c = "\\" THEN q[3] ELSE q[1])
           \/ In({q[3]}) /\ To(q[1])
        /\ Emit(<<c>>)
  BY DEF Quoted
<1>2. pos <= Len(file)
  BY <1>1 DEF In
<1>3. PICK m, i :
             /\ CodeAt(page, m, i, s, pos, lua)
             /\ Reads(page[m].inner, page[m].form, i, c)
             /\ CodeState(page[m].inner, page[m].form, i, s.at)
  BY <1>2, TagReadsNext
<1> DEFINE K == page[m].inner
           f == page[m].form
           at == IF c = q[2] THEN "code" ELSE IF c = "\\" THEN q[3] ELSE q[1]
<1>4. /\ CodeState(K, f, i, q[1]) => CodeState(K, f, i + 1, at)
      /\ CodeState(K, f, i, q[3]) => CodeState(K, f, i + 1, q[1])
  <2>1. q \in {<<"single_quote", "'", "single_quote_escape">>,
               <<"double_quote", "DQ", "double_quote_escape">>}
    BY <1>1
  <2> HIDE DEF Q
  <2> QED BY <1>3, <2>1, StateQuoted
<1>5. q[1] \in CodeStates /\ q[3] \in CodeStates /\ at \in CodeStates
  BY TwoQuotes DEF CodeStates
<1>6. CASE In({q[1]}) /\ To(at)
  <2>1. s.at = q[1]
    BY <1>6 DEF In
  <2> HIDE DEF at, Q
  <2> QED BY <1>1, <1>2, <1>3, <1>4, <1>5, <1>6, <2>1, InTagReads
<1>7. CASE In({q[3]}) /\ To(q[1])
  <2>1. s.at = q[3]
    BY <1>7 DEF In
  <2> HIDE DEF at, Q
  <2> QED BY <1>1, <1>2, <1>3, <1>4, <1>5, <1>7, <2>1, InTagReads
<1> QED BY <1>1, <1>6, <1>7

LEMMA QuestionMarkReads ==
    ASSUME Ready, InCode(page, s, pos, lua), QuestionMark
    PROVE  InText(page, s', pos', lua') \/ InCode(page, s', pos', lua')
<1>1. s.at = "question_mark" /\ pos <= Len(file)
  BY DEF QuestionMark, In
<1>2. PICK m, i :
             /\ CodeAt(page, m, i, s, pos, lua) /\ page[m].form = s.form
             /\ Reads(page[m].inner, page[m].form, i, c)
             /\ CodeState(page[m].inner, page[m].form, i, s.at)
  BY <1>1, TagReadsNext
<1>3. IF c = ">" THEN i = Len(page[m].inner) + 2
      ELSE CodeState(page[m].inner, page[m].form, i, "code")
  BY <1>1, <1>2, StateQuestionMark
<1>4. CASE c # ">" /\ To("code") /\ EmitAgain(<<s.form>>)
  <2>1. "code" \in CodeStates
    BY DEF CodeStates
  <2> QED BY <1>1, <1>2, <1>3, <1>4, <2>1, InTagReads
<1>5. CASE /\ c = ">"
           /\ To("ignore_newline")
           /\ pos' = pos + 1
           /\ lua' = (IF s.kind = "expression" THEN InsertAt(lua, Len(lua), "put)") ELSE lua)
                       \o <<"put([[">>
  <2>1. /\ page \in Pages /\ Clear(page) /\ file = FileOf(page) /\ s.form \in Forms
    BY ReadyIs
  <2>2. s'.at = "ignore_newline" /\ s'.form \in Forms
    BY <1>5, <2>1, ReadyIs
  <2>3. InTextState(s') /\ Pend(s') = <<>>
    BY <2>2, TextStateIs
  <2>4. EndsInBlank(lua)
    BY <1>1 DEF Ready, ScriptInv
  <2>5. i = InnerLen(page[m]) + 2
    BY <1>3, <1>5 DEF InnerLen
  <2>6. lua' = lua \o <<"put([[">> \/ lua' = InsertAt(lua, Len(lua), "put)") \o <<"put([[">>
    BY <1>5
  <2>7. TextAt(page, m, 0, s', pos + 1, lua')
    BY <1>1, <1>2, <2>1, <2>3, <2>4, <2>5, <2>6, CodeEnds
  <2> QED BY <1>5, <2>7 DEF InText
<1> QED BY <1>4, <1>5 DEF QuestionMark

-----------------------------------------------------------------------------
(* The end of the page.  What is shown of text there: all but what begins  *)
(* a tag.                                                                  *)
LEMMA BodyEnds ==
    ASSUME NEW p \in Pages, NEW e \in 0..Len(p), After(p, e) = Len(p),
           TextRun(p, e) \in Seq(Characters), NEW w \in Seq(Characters), w = <<>> \/ Word(w),
           Holds(TextRun(p, e), Len(TextRun(p, e)), w),
           Known(TextRun(p, e), Len(TextRun(p, e)), Len(w))
    PROVE  LET t == TextRun(p, e)
           IN  FlattenSeq(AllShown(p)) = BodyTo(p, e) \o SubSeq(t, FirstOf(t), Len(t) - Len(w))
<1> DEFINE t == TextRun(p, e)
           N == Len(t)
           n == Len(w)
<1>1. p \in Seq(Element) /\ Len(p) \in Nat /\ FlattenSeq(AllShown(p)) = BodyTo(p, Len(p))
  BY PagesAssumption, LenProperties, BodyGrows
<1>2. /\ t \in Seq(Characters) /\ N \in Nat /\ n \in Nat
      /\ n <= N /\ \A i \in 1..n : t[(N - n) + i] = w[i]
  BY LenProperties DEF Holds
<1>3. CASE HasText(p, e)
  <2> DEFINE m == e + 1
             E == EndsOf(p, m)
  <2>1. m \in 1..Len(p) /\ m - 1 = e /\ m = Len(p)
    BY <1>1, <1>3 DEF HasText, After
  <2>2. p[m].kind = "text" /\ t = p[m].inner
    BY <1>3 DEF HasText, TextRun
  <2>3. FirstOf(t) \in {1, 2} /\ (FirstOf(t) = 2 => t[1] = "LF")
    BY DEF FirstOf
  <2> HIDE DEF m
  <2>4. \A k : k \in E <=> k \in FirstOf(t)..N /\ Begins(t, k, N)
    <3> TAKE k
    <3>1. k \in E <=> k \in FirstOf(t)..N /\ SubSeq(t, k, N) \in Beginnings
      BY <2>1, <2>2 DEF EndsOf
    <3>2. k \in FirstOf(t)..N => k \in 1..N /\ N \in k..N
      BY <1>2, <2>3
    <3> HIDE DEF t, N, E
    <3> QED BY <1>2, <3>1, <3>2, BeginningsAre DEF N
  <2>5. \A k \in E : n > 0 /\ k = (N - n) + 1
    <3> TAKE k \in E
    <3>1. k \in 1..N /\ Begins(t, k, N)
      BY <1>2, <2>3, <2>4
    <3>2. ~ N < N
      BY <1>2
    <3> HIDE DEF t, N, E, n
    <3> QED BY <3>1, <3>2 DEF Known, t, N, n
  <2>6. LastOf(p, m) = N - n
    <3>1. CASE n = 0
      <4>1. E = {}
        BY <2>5, <3>1
      <4> QED BY <1>2, <2>2, <3>1, <4>1 DEF LastOf
    <3>2. CASE n # 0
      <4> DEFINE a == (N - n) + 1
      <4>1. Word(w)
        BY <3>2, EmptySeq
      <4>2. PICK f \in Forms : n <= Len(Full(f)) /\ \A i \in 1..n : w[i] = Full(f)[i]
        BY <4>1 DEF Word
      <4>3. (N - a) + 1 = n /\ n >= 1 /\ a \in 1..N
        <5> HIDE DEF N, n
        <5> QED BY <1>2, <3>2
      <4>4. \A i \in 1..n : t[(a + i) - 1] = Full(f)[i]
        <5> TAKE i \in 1..n
        <5>1. (a + i) - 1 = (N - n) + i
          <6> HIDE DEF N, n
          <6> QED BY <1>2
        <5> QED BY <1>2, <4>2, <5>1
      <4>5. Begins(t, a, N)
        <5>1. n \in 1..Len(Full(f))
          BY <1>2, <4>2, <4>3, FullTyped
        <5> HIDE DEF t, N, n, a
        <5> QED BY <4>3, <4>4, <5>1 DEF Begins, BeginsAs
      <4>6. t[a] = "<"
        BY <4>1, <4>3, <1>2 DEF Word
      <4>7. a \in FirstOf(t)..N
        <5> HIDE DEF t, N, n, a
        <5>1. FirstOf(t) = 2 => a # 1
          BY <2>3, <4>6
        <5> QED BY <1>2, <2>3, <4>3, <5>1
      <4>8. E = {a}
        <5> HIDE DEF E, a, N, t
        <5>1. a \in E
          BY <2>4, <4>5, <4>7
        <5> QED BY <2>5, <5>1 DEF a
      <4>9. LastOf(p, m) = CHOOSE k \in 0..N : k + 1 \in E
        BY <2>2, <4>8 DEF LastOf
      <4>10. \A k \in 0..N : k + 1 \in E <=> k = N - n
        <5> HIDE DEF E, N, n
        <5> QED BY <1>2, <4>8
      <4>11. N - n \in 0..N
        <5> HIDE DEF N, n
        <5> QED BY <1>2
      <4> HIDE DEF E, N, n
      <4> QED BY <4>9, <4>10, <4>11
    <3> QED BY <3>1, <3>2
  <2> HIDE DEF t, N, n, E
  <2>7. ShownOf(p, m) = SubSeq(t, FirstOf(t), N - n)
    BY <2>2, <2>6 DEF ShownOf
  <2>8. BodyTo(p, m) = BodyTo(p, m - 1) \o ShownOf(p, m)
    BY <1>1, <2>1, BodyGrows
  <2> QED BY <1>1, <2>1, <2>7, <2>8 DEF t, N, n
<1>4. CASE ~ HasText(p, e)
  <2>1. e = Len(p) /\ t = <<>>
    BY <1>4 DEF After, TextRun
  <2>2. FirstOf(t) = 1 /\ N - n = 0
    BY <1>2, <2>1 DEF FirstOf
  <2>3. SubSeq(t, FirstOf(t), N - n) = <<>>
    BY <2>2, SubSeqEmpty
  <2>4. BodyTo(p, e) \in Shows
    BY <1>1, BodyGrows
  <2> HIDE DEF t, N, n
  <2>5. BodyTo(p, e) \o <<>> = BodyTo(p, e)
    BY <2>4, ConcatEmptySeq DEF Shows
  <2> QED BY <1>1, <2>1, <2>3, <2>5 DEF t, N, n
<1> QED BY <1>3, <1>4

(* Text is read to the end: all tags are closed and all is put.            *)
AllTags(p) == \A i \in 1..Len(p) : p[i].closed

LEMMA TextEnds ==
    ASSUME NEW p \in Pages, Clear(p), NEW e, NEW j, NEW x, NEW ps, NEW l,
           TextAt(p, e, j, x, ps, l), ~ ps <= Len(FileOf(p))
    PROVE  /\ AllTags(p) /\ \E o : InPut(l, o)
           /\ SimplePage(p) => InPut(l, FlattenSeq(AllShown(p))) /\ Tidy(l) /\ Last(l) # "]"
<1> DEFINE t == TextRun(p, e)
           a == After(p, e)
           N == Len(t)
           M == Len(FileOf(p))
           w == Pend(x)
<1>1. /\ e \in 0..Len(p) /\ j \in 0..N /\ InTextState(x)
      /\ ps = (Off(p)[e] + j) + 1
      /\ e > 0 => p[e].closed
      /\ Holds(t, j, w)
      /\ a = Len(p) => Known(t, j, Len(w))
      /\ \E o : InPut(l, o)
      /\ SimplePage(p) => PutsText(p, e, j - Len(w), l)
  BY DEF TextAt
<1>2. TextFacts(p, e) /\ p \in Seq(Element) /\ Len(p) \in Nat
  BY <1>1, TextIs, PagesAssumption, LenProperties
<1>3. /\ t \in Seq(Characters) /\ N \in Nat /\ a \in 0..Len(p) /\ Off(p)[e] \in Nat
      /\ Off(p)[a] = Off(p)[e] + N /\ Off(p)[a] <= M /\ Off(p)[Len(p)] = M
      /\ a < Len(p) => a + 1 \in 1..Len(p) /\ p[a + 1].kind # "text"
  BY <1>2 DEF TextFacts
<1>4. M \in Nat
  <2>1. Len(p) \in 0..Len(p)
    BY <1>2
  <2> QED BY <1>2, <2>1, SourceAt DEF FileOf
<1>5. j = N /\ Off(p)[a] = M
  <2> DEFINE o == Off(p)[e]
             q == Off(p)[a]
  <2>1. /\ ~ ps <= M /\ M \in Nat /\ o \in Nat /\ N \in Nat /\ j \in 0..N
        /\ ps = (o + j) + 1 /\ q = o + N /\ q <= M
    BY <1>1, <1>3, <1>4
  <2> HIDE DEF o, q, N, M
  <2>2. j = N /\ q = M
    BY ONLY <2>1
  <2> QED BY <2>2 DEF q, N
<1>6. a = Len(p)
  <2> SUFFICES ASSUME a # Len(p) PROVE FALSE
    OBVIOUS
  <2> DEFINE m == a + 1
             L == Len(Source(p[m]))
  <2>1. m \in 1..Len(p) /\ p[m].kind # "text" /\ m - 1 = a
    BY <1>2, <1>3
  <2> HIDE DEF m
  <2>2. TagFacts(p, m)
    BY <2>1, TagIs
  <2>3. Off(p)[m] = M + L /\ Off(p)[m] <= M /\ L \in Nat
    BY <1>5, <2>1, <2>2 DEF TagFacts
  <2>4. L = OpenLen(p[m]) + 1 + InnerLen(p[m]) + TailLen(p[m]) /\ OpenLen(p[m]) \in 2..6
        /\ InnerLen(p[m]) \in Nat /\ TailLen(p[m]) \in Nat
    BY <2>2 DEF TagFacts, TagReads, TailLen
  <2> HIDE DEF L, M
  <2>5. L > 0
    BY ONLY <2>4
  <2> QED BY <1>4, <2>3, <2>5
<1>7. AllTags(p)
  <2> SUFFICES ASSUME NEW i \in 1..Len(p), ~ p[i].closed PROVE FALSE
    BY DEF AllTags
  <2>1. p[i].kind # "text" /\ i = Len(p)
    BY PageIs
  <2>2. CASE HasText(p, e)
    <3>1. e + 1 = i /\ p[e + 1].kind = "text"
      BY <1>6, <2>1, <2>2 DEF HasText, After
    <3> QED BY <2>1, <3>1
  <2>3. CASE ~ HasText(p, e)
    <3>1. e = i
      BY <1>6, <2>1, <2>3 DEF After
    <3>2. e > 0
      BY <3>1
    <3> QED BY <1>1, <3>1, <3>2
  <2> QED BY <2>2, <2>3
<1>8. ASSUME SimplePage(p)
      PROVE  InPut(l, FlattenSeq(AllShown(p))) /\ Tidy(l) /\ Last(l) # "]"
  <2>1. w \in Seq(Characters) /\ (w = <<>> \/ Word(w))
    <3>1. w \in Seq(Characters \ {"LF", "]"}) /\ (w # <<>> => Word(w))
      BY <1>1, PendBegins
    <3> QED BY <3>1
  <2> HIDE DEF w
  <2>2. FlattenSeq(AllShown(p)) = BodyTo(p, e) \o SubSeq(t, FirstOf(t), N - Len(w))
    BY <1>1, <1>3, <1>5, <1>6, <2>1, BodyEnds
  <2>3. PutsText(p, e, N - Len(w), l)
    BY <1>1, <1>5, <1>8
  <2> HIDE DEF t, N
  <2> QED BY <2>2, <2>3 DEF PutsText, t, N
<1> QED BY <1>1, <1>7, <1>8

(* A tag is read to the end: it is not closed.                             *)
LEMMA TagEnds ==
    ASSUME NEW p \in Pages, NEW m, NEW i, NEW x, NEW ps, NEW l,
           CodeAt(p, m, i, x, ps, l), ~ ps <= Len(FileOf(p))
    PROVE  /\ m \in 1..Len(p) /\ ~ p[m].closed /\ l \in Seq(Symbols)
           /\ BracketFree(p[m].inner) => NoBracket(l)
<1> DEFINE d == p[m]
           n == InnerLen(d)
           r == OpenLen(d)
           o == Off(p)[m - 1]
           L == Len(Source(d))
           M == Len(FileOf(p))
<1>1. /\ m \in 1..Len(p) /\ d.kind # "text"
      /\ i \in Nat /\ ps = ((o + r) + 1 + i) + 1
      /\ CodeState(d.inner, d.form, i, x.at) /\ (\E u : InLua(l, u))
      /\ BracketFree(d.inner) => NoBracket(l)
  BY DEF CodeAt
<1>2. TagFacts(p, m)
  BY <1>1, TagIs
<1>3. /\ o \in Nat /\ L \in Nat /\ M \in Nat /\ o + L <= M
      /\ r \in 2..6 /\ n \in Nat /\ L = r + 1 + n + TailLen(d)
  BY <1>2 DEF TagFacts, TagReads
<1>4. i <= n \/ i = n + 1 \/ i = n + 2
  BY <1>1 DEF CodeState, InnerLen
<1>5. ~ d.closed
  <2> SUFFICES ASSUME d.closed PROVE FALSE
    OBVIOUS
  <2>1. L = r + 1 + n + 3
    BY <1>3 DEF TailLen
  <2>2. /\ ~ ps <= M /\ ps = ((o + r) + 1 + i) + 1 /\ i \in Nat
        /\ o \in Nat /\ L \in Nat /\ M \in Nat /\ o + L <= M /\ r \in 2..6 /\ n \in Nat
    BY <1>1, <1>3
  <2> HIDE DEF o, r, n, L, M
  <2> QED BY ONLY <1>4, <2>1, <2>2
<1>6. l \in Seq(Symbols)
  BY <1>1 DEF InLua
<1> QED BY <1>1, <1>5, <1>6

-----------------------------------------------------------------------------
(* The start of the page.                                                  *)
LEMMA ScriptStarts ==
    LET l == Append(<<>>, "put([[")
    IN  InPut(l, <<>>) /\ Tidy(l) /\ Last(l) = "put([["
<1> DEFINE l == Append(<<>>, "put([[")
           z == <<>>
<1>1. z \in Seq(Symbols) /\ "put([[" \in Symbols /\ z \in Shows /\ Len(z) = 0
  BY PieceIs, EmptySeq DEF Shows
<1>2. /\ l \in Seq(Symbols) /\ Len(l) = 1 /\ l[1] = "put([["
  BY <1>1, AppendProperties
<1>3. Run(z) = Fresh
  BY <1>1, RunningIs DEF Run
<1>4. Run(l) = Statement(Fresh, l, 1)
  <2>1. Run(Append(z, "put([[")) = Statement(Run(z), Append(z, "put([["), Len(z) + 1)
    BY <1>1, RunAppend
  <2>2. Len(z) + 1 = 1
    BY <1>1
  <2> QED BY <1>3, <2>1, <2>2
<1> HIDE DEF l
<1>5. Run(l) = [out |-> <<>>, text |-> TRUE]
  BY <1>2, <1>4, PieceNot DEF Statement, Fresh
<1>6. AllClosed(l) /\ Tidy(l)
  BY <1>2 DEF AllClosed, Tidy
<1>7. l # <<>> /\ Last(l) = "put([["
  BY <1>1, <1>2 DEF Last
<1> QED BY <1>1, <1>2, <1>5, <1>6, <1>7 DEF InPut, l

LEMMA PageStarts ==
    ASSUME Init, Clear(page)
    PROVE  InText(page, s, pos, lua)
<1> DEFINE p == page
           t == TextRun(p, 0)
           q == SubSeq(t, FirstOf(t), 0)
<1>1. /\ p \in Pages /\ pos = 1 /\ lua = Append(<<>>, "put([[")
      /\ s.at = "start" /\ s.form \in Forms
  BY DEF Init, Forms
<1>2. p \in Seq(Element) /\ Len(p) \in Nat /\ 0 \in 0..Len(p)
  BY <1>1, PagesAssumption, LenProperties
<1>3. Off(p)[0] = 0 /\ t \in Seq(Characters) /\ Len(t) \in Nat
  BY <1>1, <1>2, SourceAt, TextIs, LenProperties DEF TextFacts
<1>4. InTextState(s) /\ Pend(s) = <<>> /\ Len(<<>>) = 0
  BY <1>1, TextStateIs, EmptySeq
<1>5. Holds(t, 0, <<>>) /\ Known(t, 0, 0)
  BY <1>4 DEF Holds, Known
<1>6. InPut(lua, <<>>) /\ Tidy(lua) /\ Last(lua) = "put([["
  BY <1>1, ScriptStarts
<1>7. BodyTo(p, 0) \o q = <<>>
  <2>1. q = <<>>
    BY SubSeqEmpty DEF FirstOf
  <2>2. BodyTo(p, 0) = <<>>
    BY <1>2, BodyGrows
  <2>3. <<>> \in Seq(Characters) /\ <<>> \o <<>> = <<>>
    BY EmptySeq, ConcatEmptySeq
  <2> HIDE DEF q
  <2> QED BY <2>1, <2>2, <2>3
<1>8. PutsText(p, 0, 0, lua)
  BY <1>6, <1>7 DEF PutsText
<1>9. TextAt(p, 0, 0, s, 1, lua)
  <2>1. 0 - Len(Pend(s)) = 0 /\ 1 = (Off(p)[0] + 0) + 1 /\ 0 \in 0..Len(t)
    <3>1. Len(Pend(s)) = 0
      BY <1>4
    <3> DEFINE N == Len(t)
               o == Off(p)[0]
    <3>2. o = 0 /\ N \in Nat
      BY <1>3
    <3> HIDE DEF N, o
    <3>3. 1 = (o + 0) + 1 /\ 0 \in 0..N
      BY <3>2
    <3> QED BY <3>1, <3>3 DEF N, o
  <2> HIDE DEF p, t
  <2> QED BY <1>2, <1>4, <1>5, <1>6, <1>8, <2>1 DEF TextAt, t
<1> QED BY <1>1, <1>9 DEF InText

(* A step of the translation.                                              *)
Reading == InText(page, s, pos, lua) \/ InCode(page, s, pos, lua)

LEMMA ReadingIs ==
    ASSUME Reading
    PROVE  /\ s.at \in TextStates => InText(page, s, pos, lua)
           /\ s.at \in CodeStates => InCode(page, s, pos, lua)
<1>1. InText(page, s, pos, lua) => s.at \in TextStates
  BY InTextIs DEF InTextState
<1>2. InCode(page, s, pos, lua) => s.at \in CodeStates
  BY DEF InCode, CodeAt
<1> QED BY <1>1, <1>2, StatesAre DEF Reading

LEMMA StepReads ==
    ASSUME Ready, Reading,
           \/ Text \/ ExpectingQuestionMark \/ ExpectingLetter \/ ExpectingSpace1
           \/ ExpectingSpace2 \/ Code \/ Whitespace \/ Quoted \/ QuestionMark
    PROVE  InText(page, s', pos', lua') \/ InCode(page, s', pos', lua')
<1>1. CASE Text
  <2>1. s.at \in TextStates
    BY <1>1, StatesAre DEF Text, In
  <2> QED BY <1>1, <2>1, ReadingIs, TextReads
<1>2. CASE ExpectingQuestionMark
  <2>1. s.at \in TextStates
    BY <1>2, StatesAre DEF ExpectingQuestionMark, In
  <2> QED BY <1>2, <2>1, ReadingIs, ExpectingQuestionMarkReads
<1>3. CASE ExpectingLetter
  <2>1. s.at \in TextStates
    BY <1>3, StatesAre DEF ExpectingLetter, In, Letters
  <2> QED BY <1>3, <2>1, ReadingIs, ExpectingLetterReads
<1>4. CASE ExpectingSpace1
  <2>1. s.at \in TextStates
    BY <1>4, StatesAre DEF ExpectingSpace1, In
  <2> QED BY <1>4, <2>1, ReadingIs, ExpectingSpace1Reads
<1>5. CASE ExpectingSpace2
  <2>1. s.at \in TextStates
    BY <1>5, StatesAre DEF ExpectingSpace2, In
  <2> QED BY <1>5, <2>1, ReadingIs, ExpectingSpace2Reads
<1>6. CASE Code
  <2>1. s.at \in CodeStates
    BY <1>6 DEF Code, In, CodeStates
  <2> QED BY <1>6, <2>1, ReadingIs, CodeReads
<1>7. CASE Whitespace
  <2>1. s.at \in CodeStates
    BY <1>7 DEF Whitespace, In, CodeStates
  <2> QED BY <1>7, <2>1, ReadingIs, WhitespaceReads
<1>8. CASE Quoted
  <2>1. s.at \in CodeStates
    BY <1>8, TwoQuotes DEF Quoted, In, CodeStates
  <2> QED BY <1>8, <2>1, ReadingIs, QuotedReads
<1>9. CASE QuestionMark
  <2>1. s.at \in CodeStates
    BY <1>9 DEF QuestionMark, In, CodeStates
  <2> QED BY <1>9, <2>1, ReadingIs, QuestionMarkReads
<1> QED BY <1>1, <1>2, <1>3, <1>4, <1>5, <1>6, <1>7, <1>8, <1>9

(* The end of it.                                                          *)
LEMMA RunShows ==
    ASSUME Ready, Reading, RunLua
    PROVE  BodyAsPage'
<1> DEFINE K == Append(lua, "]])")
           o == FlattenSeq(AllShown(page))
<1>1. /\ ~ pos <= Len(file) /\ page' = page /\ lua' = K
      /\ \/ Loads(K) /\ body' = Puts(K)
         \/ code' = 500
  <2>1. pos \in Nat /\ Len(file) \in Nat
    BY LenProperties DEF Ready, TypeInv
  <2> QED BY <2>1 DEF RunLua
<1>2. page \in Pages /\ Clear(page) /\ file = FileOf(page)
  BY ReadyIs
<1>3. DOMAIN page = 1..Len(page)
  BY <1>2, PagesAssumption, LenProperties
<1>4. CASE InText(page, s, pos, lua)
  <2>1. ASSUME NEW m, NEW j, OpeningAt(page, m, j, s, pos, lua) PROVE FALSE
    BY <1>1, <1>2, <2>1, OpeningNext
  <2>2. PICK e, j : TextAt(page, e, j, s, pos, lua)
    BY <1>4, <2>1 DEF InText
  <2>3. /\ AllTags(page)
        /\ SimplePage(page) => InPut(lua, o) /\ Tidy(lua) /\ Last(lua) # "]"
    BY <1>1, <1>2, <2>2, TextEnds
  <2>4. SimplePage(page) => Loads(K) /\ Puts(K) = o
    BY <2>3, ScriptRuns
  <2>5. /\ SimplePage(page) => Loads(lua')
        /\ SimplePage(page) /\ code' = 200 => body' = o
    BY <1>1, <2>4
  <2> QED BY <1>1, <1>3, <2>3, <2>5
          DEF BodyAsPage, AllTags, SimplePage, AllShown, ShownOf, LastOf, EndsOf, FirstOf, Shown
<1>5. CASE InCode(page, s, pos, lua)
  <2>1. PICK m, i : CodeAt(page, m, i, s, pos, lua)
    BY <1>5 DEF InCode
  <2>2. /\ m \in 1..Len(page) /\ ~ page[m].closed /\ lua \in Seq(Symbols)
        /\ BracketFree(page[m].inner) => NoBracket(lua)
    BY <1>1, <1>2, <2>1, TagEnds
  <2>3. code' = 200 => ~ BracketFree(page[m].inner)
    BY <1>1, <2>2, ScriptFails
  <2>4. \A j \in DOMAIN page : page[j].closed \/ j = m
    BY <1>2, <1>3, <2>2, PagesAssumption
  <2>5. code' = 200 => \A j \in DOMAIN page :
                         page[j].closed \/ \E k \in DOMAIN page[j].inner : page[j].inner[k] = "["
    BY <2>3, <2>4 DEF BracketFree
  <2> QED BY <1>1, <1>3, <2>2, <2>5 DEF BodyAsPage
<1> QED BY <1>4, <1>5 DEF Reading

(* The invariant of pages.                                                 *)
PageInv ==
    /\ TemplateInv
    /\ file = FileOf(page)
    /\ Clear(page) /\ code = 0 => Reading
    /\ code # 0 => BodyAsPage

LEMMA PageInvInit == Init => PageInv
<1> SUFFICES ASSUME Init PROVE PageInv
  OBVIOUS
<1>1. file = FileOf(page) /\ code = 0
  BY DEF Init, FileOf, Sources
<1> QED BY <1>1, TemplateInvInit, PageStarts DEF PageInv, Reading

LEMMA PageInvNext == PageInv /\ [Next]_vars => PageInv'
<1> SUFFICES ASSUME PageInv, [Next]_vars PROVE PageInv'
  OBVIOUS
<1>1. TemplateInv'
  BY TemplateInvNext DEF PageInv
<1>2. CASE UNCHANGED vars
  <2>1. BodyAsPage' = BodyAsPage /\ Reading' = Reading
    BY <1>2 DEF vars, BodyAsPage, Shown, Reading
  <2> QED BY <1>1, <1>2, <2>1 DEF vars, PageInv
<1>3. CASE Next /\ ~ Clear(page)
  <2>1. page' = page /\ file' = file
    BY <1>3 DEF Next, Text, ExpectingQuestionMark, ExpectingLetter, ExpectingSpace1,
         ExpectingSpace2, Code, Whitespace, Quoted, QuestionMark, RunLua, NoTag, Emit, EmitAgain
  <2> QED BY <1>1, <1>3, <2>1 DEF PageInv, BodyAsPage
<1>4. CASE Next /\ Clear(page)
  <2>1. code = 0
    BY <1>4 DEF Next, In, Text, ExpectingQuestionMark, ExpectingLetter, ExpectingSpace1,
         ExpectingSpace2, Code, Whitespace, Quoted, QuestionMark, RunLua
  <2>2. Ready /\ Reading
    BY <1>4, <2>1 DEF PageInv, TemplateInv, Ready
  <2>3. CASE RunLua
    <3>1. BodyAsPage' /\ code' # 0 /\ page' = page /\ file' = file
      <4>1. code' # 0 /\ page' = page /\ file' = file
        BY <2>3 DEF RunLua
      <4> QED BY <2>2, <2>3, <4>1, RunShows
    <3> QED BY <1>1, <3>1 DEF PageInv
  <2>4. CASE ~ RunLua
    <3>1. \/ Text \/ ExpectingQuestionMark \/ ExpectingLetter \/ ExpectingSpace1
          \/ ExpectingSpace2 \/ Code \/ Whitespace \/ Quoted \/ QuestionMark
      BY <1>4, <2>4 DEF Next
    <3>2. InText(page, s', pos', lua') \/ InCode(page, s', pos', lua')
      BY <2>2, <3>1, StepReads
    <3>3. page' = page /\ file' = file /\ code' = code
      BY <3>1 DEF Text, ExpectingQuestionMark, ExpectingLetter, ExpectingSpace1,
         ExpectingSpace2, Code, Whitespace, Quoted, QuestionMark, NoTag, Emit, EmitAgain
    <3>4. Reading'
      BY <3>2, <3>3 DEF Reading
    <3> QED BY <1>1, <2>1, <3>3, <3>4 DEF PageInv
  <2> QED BY <2>3, <2>4
<1> QED BY <1>2, <1>3, <1>4

(* For every page, of any length and with any strings in its scripts: what *)
(* do_lua makes of a page of simple text and closed tags loads, and puts   *)
(* the text and the values of the expressions in the order of the page;    *)
(* and a page whose last tag is not closed and opens no bracket, which the *)
(* "]])" behind it could close, is never answered with 200.                *)
THEOREM PagesAsWritten == Spec => []BodyAsPage
<1>1. PageInv => BodyAsPage
  BY DEF PageInv, BodyAsPage
<1> QED BY <1>1, PageInvInit, PageInvNext, PTL DEF Spec
=============================================================================
