------------------------- MODULE ConfigParserProofs -------------------------
(***************************************************************************)
(* Proofs about ConfigParser, for files of any length and nesting.         *)
(***************************************************************************)
EXTENDS ConfigParser, RecursionLemmas

(* Blocks are pushed in the order of their creation, so none is on the     *)
(* stack twice, and a change to the top is no change to the ones below it. *)
StackGrows ==
    \A j, k \in 1..Len(stack) : j < k => stack[j] < stack[k]

TreeInv == TreeOK /\ StackIsPath /\ StatementsUsable /\ StackGrows

(* An unquoted token has a first character.                                *)
WordStarted == state = "normal" => value # <<>>

ParserInv == ReaderOK /\ WordStarted /\ TreeInv

(* A statement as the readers of the tree need it.                         *)
Usable(s) == s.tokens # <<>> /\ \A k \in DOMAIN s.tokens : s.tokens[k] # <<>>

-----------------------------------------------------------------------------
(* Nothing has been read and the stack holds the caller's NginxConfig.     *)
LEMMA ParserInvInit == Init => ParserInv
<1> SUFFICES ASSUME Init PROVE ParserInv
  OBVIOUS
<1>1. ReaderOK /\ WordStarted
  BY DEF Init, ReaderOK, WordStarted
<1>2. nodes \in Seq(Seq(Statement)) /\ Len(nodes) = 1 /\ nodes[1] = <<>>
  BY DEF Init
<1>3. stack \in Seq(1..Len(nodes)) /\ Len(stack) = 1 /\ stack[1] = 1
  BY <1>2 DEF Init
<1>4. TreeOK
  BY <1>2, <1>3 DEF Init, TreeOK, TokenType
<1>5. StackIsPath /\ StackGrows
  BY <1>3 DEF StackIsPath, StackGrows
<1>6. StatementsUsable
  BY <1>2 DEF Init, StatementsUsable
<1> QED BY <1>1, <1>4, <1>5, <1>6 DEF ParserInv, TreeInv

(* The top of the stack is a block, and no other entry of the stack is it. *)
LEMMA TopIs ==
    ASSUME TreeInv
    PROVE  /\ Len(nodes) \in Nat /\ Len(stack) \in Nat /\ Len(stack) > 0
           /\ Top \in 1..Len(nodes)
           /\ nodes[Top] \in Seq(Statement)
           /\ \A k \in 1..(Len(stack) - 1) :
                stack[k] \in 1..Len(nodes) /\ stack[k] # Top
<1>1. /\ nodes \in Seq(Seq(Statement))
      /\ stack \in Seq(1..Len(nodes)) /\ stack # <<>>
  BY DEF TreeInv, TreeOK
<1>2. Len(nodes) \in Nat /\ Len(stack) \in Nat /\ Len(stack) > 0
  BY <1>1
<1>3. Top \in 1..Len(nodes) /\ nodes[Top] \in Seq(Statement)
  BY <1>1, <1>2 DEF Top
<1>4. ASSUME NEW k \in 1..(Len(stack) - 1)
      PROVE  stack[k] \in 1..Len(nodes) /\ stack[k] # Top
  <2>1. k \in 1..Len(stack) /\ Len(stack) \in 1..Len(stack) /\ k < Len(stack)
    BY <1>2
  <2>2. stack[k] < stack[Len(stack)]
    BY <2>1 DEF TreeInv, StackGrows
  <2>3. stack[k] \in 1..Len(nodes) /\ stack[Len(stack)] \in 1..Len(nodes)
    BY <1>1, <2>1
  <2> QED BY <1>2, <2>2, <2>3 DEF Top
<1> QED BY <1>2, <1>3, <1>4

(* Changing the statements of the top block, to other usable ones, keeps   *)
(* the types, the path and the usability of the tree.                      *)
LEMMA SetTop ==
    ASSUME TreeInv, NEW new \in Seq(Statement), new # <<>>,
           \A j \in DOMAIN new : Usable(new[j]),
           nodes' = [nodes EXCEPT ![Top] = new],
           stack' = stack
    PROVE  /\ nodes' \in Seq(Seq(Statement)) /\ nodes' # <<>>
           /\ stack' \in Seq(1..Len(nodes'))
           /\ nodes'[Top'] # <<>>
           /\ StackIsPath' /\ StackGrows' /\ StatementsUsable'
<1>1. /\ nodes \in Seq(Seq(Statement)) /\ nodes # <<>>
      /\ stack \in Seq(1..Len(nodes)) /\ stack # <<>>
  BY DEF TreeInv, TreeOK
<1>2. /\ Len(nodes) \in Nat /\ Top \in 1..Len(nodes)
      /\ \A k \in 1..(Len(stack) - 1) :
           stack[k] \in 1..Len(nodes) /\ stack[k] # Top
  BY TopIs
<1>3. nodes' \in Seq(Seq(Statement)) /\ Len(nodes') = Len(nodes)
  BY <1>1, <1>2
<1>4. /\ nodes'[Top] = new
      /\ \A n \in 1..Len(nodes) : n # Top => nodes'[n] = nodes[n]
  BY <1>1, <1>2
<1>5. Top' = Top
  BY DEF Top
<1>6. StackIsPath'
  BY <1>2, <1>4 DEF TreeInv, StackIsPath
<1>7. StackGrows'
  BY DEF TreeInv, StackGrows
<1>8. StatementsUsable'
  <2>1. DOMAIN nodes' = 1..Len(nodes) /\ DOMAIN nodes = 1..Len(nodes)
    BY <1>1, <1>3
  <2>2. ASSUME NEW n \in DOMAIN nodes', NEW j \in DOMAIN nodes'[n]
        PROVE  Usable(nodes'[n][j])
    <3>1. CASE n = Top
      BY <3>1, <1>4
    <3>2. CASE n # Top
      BY <3>2, <2>1, <1>4 DEF TreeInv, StatementsUsable, Usable
    <3> QED BY <3>1, <3>2
  <2> QED BY <1>4, <1>5, <2>2 DEF StatementsUsable, Usable
<1>9. nodes' # <<>>
  BY <1>1, <1>2, <1>3
<1> QED BY <1>1, <1>3, <1>4, <1>5, <1>6, <1>7, <1>8, <1>9

-----------------------------------------------------------------------------
(* Accepting a token keeps the types of what Parse remembers.              *)
LEMMA AcceptTypes ==
    ASSUME TreeInv, NEW type \in TokenType, NEW v \in Seq(Chars), Accept(type, v)
    PROVE  /\ last' = type
           /\ taken' \in Seq([type : TokenType \cup {"COMMENT"}, value : Seq(Chars)])
<1> DEFINE T == [type : TokenType \cup {"COMMENT"}, value : Seq(Chars)]
<1>1. taken \in Seq(T)
  BY DEF TreeInv, TreeOK
<1>2. [type |-> type, value |-> v] \in T
  OBVIOUS
<1>3. last' = type /\ taken' = Append(taken, [type |-> type, value |-> v])
  BY DEF Accept
<1> HIDE DEF T
<1>4. taken' \in Seq(T)
  BY <1>1, <1>2, <1>3
<1> QED BY <1>3, <1>4 DEF T

(* What does not touch the tree keeps all that is known of it.             *)
LEMMA TreeSame ==
    ASSUME TreeInv, UNCHANGED <<last, nodes, stack, taken>>,
           result' \in {"none", "true", "false"}
    PROVE  TreeInv'
<1>1. TreeOK'
  BY DEF TreeInv, TreeOK
<1>2. StackIsPath'
  BY DEF TreeInv, StackIsPath
<1>3. StackGrows'
  BY DEF TreeInv, StackGrows
<1>4. Top' = Top
  BY DEF Top
<1>5. StatementsUsable'
  BY <1>4 DEF TreeInv, StatementsUsable
<1> QED BY <1>1, <1>2, <1>3, <1>5 DEF TreeInv

(* An error leaves the tree as it is.                                      *)
LEMMA FailKeeps == TreeInv /\ Fail => TreeInv'
BY TreeSame DEF Fail

(* What appending to a sequence gives, entry by entry.                     *)
LEMMA AppendIs ==
    ASSUME NEW S, NEW u \in Seq(S), NEW v \in S
    PROVE  /\ Append(u, v) \in Seq(S) /\ Append(u, v) # <<>>
           /\ Len(u) \in Nat /\ DOMAIN Append(u, v) = 1..(Len(u) + 1)
           /\ Len(Append(u, v)) = Len(u) + 1
           /\ DOMAIN u = 1..Len(u)
           /\ Append(u, v)[Len(u) + 1] = v
           /\ \A k \in 1..Len(u) : Append(u, v)[k] = u[k]
OBVIOUS

(* What is left of a sequence without its last entry.                      *)
LEMMA ButLast ==
    ASSUME NEW S, NEW u \in Seq(S), Len(u) > 1
    PROVE  /\ SubSeq(u, 1, Len(u) - 1) \in Seq(S)
           /\ Len(u) \in Nat /\ Len(SubSeq(u, 1, Len(u) - 1)) = Len(u) - 1
           /\ SubSeq(u, 1, Len(u) - 1) # <<>>
           /\ \A k \in 1..(Len(u) - 1) : SubSeq(u, 1, Len(u) - 1)[k] = u[k]
<1> DEFINE w == SubSeq(u, 1, Len(u) - 1)
<1>1. Len(u) \in Nat /\ 1 \in 1..(Len(u) + 1) /\ Len(u) - 1 \in 0..Len(u)
  OBVIOUS
<1>2. w \in Seq(S) /\ Len(w) = Len(u) - 1
  BY <1>1
<1>3. \A k \in 1..(Len(u) - 1) : w[k] = u[k]
  BY <1>1
<1> HIDE DEF w
<1>4. w # <<>>
  BY <1>1, <1>2
<1> QED BY <1>1, <1>2, <1>3, <1>4 DEF w

(* A symbol is a text.                                                     *)
LEMMA Singleton == ASSUME NEW S, NEW x \in S PROVE <<x>> \in Seq(S)
OBVIOUS

(* A statement with a block is as usable as without.                       *)
LEMMA SetChild ==
    ASSUME NEW s \in Statement, Usable(s), NEW m \in Nat
    PROVE  /\ [s EXCEPT !.child = m] \in Statement
           /\ [s EXCEPT !.child = m].child = m
           /\ Usable([s EXCEPT !.child = m])
BY DEF Statement, Usable

(* A statement with one more token is as usable as before.                 *)
LEMMA AddToken ==
    ASSUME NEW s \in Statement, Usable(s), NEW v \in Seq(Chars), v # <<>>
    PROVE  /\ [s EXCEPT !.tokens = Append(@, v)] \in Statement
           /\ Usable([s EXCEPT !.tokens = Append(@, v)])
<1> DEFINE t == Append(s.tokens, v)
           r == [s EXCEPT !.tokens = t]
<1>1. s.tokens \in Seq(Seq(Chars)) /\ s.child \in Nat
  BY DEF Statement
<1>2. t \in Seq(Seq(Chars)) /\ t # <<>>
  BY <1>1, AppendIs
<1>3. ASSUME NEW k \in DOMAIN t PROVE t[k] # <<>>
  <2>1. Len(s.tokens) \in Nat /\ k \in 1..(Len(s.tokens) + 1)
    BY <1>1, AppendIs
  <2>2. CASE k = Len(s.tokens) + 1
    BY <1>1, <2>2, AppendIs
  <2>3. CASE k # Len(s.tokens) + 1
    <3>1. k \in 1..Len(s.tokens)
      BY <2>1, <2>3
    <3>2. t[k] = s.tokens[k] /\ k \in DOMAIN s.tokens
      BY <1>1, <3>1, AppendIs
    <3> QED BY <3>2 DEF Usable
  <2> QED BY <2>2, <2>3
<1> HIDE DEF t
<1>4. r \in Statement /\ r.tokens = t
  BY <1>2 DEF Statement
<1>5. Usable(r)
  BY <1>2, <1>3, <1>4 DEF Usable
<1> QED BY <1>4, <1>5 DEF t

(* A token that is not empty goes to a statement of the top block.         *)
LEMMA PushTokenKeeps ==
    ASSUME TreeInv, NEW v \in Seq(Chars), v # <<>>, PushToken(v)
    PROVE  TreeInv'
<1> DEFINE old == nodes[Top]
           L == Len(old)
<1>1. /\ Len(nodes) \in Nat /\ Top \in 1..Len(nodes) /\ old \in Seq(Statement)
  BY TopIs
<1>2. \A j \in DOMAIN old : Usable(old[j])
  <2>1. Top \in DOMAIN nodes
    BY <1>1 DEF TreeInv, TreeOK
  <2> QED BY <2>1 DEF TreeInv, StatementsUsable, Usable
<1>3. stack' = stack /\ result' = result /\ Accept("NORMAL", v)
  BY DEF PushToken
<1>4. /\ last' = "NORMAL"
      /\ taken' \in Seq([type : TokenType \cup {"COMMENT"}, value : Seq(Chars)])
  <2>1. "NORMAL" \in TokenType
    BY DEF TokenType
  <2> QED BY <1>3, <2>1, AcceptTypes
<1>5. PICK new \in Seq(Statement) :
         /\ new # <<>>
         /\ \A j \in DOMAIN new : Usable(new[j])
         /\ nodes' = [nodes EXCEPT ![Top] = new]
  <2>1. CASE last # "NORMAL"
    <3> DEFINE s == NewStatement(<<v>>)
    <3>1. s \in Statement /\ Usable(s)
      BY DEF NewStatement, Statement, Usable
    <3>2. nodes' = [nodes EXCEPT ![Top] = Append(old, s)]
      BY <2>1 DEF PushToken
    <3> HIDE DEF s, old
    <3>3. Append(old, s) \in Seq(Statement) /\ Append(old, s) # <<>>
      BY <1>1, <3>1
    <3>4. \A j \in DOMAIN Append(old, s) : Usable(Append(old, s)[j])
      BY <1>1, <1>2, <3>1
    <3> QED BY <3>2, <3>3, <3>4
  <2>2. CASE last = "NORMAL"
    <3>1. old # <<>>
      BY <2>2 DEF TreeInv, StatementsUsable
    <3>2. L \in 1..L /\ old[L] \in Statement /\ Usable(old[L])
      BY <1>1, <1>2, <3>1
    <3> DEFINE s == [old[L] EXCEPT !.tokens = Append(@, v)]
    <3>4. s \in Statement
      BY <3>2, AddToken
    <3>5. Usable(s)
      BY <3>2, AddToken
    <3>6. nodes' = [nodes EXCEPT ![Top] = [old EXCEPT ![L] = s]]
      BY <2>2 DEF PushToken
    <3> HIDE DEF s, old, L
    <3>7. [old EXCEPT ![L] = s] \in Seq(Statement) /\ [old EXCEPT ![L] = s] # <<>>
      BY <1>1, <3>1, <3>2, <3>4 DEF L
    <3>8. \A j \in DOMAIN [old EXCEPT ![L] = s] : Usable([old EXCEPT ![L] = s][j])
      BY <1>1, <1>2, <3>2, <3>5
    <3> QED BY <3>6, <3>7, <3>8
  <2> QED BY <2>1, <2>2
<1>6. /\ nodes' \in Seq(Seq(Statement)) /\ nodes' # <<>>
      /\ stack' \in Seq(1..Len(nodes'))
      /\ StackIsPath' /\ StackGrows' /\ StatementsUsable'
  BY <1>3, <1>5, SetTop
<1>7. TreeOK'
  BY <1>3, <1>4, <1>6 DEF TreeInv, TreeOK, TokenType
<1> QED BY <1>6, <1>7 DEF TreeInv

(* An opening brace makes a block, the child of the last statement of the  *)
(* top, and pushes it.                                                     *)
LEMMA OpenBlockKeeps ==
    ASSUME TreeInv, OpenBlock
    PROVE  TreeInv'
<1>1. CASE last # "NORMAL"
  BY <1>1, FailKeeps DEF OpenBlock
<1>2. CASE last = "NORMAL"
  <2> DEFINE old == nodes[Top]
             L == Len(old)
             N == Len(nodes)
             s == [old[L] EXCEPT !.child = N + 1]
             new == [old EXCEPT ![L] = s]
             mid == [nodes EXCEPT ![Top] = new]
  <2>1. /\ N \in Nat /\ Top \in 1..N /\ old \in Seq(Statement)
        /\ Len(stack) \in Nat /\ Len(stack) > 0
        /\ \A k \in 1..(Len(stack) - 1) : stack[k] \in 1..N /\ stack[k] # Top
    BY TopIs
  <2>2. /\ nodes \in Seq(Seq(Statement))
        /\ stack \in Seq(1..N) /\ result \in {"none", "true", "false"}
    BY DEF TreeInv, TreeOK
  <2>3. /\ nodes' = Append(mid, <<>>) /\ stack' = Append(stack, N + 1)
        /\ Accept("START_BLOCK", <<"{">>) /\ result' = result
    BY <1>2 DEF OpenBlock
  <2>4. old # <<>> /\ \A j \in DOMAIN old : Usable(old[j])
    <3>1. Top \in DOMAIN nodes
      BY <2>1, <2>2
    <3> QED BY <1>2, <3>1 DEF TreeInv, StatementsUsable, Usable
  <2>5. /\ L \in Nat /\ L \in 1..L /\ old[L] \in Statement /\ Usable(old[L])
    BY <2>1, <2>4
  <2>6. s \in Statement /\ s.child = N + 1 /\ Usable(s)
    <3>1. N + 1 \in Nat
      BY <2>1
    <3> HIDE DEF N, old, L
    <3> QED BY <2>5, <3>1, SetChild
  <2>7. /\ last' = "START_BLOCK"
        /\ taken' \in Seq([type : TokenType \cup {"COMMENT"}, value : Seq(Chars)])
    <3>1. "START_BLOCK" \in TokenType
      BY DEF TokenType
    <3>2. <<"{">> \in Seq(Chars)
      BY CharsAssumption, Singleton DEF Symbol
    <3> QED BY <3>2, <2>3, <3>1, AcceptTypes
  <2> HIDE DEF s
  <2>8. /\ new \in Seq(Statement) /\ new # <<>> /\ Len(new) = L /\ new[L] = s
        /\ \A j \in DOMAIN new : Usable(new[j])
    <3> HIDE DEF old
    <3> QED BY <2>1, <2>4, <2>5, <2>6
  <2> HIDE DEF new, L, old
  <2>9. /\ mid \in Seq(Seq(Statement)) /\ Len(mid) = N /\ mid[Top] = new
        /\ \A n \in 1..N : n # Top => mid[n] = nodes[n]
    BY <2>1, <2>2, <2>8
  <2> HIDE DEF mid
  <2>10. /\ nodes' \in Seq(Seq(Statement)) /\ nodes' # <<>>
         /\ Len(nodes') = N + 1 /\ DOMAIN nodes' = 1..(N + 1)
         /\ nodes'[N + 1] = <<>>
         /\ \A n \in 1..N : nodes'[n] = mid[n]
    <3>1. <<>> \in Seq(Statement)
      OBVIOUS
    <3>2. /\ Append(mid, <<>>) \in Seq(Seq(Statement)) /\ Append(mid, <<>>) # <<>>
          /\ DOMAIN Append(mid, <<>>) = 1..(Len(mid) + 1)
          /\ Append(mid, <<>>)[Len(mid) + 1] = <<>>
          /\ \A k \in 1..Len(mid) : Append(mid, <<>>)[k] = mid[k]
          /\ Len(Append(mid, <<>>)) = Len(mid) + 1
      BY <2>9, <3>1, AppendIs
    <3> HIDE DEF N
    <3> QED BY <2>3, <2>9, <3>2
  <2>11. /\ stack' \in Seq(1..(N + 1)) /\ stack' # <<>>
         /\ Len(stack') = Len(stack) + 1 /\ stack'[Len(stack) + 1] = N + 1
         /\ \A k \in 1..Len(stack) : stack'[k] = stack[k] /\ stack[k] \in 1..N
    <3>1. stack \in Seq(1..(N + 1))
      BY <2>1, <2>2
    <3>2. N + 1 \in 1..(N + 1)
      BY <2>1
    <3> DEFINE S == 1..(N + 1)
               top == N + 1
    <3>3. stack \in Seq(S) /\ top \in S /\ stack' = Append(stack, top)
      BY <3>1, <3>2, <2>3
    <3>4. \A k \in 1..Len(stack) : stack[k] \in 1..N
      BY <2>2
    <3> HIDE DEF S, top
    <3>5. /\ stack' \in Seq(S) /\ stack' # <<>>
          /\ Len(stack') = Len(stack) + 1 /\ stack'[Len(stack) + 1] = top
          /\ \A k \in 1..Len(stack) : stack'[k] = stack[k]
      BY <3>3, AppendIs
    <3> QED BY <3>4, <3>5 DEF S, top
  <2>12. TreeOK'
    <3>1. stack' \in Seq(1..Len(nodes'))
      BY <2>10, <2>11
    <3> QED BY <2>2, <2>3, <2>7, <2>10, <2>11, <3>1 DEF TreeOK, TokenType
  <2>13. StackIsPath'
    <3>1. stack'[1] = 1
      BY <2>1, <2>11 DEF TreeInv, StackIsPath
    <3>2. ASSUME NEW k \in 1..(Len(stack') - 1)
          PROVE  /\ nodes'[stack'[k]] # <<>>
                 /\ Last(nodes'[stack'[k]]).child = stack'[k + 1]
      <4>1. k \in 1..Len(stack)
        BY <2>1, <2>11
      <4>2. CASE k = Len(stack)
        <5>1. stack'[k] = Top /\ stack'[k + 1] = N + 1
          BY <2>11, <4>1, <4>2 DEF Top
        <5>2. nodes'[stack'[k]] = new
          BY <2>1, <2>9, <2>10, <5>1
        <5>3. Last(new) = s
          BY <2>8 DEF Last
        <5> QED BY <2>6, <2>8, <5>1, <5>2, <5>3
      <4>3. CASE k # Len(stack)
        <5>1. k \in 1..(Len(stack) - 1) /\ k + 1 \in 1..Len(stack)
          BY <2>1, <4>1, <4>3
        <5>2. stack'[k] = stack[k] /\ stack'[k + 1] = stack[k + 1]
          BY <2>11, <4>1, <5>1
        <5>3. nodes'[stack[k]] = nodes[stack[k]]
          BY <2>1, <2>9, <2>10, <5>1
        <5> QED BY <5>1, <5>2, <5>3 DEF TreeInv, StackIsPath
      <4> QED BY <4>2, <4>3
    <3> QED BY <3>1, <3>2 DEF StackIsPath
  <2>14. StackGrows'
    <3> SUFFICES ASSUME NEW j \in 1..Len(stack'), NEW k \in 1..Len(stack'), j < k
                 PROVE  stack'[j] < stack'[k]
      BY DEF StackGrows
    <3>1. j \in 1..Len(stack)
      BY <2>1, <2>11
    <3>2. CASE k = Len(stack) + 1
      <4>1. stack'[j] \in 1..N /\ stack'[k] = N + 1
        BY <2>11, <3>1, <3>2
      <4> HIDE DEF N
      <4> QED BY <2>1, <4>1
    <3>3. CASE k # Len(stack) + 1
      <4>1. k \in 1..Len(stack)
        BY <2>1, <2>11, <3>3
      <4>2. stack[j] < stack[k]
        BY <3>1, <4>1 DEF TreeInv, StackGrows
      <4> QED BY <2>11, <3>1, <4>1, <4>2
    <3> QED BY <3>2, <3>3
  <2>15. StatementsUsable'
    <3>1. ASSUME NEW n \in DOMAIN nodes', NEW j \in DOMAIN nodes'[n]
          PROVE  Usable(nodes'[n][j])
      <4>1. n \in 1..(N + 1)
        BY <2>10
      <4>2. CASE n = N + 1
        BY <2>10, <4>2
      <4>3. CASE n = Top
        BY <2>1, <2>8, <2>9, <2>10, <4>3
      <4>4. CASE n # N + 1 /\ n # Top
        <5>1. n \in 1..N /\ n \in DOMAIN nodes
          <6>1. DOMAIN nodes = 1..N
            BY <2>2
          <6> HIDE DEF N
          <6>2. n \in 1..N
            BY <2>1, <4>1, <4>4
          <6> QED BY <6>1, <6>2
        <5>2. nodes'[n] = nodes[n]
          BY <2>9, <2>10, <4>4, <5>1
        <5> QED BY <5>1, <5>2 DEF TreeInv, StatementsUsable, Usable
      <4> QED BY <4>2, <4>3, <4>4
    <3> QED BY <2>7, <3>1 DEF StatementsUsable, Usable
  <2> QED BY <2>12, <2>13, <2>14, <2>15 DEF TreeInv
<1> QED BY <1>1, <1>2

(* A closing brace takes the top off the stack and leaves the tree.        *)
LEMMA CloseBlockKeeps ==
    ASSUME TreeInv, CloseBlock
    PROVE  TreeInv'
<1>1. CASE Fail
  BY <1>1, FailKeeps
<1>2. CASE ~ Fail
  <2>1. /\ Len(stack) > 1 /\ stack' = SubSeq(stack, 1, Len(stack) - 1)
        /\ Accept("END_BLOCK", <<"}">>) /\ nodes' = nodes /\ result' = result
    BY <1>2 DEF CloseBlock
  <2>2. /\ nodes \in Seq(Seq(Statement)) /\ nodes # <<>>
        /\ stack \in Seq(1..Len(nodes)) /\ result \in {"none", "true", "false"}
    BY DEF TreeInv, TreeOK
  <2>3. /\ last' = "END_BLOCK"
        /\ taken' \in Seq([type : TokenType \cup {"COMMENT"}, value : Seq(Chars)])
    <3>1. "END_BLOCK" \in TokenType
      BY DEF TokenType
    <3>2. <<"}">> \in Seq(Chars)
      BY CharsAssumption, Singleton DEF Symbol
    <3> QED BY <3>2, <2>1, <3>1, AcceptTypes
  <2>4. /\ Len(stack) \in Nat /\ stack' \in Seq(1..Len(nodes)) /\ stack' # <<>>
        /\ Len(stack') = Len(stack) - 1
        /\ \A k \in 1..(Len(stack) - 1) : stack'[k] = stack[k]
    <3>1. /\ Len(stack) \in Nat /\ SubSeq(stack, 1, Len(stack) - 1) \in Seq(1..Len(nodes))
          /\ SubSeq(stack, 1, Len(stack) - 1) # <<>>
          /\ Len(SubSeq(stack, 1, Len(stack) - 1)) = Len(stack) - 1
          /\ \A k \in 1..(Len(stack) - 1) : SubSeq(stack, 1, Len(stack) - 1)[k] = stack[k]
      BY <2>1, <2>2, ButLast
    <3> QED BY <2>1, <3>1
  <2>5. TreeOK'
    BY <2>1, <2>2, <2>3, <2>4 DEF TreeOK, TokenType
  <2>6. StackIsPath' /\ StackGrows'
    <3>1. StackGrows'
      <4> SUFFICES ASSUME NEW j \in 1..Len(stack'), NEW k \in 1..Len(stack'), j < k
                   PROVE  stack'[j] < stack'[k]
        BY DEF StackGrows
      <4>1. /\ j \in 1..(Len(stack) - 1) /\ j \in 1..Len(stack)
            /\ k \in 1..(Len(stack) - 1) /\ k \in 1..Len(stack)
        BY <2>4
      <4>2. stack[j] < stack[k]
        BY <4>1 DEF TreeInv, StackGrows
      <4> QED BY <2>4, <4>1, <4>2
    <3>2. stack'[1] = 1
      <4>1. Len(stack) \in Nat /\ Len(stack) > 1
        BY <2>1, <2>4
      <4>2. 1 \in 1..(Len(stack) - 1)
        BY <4>1
      <4> QED BY <2>4, <4>2 DEF TreeInv, StackIsPath
    <3>3. ASSUME NEW k \in 1..(Len(stack') - 1)
          PROVE  /\ nodes'[stack'[k]] # <<>>
                 /\ Last(nodes'[stack'[k]]).child = stack'[k + 1]
      <4>1. k \in 1..(Len(stack) - 1) /\ k + 1 \in 1..(Len(stack) - 1)
        BY <2>4
      <4>2. stack'[k] = stack[k] /\ stack'[k + 1] = stack[k + 1]
        BY <2>4, <4>1
      <4> QED BY <2>1, <4>1, <4>2 DEF TreeInv, StackIsPath
    <3> QED BY <3>1, <3>2, <3>3 DEF StackIsPath
  <2>7. StatementsUsable'
    BY <2>1, <2>3 DEF TreeInv, StatementsUsable
  <2> QED BY <2>5, <2>6, <2>7 DEF TreeInv
<1> QED BY <1>1, <1>2

(* The end of a statement, and a comment, leave the tree as it is.         *)
LEMMA EndStatementKeeps ==
    ASSUME TreeInv, EndStatement
    PROVE  TreeInv'
<1>1. CASE Fail
  BY <1>1, FailKeeps
<1>2. CASE ~ Fail
  <2>1. Accept("STATEMENT_END", <<";">>) /\ UNCHANGED <<nodes, stack, result>>
    BY <1>2 DEF EndStatement
  <2>2. /\ last' = "STATEMENT_END"
        /\ taken' \in Seq([type : TokenType \cup {"COMMENT"}, value : Seq(Chars)])
    <3>1. "STATEMENT_END" \in TokenType
      BY DEF TokenType
    <3>2. <<";">> \in Seq(Chars)
      BY CharsAssumption, Singleton DEF Symbol
    <3> QED BY <3>2, <2>1, <3>1, AcceptTypes
  <2>3. TreeOK'
    BY <2>1, <2>2 DEF TreeInv, TreeOK, TokenType
  <2>4. StackIsPath' /\ StackGrows'
    BY <2>1 DEF TreeInv, StackIsPath, StackGrows
  <2>5. StatementsUsable'
    BY <2>1, <2>2 DEF TreeInv, StatementsUsable
  <2> QED BY <2>3, <2>4, <2>5 DEF TreeInv
<1> QED BY <1>1, <1>2

LEMMA SkipKeeps ==
    ASSUME TreeInv, NEW v \in Seq(Chars), Skip(v)
    PROVE  TreeInv'
<1> DEFINE T == [type : TokenType \cup {"COMMENT"}, value : Seq(Chars)]
<1>1. taken \in Seq(T) /\ [type |-> "COMMENT", value |-> v] \in T
  BY DEF TreeInv, TreeOK
<1>2. /\ taken' = Append(taken, [type |-> "COMMENT", value |-> v])
      /\ UNCHANGED <<last, nodes, stack, result>>
  BY DEF Skip
<1> HIDE DEF T
<1>3. taken' \in Seq(T)
  BY <1>1, <1>2
<1>4. TreeOK'
  BY <1>2, <1>3 DEF TreeInv, TreeOK, T
<1>5. StackIsPath' /\ StackGrows'
  BY <1>2 DEF TreeInv, StackIsPath, StackGrows
<1>6. Top' = Top
  BY <1>2 DEF Top
<1>7. StatementsUsable'
  BY <1>2, <1>6 DEF TreeInv, StatementsUsable
<1> QED BY <1>4, <1>5, <1>7 DEF TreeInv

(* The result of Parse leaves the tree as it is.                           *)
LEMMA FinishKeeps ==
    ASSUME TreeInv, Finish
    PROVE  TreeInv'
<1>1. CASE Fail
  BY <1>1, FailKeeps
<1>2. CASE ~ Fail
  <2>1. result' = "true" /\ UNCHANGED <<last, nodes, stack, taken>>
    BY <1>2 DEF Finish
  <2> QED BY <2>1, TreeSame
<1> QED BY <1>1, <1>2

LEMMA TreeStutters == TreeInv /\ UNCHANGED treeVars => TreeInv'
<1> SUFFICES ASSUME TreeInv, UNCHANGED treeVars PROVE TreeInv'
  OBVIOUS
<1>1. UNCHANGED <<last, nodes, stack, taken>> /\ result' = result
  BY DEF treeVars
<1>2. result \in {"none", "true", "false"}
  BY DEF TreeInv, TreeOK
<1> QED BY <1>1, <1>2, TreeSame

-----------------------------------------------------------------------------
(* A character that is read and consumed is one of the text; one that is   *)
(* put back is the only one that is not consumed.                          *)
LEMMA GetKeeps ==
    ASSUME ReaderOK, NEW c \in Chars, Get(c), pos' = pos + 1 \/ pos' = pos
    PROVE  /\ text' \in Seq(Chars) /\ pos' \in Nat
           /\ pos' <= Len(text') /\ Len(text') <= pos' + 1
<1>1. /\ text \in Seq(Chars) /\ Len(text) \in Nat
      /\ pos \in Nat /\ pos <= Len(text) /\ Len(text) <= pos + 1
  BY DEF ReaderOK
<1>2. CASE pos < Len(text) /\ text' = text
  BY <1>1, <1>2
<1>3. CASE pos = Len(text) /\ text' = Append(text, c)
  <2>1. Append(text, c) \in Seq(Chars) /\ Len(Append(text, c)) = Len(text) + 1
    BY <1>1, AppendIs
  <2> QED BY <1>1, <1>3, <2>1
<1> QED BY <1>2, <1>3 DEF Get

(* A step of ParseToken that goes on with the token.                       *)
LEMMA ContinueKeeps ==
    ASSUME ParserInv, NEW c \in Chars, Get(c),
           NEW st \in {"initial", "normal", "comment"} \cup Quote,
           NEW v \in Seq(Chars), Continue(st, v), st = "normal" => v # <<>>
    PROVE  ParserInv'
<1>1. ReaderOK /\ TreeInv
  BY DEF ParserInv
<1>2. pos' = pos + 1 /\ state' = st /\ value' = v /\ UNCHANGED treeVars
  BY DEF Continue, Consume
<1>3. ReaderOK'
  BY <1>1, <1>2, GetKeeps DEF ReaderOK
<1>4. TreeInv'
  BY <1>1, <1>2, TreeStutters
<1> QED BY <1>2, <1>3, <1>4 DEF ParserInv, WordStarted

(* A step of ParseToken that returns a token, given what Parse does.       *)
LEMMA ReturnKeeps ==
    ASSUME ParserInv, NEW c \in Chars, Get(c), pos' = pos + 1 \/ pos' = pos,
           Return, TreeInv'
    PROVE  ParserInv'
<1>1. ReaderOK
  BY DEF ParserInv
<1>2. state' = "initial" /\ value' = <<>>
  BY DEF Return
<1>3. ReaderOK'
  BY <1>1, <1>2, GetKeeps DEF ReaderOK
<1> QED BY <1>2, <1>3 DEF ParserInv, WordStarted

(* Every step keeps the invariant.                                         *)
LEMMA ParserInvNext == ParserInv /\ [Next]_vars => ParserInv'
<1> SUFFICES ASSUME ParserInv, [Next]_vars PROVE ParserInv'
  OBVIOUS
<1>1. ReaderOK /\ WordStarted /\ TreeInv
  BY DEF ParserInv
<1>2. value \in Seq(Chars)
  BY <1>1 DEF ReaderOK
<1>3. ASSUME NEW c \in Chars
      PROVE  /\ Append(value, c) \in Seq(Chars) /\ Append(value, c) # <<>>
             /\ <<c>> \in Seq(Chars) /\ <<c>> # <<>>
  BY <1>2, AppendIs, Singleton
<1>4. ASSUME NEW c \in Chars, ReadBlank(c) PROVE ParserInv'
  BY <1>2, <1>4, ContinueKeeps DEF ReadBlank
<1>5. ASSUME NEW c \in Chars, ReadSymbol(c) PROVE ParserInv'
  <2>1. Get(c) /\ pos' = pos + 1 /\ Return
    BY <1>5 DEF ReadSymbol, Consume
  <2>2. TreeInv'
    BY <1>1, <1>5, EndStatementKeeps, OpenBlockKeeps, CloseBlockKeeps DEF ReadSymbol
  <2> QED BY <2>1, <2>2, ReturnKeeps
<1>6. ASSUME NEW c \in Chars, ReadFirst(c) PROVE ParserInv'
  <2>1. Get(c)
    BY <1>6 DEF ReadFirst
  <2>2. CASE Continue("comment", <<c>>)
    BY <1>3, <2>1, <2>2, ContinueKeeps
  <2>3. CASE c \in Quote /\ Continue(c, <<c>>)
    BY <1>3, <2>1, <2>3, ContinueKeeps
  <2>4. CASE Continue("normal", Append(value, c))
    BY <1>3, <2>1, <2>4, ContinueKeeps
  <2> QED BY <1>6, <2>2, <2>3, <2>4 DEF ReadFirst
<1>7. ASSUME NEW c \in Chars, ReadQuoted(c) PROVE ParserInv'
  <2>1. Get(c) /\ state \in Quote
    BY <1>7 DEF ReadQuoted
  <2>2. CASE Continue(state, Append(value, c))
    BY <1>3, <2>1, <2>2, ContinueKeeps
  <2>3. CASE Consume /\ Return /\ PushToken(Append(value, c))
    <3>1. TreeInv'
      BY <1>1, <1>3, <2>3, PushTokenKeeps
    <3> QED BY <2>1, <2>3, <3>1, ReturnKeeps DEF Consume
  <2> QED BY <1>7, <2>2, <2>3 DEF ReadQuoted
<1>8. ASSUME NEW c \in Chars, ReadComment(c) PROVE ParserInv'
  <2>1. Get(c) /\ state = "comment"
    BY <1>8 DEF ReadComment
  <2>2. CASE Continue(state, Append(value, c))
    BY <1>3, <2>1, <2>2, ContinueKeeps
  <2>3. CASE Consume /\ Return /\ Skip(value)
    <3>1. TreeInv'
      BY <1>1, <1>2, <2>3, SkipKeeps
    <3> QED BY <2>1, <2>3, <3>1, ReturnKeeps DEF Consume
  <2> QED BY <1>8, <2>2, <2>3 DEF ReadComment
<1>9. ASSUME NEW c \in Chars, ReadNormal(c) PROVE ParserInv'
  <2>1. Get(c) /\ state = "normal" /\ value # <<>>
    BY <1>1, <1>9 DEF ReadNormal, WordStarted
  <2>2. CASE Continue(state, Append(value, c))
    BY <1>3, <2>1, <2>2, ContinueKeeps
  <2>3. CASE UNCHANGED pos /\ Return /\ PushToken(value)
    <3>1. TreeInv'
      BY <1>1, <1>2, <2>1, <2>3, PushTokenKeeps
    <3> QED BY <2>1, <2>3, <3>1, ReturnKeeps
  <2> QED BY <1>9, <2>2, <2>3 DEF ReadNormal
<1>10. CASE UNCHANGED <<text, pos, state, value>> /\ TreeInv'
  BY <1>1, <1>10 DEF ParserInv, ReaderOK, WordStarted
<1>11. CASE ReadEnd
  BY <1>1, <1>10, <1>11, FailKeeps, FinishKeeps DEF ReadEnd
<1>12. CASE OpenFails
  BY <1>1, <1>10, <1>12, FailKeeps DEF OpenFails, Fail
<1>13. CASE UNCHANGED vars
  BY <1>1, <1>10, <1>13, TreeStutters DEF vars, treeVars
<1> QED BY <1>4, <1>5, <1>6, <1>7, <1>8, <1>9, <1>11, <1>12, <1>13 DEF Next

LEMMA ParserInvariant == Spec => []ParserInv
BY ParserInvInit, ParserInvNext, PTL DEF Spec

-----------------------------------------------------------------------------
(* Every variable keeps its type and config_stack is never empty, so no    *)
(* config_stack.top() of Parse is undefined, whatever the file.            *)
THEOREM TypeCorrect == Spec => []TypeOK
<1>1. ParserInv => TypeOK
  BY DEF ParserInv, TreeInv, TypeOK
<1> QED BY <1>1, ParserInvariant, PTL

(* config_stack is the path to the open block, however deep it is: what    *)
(* follows a closing brace goes to the block around the one it closes.     *)
THEOREM StackAlwaysPath == Spec => []StackIsPath
<1>1. ParserInv => StackIsPath
  BY DEF ParserInv, TreeInv
<1> QED BY <1>1, ParserInvariant, PTL

(* statements.back() always exists where Parse uses it, and the tree has   *)
(* no statement without tokens and no empty token, whatever Parse returns. *)
THEOREM StatementsAlwaysUsable == Spec => []StatementsUsable
<1>1. ParserInv => StatementsUsable
  BY DEF ParserInv, TreeInv
<1> QED BY <1>1, ParserInvariant, PTL

-----------------------------------------------------------------------------
(* A text that grows by a character.                                       *)
LEMMA VisibleAppend ==
    ASSUME NEW s \in Seq(Chars), NEW c \in Chars
    PROVE  Visible(Append(s, c)) =
             IF c \in Blank THEN Visible(s) ELSE Append(Visible(s), c)
<1> DEFINE f == [d \in Chars |-> IF d \in Blank THEN <<>> ELSE <<d>>]
<1>1. f \in Maps(Chars, Seq(Chars))
  BY DEF Maps
<1>2. ASSUME NEW t \in Seq(Chars) PROVE Visible(t) = FlattenSeq(Image(t, f))
  <2>1. \A i \in DOMAIN t : f[t[i]] = IF t[i] \in Blank THEN <<>> ELSE <<t[i]>>
    OBVIOUS
  <2>2. Image(t, f) = [i \in DOMAIN t |-> IF t[i] \in Blank THEN <<>> ELSE <<t[i]>>]
    BY <2>1 DEF Image
  <2> QED BY <2>2 DEF Visible
<1>3. f[c] = IF c \in Blank THEN <<>> ELSE <<c>>
  OBVIOUS
<1> HIDE DEF f
<1>4. /\ FlattenSeq(Image(s, f)) \in Seq(Chars)
      /\ FlattenSeq(Image(Append(s, c), f)) = FlattenSeq(Image(s, f)) \o f[c]
  BY <1>1, FlattenImage
<1>5. Append(s, c) \in Seq(Chars)
  OBVIOUS
<1>6. Visible(s) \in Seq(Chars) /\ Visible(Append(s, c)) = Visible(s) \o f[c]
  BY <1>2, <1>4, <1>5
<1> QED BY <1>3, <1>6

-----------------------------------------------------------------------------
(* The text of the tokens that Parse has accepted.                         *)
Accepted == FlattenSeq([i \in DOMAIN taken |-> taken[i].value])

Token == [type : TokenType \cup {"COMMENT"}, value : Seq(Chars)]

-----------------------------------------------------------------------------
(* What has been consumed is what was accepted and what is being read, but *)
(* for white space; between two tokens nothing is being read.              *)
Consumed == SubSeq(text, 1, pos)

TextKept ==
    /\ state = "initial" => value = <<>>
    /\ result # "false" => Visible(Consumed) = Visible(Accepted \o value)

(* Get adds a character to what has been consumed, or puts it back.        *)
LEMMA ConsumedSteps ==
    ASSUME ReaderOK, NEW c \in Chars, Get(c)
    PROVE  /\ Consumed \in Seq(Chars)
           /\ pos' = pos + 1 => Consumed' = Append(Consumed, c)
           /\ pos' = pos => Consumed' = Consumed
<1>1. /\ text \in Seq(Chars) /\ Len(text) \in Nat /\ pos \in Nat /\ pos <= Len(text)
  BY DEF ReaderOK
<1>2. /\ text' \in Seq(Chars) /\ pos + 1 <= Len(text') /\ text'[pos + 1] = c
      /\ \A i \in 1..pos : text'[i] = text[i]
      /\ Len(text') \in Nat
  <2>1. CASE pos < Len(text) /\ c = text[pos + 1] /\ text' = text
    BY <1>1, <2>1
  <2>2. CASE pos = Len(text) /\ text' = Append(text, c)
    BY <1>1, <2>2, AppendIs
  <2> QED BY <2>1, <2>2 DEF Get
<1>3. Consumed \in Seq(Chars) /\ Len(Consumed) = pos /\ \A i \in 1..pos : Consumed[i] = text[i]
  BY <1>1 DEF Consumed
<1>4. ASSUME pos' = pos PROVE Consumed' = Consumed
  <2> DEFINE u == SubSeq(text', 1, pos)
  <2>1. u \in Seq(Chars) /\ Len(u) = pos /\ \A i \in 1..pos : u[i] = text'[i]
    BY <1>1, <1>2
  <2>2. Consumed' = u
    BY <1>4 DEF Consumed
  <2>3. Len(u) = Len(Consumed) /\ \A i \in 1..Len(u) : u[i] = Consumed[i]
    BY <1>2, <1>3, <2>1
  <2> HIDE DEF u
  <2> QED BY <1>3, <2>1, <2>2, <2>3, SeqEqual
<1>5. ASSUME pos' = pos + 1 PROVE Consumed' = Append(Consumed, c)
  <2> DEFINE u == SubSeq(text', 1, pos + 1)
             w == Append(Consumed, c)
  <2>1. /\ u \in Seq(Chars) /\ Len(u) = pos + 1
        /\ \A i \in 1..(pos + 1) : u[i] = text'[i]
    BY <1>1, <1>2
  <2>2. Consumed' = u
    BY <1>5 DEF Consumed
  <2>3. /\ w \in Seq(Chars) /\ Len(w) = pos + 1 /\ w[pos + 1] = c
        /\ \A i \in 1..pos : w[i] = Consumed[i]
    BY <1>3, AppendIs
  <2>4. \A i \in 1..(pos + 1) : i = pos + 1 \/ i \in 1..pos
    BY <1>1
  <2> HIDE DEF u, w
  <2>5. \A i \in 1..Len(u) : u[i] = w[i]
    BY <1>2, <1>3, <2>1, <2>3, <2>4
  <2>6. u = w
    BY <2>1, <2>3, <2>5, SeqEqual
  <2> QED BY <2>2, <2>6 DEF w
<1> QED BY <1>3, <1>4, <1>5

(* One more token of the text is accepted.                                 *)
LEMMA AcceptedSteps ==
    ASSUME TreeOK, NEW type \in TokenType \cup {"COMMENT"}, NEW v \in Seq(Chars)
    PROVE  /\ Accepted \in Seq(Chars)
           /\ taken' = Append(taken, [type |-> type, value |-> v])
                => Accepted' = Accepted \o v
<1> DEFINE f == [t \in Token |-> t.value]
           x == [type |-> type, value |-> v]
<1>1. f \in Maps(Token, Seq(Chars))
  BY DEF Maps, Token
<1>2. ASSUME NEW s \in Seq(Token) PROVE [i \in DOMAIN s |-> s[i].value] = Image(s, f)
  <2>1. \A i \in DOMAIN s : f[s[i]] = s[i].value
    OBVIOUS
  <2> QED BY <2>1 DEF Image
<1>3. taken \in Seq(Token) /\ x \in Token /\ f[x] = v
  BY DEF TreeOK, Token
<1> HIDE DEF f, x
<1>4. /\ FlattenSeq(Image(taken, f)) \in Seq(Chars)
      /\ FlattenSeq(Image(Append(taken, x), f)) = FlattenSeq(Image(taken, f)) \o v
  <2>1. taken \in Seq(Token) /\ x \in Token
    BY <1>3
  <2>2. /\ FlattenSeq(Image(taken, f)) \in Seq(Chars)
        /\ FlattenSeq(Image(Append(taken, x), f)) = FlattenSeq(Image(taken, f)) \o f[x]
    BY ONLY <1>1, <2>1, FlattenImage
  <2> QED BY <1>3, <2>2
<1>5. Accepted = FlattenSeq(Image(taken, f))
  BY <1>2, <1>3 DEF Accepted
<1>6. ASSUME taken' = Append(taken, x) PROVE Accepted' = Accepted \o v
  <2>1. taken' \in Seq(Token)
    BY <1>3, <1>6
  <2>2. Accepted' = FlattenSeq(Image(taken', f))
    BY <1>2, <2>1 DEF Accepted
  <2> QED BY <1>4, <1>5, <1>6, <2>2
<1> QED BY <1>4, <1>5, <1>6 DEF x

(* The character belongs to what is being read, or to the token accepted.  *)
LEMMA VisibleSteps ==
    ASSUME NEW u \in Seq(Chars), NEW a \in Seq(Chars), NEW v \in Seq(Chars),
           NEW c \in Chars, Visible(u) = Visible(a \o v)
    PROVE  /\ Visible(Append(u, c)) = Visible(a \o Append(v, c))
           /\ c \in Blank => Visible(Append(u, c)) = Visible(a \o v)
           /\ (a \o v) \o <<>> = a \o v /\ (a \o v) \in Seq(Chars)
           /\ Append(v, c) \in Seq(Chars)
<1>1. a \o v \in Seq(Chars) /\ Append(v, c) \in Seq(Chars)
  BY ConcatProperties
<1>2. a \o Append(v, c) = Append(a \o v, c)
  OBVIOUS
<1>3. Visible(Append(a \o v, c)) =
        IF c \in Blank THEN Visible(a \o v) ELSE Append(Visible(a \o v), c)
  BY <1>1, VisibleAppend
<1>4. Visible(Append(u, c)) = IF c \in Blank THEN Visible(u) ELSE Append(Visible(u), c)
  BY VisibleAppend
<1> QED BY <1>1, <1>2, <1>3, <1>4, ConcatEmptySeq

(* A character of a token, or of the white space before it.                *)
LEMMA ContinueText ==
    ASSUME ParserInv, TextKept, NEW c \in Chars, NEW st, NEW v,
           Get(c), Continue(st, v),
           \/ v = Append(value, c) /\ st # "initial"
           \/ c \in Blank /\ v = value /\ v = <<>>
    PROVE  TextKept'
<1>1. /\ pos' = pos + 1 /\ state' = st /\ value' = v
      /\ UNCHANGED <<taken, result>>
  BY DEF Continue, Consume, treeVars
<1>2. result = "none" /\ value \in Seq(Chars) /\ ReaderOK /\ TreeOK
  BY DEF Get, ParserInv, ReaderOK, TreeInv
<1>3. Consumed \in Seq(Chars) /\ Consumed' = Append(Consumed, c)
  BY <1>1, <1>2, ConsumedSteps
<1>4. Accepted \in Seq(Chars) /\ Accepted' = Accepted
  <2>1. Accepted' = Accepted
    BY <1>1 DEF Accepted
  <2>2. "COMMENT" \in TokenType \cup {"COMMENT"}
    OBVIOUS
  <2> QED BY <1>2, <2>1, <2>2, AcceptedSteps
<1>5. Visible(Consumed) = Visible(Accepted \o value)
  BY <1>2 DEF TextKept
<1>6. Visible(Consumed') = Visible(Accepted \o v)
  <2>1. /\ Visible(Append(Consumed, c)) = Visible(Accepted \o Append(value, c))
        /\ c \in Blank => Visible(Append(Consumed, c)) = Visible(Accepted \o value)
    BY <1>2, <1>3, <1>4, <1>5, VisibleSteps
  <2>2. CASE v = Append(value, c)
    BY <1>3, <2>1, <2>2
  <2>3. CASE c \in Blank /\ v = value
    BY <1>3, <2>1, <2>3
  <2> QED BY <2>2, <2>3
<1> QED BY <1>1, <1>4, <1>6 DEF TextKept

(* A token is accepted: what was read of it, and its last character if     *)
(* that is not put back or the line feed after a comment.                  *)
LEMMA ReturnText ==
    ASSUME ParserInv, TextKept, NEW c \in Chars, NEW type \in TokenType \cup {"COMMENT"},
           NEW v, Get(c), Return, taken' = Append(taken, [type |-> type, value |-> v]),
           \/ pos' = pos + 1 /\ v = Append(value, c)
           \/ pos' = pos + 1 /\ v = value /\ c \in Blank
           \/ pos' = pos /\ v = value
    PROVE  TextKept'
<1>1. state' = "initial" /\ value' = <<>>
  BY DEF Return
<1>2. result = "none" /\ value \in Seq(Chars) /\ ReaderOK /\ TreeOK
  BY DEF Get, ParserInv, ReaderOK, TreeInv
<1>3. /\ Consumed \in Seq(Chars)
      /\ pos' = pos + 1 => Consumed' = Append(Consumed, c)
      /\ pos' = pos => Consumed' = Consumed
  BY <1>2, ConsumedSteps
<1>4. Visible(Consumed) = Visible(Accepted \o value)
  BY <1>2 DEF TextKept
<1>5. v \in Seq(Chars)
  BY <1>2, AppendIs
<1>6. Accepted \in Seq(Chars) /\ Accepted' = Accepted \o v
  BY <1>2, <1>5, AcceptedSteps
<1>7. Visible(Consumed') = Visible(Accepted \o v)
  <2>1. /\ Visible(Append(Consumed, c)) = Visible(Accepted \o Append(value, c))
        /\ c \in Blank => Visible(Append(Consumed, c)) = Visible(Accepted \o value)
    BY <1>2, <1>3, <1>4, <1>6, VisibleSteps
  <2>2. CASE pos' = pos + 1 /\ v = Append(value, c)
    BY <1>3, <2>1, <2>2
  <2>3. CASE pos' = pos + 1 /\ v = value /\ c \in Blank
    BY <1>3, <2>1, <2>3
  <2>4. CASE pos' = pos /\ v = value
    BY <1>3, <1>4, <2>4
  <2> QED BY <2>2, <2>3, <2>4
<1>8. Accepted' \o value' = Accepted'
  BY <1>1, <1>5, <1>6, ConcatProperties, ConcatEmptySeq
<1> QED BY <1>1, <1>6, <1>7, <1>8 DEF TextKept

(* Once Parse has failed, nothing is claimed but what ParseToken left.     *)
LEMMA FailText ==
    ASSUME TextKept, result' = "false", Return \/ UNCHANGED <<state, value>>
    PROVE  TextKept'
BY DEF TextKept, Return

(* No step loses or doubles a visible character.                           *)
LEMMA TextKeptNext == ParserInv /\ TextKept /\ [Next]_vars => TextKept'
<1> SUFFICES ASSUME ParserInv, TextKept, [Next]_vars PROVE TextKept'
  OBVIOUS
<1>1. value \in Seq(Chars) /\ (state = "initial" => value = <<>>)
  BY DEF ParserInv, ReaderOK, TextKept
<1>2. ASSUME NEW c \in Chars PROVE state = "initial" => <<c>> = Append(value, c)
  BY <1>1
<1>3. ASSUME NEW c \in Chars, ReadBlank(c) PROVE TextKept'
  BY <1>1, <1>3, ContinueText DEF ReadBlank
<1>4. ASSUME NEW c \in Chars, ReadSymbol(c) PROVE TextKept'
  <2>1. Get(c) /\ pos' = pos + 1 /\ Return /\ <<c>> = Append(value, c)
    BY <1>2, <1>4 DEF ReadSymbol, Consume
  <2>2. \/ Fail
        \/ \E type \in TokenType : taken' = Append(taken, [type |-> type, value |-> <<c>>])
    BY <1>4 DEF ReadSymbol, EndStatement, OpenBlock, CloseBlock, Accept, TokenType
  <2>3. CASE Fail
    BY <2>1, <2>3, FailText DEF Fail
  <2>4. ASSUME NEW type \in TokenType, taken' = Append(taken, [type |-> type, value |-> <<c>>])
        PROVE  TextKept'
    BY <2>1, <2>4, ReturnText
  <2> QED BY <2>2, <2>3, <2>4
<1>5. ASSUME NEW c \in Chars, ReadFirst(c) PROVE TextKept'
  <2>1. PICK st : Get(c) /\ st # "initial" /\ Continue(st, Append(value, c))
    BY <1>2, <1>5 DEF ReadFirst, Quote
  <2> QED BY <2>1, ContinueText
<1>6. ASSUME NEW c \in Chars, ReadQuoted(c) PROVE TextKept'
  <2>1. Get(c) /\ state # "initial"
    BY <1>6 DEF ReadQuoted, Quote
  <2>2. CASE Continue(state, Append(value, c))
    BY <2>1, <2>2, ContinueText
  <2>3. CASE Consume /\ Return /\ PushToken(Append(value, c))
    BY <2>1, <2>3, ReturnText DEF Consume, PushToken, Accept, TokenType
  <2> QED BY <1>6, <2>2, <2>3 DEF ReadQuoted
<1>7. ASSUME NEW c \in Chars, ReadComment(c) PROVE TextKept'
  <2>1. Get(c) /\ state # "initial"
    BY <1>7 DEF ReadComment
  <2>2. CASE Continue(state, Append(value, c))
    BY <2>1, <2>2, ContinueText
  <2>3. CASE c \in Newline /\ Consume /\ Return /\ Skip(value)
    BY <2>1, <2>3, ReturnText DEF Consume, Skip, Newline, Blank
  <2> QED BY <1>7, <2>2, <2>3 DEF ReadComment
<1>8. ASSUME NEW c \in Chars, ReadNormal(c) PROVE TextKept'
  <2>1. Get(c) /\ state # "initial"
    BY <1>8 DEF ReadNormal
  <2>2. CASE Continue(state, Append(value, c))
    BY <2>1, <2>2, ContinueText
  <2>3. CASE UNCHANGED pos /\ Return /\ PushToken(value)
    BY <2>1, <2>3, ReturnText DEF PushToken, Accept, TokenType
  <2> QED BY <1>8, <2>2, <2>3 DEF ReadNormal
<1>9. CASE ReadEnd
  <2>1. UNCHANGED <<text, pos, state, value, taken>> /\ result = "none"
    BY <1>9 DEF ReadEnd, Fail, Finish
  <2> QED BY <2>1 DEF TextKept, Consumed, Accepted
<1>10. CASE OpenFails
  BY <1>10, FailText DEF OpenFails
<1>11. CASE UNCHANGED vars
  BY <1>11 DEF vars, TextKept, Consumed, Accepted
<1> QED BY <1>3, <1>4, <1>5, <1>6, <1>7, <1>8, <1>9, <1>10, <1>11 DEF Next

(* Every visible character that was consumed is in a token, once and in    *)
(* order, although ParseToken puts characters back: in files of any        *)
(* length, with comments and quoted tokens anywhere, up to the end of a    *)
(* file that Parse returns true for.                                       *)
THEOREM TextNeverLost == Spec => []NothingLost
<1>1. Init => TextKept
  <2> SUFFICES ASSUME Init PROVE TextKept
    OBVIOUS
  <2>1. text = <<>> /\ pos = 0 /\ value = <<>> /\ taken = <<>>
    BY DEF Init
  <2>2. [i \in DOMAIN taken |-> taken[i].value] = <<>>
    BY <2>1
  <2>3. Accepted = <<>>
    BY <2>2 DEF Accepted, FlattenSeq
  <2>4. Consumed = <<>>
    BY <2>1 DEF Consumed
  <2>5. Accepted \o value = <<>>
    BY <2>1, <2>3
  <2> QED BY <2>1, <2>4, <2>5 DEF TextKept
<1>2. ParserInv /\ TextKept => NothingLost
  BY DEF TextKept, NothingLost, Consumed, Accepted, AcceptedText
<1> QED BY <1>1, <1>2, TextKeptNext, ParserInvariant, PTL DEF Spec

-----------------------------------------------------------------------------
(***************************************************************************)
(* The tree, written out.  Its parts are written as functions of the       *)
(* blocks nd, the stack st and the last type la, so that a tree can be     *)
(* compared with the one after a step; b holds the text of every block.    *)
(***************************************************************************)
Words == Seq(Seq(Chars))

Ending(nd, st, la, m, j) ==
    IF la = "NORMAL" /\ m = st[Len(st)] /\ j = Len(nd[m]) THEN <<>> ELSE <<<<";">>>>

Closing(nd, st, m, j) ==
    IF nd[m][j].child \in Range(st) THEN <<>> ELSE <<<<"}">>>>

Written(nd, st, la, m, j, b) ==
    IF nd[m][j].child # 0
    THEN nd[m][j].tokens
           \o ((<<<<"{">>>> \o b[nd[m][j].child]) \o Closing(nd, st, m, j))
    ELSE nd[m][j].tokens \o Ending(nd, st, la, m, j)

Parts(nd, st, la, m, b) == [j \in DOMAIN nd[m] |-> Written(nd, st, la, m, j, b)]

BlockText(nd, st, la, m, b) == FlattenSeq(Parts(nd, st, la, m, b))

IsTree(nd, st, la, b) ==
    b = [m \in 1..Len(nd) |-> BlockText(nd, st, la, m, b)]

(* Blocks are in blocks that were created before them.                     *)
Children(nd) ==
    \A m \in 1..Len(nd) : \A j \in 1..Len(nd[m]) :
        nd[m][j].child # 0 => nd[m][j].child \in 1..Len(nd) /\ nd[m][j].child > m

(* The symbols are tokens.                                                 *)
LEMMA SymbolWords ==
    <<<<"{">>>> \in Words /\ <<<<"}">>>> \in Words /\ <<<<";">>>> \in Words /\ <<>> \in Words
<1>1. "{" \in Chars /\ "}" \in Chars /\ ";" \in Chars
  BY CharsAssumption DEF Symbol
<1>2. \A c \in Chars : <<c>> \in Seq(Chars)
  BY Singleton
<1>3. \A w \in Seq(Chars) : <<w>> \in Seq(Seq(Chars))
  BY Singleton
<1>4. <<>> \in Seq(Seq(Chars))
  OBVIOUS
<1> QED BY <1>1, <1>2, <1>3, <1>4 DEF Words

(* The statements of a tree.                                               *)
LEMMA StatementFields ==
    ASSUME NEW nd \in Seq(Seq(Statement)), NEW m \in 1..Len(nd), NEW j \in 1..Len(nd[m])
    PROVE  /\ nd[m] \in Seq(Statement) /\ nd[m][j] \in Statement
           /\ nd[m][j].tokens \in Words /\ nd[m][j].child \in Nat
<1>1. nd[m] \in Seq(Statement)
  BY ElementOfSeq
<1>2. nd[m][j] \in Statement
  BY <1>1, ElementOfSeq
<1>3. \A s \in Statement : s.tokens \in Words /\ s.child \in Nat
  BY DEF Statement, Words
<1> QED BY <1>1, <1>2, <1>3

(* A statement is written with tokens.                                     *)
LEMMA WrittenWords ==
    ASSUME NEW nd \in Seq(Seq(Statement)), NEW st, NEW la, NEW b,
           NEW m \in 1..Len(nd), NEW j \in 1..Len(nd[m]),
           nd[m][j].child # 0 => b[nd[m][j].child] \in Words
    PROVE  Written(nd, st, la, m, j, b) \in Words
<1>1. nd[m][j].tokens \in Words
  BY StatementFields
<1>2. Ending(nd, st, la, m, j) \in Words /\ Closing(nd, st, m, j) \in Words
  BY SymbolWords DEF Ending, Closing
<1>3. \A u, v \in Words : u \o v \in Words
  BY ConcatProperties DEF Words
<1>4. CASE nd[m][j].child # 0
  <2>1. <<<<"{">>>> \o b[nd[m][j].child] \in Words
    BY <1>3, <1>4, SymbolWords
  <2> QED BY <1>1, <1>2, <1>3, <1>4, <2>1 DEF Written
<1>5. CASE nd[m][j].child = 0
  BY <1>1, <1>2, <1>3, <1>5 DEF Written
<1> QED BY <1>4, <1>5

(* So is a block, if the blocks in it are.                                 *)
LEMMA BlockWords ==
    ASSUME NEW nd \in Seq(Seq(Statement)), Children(nd), NEW st, NEW la, NEW b,
           NEW m \in 1..Len(nd), \A k \in 1..Len(nd) : k > m => b[k] \in Words
    PROVE  /\ Parts(nd, st, la, m, b) \in Seq(Words)
           /\ BlockText(nd, st, la, m, b) \in Words
<1> DEFINE ss == [j \in DOMAIN nd[m] |-> Written(nd, st, la, m, j, b)]
<1>1. nd[m] \in Seq(Statement) /\ DOMAIN nd[m] = 1..Len(nd[m]) /\ Len(nd[m]) \in Nat
  BY ElementOfSeq
<1>2. ASSUME NEW j \in 1..Len(nd[m]) PROVE Written(nd, st, la, m, j, b) \in Words
  BY WrittenWords DEF Children
<1>3. ss \in Seq(Words)
  BY <1>1, <1>2
<1> HIDE DEF ss
<1>4. FlattenSeq(ss) \in Words
  <2>1. ss \in Seq(Seq(Seq(Chars))) /\ <<>> \in Seq(Seq(Chars))
    BY <1>3 DEF Words
  <2>2. FlattenSeq(ss) \in Seq(Seq(Chars))
    BY ONLY <2>1, FlattenAppend
  <2> QED BY <2>2 DEF Words
<1> QED BY <1>3, <1>4 DEF BlockText, Parts, ss

(* The text of a block depends on the blocks in it only.                   *)
LEMMA BlockSame ==
    ASSUME NEW nd \in Seq(Seq(Statement)), Children(nd), NEW st, NEW la, NEW b, NEW c,
           NEW m \in 1..Len(nd), \A k \in 1..Len(nd) : k > m => b[k] = c[k]
    PROVE  BlockText(nd, st, la, m, b) = BlockText(nd, st, la, m, c)
<1>1. DOMAIN nd[m] = 1..Len(nd[m])
  <2>1. nd[m] \in Seq(Statement)
    BY ElementOfSeq
  <2> QED BY <2>1
<1>2. ASSUME NEW j \in 1..Len(nd[m])
      PROVE  Written(nd, st, la, m, j, b) = Written(nd, st, la, m, j, c)
  <2>1. nd[m][j].child # 0 => b[nd[m][j].child] = c[nd[m][j].child]
    BY DEF Children
  <2> QED BY <2>1 DEF Written
<1>3. [j \in DOMAIN nd[m] |-> Written(nd, st, la, m, j, b)]
        = [j \in DOMAIN nd[m] |-> Written(nd, st, la, m, j, c)]
  BY <1>1, <1>2
<1> QED BY <1>3 DEF BlockText, Parts

(* The texts of a tree are tokens.                                         *)
LEMMA TreeWords ==
    ASSUME NEW nd \in Seq(Seq(Statement)), Children(nd), NEW st, NEW la, NEW b,
           IsTree(nd, st, la, b)
    PROVE  \A m \in 1..Len(nd) : b[m] \in Words
<1> DEFINE T == {m \in Nat : b[m] \in Words}
<1>1. Len(nd) \in Nat
  OBVIOUS
<1>2. Descends(T, Len(nd))
  <2> SUFFICES ASSUME NEW m \in 1..Len(nd), \A k \in 1..Len(nd) : k > m => k \in T
               PROVE  m \in T
    BY DEF Descends
  <2>1. b[m] = BlockText(nd, st, la, m, b)
    BY DEF IsTree
  <2>2. BlockText(nd, st, la, m, b) \in Words
    <3>1. \A k \in 1..Len(nd) : k > m => b[k] \in Words
      OBVIOUS
    <3> QED BY <3>1, BlockWords
  <2>3. m \in Nat
    BY <1>1
  <2> QED BY <2>1, <2>2, <2>3
<1> HIDE DEF T
<1>3. \A m \in 1..Len(nd) : m \in T
  BY <1>1, <1>2, DescendingInduction
<1> QED BY <1>3 DEF T

(* Every tree has a text, whatever is on the stack.                        *)
LEMMA TreeExists ==
    ASSUME NEW nd \in Seq(Seq(Statement)), Children(nd), NEW st, NEW la
    PROVE  \E b : IsTree(nd, st, la, b)
<1> DEFINE N == Len(nd)
           Good(b, d) == /\ b = [m \in 1..N |-> b[m]]
                         /\ \A m \in 1..N : m + d > N => b[m] = BlockText(nd, st, la, m, b)
           U == {d \in Nat : \E b : Good(b, d)}
<1>1. N \in Nat
  OBVIOUS
<1> HIDE DEF N
<1>2. 0 \in U
  <2> DEFINE b == [m \in 1..N |-> <<>>]
  <2>1. Good(b, 0)
    BY <1>1
  <2> HIDE DEF b
  <2> QED BY <2>1
<1>3. ASSUME NEW d \in Nat, d \in U PROVE d + 1 \in U
  <2>1. PICK b : Good(b, d)
    BY <1>3
  <2> DEFINE h == [m \in 1..N |->
                     IF m + d = N THEN BlockText(nd, st, la, m, b) ELSE b[m]]
  <2>2. h = [m \in 1..N |-> h[m]]
    OBVIOUS
  <2>3. ASSUME NEW m \in 1..N, m + (d + 1) > N PROVE h[m] = BlockText(nd, st, la, m, h)
    <3>1. \A k \in 1..N : k > m => h[k] = b[k]
      BY <1>1, <2>3
    <3>2. BlockText(nd, st, la, m, h) = BlockText(nd, st, la, m, b)
      <4> HIDE DEF h
      <4> QED BY <3>1, BlockSame DEF N
    <3>3. CASE m + d = N
      BY <3>2, <3>3
    <3>4. CASE m + d # N
      <4>1. m + d > N
        BY <1>1, <2>3, <3>4
      <4>2. b[m] = BlockText(nd, st, la, m, b)
        BY <2>1, <4>1
      <4> QED BY <3>2, <3>4, <4>2
    <3> QED BY <3>3, <3>4
  <2> HIDE DEF h
  <2>4. Good(h, d + 1)
    BY <2>2, <2>3
  <2>5. d + 1 \in Nat
    OBVIOUS
  <2> HIDE DEF Good
  <2>6. \E g : Good(g, d + 1)
    BY <2>4
  <2> QED BY <2>5, <2>6
<1>4. \A d \in Nat : d \in U
  <2> HIDE DEF U
  <2> QED BY <1>2, <1>3, SetInduction
<1>5. PICK b : Good(b, N)
  BY <1>1, <1>4
<1>6. \A m \in 1..N : b[m] = BlockText(nd, st, la, m, b)
  BY <1>1, <1>5
<1>7. b = [m \in 1..N |-> BlockText(nd, st, la, m, b)]
  BY <1>5, <1>6
<1> QED BY <1>7 DEF IsTree, N

-----------------------------------------------------------------------------
(* A step of Parse adds a token at the end of the text.  It shows in the   *)
(* blocks on the way to the one it is added to, the set P, and in no other *)
(* block.                                                                  *)
Adds(new, old, x) == new = old \o x

Shows(b, b2, P, x, k) ==
    IF k \in P THEN Adds(b2[k], b[k], x) ELSE b2[k] = b[k]

Above(b, b2, P, x, m, N) == \A k \in 1..N : k > m => Shows(b, b2, P, x, k)

(* What of the statement does not depend on the text of blocks.            *)
SameStatement(nd, st, la, nd2, st2, la2, m, j) ==
    /\ nd2[m][j] = nd[m][j]
    /\ nd[m][j].child # 0 => Closing(nd2, st2, m, j) = Closing(nd, st, m, j)
    /\ nd[m][j].child = 0 => Ending(nd2, st2, la2, m, j) = Ending(nd, st, la, m, j)

(* A statement without a block on the way is written as before.            *)
LEMMA StatementStays ==
    ASSUME NEW nd, Children(nd), NEW st, NEW la, NEW b,
           NEW nd2, NEW st2, NEW la2, NEW b2, NEW P, NEW x,
           NEW m \in 1..Len(nd), NEW j \in 1..Len(nd[m]),
           Above(b, b2, P, x, m, Len(nd)),
           SameStatement(nd, st, la, nd2, st2, la2, m, j),
           nd[m][j].child # 0 => nd[m][j].child \notin P
    PROVE  Written(nd2, st2, la2, m, j, b2) = Written(nd, st, la, m, j, b)
<1>1. nd[m][j].child # 0 => b2[nd[m][j].child] = b[nd[m][j].child]
  BY DEF Above, Shows, Children
<1>2. CASE nd[m][j].child # 0
  <2>1. nd2[m][j] = nd[m][j] /\ Closing(nd2, st2, m, j) = Closing(nd, st, m, j)
    BY <1>2 DEF SameStatement
  <2> QED BY <1>1, <1>2, <2>1 DEF Written
<1>3. CASE nd[m][j].child = 0
  <2>1. nd2[m][j] = nd[m][j] /\ Ending(nd2, st2, la2, m, j) = Ending(nd, st, la, m, j)
    BY <1>3 DEF SameStatement
  <2> QED BY <1>3, <2>1 DEF Written
<1> QED BY <1>2, <1>3

(* So is a block that is not on the way.                                   *)
LEMMA BlockStays ==
    ASSUME NEW nd \in Seq(Seq(Statement)), Children(nd), NEW st, NEW la, NEW b,
           NEW nd2, NEW st2, NEW la2, NEW b2, NEW P, NEW x,
           NEW m \in 1..Len(nd), nd2[m] = nd[m],
           Above(b, b2, P, x, m, Len(nd)),
           \A j \in 1..Len(nd[m]) :
               /\ SameStatement(nd, st, la, nd2, st2, la2, m, j)
               /\ nd[m][j].child # 0 => nd[m][j].child \notin P
    PROVE  BlockText(nd2, st2, la2, m, b2) = BlockText(nd, st, la, m, b)
<1>1. DOMAIN nd[m] = 1..Len(nd[m])
  <2>1. nd[m] \in Seq(Statement)
    BY ElementOfSeq
  <2> QED BY <2>1
<1>2. \A j \in 1..Len(nd[m]) :
         Written(nd2, st2, la2, m, j, b2) = Written(nd, st, la, m, j, b)
  BY StatementStays
<1>3. [j \in DOMAIN nd2[m] |-> Written(nd2, st2, la2, m, j, b2)]
        = [j \in DOMAIN nd[m] |-> Written(nd, st, la, m, j, b)]
  BY <1>1, <1>2
<1> QED BY <1>3 DEF BlockText, Parts

(* A block grows by what its last statement grows by.                      *)
LEMMA BlockGrows ==
    ASSUME NEW nd \in Seq(Seq(Statement)), Children(nd), NEW st, NEW la, NEW b,
           NEW nd2 \in Seq(Seq(Statement)), Children(nd2), NEW st2, NEW la2, NEW b2,
           IsTree(nd, st, la, b), IsTree(nd2, st2, la2, b2),
           NEW x \in Words,
           NEW m \in 1..Len(nd), m \in 1..Len(nd2), NEW L, L = Len(nd[m]), L # 0,
           Len(nd2[m]) = L,
           \A j \in 1..L : j # L =>
               Written(nd2, st2, la2, m, j, b2) = Written(nd, st, la, m, j, b),
           Adds(Written(nd2, st2, la2, m, L, b2), Written(nd, st, la, m, L, b), x)
    PROVE  Adds(BlockText(nd2, st2, la2, m, b2), BlockText(nd, st, la, m, b), x)
<1> DEFINE f(j) == Written(nd, st, la, m, j, b)
           g(j) == Written(nd2, st2, la2, m, j, b2)
           ss == Parts(nd, st, la, m, b)
           tt == Parts(nd2, st2, la2, m, b2)
<1>1. nd[m] \in Seq(Statement)
  BY ElementOfSeq
<1>2. nd2[m] \in Seq(Statement)
  BY ElementOfSeq
<1>3. DOMAIN nd[m] = 1..L /\ DOMAIN nd2[m] = 1..L /\ L \in Nat /\ L \in 1..L
  BY <1>1, <1>2
<1>4. ss \in Seq(Words)
  <2>1. \A k \in 1..Len(nd) : b[k] \in Words
    BY TreeWords
  <2>2. \A k \in 1..Len(nd) : k > m => b[k] \in Words
    BY <2>1
  <2> QED BY <2>2, BlockWords
<1>5. tt \in Seq(Words)
  <2>1. \A k \in 1..Len(nd2) : b2[k] \in Words
    BY TreeWords
  <2>2. \A k \in 1..Len(nd2) : k > m => b2[k] \in Words
    BY <2>1
  <2> QED BY <2>2, BlockWords
<1>6. ss = [j \in 1..L |-> f(j)] /\ tt = [j \in 1..L |-> g(j)]
  BY <1>3 DEF Parts
<1>7. (\A j \in 1..L : j # L => g(j) = f(j)) /\ g(L) = f(L) \o x
  BY DEF Adds
<1>8. /\ BlockText(nd2, st2, la2, m, b2) = FlattenSeq(tt)
      /\ BlockText(nd, st, la, m, b) = FlattenSeq(ss)
  BY DEF BlockText
<1> HIDE DEF f, g
<1>9. /\ \A j \in 1..L : j # L => tt[j] = ss[j]
      /\ tt[L] = ss[L] \o x
  BY ONLY <1>3, <1>6, <1>7
<1>10. Len(ss) = L /\ Len(tt) = L
  BY ONLY <1>3, <1>4, <1>5, <1>6, LenProperties
<1> HIDE DEF ss, tt
<1>11. ss # <<>>
  BY ONLY <1>3, <1>10
<1>12. FlattenSeq(tt) = FlattenSeq(ss) \o x
  <2>1. ss \in Seq(Seq(Seq(Chars))) /\ tt \in Seq(Seq(Seq(Chars))) /\ x \in Seq(Seq(Chars))
    BY <1>4, <1>5 DEF Words
  <2>2. /\ Len(tt) = Len(ss)
        /\ \A j \in 1..Len(ss) : j # Len(ss) => tt[j] = ss[j]
        /\ tt[Len(ss)] = ss[Len(ss)] \o x
    BY ONLY <1>9, <1>10
  <2> QED BY ONLY <1>11, <2>1, <2>2, FlattenGrows
<1> QED BY <1>8, <1>12 DEF Adds

-----------------------------------------------------------------------------
(* No block is in two statements.                                          *)
Parents(nd) ==
    \A m, k \in 1..Len(nd) : \A i \in 1..Len(nd[m]), j \in 1..Len(nd[k]) :
        nd[m][i].child # 0 /\ nd[m][i].child = nd[k][j].child => m = k /\ i = j

Path(nd, st) ==
    /\ st[1] = 1
    /\ \A k \in 1..(Len(st) - 1) :
         /\ Len(nd[st[k]]) # 0
         /\ nd[st[k]][Len(nd[st[k]])].child = st[k + 1]

(* A statement whose block is on the stack is the last one of the block    *)
(* below.                                                                  *)
LEMMA ChildOnPath ==
    ASSUME NEW nd \in Seq(Seq(Statement)), Children(nd), Parents(nd),
           NEW st \in Seq(1..Len(nd)), Path(nd, st),
           NEW m \in 1..Len(nd), NEW j \in 1..Len(nd[m]), NEW i \in 1..Len(st),
           nd[m][j].child = st[i]
    PROVE  i # 1 /\ i - 1 \in 1..Len(st) /\ m = st[i - 1] /\ j = Len(nd[m])
<1>1. Len(nd) \in Nat /\ Len(st) \in Nat
  OBVIOUS
<1>2. \A k \in 1..Len(st) : st[k] \in 1..Len(nd)
  BY ElementOfSeq
<1>3. nd[m][j].child # 0 /\ nd[m][j].child > m
  <2>1. nd[m][j].child # 0
    BY <1>1, <1>2
  <2> QED BY <2>1 DEF Children
<1>4. i # 1
  <2>1. st[1] = 1
    BY DEF Path
  <2> QED BY <1>1, <1>3, <2>1
<1>5. i - 1 \in 1..(Len(st) - 1) /\ (i - 1) + 1 = i /\ i - 1 \in 1..Len(st)
  BY ONLY i \in 1..Len(st), <1>1, <1>4
<1> DEFINE k == st[i - 1]
           L == Len(nd[k])
<1>6. k \in 1..Len(nd)
  BY <1>2, <1>5
<1>7. L # 0 /\ nd[k][L].child = st[i]
  BY <1>5 DEF Path
<1> HIDE DEF k
<1>8. L \in 1..L
  <2>1. nd[k] \in Seq(Statement)
    BY <1>6, ElementOfSeq
  <2>2. L \in Nat
    BY <2>1
  <2> QED BY <1>7, <2>2
<1>9. m = k /\ j = L
  <2> HIDE DEF L
  <2>1. L \in 1..Len(nd[k])
    BY <1>8 DEF L
  <2>2. nd[m][j].child # 0 /\ nd[m][j].child = nd[k][L].child
    BY <1>3, <1>7
  <2>3. \A i1 \in 1..Len(nd[m]), j1 \in 1..Len(nd[k]) :
          nd[m][i1].child # 0 /\ nd[m][i1].child = nd[k][j1].child => m = k /\ i1 = j1
    BY <1>6 DEF Parents
  <2> QED BY ONLY j \in 1..Len(nd[m]), <2>1, <2>2, <2>3
<1> QED BY <1>4, <1>5, <1>9 DEF k

(* A block in its statement: what it grows by is at the end.               *)
Wrap(t, u, v) == t \o ((u \o v) \o <<>>)

LEMMA WrapGrows ==
    ASSUME NEW S, NEW t \in Seq(S), NEW u \in Seq(S), NEW v \in Seq(S), NEW x \in Seq(S),
           NEW v2, Adds(v2, v, x)
    PROVE  Adds(Wrap(t, u, v2), Wrap(t, u, v), x)
<1> DEFINE w == u \o v
<1>1. w \in Seq(S)
  BY ConcatProperties
<1>2. u \o (v \o x) = w \o x
  BY ConcatAssociative
<1> HIDE DEF w
<1>3. w \o x \in Seq(S)
  BY <1>1, ConcatProperties
<1>4. (w \o x) \o <<>> = w \o x /\ w \o <<>> = w
  BY <1>1, <1>3
<1>5. t \o (w \o x) = (t \o w) \o x
  BY <1>1, ConcatAssociative
<1>6. Wrap(t, u, v) = t \o w
  BY <1>4 DEF Wrap, w
<1>7. Wrap(t, u, v \o x) = t \o (w \o x)
  BY <1>2, <1>4 DEF Wrap, w
<1>8. Wrap(t, u, v \o x) = Wrap(t, u, v) \o x
  BY <1>5, <1>6, <1>7
<1>9. v2 = v \o x
  BY DEF Adds
<1> QED BY <1>8, <1>9 DEF Adds

(* The statement of a block in which a token was added.                    *)
LEMMA StatementGrows ==
    ASSUME NEW nd \in Seq(Seq(Statement)), Children(nd), NEW st, NEW la, NEW b,
           NEW nd2, NEW st2, NEW la2, NEW b2, NEW P, NEW x \in Words,
           NEW m \in 1..Len(nd), NEW j \in 1..Len(nd[m]),
           IsTree(nd, st, la, b),
           Above(b, b2, P, x, m, Len(nd)),
           SameStatement(nd, st, la, nd2, st2, la2, m, j),
           nd[m][j].child # 0, nd[m][j].child \in P, nd[m][j].child \in Range(st)
    PROVE  Adds(Written(nd2, st2, la2, m, j, b2), Written(nd, st, la, m, j, b), x)
<1> DEFINE s == nd[m][j]
           c == s.child
           o == <<<<"{">>>>
<1>1. c \in 1..Len(nd) /\ c > m
  BY DEF Children
<1>2. Adds(b2[c], b[c], x)
  BY <1>1 DEF Above, Shows
<1>3. b[c] \in Words /\ s.tokens \in Words /\ o \in Words
  BY <1>1, TreeWords, StatementFields, SymbolWords
<1>4. nd2[m][j] = s /\ Closing(nd, st, m, j) = <<>> /\ Closing(nd2, st2, m, j) = <<>>
  BY DEF SameStatement, Closing
<1>5. Written(nd, st, la, m, j, b) = Wrap(s.tokens, o, b[c])
  BY <1>4 DEF Written, Wrap
<1>6. Written(nd2, st2, la2, m, j, b2) = Wrap(s.tokens, o, b2[c])
  BY <1>4 DEF Written, Wrap
<1> HIDE DEF s, c, o
<1>7. /\ s.tokens \in Seq(Seq(Chars)) /\ o \in Seq(Seq(Chars))
      /\ b[c] \in Seq(Seq(Chars)) /\ x \in Seq(Seq(Chars))
  BY <1>3 DEF Words
<1>8. Adds(Wrap(s.tokens, o, b2[c]), Wrap(s.tokens, o, b[c]), x)
  BY ONLY <1>2, <1>7, WrapGrows
<1> QED BY ONLY <1>5, <1>6, <1>8

(* What a step leaves alone in block m.                                    *)
Elsewhere(nd, st, la, nd2, st2, la2, m) ==
    /\ nd2[m] = nd[m]
    /\ \A j \in 1..Len(nd[m]) : SameStatement(nd, st, la, nd2, st2, la2, m, j)

(* The first n blocks of the stack.                                        *)
Prefix(st, n, P) == P = {st[k] : k \in 1..n}

(* The j-th statement of block m opens the i-th block of the stack; block  *)
(* m is the one below it, and the statement is the last one there.         *)
ChildIs(nd, st, m, j, i) ==
    /\ m \in 1..Len(nd) /\ j \in 1..Len(nd[m]) /\ i \in 1..Len(st)
    /\ nd[m][j].child = st[i]

Below(nd, st, m, j, i) == i # 1 /\ m = st[i - 1] /\ j = Len(nd[m])

(* ChildOnPath, for every statement.                                       *)
LEMMA ChildrenBelow ==
    ASSUME NEW nd \in Seq(Seq(Statement)), Children(nd), Parents(nd),
           NEW st \in Seq(1..Len(nd)), Path(nd, st)
    PROVE  \A m, j, i : ChildIs(nd, st, m, j, i) => Below(nd, st, m, j, i)
<1>1. ASSUME NEW m \in 1..Len(nd), NEW j \in 1..Len(nd[m]), NEW i \in 1..Len(st),
             nd[m][j].child = st[i]
      PROVE  i # 1 /\ m = st[i - 1] /\ j = Len(nd[m])
  BY <1>1, ChildOnPath
<1> QED BY <1>1 DEF ChildIs, Below

(* A block on the stack is in a statement of the block below, the last.    *)
LEMMA ChildInPrefix ==
    ASSUME NEW nd \in Seq(Seq(Statement)), Children(nd), Parents(nd),
           NEW st \in Seq(1..Len(nd)), Path(nd, st),
           NEW n \in 1..Len(st), NEW P, Prefix(st, n, P),
           NEW m \in 1..Len(nd), NEW j \in 1..Len(nd[m]), nd[m][j].child \in P
    PROVE  m \in P /\ j = Len(nd[m])
<1>0. \A k : ChildIs(nd, st, m, j, k) => Below(nd, st, m, j, k)
  BY ChildrenBelow
<1>1. Len(st) \in Nat /\ n \in Nat /\ n <= Len(st)
  OBVIOUS
<1>2. PICK i \in 1..n : nd[m][j].child = st[i]
  BY DEF Prefix
<1>3. i \in 1..Len(st)
  BY ONLY <1>1, i \in 1..n
<1>4. i # 1 /\ m = st[i - 1] /\ j = Len(nd[m])
  <2>1. ChildIs(nd, st, m, j, i)
    BY <1>2, <1>3 DEF ChildIs
  <2>2. Below(nd, st, m, j, i)
    BY ONLY <1>0, <2>1
  <2> QED BY ONLY <2>2 DEF Below
<1>5. i - 1 \in 1..n
  BY ONLY <1>1, <1>4, i \in 1..n
<1>6. m \in P
  BY ONLY <1>4, <1>5, Prefix(st, n, P) DEF Prefix
<1> QED BY <1>4, <1>6

(* A block of the first n, but the n-th, ends with the next one.           *)
EndsWithNext(nd, st, P, m, L) ==
    /\ L # 0 /\ L \in 1..Len(nd[m])
    /\ nd[m][L].child # 0 /\ nd[m][L].child \in P /\ nd[m][L].child \in Range(st)

LEMMA NextInPrefix ==
    ASSUME NEW nd \in Seq(Seq(Statement)), NEW st \in Seq(1..Len(nd)), Path(nd, st),
           NEW n \in 1..Len(st), NEW P, Prefix(st, n, P),
           NEW m \in 1..Len(nd), m \in P, m # st[n]
    PROVE  EndsWithNext(nd, st, P, m, Len(nd[m]))
<1> DEFINE L == Len(nd[m])
<1>1. Len(st) \in Nat /\ n \in Nat /\ n <= Len(st)
  OBVIOUS
<1>2. PICK k \in 1..n : m = st[k]
  BY DEF Prefix
<1>3. k # n /\ k \in 1..(Len(st) - 1) /\ k + 1 \in 1..n /\ k + 1 \in 1..Len(st)
  BY ONLY <1>1, <1>2, m # st[n]
<1>4. L # 0 /\ nd[m][L].child = st[k + 1]
  <2>1. Len(nd[st[k]]) # 0 /\ nd[st[k]][Len(nd[st[k]])].child = st[k + 1]
    BY <1>3 DEF Path
  <2> QED BY ONLY <2>1, <1>2
<1>5. L \in 1..Len(nd[m])
  <2>1. nd[m] \in Seq(Statement)
    BY ElementOfSeq
  <2> QED BY ONLY <1>4, <2>1
<1>6. st[k + 1] \in P
  BY ONLY <1>3, Prefix(st, n, P) DEF Prefix
<1>7. st[k + 1] \in Range(st)
  BY ONLY <1>3, st \in Seq(1..Len(nd)) DEF Range
<1>8. st[k + 1] # 0
  <2>1. st[k + 1] \in 1..Len(nd)
    BY <1>3, ElementOfSeq
  <2> QED BY <2>1
<1> QED BY ONLY <1>4, <1>5, <1>6, <1>7, <1>8 DEF EndsWithNext

AllElsewhere(nd, st, la, nd2, st2, la2, t) ==
    \A m \in 1..Len(nd) : m # t => Elsewhere(nd, st, la, nd2, st2, la2, m)

(* A block that is not on the way stays as it is.                          *)
LEMMA OffPath ==
    ASSUME NEW nd \in Seq(Seq(Statement)), Children(nd), Parents(nd),
           NEW st \in Seq(1..Len(nd)), Path(nd, st), NEW la, NEW b,
           NEW nd2, NEW st2, NEW la2, NEW b2, NEW x,
           NEW n \in 1..Len(st), NEW P, Prefix(st, n, P),
           NEW m \in 1..Len(nd), m \notin P,
           Elsewhere(nd, st, la, nd2, st2, la2, m),
           Above(b, b2, P, x, m, Len(nd))
    PROVE  BlockText(nd2, st2, la2, m, b2) = BlockText(nd, st, la, m, b)
<1>1. nd2[m] = nd[m]
  BY DEF Elsewhere
<1>2. ASSUME NEW j \in 1..Len(nd[m]) PROVE nd[m][j].child \notin P
  BY ChildInPrefix
<1>3. \A j \in 1..Len(nd[m]) :
         /\ SameStatement(nd, st, la, nd2, st2, la2, m, j)
         /\ nd[m][j].child # 0 => nd[m][j].child \notin P
  BY <1>2 DEF Elsewhere
<1> QED BY <1>1, <1>3, BlockStays

(* A block on the way grows with the one in it.                            *)
LEMMA OnPath ==
    ASSUME NEW nd \in Seq(Seq(Statement)), Children(nd), Parents(nd),
           NEW st \in Seq(1..Len(nd)), Path(nd, st), NEW la, NEW b,
           NEW nd2 \in Seq(Seq(Statement)), Children(nd2), NEW st2, NEW la2, NEW b2,
           IsTree(nd, st, la, b), IsTree(nd2, st2, la2, b2), NEW x \in Words,
           NEW n \in 1..Len(st), NEW P, Prefix(st, n, P),
           NEW m \in 1..Len(nd), m \in 1..Len(nd2), m \in P, m # st[n],
           Elsewhere(nd, st, la, nd2, st2, la2, m),
           Above(b, b2, P, x, m, Len(nd))
    PROVE  Adds(BlockText(nd2, st2, la2, m, b2), BlockText(nd, st, la, m, b), x)
<1> DEFINE L == Len(nd[m])
<1>1. L = Len(nd[m])
  OBVIOUS
<1>2. nd2[m] = nd[m]
  BY DEF Elsewhere
<1>3. \A j \in 1..Len(nd[m]) : SameStatement(nd, st, la, nd2, st2, la2, m, j)
  BY DEF Elsewhere
<1> HIDE DEF L
<1>4. /\ L # 0 /\ L \in 1..Len(nd[m])
      /\ nd[m][L].child # 0 /\ nd[m][L].child \in P /\ nd[m][L].child \in Range(st)
  <2>1. EndsWithNext(nd, st, P, m, Len(nd[m]))
    BY NextInPrefix
  <2> QED BY ONLY <1>1, <2>1 DEF EndsWithNext
<1>5. Adds(Written(nd2, st2, la2, m, L, b2), Written(nd, st, la, m, L, b), x)
  <2>1. SameStatement(nd, st, la, nd2, st2, la2, m, L)
    BY ONLY <1>3, <1>4
  <2> QED BY <1>4, <2>1, StatementGrows
<1>6. ASSUME NEW j \in 1..Len(nd[m]), j # L
      PROVE  Written(nd2, st2, la2, m, j, b2) = Written(nd, st, la, m, j, b)
  <2>1. nd[m][j].child \in P => j = Len(nd[m])
    BY ChildInPrefix
  <2>2. SameStatement(nd, st, la, nd2, st2, la2, m, j)
    BY ONLY <1>3, j \in 1..Len(nd[m])
  <2>3. nd[m][j].child \notin P
    BY ONLY <1>1, <1>6, <2>1
  <2>4. nd[m][j].child # 0 => nd[m][j].child \notin P
    BY <2>3
  <2> QED BY ONLY Children(nd), Above(b, b2, P, x, m, Len(nd)), m \in 1..Len(nd),
                  j \in 1..Len(nd[m]), <2>2, <2>4, StatementStays
<1>7. \A j \in 1..L : j # L =>
         Written(nd2, st2, la2, m, j, b2) = Written(nd, st, la, m, j, b)
  BY ONLY <1>1, <1>6
<1>8. Len(nd2[m]) = L
  BY ONLY <1>1, <1>2
<1> QED BY <1>1, <1>4, <1>5, <1>7, <1>8, BlockGrows

(* The token shows in the blocks on the stack up to the n-th, where it is  *)
(* added.                                                                  *)
LEMMA PathGrows ==
    ASSUME NEW nd \in Seq(Seq(Statement)), Children(nd), Parents(nd),
           NEW st \in Seq(1..Len(nd)), Path(nd, st), NEW la, NEW b,
           NEW nd2 \in Seq(Seq(Statement)), Children(nd2), NEW st2, NEW la2, NEW b2,
           IsTree(nd, st, la, b), IsTree(nd2, st2, la2, b2),
           Len(nd) <= Len(nd2), NEW x \in Words,
           NEW n \in 1..Len(st), NEW P, Prefix(st, n, P), NEW t, t = st[n],
           AllElsewhere(nd, st, la, nd2, st2, la2, t),
           Above(b, b2, P, x, t, Len(nd)) =>
               Adds(BlockText(nd2, st2, la2, t, b2), BlockText(nd, st, la, t, b), x)
    PROVE  Adds(b2[1], b[1], x)
<1> DEFINE N == Len(nd)
           T == {m \in Nat : Shows(b, b2, P, x, m)}
<1>1. N \in Nat /\ Len(st) \in Nat /\ n \in 1..n /\ 1 \in 1..n /\ Len(nd2) \in Nat
  OBVIOUS
<1>2. \A k \in 1..Len(st) : st[k] \in 1..N
  BY ElementOfSeq
<1>3. t \in P /\ 1 \in P /\ 1 \in 1..N
  <2>1. st[1] = 1
    BY DEF Path
  <2>2. t \in P /\ 1 \in P
    BY ONLY <1>1, <2>1, t = st[n], Prefix(st, n, P) DEF Prefix
  <2>3. 1 \in 1..Len(st)
    BY <1>1
  <2> QED BY <1>2, <2>1, <2>2, <2>3
<1>4. ASSUME NEW m \in 1..N, Above(b, b2, P, x, m, N) PROVE Shows(b, b2, P, x, m)
  <2>1. b[m] = BlockText(nd, st, la, m, b)
    BY DEF IsTree
  <2>2. m \in 1..Len(nd2)
    BY ONLY <1>1, m \in 1..N, Len(nd) <= Len(nd2)
  <2>3. b2[m] = BlockText(nd2, st2, la2, m, b2)
    BY <2>2 DEF IsTree
  <2>4. m # t => Elsewhere(nd, st, la, nd2, st2, la2, m)
    BY DEF AllElsewhere
  <2>5. CASE m \notin P
    <3>1. BlockText(nd2, st2, la2, m, b2) = BlockText(nd, st, la, m, b)
      BY <1>3, <1>4, <2>4, <2>5, OffPath
    <3> QED BY ONLY <2>1, <2>3, <2>5, <3>1 DEF Shows
  <2>6. CASE m \in P
    <3>1. Adds(BlockText(nd2, st2, la2, m, b2), BlockText(nd, st, la, m, b), x)
      <4>1. CASE m = t
        BY <1>4, <4>1
      <4>2. CASE m # t
        <5>1. m # st[n]
          BY <4>2
        <5> QED BY <1>4, <2>2, <2>4, <2>6, <4>2, <5>1, OnPath
      <4> QED BY <4>1, <4>2
    <3> QED BY ONLY <2>1, <2>3, <2>6, <3>1 DEF Shows
  <2> QED BY <2>5, <2>6
<1>5. Descends(T, N)
  <2> SUFFICES ASSUME NEW m \in 1..N, \A k \in 1..N : k > m => k \in T
               PROVE  m \in T
    BY DEF Descends
  <2>1. Above(b, b2, P, x, m, N)
    BY ONLY \A k \in 1..N : k > m => k \in T DEF Above
  <2>2. Shows(b, b2, P, x, m)
    BY <1>4, <2>1
  <2>3. m \in Nat
    BY ONLY <1>1, m \in 1..N
  <2> QED BY ONLY <2>2, <2>3
<1> HIDE DEF T, N
<1>6. \A m \in 1..N : m \in T
  BY ONLY <1>1, <1>5, DescendingInduction
<1>7. 1 \in T
  BY ONLY <1>3, <1>6
<1>8. Shows(b, b2, P, x, 1)
  BY ONLY <1>7 DEF T
<1> QED BY ONLY <1>3, <1>8 DEF Shows

-----------------------------------------------------------------------------
Grows(st) == \A j, k \in 1..Len(st) : j < k => st[j] < st[k]

(* The blocks in the n-th block of the stack are not below it.             *)
LEMMA TargetChild ==
    ASSUME NEW nd \in Seq(Seq(Statement)), Children(nd),
           NEW st \in Seq(1..Len(nd)), Grows(st),
           NEW n \in 1..Len(st), NEW P, Prefix(st, n, P), NEW t, t = st[n],
           NEW j \in 1..Len(nd[t]), nd[t][j].child # 0
    PROVE  nd[t][j].child \notin P
<1>1. Len(st) \in Nat /\ n \in Nat /\ n <= Len(st) /\ Len(nd) \in Nat
  OBVIOUS
<1>2. \A k \in 1..Len(st) : st[k] \in 1..Len(nd)
  BY ElementOfSeq
<1>3. t \in 1..Len(nd)
  BY <1>2
<1>4. nd[t][j].child > t /\ nd[t][j].child \in 1..Len(nd)
  BY <1>3 DEF Children
<1>0. \A d, e \in Nat : ~(d > e /\ (d = e \/ d < e))
  OBVIOUS
<1>5. ASSUME nd[t][j].child \in P PROVE FALSE
  <2>1. PICK i \in 1..n : nd[t][j].child = st[i]
    BY <1>5 DEF Prefix
  <2>2. i \in 1..Len(st) /\ (i = n \/ i < n)
    BY ONLY <1>1, i \in 1..n
  <2>3. i = n \/ st[i] < st[n]
    BY ONLY <2>2, n \in 1..Len(st), Grows(st) DEF Grows
  <2>4. st[i] \in Nat
    BY ONLY <1>1, <1>4, <2>1
  <2>5. st[n] \in Nat
    BY ONLY <1>1, <1>3, t = st[n]
  <2>6. st[i] = st[n] \/ st[i] < st[n]
    BY ONLY <2>3
  <2>7. st[i] > st[n]
    BY ONLY <1>4, <2>1, t = st[n]
  <2> QED BY ONLY <1>0, <2>4, <2>5, <2>6, <2>7
<1> QED BY <1>5

(* The block grows if its last statement does.                             *)
LEMMA TargetGrows ==
    ASSUME NEW nd \in Seq(Seq(Statement)), Children(nd),
           NEW st \in Seq(1..Len(nd)), Grows(st), NEW la, NEW b,
           NEW nd2 \in Seq(Seq(Statement)), Children(nd2), NEW st2, NEW la2, NEW b2,
           IsTree(nd, st, la, b), IsTree(nd2, st2, la2, b2),
           Len(nd) <= Len(nd2), NEW x \in Words,
           NEW n \in 1..Len(st), NEW P, Prefix(st, n, P), NEW t, t = st[n],
           Above(b, b2, P, x, t, Len(nd)),
           NEW L, L = Len(nd[t]), L # 0, Len(nd2[t]) = L,
           \A j \in 1..L : j # L => SameStatement(nd, st, la, nd2, st2, la2, t, j),
           Adds(Written(nd2, st2, la2, t, L, b2), Written(nd, st, la, t, L, b), x)
    PROVE  Adds(BlockText(nd2, st2, la2, t, b2), BlockText(nd, st, la, t, b), x)
<1>1. t \in 1..Len(nd)
  BY ElementOfSeq
<1>2. t \in 1..Len(nd2)
  <2>1. Len(nd) \in Nat /\ Len(nd2) \in Nat
    BY ONLY nd \in Seq(Seq(Statement)), nd2 \in Seq(Seq(Statement))
  <2> QED BY ONLY <1>1, <2>1, Len(nd) <= Len(nd2)
<1>3. ASSUME NEW j \in 1..L, j # L
      PROVE  Written(nd2, st2, la2, t, j, b2) = Written(nd, st, la, t, j, b)
  <2>1. SameStatement(nd, st, la, nd2, st2, la2, t, j) /\ j \in 1..Len(nd[t])
    BY <1>3
  <2>2. nd[t][j].child # 0 => nd[t][j].child \notin P
    BY <2>1, TargetChild
  <2> QED BY ONLY Children(nd), Above(b, b2, P, x, t, Len(nd)), <1>1, <2>1, <2>2,
                  StatementStays
<1> QED BY <1>1, <1>2, <1>3, BlockGrows

-----------------------------------------------------------------------------
(* A change to the top of the stack changes no other block.                *)
LEMMA TopElsewhere ==
    ASSUME NEW nd, NEW st, NEW la, NEW nd2, NEW la2, NEW t, t = st[Len(st)],
           \A m \in 1..Len(nd) : m # t => nd2[m] = nd[m]
    PROVE  AllElsewhere(nd, st, la, nd2, st, la2, t)
<1> SUFFICES ASSUME NEW m \in 1..Len(nd), m # t, NEW j \in 1..Len(nd[m])
             PROVE  SameStatement(nd, st, la, nd2, st, la2, m, j)
  BY DEF AllElsewhere, Elsewhere
<1>1. nd2[m] = nd[m]
  OBVIOUS
<1>2. Closing(nd2, st, m, j) = Closing(nd, st, m, j)
  BY <1>1 DEF Closing
<1>3. Ending(nd2, st, la2, m, j) = Ending(nd, st, la, m, j)
  BY DEF Ending
<1> QED BY <1>1, <1>2, <1>3 DEF SameStatement

(* No more than the L-th statement of block t is changed.                  *)
OneChange(nd, nd2, t, L) ==
    /\ Len(nd2) = Len(nd) /\ \A m \in 1..Len(nd) : m # t => nd2[m] = nd[m]
    /\ Len(nd2[t]) = L /\ \A j \in 1..L : j # L => nd2[t][j] = nd[t][j]

(* A token at the end of the last statement of the top block.              *)
LEMMA TopShows ==
    ASSUME NEW nd \in Seq(Seq(Statement)), Children(nd), Parents(nd),
           NEW st \in Seq(1..Len(nd)), Path(nd, st), Grows(st), st # <<>>, NEW la, NEW b,
           NEW nd2 \in Seq(Seq(Statement)), Children(nd2), NEW la2, NEW b2,
           IsTree(nd, st, la, b), IsTree(nd2, st, la2, b2),
           NEW x \in Words, NEW t, t = st[Len(st)],
           NEW L, L = Len(nd[t]), L # 0, OneChange(nd, nd2, t, L),
           Adds(Written(nd2, st, la2, t, L, b2), Written(nd, st, la, t, L, b), x)
    PROVE  Adds(b2[1], b[1], x)
<1> DEFINE n == Len(st)
           P == {st[k] : k \in 1..n}
<1>1. n \in 1..Len(st) /\ t = st[n] /\ Prefix(st, n, P)
  BY DEF Prefix
<1> HIDE DEF P, n
<1>2. Len(nd) <= Len(nd2) /\ Len(nd2[t]) = L
  BY ONLY nd \in Seq(Seq(Statement)), OneChange(nd, nd2, t, L) DEF OneChange
<1>3. AllElsewhere(nd, st, la, nd2, st, la2, t)
  BY TopElsewhere DEF OneChange
<1>4. ASSUME NEW j \in 1..L, j # L PROVE SameStatement(nd, st, la, nd2, st, la2, t, j)
  <2>1. nd2[t][j] = nd[t][j]
    BY <1>4 DEF OneChange
  <2>2. Closing(nd2, st, t, j) = Closing(nd, st, t, j)
    BY <2>1 DEF Closing
  <2>3. Ending(nd2, st, la2, t, j) = Ending(nd, st, la, t, j)
    BY ONLY <1>2, <1>4, L = Len(nd[t]) DEF Ending
  <2> QED BY ONLY <2>1, <2>2, <2>3 DEF SameStatement
<1>5. ASSUME Above(b, b2, P, x, t, Len(nd))
      PROVE  Adds(BlockText(nd2, st, la2, t, b2), BlockText(nd, st, la, t, b), x)
  BY <1>1, <1>2, <1>4, <1>5, TargetGrows
<1> QED BY <1>1, <1>2, <1>3, <1>5, PathGrows

(* EndStatement: the semicolon.                                            *)
LEMMA EndShows ==
    ASSUME NEW nd \in Seq(Seq(Statement)), Children(nd), Parents(nd),
           NEW st \in Seq(1..Len(nd)), Path(nd, st), Grows(st), st # <<>>, NEW b,
           NEW la2, la2 # "NORMAL", NEW b2,
           IsTree(nd, st, "NORMAL", b), IsTree(nd, st, la2, b2), NEW t, t = st[Len(st)],
           NEW L, L = Len(nd[t]), L # 0, nd[t][L].child = 0
    PROVE  Adds(b2[1], b[1], <<<<";">>>>)
<1>1. t \in 1..Len(nd)
  BY ElementOfSeq
<1>2. L \in 1..Len(nd[t])
  <2>1. nd[t] \in Seq(Statement)
    BY <1>1, ElementOfSeq
  <2> QED BY ONLY <2>1, L = Len(nd[t]), L # 0
<1> DEFINE w == nd[t][L].tokens
<1>3. w \in Words
  BY <1>1, <1>2, StatementFields
<1>4. Written(nd, st, "NORMAL", t, L, b) = w \o <<>>
  BY DEF Written, Ending
<1>5. Written(nd, st, la2, t, L, b2) = w \o <<<<";">>>>
  BY DEF Written, Ending
<1> HIDE DEF w
<1>6. w \o <<>> = w
  BY <1>3 DEF Words
<1>7. Adds(Written(nd, st, la2, t, L, b2), Written(nd, st, "NORMAL", t, L, b), <<<<";">>>>)
  BY ONLY <1>4, <1>5, <1>6 DEF Adds
<1>8. <<<<";">>>> \in Words
  BY SymbolWords
<1>9. OneChange(nd, nd, t, L)
  BY DEF OneChange
<1> QED BY <1>7, <1>8, <1>9, TopShows

(* What PushToken makes of the last statement.                             *)
Appended(nd, nd2, t, L, v) ==
    /\ OneChange(nd, nd2, t, L)
    /\ nd2[t][L].tokens = Append(nd[t][L].tokens, v) /\ nd2[t][L].child = nd[t][L].child

(* That is what the assignment of PushToken does.                          *)
LEMMA AppendedIs ==
    ASSUME NEW nd \in Seq(Seq(Statement)), NEW t \in 1..Len(nd), NEW v \in Seq(Chars),
           NEW L, L = Len(nd[t]), L # 0
    PROVE  Appended(nd, [nd EXCEPT ![t][L].tokens = Append(@, v)], t, L, v)
<1> DEFINE q == nd[t]
           w == q[L].tokens
           s == [q[L] EXCEPT !.tokens = Append(@, v)]
           u == [q EXCEPT ![L] = s]
           nd2 == [nd EXCEPT ![t] = u]
<1>1. nd2 = [nd EXCEPT ![t][L].tokens = Append(@, v)]
  OBVIOUS
<1>2. q \in Seq(Statement) /\ L = Len(q) /\ L \in 1..L /\ L \in Nat
  <2>1. q \in Seq(Statement)
    BY ElementOfSeq
  <2> QED BY <2>1
<1>3. q[L] \in Statement
  BY ONLY <1>2, ElementOfSeq
<1>4. s.tokens = Append(w, v) /\ s.child = q[L].child
  BY <1>3 DEF Statement
<1> HIDE DEF s
<1>5. u[L] = s /\ Len(u) = L /\ \A j \in 1..L : j # L => u[j] = q[j]
  <2> HIDE DEF q
  <2>1. DOMAIN q = 1..L
    BY ONLY <1>2
  <2> QED BY ONLY <1>2, <2>1
<1> HIDE DEF u
<1>6. nd2[t] = u /\ Len(nd2) = Len(nd) /\ \A m \in 1..Len(nd) : m # t => nd2[m] = nd[m]
  BY ONLY t \in 1..Len(nd), nd \in Seq(Seq(Statement))
<1> HIDE DEF nd2
<1>7. Appended(nd, nd2, t, L, v)
  BY ONLY <1>4, <1>5, <1>6 DEF Appended, OneChange
<1> QED BY ONLY <1>1, <1>7

(* A token more, before the end of a statement that has none yet.          *)
LEMMA AppendToEnd ==
    ASSUME NEW S, NEW w \in Seq(S), NEW v \in S
    PROVE  Append(w, v) \o <<>> = (w \o <<>>) \o <<v>>
<1>1. Append(w, v) \in Seq(S)
  OBVIOUS
<1>2. Append(w, v) \o <<>> = Append(w, v) /\ w \o <<>> = w
  BY ONLY <1>1, w \in Seq(S), ConcatEmptySeq
<1>3. Append(w, v) = w \o <<v>>
  OBVIOUS
<1> QED BY ONLY <1>2, <1>3

(* PushToken, to the last statement.                                       *)
LEMMA AppendShows ==
    ASSUME NEW nd \in Seq(Seq(Statement)), Children(nd), Parents(nd),
           NEW st \in Seq(1..Len(nd)), Path(nd, st), Grows(st), st # <<>>, NEW b,
           NEW nd2 \in Seq(Seq(Statement)), Children(nd2), NEW b2,
           IsTree(nd, st, "NORMAL", b), IsTree(nd2, st, "NORMAL", b2),
           NEW v \in Seq(Chars), NEW t, t = st[Len(st)],
           NEW L, L = Len(nd[t]), L # 0, nd[t][L].child = 0,
           Appended(nd, nd2, t, L, v)
    PROVE  Adds(b2[1], b[1], <<v>>)
<1>1. t \in 1..Len(nd)
  BY ElementOfSeq
<1>2. nd[t] \in Seq(Statement) /\ L \in 1..Len(nd[t])
  <2>1. nd[t] \in Seq(Statement)
    BY <1>1, ElementOfSeq
  <2> QED BY ONLY <2>1, L = Len(nd[t]), L # 0
<1> DEFINE w == nd[t][L].tokens
<1>3. w \in Words
  BY <1>1, <1>2, StatementFields
<1>4. /\ nd2[t][L].tokens = Append(w, v) /\ nd2[t][L].child = 0
      /\ OneChange(nd, nd2, t, L) /\ Len(nd2[t]) = L
  BY DEF Appended, OneChange
<1>5. Written(nd, st, "NORMAL", t, L, b) = w \o <<>>
  BY DEF Written, Ending
<1>6. Written(nd2, st, "NORMAL", t, L, b2) = Append(w, v) \o <<>>
  BY <1>4 DEF Written, Ending
<1> HIDE DEF w
<1>7. Append(w, v) \o <<>> = (w \o <<>>) \o <<v>>
  <2>1. w \in Seq(Seq(Chars))
    BY <1>3 DEF Words
  <2> QED BY ONLY <2>1, v \in Seq(Chars), AppendToEnd
<1>8. Adds(Written(nd2, st, "NORMAL", t, L, b2), Written(nd, st, "NORMAL", t, L, b), <<v>>)
  BY ONLY <1>5, <1>6, <1>7 DEF Adds
<1>9. <<v>> \in Words
  BY Singleton DEF Words
<1> DEFINE x == <<v>>
<1>10. x \in Words /\ Adds(Written(nd2, st, "NORMAL", t, L, b2),
                            Written(nd, st, "NORMAL", t, L, b), x)
  BY ONLY <1>8, <1>9
<1> HIDE DEF x
<1>11. Adds(b2[1], b[1], x)
  BY <1>4, <1>10, TopShows
<1> QED BY <1>11 DEF x

(* What PushToken makes of a block with a new statement s.                 *)
Started(nd, nd2, t, s) ==
    /\ Len(nd2) = Len(nd) /\ \A m \in 1..Len(nd) : m # t => nd2[m] = nd[m]
    /\ Len(nd2[t]) = Len(nd[t]) + 1 /\ nd2[t][Len(nd[t]) + 1] = s
    /\ \A j \in 1..Len(nd[t]) : nd2[t][j] = nd[t][j]

(* That is what the assignment of PushToken does, without a last statement *)
(* to add to.                                                              *)
LEMMA StartedIs ==
    ASSUME NEW nd \in Seq(Seq(Statement)), NEW t \in 1..Len(nd), NEW s \in Statement
    PROVE  Started(nd, [nd EXCEPT ![t] = Append(@, s)], t, s)
<1> DEFINE q == nd[t]
           nd2 == [nd EXCEPT ![t] = Append(@, s)]
<1>1. q \in Seq(Statement)
  BY ElementOfSeq
<1>2. /\ nd2[t] = Append(q, s) /\ Len(nd2) = Len(nd)
      /\ \A m \in 1..Len(nd) : m # t => nd2[m] = nd[m]
  BY ONLY t \in 1..Len(nd), nd \in Seq(Seq(Statement))
<1> HIDE DEF q, nd2
<1>3. /\ Len(q) \in Nat /\ Len(Append(q, s)) = Len(q) + 1 /\ Append(q, s)[Len(q) + 1] = s
      /\ \A j \in 1..Len(q) : Append(q, s)[j] = q[j]
  BY <1>1, AppendIs
<1>4. Started(nd, nd2, t, s)
  BY ONLY <1>2, <1>3 DEF Started, q
<1> QED BY <1>4 DEF nd2

(* PushToken, to a new statement of the top block.                         *)
LEMMA NewShows ==
    ASSUME NEW nd \in Seq(Seq(Statement)), Children(nd), Parents(nd),
           NEW st \in Seq(1..Len(nd)), Path(nd, st), Grows(st), st # <<>>,
           NEW la, la # "NORMAL", NEW b,
           NEW nd2 \in Seq(Seq(Statement)), Children(nd2), NEW b2,
           IsTree(nd, st, la, b), IsTree(nd2, st, "NORMAL", b2),
           NEW v \in Seq(Chars), NEW t, t = st[Len(st)],
           Started(nd, nd2, t, NewStatement(<<v>>))
    PROVE  Adds(b2[1], b[1], <<v>>)
<1> DEFINE n == Len(st)
           P == {st[k] : k \in 1..n}
           L == Len(nd[t])
           s == NewStatement(<<v>>)
           x == <<v>>
<1>1. n \in 1..Len(st) /\ t = st[n] /\ Prefix(st, n, P)
  BY DEF Prefix
<1>2. t \in 1..Len(nd) /\ nd[t] \in Seq(Statement) /\ Len(nd) \in Nat
  <2>1. t \in 1..Len(nd)
    BY ElementOfSeq
  <2> QED BY <2>1, ElementOfSeq
<1>3. x \in Words
  BY Singleton DEF Words
<1>4. s \in Statement /\ s.tokens = x /\ s.child = 0
  BY <1>3 DEF NewStatement, Statement, Words
<1>5. /\ Len(nd2) = Len(nd) /\ \A m \in 1..Len(nd) : m # t => nd2[m] = nd[m]
      /\ Len(nd2[t]) = L + 1 /\ nd2[t][L + 1] = s
      /\ \A j \in 1..L : nd2[t][j] = nd[t][j]
  BY ONLY Started(nd, nd2, t, NewStatement(<<v>>)) DEF Started
<1> HIDE DEF P, n, s, x
<1>6. /\ L \in Nat /\ Len(nd2[t]) = L + 1 /\ nd2[t][L + 1] = s
      /\ \A j \in 1..L : nd2[t][j] = nd[t][j]
  BY ONLY <1>2, <1>5
<1>7. Len(nd) <= Len(nd2) /\ t \in 1..Len(nd2)
  BY ONLY <1>2, <1>5
<1>8. AllElsewhere(nd, st, la, nd2, st, "NORMAL", t)
  BY <1>5, TopElsewhere
<1>9. ASSUME NEW j \in 1..L PROVE SameStatement(nd, st, la, nd2, st, "NORMAL", t, j)
  <2>1. nd2[t][j] = nd[t][j]
    BY ONLY <1>6, j \in 1..L
  <2>2. Closing(nd2, st, t, j) = Closing(nd, st, t, j)
    BY <2>1 DEF Closing
  <2>3. j # Len(nd2[t])
    BY ONLY <1>6, j \in 1..L
  <2>4. Ending(nd2, st, "NORMAL", t, j) = Ending(nd, st, la, t, j)
    BY ONLY <2>3, la # "NORMAL" DEF Ending
  <2> QED BY ONLY <2>1, <2>2, <2>4 DEF SameStatement
<1>10. Written(nd2, st, "NORMAL", t, L + 1, b2) = x
  <2>1. Ending(nd2, st, "NORMAL", t, L + 1) = <<>>
    BY ONLY <1>6, t = st[Len(st)] DEF Ending
  <2>2. x \o <<>> = x
    BY <1>3 DEF Words
  <2> QED BY ONLY <1>4, <1>6, <2>1, <2>2 DEF Written
<1>11. ASSUME Above(b, b2, P, x, t, Len(nd))
       PROVE  Adds(BlockText(nd2, st, "NORMAL", t, b2), BlockText(nd, st, la, t, b), x)
  <2> DEFINE f(j) == Written(nd, st, la, t, j, b)
             g(j) == Written(nd2, st, "NORMAL", t, j, b2)
             ss == Parts(nd, st, la, t, b)
             tt == Parts(nd2, st, "NORMAL", t, b2)
  <2>1. ASSUME NEW j \in 1..L PROVE g(j) = f(j)
    <3>1. nd[t][j].child # 0 => nd[t][j].child \notin P
      BY <1>1, TargetChild
    <3>2. SameStatement(nd, st, la, nd2, st, "NORMAL", t, j)
      BY <1>9
    <3> QED BY ONLY Children(nd), <1>2, <1>11, <3>1, <3>2, j \in 1..L, StatementStays
  <2>2. ss \in Seq(Words)
    <3>1. \A k \in 1..Len(nd) : b[k] \in Words
      BY TreeWords
    <3>2. \A k \in 1..Len(nd) : k > t => b[k] \in Words
      BY <3>1
    <3> QED BY <1>2, <3>2, BlockWords
  <2>3. DOMAIN nd[t] = 1..L /\ DOMAIN nd2[t] = 1..(L + 1)
    <3>1. nd2[t] \in Seq(Statement)
      BY <1>7, ElementOfSeq
    <3> QED BY ONLY <1>2, <1>6, <3>1
  <2>4. ss = [j \in 1..L |-> f(j)] /\ tt = [j \in 1..(L + 1) |-> g(j)]
    BY ONLY <2>3 DEF Parts
  <2>5. g(L + 1) = x
    BY <1>10
  <2>6. /\ BlockText(nd2, st, "NORMAL", t, b2) = FlattenSeq(tt)
        /\ BlockText(nd, st, la, t, b) = FlattenSeq(ss)
    BY DEF BlockText
  <2> HIDE DEF f, g, ss, tt, L
  <2>7. tt = Append(ss, x)
    <3>1. Len(ss) = L
      BY ONLY <1>6, <2>2, <2>4
    <3> DEFINE z == Append(ss, x)
    <3>2. /\ z \in Seq(Words) /\ Len(z) = L + 1 /\ z[L + 1] = x
          /\ \A k \in 1..L : z[k] = ss[k]
      BY ONLY <1>3, <2>2, <3>1, AppendIs
    <3> HIDE DEF z
    <3>3. z = [j \in 1..(L + 1) |-> z[j]]
      BY ONLY <1>6, <3>2
    <3>4. ASSUME NEW j \in 1..(L + 1) PROVE z[j] = g(j)
      <4>1. j = L + 1 \/ j \in 1..L
        BY ONLY <1>6, j \in 1..(L + 1)
      <4>2. CASE j = L + 1
        BY ONLY <2>5, <3>2, <4>2
      <4>3. CASE j \in 1..L
        BY ONLY <2>1, <2>4, <3>2, <4>3
      <4> QED BY <4>1, <4>2, <4>3
    <3>5. z = tt
      BY ONLY <2>4, <3>3, <3>4
    <3> QED BY <3>5 DEF z
  <2>8. FlattenSeq(tt) = FlattenSeq(ss) \o x
    <3>1. ss \in Seq(Seq(Seq(Chars))) /\ x \in Seq(Seq(Chars))
      BY <1>3, <2>2 DEF Words
    <3> QED BY ONLY <2>7, <3>1, FlattenAppend
  <2> QED BY ONLY <2>6, <2>8 DEF Adds
<1>12. Adds(b2[1], b[1], x)
  BY <1>1, <1>3, <1>7, <1>8, <1>11, PathGrows
<1> QED BY <1>12 DEF x

(* What OpenBlock makes of the tree.                                       *)
Opened(nd, nd2, t, L) ==
    /\ Len(nd2) = Len(nd) + 1 /\ nd2[Len(nd) + 1] = <<>>
    /\ \A m \in 1..Len(nd) : m # t => nd2[m] = nd[m]
    /\ Len(nd2[t]) = L /\ \A j \in 1..L : j # L => nd2[t][j] = nd[t][j]
    /\ nd2[t][L].tokens = nd[t][L].tokens /\ nd2[t][L].child = Len(nd) + 1

(* That is what the assignment of OpenBlock does.                          *)
LEMMA OpenedIs ==
    ASSUME NEW nd \in Seq(Seq(Statement)), NEW t \in 1..Len(nd),
           NEW L, L = Len(nd[t]), L # 0
    PROVE  Opened(nd, Append([nd EXCEPT ![t][L].child = Len(nd) + 1], <<>>), t, L)
<1> DEFINE N == Len(nd)
           q == nd[t]
           s == [q[L] EXCEPT !.child = N + 1]
           u == [q EXCEPT ![L] = s]
           mid == [nd EXCEPT ![t] = u]
           none == <<>>
           nd2 == Append(mid, none)
<1>1. nd2 = Append([nd EXCEPT ![t][L].child = Len(nd) + 1], <<>>)
  OBVIOUS
<1>2. q \in Seq(Statement) /\ L \in 1..L /\ L \in Nat /\ N \in Nat /\ N + 1 \in Nat
  <2>1. q \in Seq(Statement)
    BY ElementOfSeq
  <2> QED BY <2>1
<1> HIDE DEF N
<1>3. q[L] \in Statement
  BY ONLY <1>2, L = Len(nd[t]), ElementOfSeq
<1>4. s \in Statement /\ s.tokens = q[L].tokens /\ s.child = N + 1
  BY ONLY <1>2, <1>3 DEF Statement
<1> HIDE DEF s
<1>5. /\ u \in Seq(Statement) /\ u[L] = s /\ Len(u) = L
      /\ \A j \in 1..L : j # L => u[j] = q[j]
  <2>1. L = Len(q)
    OBVIOUS
  <2> HIDE DEF q
  <2>2. DOMAIN q = 1..L
    BY ONLY <1>2, <2>1
  <2> QED BY ONLY <1>2, <1>4, <2>1, <2>2
<1> HIDE DEF u
<1>6. /\ mid \in Seq(Seq(Statement)) /\ Len(mid) = N /\ mid[t] = u
      /\ \A m \in 1..N : m # t => mid[m] = nd[m]
  BY ONLY <1>5, t \in 1..Len(nd), nd \in Seq(Seq(Statement)) DEF N
<1> HIDE DEF mid
<1>7. /\ Len(nd2) = N + 1 /\ nd2[N + 1] = <<>> /\ \A m \in 1..N : nd2[m] = mid[m]
  <2> DEFINE W == Seq(Statement)
  <2>1. none \in W /\ mid \in Seq(W)
    BY <1>6
  <2>2. none = <<>>
    OBVIOUS
  <2> HIDE DEF none, W
  <2>3. /\ Len(Append(mid, none)) = Len(mid) + 1
        /\ Append(mid, none)[Len(mid) + 1] = none
        /\ \A m \in 1..Len(mid) : Append(mid, none)[m] = mid[m]
    BY ONLY <2>1, AppendIs
  <2> QED BY ONLY <1>6, <2>2, <2>3
<1> HIDE DEF nd2
<1>8. nd2[t] = u
  BY ONLY <1>6, <1>7, t \in 1..Len(nd) DEF N
<1>9. /\ Len(nd2) = N + 1 /\ nd2[N + 1] = <<>>
      /\ \A m \in 1..N : m # t => nd2[m] = nd[m]
      /\ Len(nd2[t]) = L /\ \A j \in 1..L : j # L => nd2[t][j] = q[j]
      /\ nd2[t][L].tokens = q[L].tokens /\ nd2[t][L].child = N + 1
  BY ONLY <1>4, <1>5, <1>6, <1>7, <1>8
<1>10. Opened(nd, nd2, t, L)
  BY ONLY <1>9 DEF Opened, N
<1> QED BY ONLY <1>1, <1>10

Pushed(st, st2, n) == st2 = Append(st, n)

(* OpenBlock: the opening brace.                                           *)
LEMMA OpenShows ==
    ASSUME NEW nd \in Seq(Seq(Statement)), Children(nd), Parents(nd),
           NEW st \in Seq(1..Len(nd)), Path(nd, st), Grows(st), st # <<>>, NEW b,
           NEW nd2 \in Seq(Seq(Statement)), Children(nd2), NEW st2,
           NEW la2, la2 # "NORMAL", NEW b2,
           IsTree(nd, st, "NORMAL", b), IsTree(nd2, st2, la2, b2), NEW t, t = st[Len(st)],
           NEW L, L = Len(nd[t]), L # 0, nd[t][L].child = 0,
           Opened(nd, nd2, t, L), Pushed(st, st2, Len(nd) + 1)
    PROVE  Adds(b2[1], b[1], <<<<"{">>>>)
<1> DEFINE n == Len(st)
           P == {st[k] : k \in 1..n}
           N == Len(nd)
           x == <<<<"{">>>>
<1>1. n \in 1..Len(st) /\ t = st[n] /\ Prefix(st, n, P)
  BY DEF Prefix
<1>2. t \in 1..N /\ nd[t] \in Seq(Statement) /\ N \in Nat /\ n \in Nat
  <2>1. t \in 1..N
    BY ElementOfSeq
  <2> QED BY <2>1, ElementOfSeq
<1>3. x \in Words
  BY SymbolWords
<1> HIDE DEF P, n, N, x
<1>4. L \in 1..L /\ L \in Nat
  BY ONLY <1>2, L = Len(nd[t]), L # 0
<1>5. /\ Len(nd2) = N + 1 /\ nd2[N + 1] = <<>>
      /\ \A m \in 1..N : m # t => nd2[m] = nd[m]
      /\ Len(nd2[t]) = L /\ \A j \in 1..L : j # L => nd2[t][j] = nd[t][j]
      /\ nd2[t][L].tokens = nd[t][L].tokens /\ nd2[t][L].child = N + 1
  BY ONLY Opened(nd, nd2, t, L) DEF Opened, N
<1>6. Len(nd) <= Len(nd2)
  BY ONLY <1>2, <1>5 DEF N
(* The new block is on the stack, and the others are as before.            *)
<1>7. \A c : c \in Range(st2) <=> c \in Range(st) \/ c = N + 1
  <2>1. /\ DOMAIN st2 = 1..(n + 1) /\ DOMAIN st = 1..n /\ st2[n + 1] = N + 1
        /\ \A k \in 1..n : st2[k] = st[k]
    <3>1. st \in Seq(Nat) /\ N + 1 \in Nat
      <4>1. \A k \in 1..Len(st) : st[k] \in Nat
        <5>1. \A k \in 1..Len(st) : st[k] \in 1..N
          BY ElementOfSeq DEF N
        <5>2. \A c \in 1..N : c \in Nat
          BY ONLY <1>2
        <5> QED BY ONLY <5>1, <5>2
      <4>2. st \in Seq(Nat)
        BY ONLY <4>1, st \in Seq(1..Len(nd))
      <4> QED BY <1>2, <4>2
    <3> QED BY ONLY <3>1, Pushed(st, st2, Len(nd) + 1), AppendIs DEF Pushed, n, N
  <2>2. \A k \in 1..(n + 1) : k = n + 1 \/ k \in 1..n
    BY ONLY <1>2
  <2>3. n + 1 \in 1..(n + 1) /\ \A k \in 1..n : k \in 1..(n + 1)
    BY ONLY <1>2
  <2> QED BY ONLY <2>1, <2>2, <2>3 DEF Range
<1>8. ASSUME NEW m \in 1..N, NEW j \in 1..Len(nd[m]), nd2[m][j] = nd[m][j],
             ~ (m = t /\ j = L)
      PROVE  SameStatement(nd, st, "NORMAL", nd2, st2, la2, m, j)
  <2>1. ASSUME nd[m][j].child # 0 PROVE Closing(nd2, st2, m, j) = Closing(nd, st, m, j)
    <3>1. nd[m][j].child \in 1..N
      BY <2>1 DEF Children, N
    <3>2. nd[m][j].child # N + 1
      BY ONLY <1>2, <3>1
    <3> QED BY ONLY <1>7, <1>8, <3>2 DEF Closing
  <2>2. Ending(nd2, st2, la2, m, j) = <<<<";">>>>
    BY ONLY la2 # "NORMAL" DEF Ending
  <2>3. Ending(nd, st, "NORMAL", m, j) = <<<<";">>>>
    BY ONLY <1>8, t = st[Len(st)], L = Len(nd[t]) DEF Ending
  <2> QED BY ONLY <1>8, <2>1, <2>2, <2>3 DEF SameStatement
<1>9. AllElsewhere(nd, st, "NORMAL", nd2, st2, la2, t)
  <2> SUFFICES ASSUME NEW m \in 1..N, m # t
               PROVE  Elsewhere(nd, st, "NORMAL", nd2, st2, la2, m)
    BY DEF AllElsewhere, N
  <2>1. nd2[m] = nd[m]
    BY ONLY <1>5, m \in 1..N, m # t
  <2>2. ASSUME NEW j \in 1..Len(nd[m])
        PROVE  SameStatement(nd, st, "NORMAL", nd2, st2, la2, m, j)
    BY ONLY <1>8, <2>1, m \in 1..N, m # t, j \in 1..Len(nd[m])
  <2> QED BY ONLY <2>1, <2>2 DEF Elsewhere
<1>10. \A j \in 1..L : j # L => SameStatement(nd, st, "NORMAL", nd2, st2, la2, t, j)
  BY ONLY <1>2, <1>5, <1>8, L = Len(nd[t])
<1>11. b2[N + 1] = <<>>
  <2>1. b2[N + 1] = BlockText(nd2, st2, la2, N + 1, b2)
    <3>1. N + 1 \in 1..Len(nd2)
      BY ONLY <1>2, <1>5
    <3> QED BY ONLY <3>1, IsTree(nd2, st2, la2, b2) DEF IsTree
  <2>2. Parts(nd2, st2, la2, N + 1, b2) = <<>>
    BY ONLY <1>5 DEF Parts
  <2>3. FlattenSeq(<<>>) = <<>>
    BY DEF FlattenSeq
  <2> QED BY ONLY <2>1, <2>2, <2>3 DEF BlockText
<1> DEFINE w == nd[t][L].tokens
<1>12. w \in Words
  <2>1. L \in 1..Len(nd[t]) /\ t \in 1..Len(nd)
    BY ONLY <1>2, <1>4, L = Len(nd[t]) DEF N
  <2> QED BY <2>1, StatementFields
<1>13. Written(nd, st, "NORMAL", t, L, b) = w \o <<>>
  BY DEF Written, Ending
<1>14. Written(nd2, st2, la2, t, L, b2) = w \o ((x \o <<>>) \o <<>>)
  <2>1. Closing(nd2, st2, t, L) = <<>>
    BY ONLY <1>5, <1>7 DEF Closing
  <2>2. N + 1 # 0
    BY ONLY <1>2
  <2> QED BY ONLY <1>5, <1>11, <2>1, <2>2 DEF Written, x
<1> HIDE DEF w
<1>15. w \o ((x \o <<>>) \o <<>>) = (w \o <<>>) \o x
  <2>1. x \o <<>> = x /\ w \o <<>> = w
    BY <1>3, <1>12 DEF Words
  <2> QED BY ONLY <2>1
<1>16. Adds(Written(nd2, st2, la2, t, L, b2), Written(nd, st, "NORMAL", t, L, b), x)
  BY ONLY <1>13, <1>14, <1>15 DEF Adds
<1>17. ASSUME Above(b, b2, P, x, t, Len(nd))
       PROVE  Adds(BlockText(nd2, st2, la2, t, b2), BlockText(nd, st, "NORMAL", t, b), x)
  BY <1>1, <1>3, <1>5, <1>6, <1>10, <1>16, <1>17, TargetGrows
<1>18. Adds(b2[1], b[1], x)
  BY <1>1, <1>3, <1>6, <1>9, <1>17, PathGrows
<1> QED BY <1>18 DEF x

(* CloseBlock: the closing brace.                                          *)
LEMMA CloseShows ==
    ASSUME NEW nd \in Seq(Seq(Statement)), Children(nd), Parents(nd),
           NEW st \in Seq(1..Len(nd)), Path(nd, st), Grows(st), Len(st) > 1,
           NEW la, la # "NORMAL", NEW b, NEW la2, la2 # "NORMAL", NEW b2,
           NEW st2, st2 = SubSeq(st, 1, Len(st) - 1),
           IsTree(nd, st, la, b), IsTree(nd, st2, la2, b2)
    PROVE  Adds(b2[1], b[1], <<<<"}">>>>)
<1>0. ASSUME NEW m \in 1..Len(nd), NEW j \in 1..Len(nd[m]), NEW i \in 1..Len(st),
             nd[m][j].child = st[i]
      PROVE  m = st[i - 1] /\ j = Len(nd[m])
  BY <1>0, ChildOnPath
<1> DEFINE n == Len(st) - 1
           t == st[n]
           c == st[n + 1]
           P == {st[k] : k \in 1..n}
           N == Len(nd)
           L == Len(nd[t])
           x == <<<<"}">>>>
<1>1. n \in 1..Len(st) /\ n \in Nat /\ Len(st) = n + 1 /\ N \in Nat /\ n \in 1..(Len(st) - 1)
  OBVIOUS
<1>2. t \in 1..N /\ nd[t] \in Seq(Statement)
  <2>1. t \in 1..N
    BY <1>1, ElementOfSeq
  <2> QED BY <2>1, ElementOfSeq
<1>3. x \in Words
  BY SymbolWords
<1>4. L # 0 /\ nd[t][L].child = c
  <2>1. Len(nd[st[n]]) # 0 /\ nd[st[n]][Len(nd[st[n]])].child = st[n + 1]
    BY <1>1 DEF Path
  <2> QED BY <2>1
<1>5. c \in 1..N /\ c # 0
  <2>1. n + 1 \in 1..Len(st)
    BY ONLY <1>1
  <2>2. c \in 1..N
    BY <2>1, ElementOfSeq
  <2> QED BY ONLY <1>1, <2>2
<1>6. L \in 1..L /\ L \in Nat
  BY ONLY <1>2, <1>4
<1>7. Prefix(st, n, P)
  BY DEF Prefix
<1>8. L = Len(nd[t]) /\ t = st[n] /\ c = st[n + 1] /\ N = Len(nd)
  OBVIOUS
<1> HIDE DEF n, t, c, P, N, L, x
<1>9. /\ \A k \in 1..n : st2[k] = st[k]
      /\ DOMAIN st2 = 1..n /\ DOMAIN st = 1..(n + 1)
  <2>1. /\ SubSeq(st, 1, Len(st) - 1) \in Seq(1..Len(nd))
        /\ Len(SubSeq(st, 1, Len(st) - 1)) = Len(st) - 1
        /\ \A k \in 1..(Len(st) - 1) : SubSeq(st, 1, Len(st) - 1)[k] = st[k]
    BY ButLast
  <2>2. n = Len(st) - 1
    BY DEF n
  <2>3. st2 \in Seq(1..Len(nd)) /\ Len(st2) = n /\ \A k \in 1..n : st2[k] = st[k]
    BY ONLY <2>1, <2>2, st2 = SubSeq(st, 1, Len(st) - 1)
  <2>4. DOMAIN st2 = 1..n
    BY ONLY <2>3
  <2>5. DOMAIN st = 1..(n + 1)
    BY ONLY <1>1, st \in Seq(1..Len(nd))
  <2> QED BY ONLY <2>3, <2>4, <2>5
(* The closed block is no longer on the stack, the others are.             *)
<1>10. \A d : d # c => (d \in Range(st2) <=> d \in Range(st))
  <2>1. \A k \in 1..(n + 1) : k = n + 1 \/ k \in 1..n
    BY ONLY <1>1
  <2>2. \A k \in 1..n : k \in 1..(n + 1)
    BY ONLY <1>1
  <2> QED BY ONLY <1>8, <1>9, <2>1, <2>2 DEF Range
<1>11. c \notin Range(st2) /\ c \in Range(st)
  <2>1. ASSUME NEW k \in 1..n PROVE st[k] # c
    <3>1. k \in 1..Len(st) /\ n + 1 \in 1..Len(st) /\ k < n + 1
      BY ONLY <1>1, k \in 1..n
    <3>2. st[k] < st[n + 1]
      BY ONLY <3>1, Grows(st) DEF Grows
    <3> QED BY ONLY <1>1, <1>5, <1>8, <3>2
  <2>2. n + 1 \in 1..(n + 1)
    BY ONLY <1>1
  <2> QED BY ONLY <1>8, <1>9, <2>1, <2>2 DEF Range
<1>12. ASSUME NEW m \in 1..N, NEW j \in 1..Len(nd[m]), ~ (m = t /\ j = L)
       PROVE  SameStatement(nd, st, la, nd, st2, la2, m, j)
  <2>1. nd[m][j].child # c
    <3> DEFINE i == n + 1
    <3>1. i \in 1..Len(st) /\ i - 1 = n
      BY ONLY <1>1
    <3>2. m \in 1..Len(nd)
      BY <1>8
    <3>3. c = st[i]
      BY <1>8
    <3> HIDE DEF i
    <3>4. nd[m][j].child = st[i] => m = st[i - 1] /\ j = Len(nd[m])
      BY ONLY <1>0, <3>1, <3>2, j \in 1..Len(nd[m])
    <3> QED BY ONLY <1>8, <1>12, <3>1, <3>3, <3>4
  <2>2. Closing(nd, st2, m, j) = Closing(nd, st, m, j)
    BY ONLY <1>10, <2>1 DEF Closing
  <2>3. Ending(nd, st2, la2, m, j) = Ending(nd, st, la, m, j)
    BY ONLY la # "NORMAL", la2 # "NORMAL" DEF Ending
  <2> QED BY ONLY <2>2, <2>3 DEF SameStatement
<1>13. AllElsewhere(nd, st, la, nd, st2, la2, t)
  BY ONLY <1>8, <1>12 DEF AllElsewhere, Elsewhere
<1>14. \A j \in 1..L : j # L => SameStatement(nd, st, la, nd, st2, la2, t, j)
  BY ONLY <1>2, <1>8, <1>12
<1>15. ASSUME Above(b, b2, P, x, t, Len(nd))
       PROVE  Adds(Written(nd, st2, la2, t, L, b2), Written(nd, st, la, t, L, b), x)
  <2> DEFINE w == nd[t][L].tokens
             o == <<<<"{">>>>
             y == b[c]
  <2>1. w \in Words /\ o \in Words
    <3>1. L \in 1..Len(nd[t]) /\ t \in 1..Len(nd)
      BY ONLY <1>2, <1>6, <1>8
    <3> QED BY <3>1, StatementFields, SymbolWords
  <2>2. y \in Words
    BY <1>5, <1>8, TreeWords
  <2>3. c > t /\ c \in 1..Len(nd)
    <3>1. L \in 1..Len(nd[t]) /\ t \in 1..Len(nd)
      BY ONLY <1>2, <1>6, <1>8
    <3> QED BY ONLY <1>4, <1>5, <3>1, Children(nd) DEF Children
  <2>4. c \notin P
    <3>1. L \in 1..Len(nd[t]) /\ nd[t][L].child # 0
      BY ONLY <1>4, <1>5, <1>6, <1>8
    <3>2. nd[t][L].child \notin P
      BY <1>1, <1>7, <1>8, <3>1, TargetChild
    <3> QED BY ONLY <1>4, <3>2
  <2>5. b2[c] = y
    BY ONLY <1>15, <2>3, <2>4 DEF Above, Shows
  <2>6. Written(nd, st, la, t, L, b) = w \o ((o \o y) \o <<>>)
    BY ONLY <1>4, <1>5, <1>11 DEF Written, Closing
  <2>7. Written(nd, st2, la2, t, L, b2) = w \o ((o \o y) \o x)
    BY ONLY <1>4, <1>5, <1>11, <2>5 DEF Written, Closing, x
  <2> DEFINE z == o \o y
             W == Seq(Chars)
  <2>8. z \in Seq(W) /\ w \in Seq(W) /\ x \in Seq(W)
    <3>1. \A p, q \in Words : p \o q \in Words
      BY ConcatProperties DEF Words
    <3> QED BY <1>3, <2>1, <2>2, <3>1 DEF Words
  <2> HIDE DEF z, w, W, o, y
  <2>9. z \o <<>> = z
    BY ONLY <2>8
  <2>10. w \o (z \o x) = (w \o z) \o x
    BY ONLY <2>8, ConcatAssociative
  <2>11. w \o ((o \o y) \o x) = (w \o ((o \o y) \o <<>>)) \o x
    BY ONLY <2>9, <2>10 DEF z
  <2> QED BY ONLY <2>6, <2>7, <2>11 DEF Adds
<1>16. Len(nd) <= Len(nd)
  BY ONLY <1>1, <1>8
<1>17. ASSUME Above(b, b2, P, x, t, Len(nd))
       PROVE  Adds(BlockText(nd, st2, la2, t, b2), BlockText(nd, st, la, t, b), x)
  BY <1>1, <1>3, <1>4, <1>7, <1>8, <1>14, <1>15, <1>16, <1>17, TargetGrows
<1>18. Adds(b2[1], b[1], x)
  BY <1>1, <1>3, <1>7, <1>8, <1>13, <1>16, <1>17, PathGrows
<1> QED BY <1>18 DEF x

-----------------------------------------------------------------------------
(* Statements with the blocks they had before, or none.                    *)
Kept(nd, nd2) ==
    \A m \in 1..Len(nd2) : \A j \in 1..Len(nd2[m]) :
        nd2[m][j].child # 0 =>
            /\ m \in 1..Len(nd) /\ j \in 1..Len(nd[m])
            /\ nd2[m][j].child = nd[m][j].child

(* Blocks stay in blocks created before them, and in one statement each,   *)
(* when no statement is given a block.                                     *)
LEMMA KeptChildren ==
    ASSUME NEW nd, NEW nd2, Kept(nd, nd2), Len(nd2) = Len(nd), Children(nd), Parents(nd)
    PROVE  Children(nd2) /\ Parents(nd2)
<1>1. Children(nd2)
  BY DEF Children, Kept
<1>2. Parents(nd2)
  <2> SUFFICES ASSUME NEW m \in 1..Len(nd2), NEW k \in 1..Len(nd2),
                      NEW i \in 1..Len(nd2[m]), NEW j \in 1..Len(nd2[k]),
                      nd2[m][i].child # 0, nd2[m][i].child = nd2[k][j].child
               PROVE  m = k /\ i = j
    BY DEF Parents
  <2>1. m \in 1..Len(nd) /\ i \in 1..Len(nd[m]) /\ nd2[m][i].child = nd[m][i].child
    BY DEF Kept
  <2>2. k \in 1..Len(nd) /\ j \in 1..Len(nd[k]) /\ nd2[k][j].child = nd[k][j].child
    BY DEF Kept
  <2>3. nd[m][i].child # 0 /\ nd[m][i].child = nd[k][j].child
    BY ONLY <2>1, <2>2, nd2[m][i].child # 0, nd2[m][i].child = nd2[k][j].child
  <2> QED BY ONLY <2>1, <2>2, <2>3, Parents(nd) DEF Parents
<1> QED BY <1>1, <1>2

(* So it is when a statement gets one more token.                          *)
LEMMA AppendedChildren ==
    ASSUME NEW nd \in Seq(Seq(Statement)), NEW nd2, NEW t \in 1..Len(nd), NEW v,
           NEW L, L = Len(nd[t]), Appended(nd, nd2, t, L, v), Children(nd), Parents(nd)
    PROVE  Children(nd2) /\ Parents(nd2)
<1>1. /\ Len(nd2) = Len(nd) /\ \A m \in 1..Len(nd) : m # t => nd2[m] = nd[m]
      /\ Len(nd2[t]) = L /\ \A j \in 1..L : j # L => nd2[t][j] = nd[t][j]
      /\ nd2[t][L].child = nd[t][L].child
  BY DEF Appended, OneChange
<1>2. Kept(nd, nd2)
  <2> SUFFICES ASSUME NEW m \in 1..Len(nd2), NEW j \in 1..Len(nd2[m])
               PROVE  /\ m \in 1..Len(nd) /\ j \in 1..Len(nd[m])
                      /\ nd2[m][j].child = nd[m][j].child
    BY DEF Kept
  <2>1. CASE m = t
    BY ONLY <1>1, <2>1, m \in 1..Len(nd2), j \in 1..Len(nd2[m]), L = Len(nd[t])
  <2>2. CASE m # t
    BY ONLY <1>1, <2>2, m \in 1..Len(nd2), j \in 1..Len(nd2[m])
  <2> QED BY <2>1, <2>2
<1> QED BY <1>1, <1>2, KeptChildren

(* So it is when a block gets a statement without a block.                 *)
LEMMA StartedChildren ==
    ASSUME NEW nd \in Seq(Seq(Statement)), NEW nd2, NEW t \in 1..Len(nd), NEW s,
           s.child = 0, Started(nd, nd2, t, s), Children(nd), Parents(nd)
    PROVE  Children(nd2) /\ Parents(nd2)
<1> DEFINE L == Len(nd[t])
<1>1. /\ Len(nd2) = Len(nd) /\ \A m \in 1..Len(nd) : m # t => nd2[m] = nd[m]
      /\ Len(nd2[t]) = L + 1 /\ nd2[t][L + 1] = s
      /\ \A j \in 1..L : nd2[t][j] = nd[t][j]
  BY DEF Started
<1>2. L \in Nat
  <2>1. nd[t] \in Seq(Statement)
    BY ElementOfSeq
  <2> QED BY ONLY <2>1
<1>3. Kept(nd, nd2)
  <2> SUFFICES ASSUME NEW m \in 1..Len(nd2), NEW j \in 1..Len(nd2[m]), nd2[m][j].child # 0
               PROVE  /\ m \in 1..Len(nd) /\ j \in 1..Len(nd[m])
                      /\ nd2[m][j].child = nd[m][j].child
    BY DEF Kept
  <2>1. CASE m = t
    <3>1. j = L + 1 \/ j \in 1..L
      BY ONLY <1>1, <1>2, <2>1, j \in 1..Len(nd2[m])
    <3>2. j # L + 1
      BY ONLY <1>1, <2>1, s.child = 0, nd2[m][j].child # 0
    <3> QED BY ONLY <1>1, <2>1, <3>1, <3>2, m \in 1..Len(nd2)
  <2>2. CASE m # t
    BY ONLY <1>1, <2>2, m \in 1..Len(nd2), j \in 1..Len(nd2[m])
  <2> QED BY <2>1, <2>2
<1> QED BY <1>1, <1>3, KeptChildren

(* A new block has the greatest number, so it is in no statement but the   *)
(* one it was opened for.                                                  *)
LEMMA OpenedChildren ==
    ASSUME NEW nd \in Seq(Seq(Statement)), NEW nd2, NEW t \in 1..Len(nd),
           NEW L, L = Len(nd[t]), Opened(nd, nd2, t, L), Children(nd), Parents(nd)
    PROVE  Children(nd2) /\ Parents(nd2)
<1> DEFINE N == Len(nd)
<1>1. /\ Len(nd2) = N + 1 /\ nd2[N + 1] = <<>>
      /\ \A m \in 1..N : m # t => nd2[m] = nd[m]
      /\ Len(nd2[t]) = L /\ \A j \in 1..L : j # L => nd2[t][j] = nd[t][j]
      /\ nd2[t][L].child = N + 1
  BY DEF Opened
<1>2. N \in Nat /\ t \in 1..N /\ N = Len(nd)
  OBVIOUS
<1> HIDE DEF N
<1> DEFINE Old(m, j) ==
             /\ m \in 1..N /\ j \in 1..Len(nd[m])
             /\ nd2[m][j].child = nd[m][j].child
           New(m, j) == m = t /\ j = L /\ nd2[m][j].child = N + 1
<1>3. ASSUME NEW m \in 1..Len(nd2), NEW j \in 1..Len(nd2[m])
      PROVE  Old(m, j) \/ New(m, j)
  <2>1. m \in 1..N
    <3>1. m = N + 1 \/ m \in 1..N
      BY ONLY <1>1, <1>2, m \in 1..Len(nd2)
    <3>2. m # N + 1
      <4> SUFFICES ASSUME m = N + 1 PROVE FALSE
        OBVIOUS
      <4>1. Len(nd2[m]) = 0
        BY ONLY <1>1, m = N + 1
      <4> QED BY ONLY <4>1, j \in 1..Len(nd2[m])
    <3> QED BY <3>1, <3>2
  <2>2. CASE m = t
    BY ONLY <1>1, <2>1, <2>2, j \in 1..Len(nd2[m]), L = Len(nd[t])
  <2>3. CASE m # t
    BY ONLY <1>1, <2>1, <2>3, j \in 1..Len(nd2[m])
  <2> QED BY <2>2, <2>3
<1>4. ASSUME NEW m, NEW j, Old(m, j), nd2[m][j].child # 0
      PROVE  nd2[m][j].child \in 1..N /\ nd2[m][j].child > m
  BY ONLY <1>2, <1>4, Children(nd) DEF Children
<1>5. Children(nd2)
  <2> SUFFICES ASSUME NEW m \in 1..Len(nd2), NEW j \in 1..Len(nd2[m]), nd2[m][j].child # 0
               PROVE  nd2[m][j].child \in 1..Len(nd2) /\ nd2[m][j].child > m
    BY DEF Children
  <2>1. CASE Old(m, j)
    <3>1. nd2[m][j].child \in 1..N /\ nd2[m][j].child > m
      BY <1>4, <2>1
    <3> QED BY ONLY <1>1, <1>2, <3>1
  <2>2. CASE New(m, j)
    BY ONLY <1>1, <1>2, <2>2
  <2> QED BY <1>3, <2>1, <2>2
<1>6. ASSUME NEW m \in 1..Len(nd2), NEW k \in 1..Len(nd2),
             NEW i \in 1..Len(nd2[m]), NEW j \in 1..Len(nd2[k]),
             nd2[m][i].child # 0, nd2[m][i].child = nd2[k][j].child
      PROVE  m = k /\ i = j
  <2>1. (Old(m, i) \/ New(m, i)) /\ (Old(k, j) \/ New(k, j))
    BY <1>3
  <2>2. ASSUME Old(m, i) PROVE nd2[m][i].child # N + 1
    <3>1. nd2[m][i].child \in 1..N
      BY <1>4, <1>6, <2>2
    <3> QED BY ONLY <1>2, <3>1
  <2>3. ASSUME Old(k, j) PROVE nd2[k][j].child # N + 1
    <3>1. nd2[k][j].child \in 1..N
      BY <1>4, <1>6, <2>3
    <3> QED BY ONLY <1>2, <3>1
  <2>4. CASE Old(m, i) /\ Old(k, j)
    <3>1. nd[m][i].child # 0 /\ nd[m][i].child = nd[k][j].child
      BY ONLY <1>6, <2>4
    <3>2. m \in 1..Len(nd) /\ k \in 1..Len(nd) /\ i \in 1..Len(nd[m]) /\ j \in 1..Len(nd[k])
      BY ONLY <1>2, <2>4
    <3>3. \A i1 \in 1..Len(nd[m]), j1 \in 1..Len(nd[k]) :
            nd[m][i1].child # 0 /\ nd[m][i1].child = nd[k][j1].child => m = k /\ i1 = j1
      BY ONLY <3>2, Parents(nd) DEF Parents
    <3> QED BY ONLY <3>1, <3>2, <3>3
  <2>5. CASE New(m, i) /\ New(k, j)
    BY ONLY <2>5
  <2> HIDE DEF Old
  <2> QED BY ONLY <1>6, <2>1, <2>2, <2>3, <2>4, <2>5
<1>7. Parents(nd2)
  BY ONLY <1>6 DEF Parents
<1> QED BY <1>5, <1>7

-----------------------------------------------------------------------------
(* A statement to which a token can be added has no block yet.             *)
LastBare == last = "NORMAL" => nodes[Top][Len(nodes[Top])].child = 0

Shape == Children(nodes) /\ Parents(nodes) /\ LastBare

(* However the blocks are written out, the first one is what was accepted. *)
Told == \A b : IsTree(nodes, stack, last, b) => b[1] = Uncommented(taken)

(* The tree and the stack, as the lemmas above need them.                  *)
LEMMA TreeFacts ==
    ASSUME TreeInv
    PROVE  /\ nodes \in Seq(Seq(Statement)) /\ stack \in Seq(1..Len(nodes)) /\ stack # <<>>
           /\ Path(nodes, stack) /\ Grows(stack) /\ Top = stack[Len(stack)]
           /\ Top \in 1..Len(nodes) /\ nodes[Top] \in Seq(Statement)
           /\ last = "NORMAL" => Len(nodes[Top]) # 0
<1>1. nodes \in Seq(Seq(Statement)) /\ stack \in Seq(1..Len(nodes)) /\ stack # <<>>
  BY DEF TreeInv, TreeOK
<1>2. Grows(stack) /\ Top = stack[Len(stack)]
  BY DEF TreeInv, StackGrows, Grows, Top
<1>3. Top \in 1..Len(nodes) /\ nodes[Top] \in Seq(Statement)
  BY TopIs
<1>4. last = "NORMAL" => Len(nodes[Top]) # 0
  BY <1>3 DEF TreeInv, StatementsUsable
<1>5. Path(nodes, stack)
  <2>1. stack[1] = 1
    BY DEF TreeInv, StackIsPath
  <2>2. ASSUME NEW k \in 1..(Len(stack) - 1)
        PROVE  /\ Len(nodes[stack[k]]) # 0
               /\ nodes[stack[k]][Len(nodes[stack[k]])].child = stack[k + 1]
    <3>1. nodes[stack[k]] # <<>> /\ Last(nodes[stack[k]]).child = stack[k + 1]
      BY DEF TreeInv, StackIsPath
    <3>2. stack[k] \in 1..Len(nodes)
      BY TopIs
    <3>3. nodes[stack[k]] \in Seq(Statement)
      BY <1>1, <3>2, ElementOfSeq
    <3>4. Len(nodes[stack[k]]) # 0
      BY ONLY <3>1, <3>3
    <3> QED BY ONLY <3>1, <3>4 DEF Last
  <2> QED BY ONLY <2>1, <2>2 DEF Path
<1> QED BY <1>1, <1>2, <1>3, <1>4, <1>5

(* One more token that is not a comment, and one that is.                  *)
LEMMA UncommentedSteps ==
    ASSUME TreeOK, NEW type \in TokenType \cup {"COMMENT"}, NEW v \in Seq(Chars),
           taken' = Append(taken, [type |-> type, value |-> v])
    PROVE  /\ Uncommented(taken) \in Words
           /\ type = "COMMENT" => Uncommented(taken') = Uncommented(taken)
           /\ type # "COMMENT" => Adds(Uncommented(taken'), Uncommented(taken), <<v>>)
<1> DEFINE g(t) == IF t.type = "COMMENT" THEN <<>> ELSE <<t.value>>
           f == [t \in Token |-> g(t)]
           x == [type |-> type, value |-> v]
           W == Seq(Chars)
<1>1. f \in Maps(Token, Seq(W))
  <2>1. \A t \in Token : t.value \in W
    BY DEF Token
  <2>2. <<>> \in Seq(W) /\ \A w \in W : <<w>> \in Seq(W)
    BY Singleton
  <2>3. \A t \in Token : g(t) \in Seq(W)
    BY <2>1, <2>2
  <2> HIDE DEF g, W
  <2> QED BY <2>3 DEF Maps
<1>2. ASSUME NEW s \in Seq(Token) PROVE Uncommented(s) = FlattenSeq(Image(s, f))
  <2>1. \A i \in DOMAIN s : f[s[i]] = g(s[i])
    OBVIOUS
  <2>2. Image(s, f) = [i \in DOMAIN s |-> g(s[i])]
    BY <2>1 DEF Image
  <2> QED BY <2>2 DEF Uncommented
<1>3. taken \in Seq(Token) /\ x \in Token /\ taken' = Append(taken, x)
  BY DEF TreeOK, Token
<1>4. f[x] = IF type = "COMMENT" THEN <<>> ELSE <<v>>
  BY <1>3
<1> HIDE DEF f, x, W
<1>5. /\ FlattenSeq(Image(taken, f)) \in Seq(W)
      /\ FlattenSeq(Image(Append(taken, x), f)) = FlattenSeq(Image(taken, f)) \o f[x]
  <2>1. taken \in Seq(Token) /\ x \in Token
    BY <1>3
  <2> QED BY ONLY <1>1, <2>1, FlattenImage
<1>6. taken' \in Seq(Token)
  BY <1>3
<1>7. /\ Uncommented(taken) \in Seq(W)
      /\ Uncommented(taken') = Uncommented(taken) \o f[x]
  BY ONLY <1>2, <1>3, <1>5, <1>6
<1>8. CASE type = "COMMENT"
  <2>1. Uncommented(taken) \o <<>> = Uncommented(taken)
    <3> DEFINE u == Uncommented(taken)
    <3>1. u \in Seq(W)
      BY <1>7
    <3> HIDE DEF u
    <3>2. u \o <<>> = u
      BY ONLY <3>1
    <3> QED BY <3>2 DEF u
  <2> QED BY ONLY <1>4, <1>7, <1>8, <2>1 DEF Words, W
<1>9. CASE type # "COMMENT"
  BY ONLY <1>4, <1>7, <1>9 DEF Words, W, Adds
<1> QED BY <1>8, <1>9

(* A step that adds a token to every way of writing the blocks out.        *)
LEMMA TokenTold ==
    ASSUME TreeInv, Shape, Told, NEW type \in TokenType, NEW v \in Seq(Chars),
           taken' = Append(taken, [type |-> type, value |-> v]),
           \A b, b2 : IsTree(nodes, stack, last, b) /\ IsTree(nodes', stack', last', b2)
                        => Adds(b2[1], b[1], <<v>>)
    PROVE  Told'
<1> SUFFICES ASSUME NEW b2, IsTree(nodes', stack', last', b2)
             PROVE  b2[1] = Uncommented(taken')
  BY DEF Told
<1>1. PICK b : IsTree(nodes, stack, last, b)
  BY TreeFacts, TreeExists DEF Shape
<1>2. b[1] = Uncommented(taken)
  BY <1>1 DEF Told
<1>3. Adds(b2[1], b[1], <<v>>)
  BY <1>1
<1>4. Adds(Uncommented(taken'), Uncommented(taken), <<v>>)
  <2>1. TreeOK /\ type # "COMMENT"
    BY DEF TreeInv, TokenType
  <2> QED BY <2>1, UncommentedSteps
<1> QED BY ONLY <1>2, <1>3, <1>4 DEF Adds

-----------------------------------------------------------------------------
(* What does not touch the tree.                                           *)
LEMMA SameTold ==
    ASSUME Shape, Told, UNCHANGED <<last, nodes, stack, taken>>
    PROVE  Shape' /\ Told'
<1>1. Top' = Top
  BY DEF Top
<1> QED BY <1>1 DEF Shape, LastBare, Told

(* A comment is not in the tree.                                           *)
LEMMA SkipTold ==
    ASSUME TreeInv, Shape, Told, NEW v \in Seq(Chars), Skip(v)
    PROVE  Shape' /\ Told'
<1>1. /\ taken' = Append(taken, [type |-> "COMMENT", value |-> v])
      /\ UNCHANGED <<last, nodes, stack>>
  BY DEF Skip
<1>2. Top' = Top
  BY <1>1 DEF Top
<1>3. Uncommented(taken') = Uncommented(taken)
  <2>1. TreeOK
    BY DEF TreeInv
  <2> QED BY <1>1, <2>1, UncommentedSteps
<1>4. Shape'
  BY <1>1, <1>2 DEF Shape, LastBare
<1>5. Told'
  BY <1>1, <1>3 DEF Told
<1> QED BY <1>4, <1>5

(* A semicolon ends the last statement.                                    *)
LEMMA EndTold ==
    ASSUME TreeInv, Shape, Told, EndStatement
    PROVE  Shape' /\ Told'
<1>1. CASE Fail
  BY <1>1, SameTold DEF Fail
<1>2. CASE ~ Fail
  <2>1. /\ last = "NORMAL" /\ last' = "STATEMENT_END" /\ UNCHANGED <<nodes, stack>>
        /\ taken' = Append(taken, [type |-> "STATEMENT_END", value |-> <<";">>])
    BY <1>2 DEF EndStatement, Accept
  <2>2. Shape'
    BY <2>1 DEF Shape, LastBare
  <2> DEFINE t == Top
             L == Len(nodes[t])
  <2>3. nodes[t][L].child = 0 /\ L # 0 /\ t = stack[Len(stack)]
    BY <2>1, TreeFacts DEF Shape, LastBare
  <2>4. L = Len(nodes[t])
    OBVIOUS
  <2> HIDE DEF t, L
  <2>5. ASSUME NEW b, NEW b2, IsTree(nodes, stack, last, b),
               IsTree(nodes', stack', last', b2)
        PROVE  Adds(b2[1], b[1], <<<<";">>>>)
    <3>1. IsTree(nodes, stack, "NORMAL", b) /\ IsTree(nodes, stack, last', b2)
      BY <2>1, <2>5
    <3>2. last' # "NORMAL" /\ Children(nodes) /\ Parents(nodes)
      BY <2>1 DEF Shape
    <3> QED BY <2>3, <2>4, <3>1, <3>2, TreeFacts, EndShows
  <2>6. "STATEMENT_END" \in TokenType /\ <<";">> \in Seq(Chars)
    BY CharsAssumption, Singleton DEF TokenType, Symbol
  <2>7. Told'
    BY <2>1, <2>5, <2>6, TokenTold
  <2> QED BY <2>2, <2>7
<1> QED BY <1>1, <1>2

(* A closing brace ends the block that is open.                            *)
LEMMA CloseTold ==
    ASSUME TreeInv, Shape, Told, CloseBlock
    PROVE  Shape' /\ Told'
<1>1. CASE Fail
  BY <1>1, SameTold DEF Fail
<1>2. CASE ~ Fail
  <2>1. /\ last # "NORMAL" /\ last' = "END_BLOCK" /\ nodes' = nodes
        /\ Len(stack) > 1 /\ stack' = SubSeq(stack, 1, Len(stack) - 1)
        /\ taken' = Append(taken, [type |-> "END_BLOCK", value |-> <<"}">>])
    BY <1>2 DEF CloseBlock, Accept
  <2>2. Shape'
    BY <2>1 DEF Shape, LastBare
  <2>3. ASSUME NEW b, NEW b2, IsTree(nodes, stack, last, b),
               IsTree(nodes', stack', last', b2)
        PROVE  Adds(b2[1], b[1], <<<<"}">>>>)
    <3>1. IsTree(nodes, stack, last, b) /\ IsTree(nodes, stack', last', b2)
      BY <2>1, <2>3
    <3>2. last' # "NORMAL" /\ Children(nodes) /\ Parents(nodes)
      BY <2>1 DEF Shape
    <3> QED BY <2>1, <3>1, <3>2, TreeFacts, CloseShows
  <2>4. "END_BLOCK" \in TokenType /\ <<"}">> \in Seq(Chars)
    BY CharsAssumption, Singleton DEF TokenType, Symbol
  <2>5. Told'
    BY <2>1, <2>3, <2>4, TokenTold
  <2> QED BY <2>2, <2>5
<1> QED BY <1>1, <1>2

(* An opening brace gives the last statement a block.                      *)
LEMMA OpenTold ==
    ASSUME TreeInv, TreeInv', Shape, Told, OpenBlock
    PROVE  Shape' /\ Told'
<1>1. CASE Fail
  BY <1>1, SameTold DEF Fail
<1>2. CASE ~ Fail
  <2> DEFINE t == Top
             L == Len(nodes[t])
  <2>1. /\ last = "NORMAL" /\ last' = "START_BLOCK"
        /\ nodes' = Append([nodes EXCEPT ![t][L].child = Len(nodes) + 1], <<>>)
        /\ stack' = Append(stack, Len(nodes) + 1)
        /\ taken' = Append(taken, [type |-> "START_BLOCK", value |-> <<"{">>])
    BY <1>2 DEF OpenBlock, Accept
  <2>2. /\ nodes[t][L].child = 0 /\ L # 0 /\ t = stack[Len(stack)] /\ L = Len(nodes[t])
        /\ t \in 1..Len(nodes)
    BY <2>1, TreeFacts DEF Shape, LastBare
  <2> HIDE DEF t, L
  <2>3. nodes \in Seq(Seq(Statement)) /\ Children(nodes) /\ Parents(nodes)
    BY TreeFacts DEF Shape
  <2>4. Opened(nodes, nodes', t, L)
    BY ONLY <2>1, <2>2, <2>3, OpenedIs
  <2>5. Children(nodes') /\ Parents(nodes')
    BY ONLY <2>2, <2>3, <2>4, OpenedChildren
  <2>6. Shape'
    BY <2>1, <2>5 DEF Shape, LastBare
  <2>7. nodes' \in Seq(Seq(Statement))
    BY DEF TreeInv, TreeOK
  <2>8. ASSUME NEW b, NEW b2, IsTree(nodes, stack, last, b),
               IsTree(nodes', stack', last', b2)
        PROVE  Adds(b2[1], b[1], <<<<"{">>>>)
    <3>1. IsTree(nodes, stack, "NORMAL", b) /\ last' # "NORMAL"
      BY <2>1, <2>8
    <3>2. /\ stack \in Seq(1..Len(nodes)) /\ stack # <<>>
          /\ Path(nodes, stack) /\ Grows(stack)
      BY TreeFacts
    <3>3. Pushed(stack, stack', Len(nodes) + 1)
      BY <2>1 DEF Pushed
    <3> QED BY ONLY <2>2, <2>3, <2>4, <2>5, <2>7, <2>8, <3>1, <3>2, <3>3, OpenShows
  <2>9. "START_BLOCK" \in TokenType /\ <<"{">> \in Seq(Chars)
    BY CharsAssumption, Singleton DEF TokenType, Symbol
  <2>10. Told'
    BY <2>1, <2>8, <2>9, TokenTold
  <2> QED BY <2>6, <2>10
<1> QED BY <1>1, <1>2

(* A token begins a statement or is added to the last one.                 *)
LEMMA PushTold ==
    ASSUME TreeInv, TreeInv', Shape, Told, NEW v \in Seq(Chars), PushToken(v)
    PROVE  Shape' /\ Told'
<1> DEFINE t == Top
           L == Len(nodes[t])
<1>1. /\ last' = "NORMAL" /\ stack' = stack
      /\ taken' = Append(taken, [type |-> "NORMAL", value |-> v])
  BY DEF PushToken, Accept
<1>2. /\ nodes \in Seq(Seq(Statement)) /\ Children(nodes) /\ Parents(nodes)
      /\ stack \in Seq(1..Len(nodes)) /\ stack # <<>> /\ Path(nodes, stack) /\ Grows(stack)
      /\ t = stack[Len(stack)] /\ t \in 1..Len(nodes) /\ L = Len(nodes[t])
  BY TreeFacts DEF Shape
<1>3. nodes' \in Seq(Seq(Statement)) /\ Top' = t
  BY <1>1 DEF TreeInv, TreeOK, Top
<1>4. "NORMAL" \in TokenType
  BY DEF TokenType
<1>5. CASE last # "NORMAL"
  <2> DEFINE s == NewStatement(<<v>>)
  <2>1. s \in Statement /\ s.child = 0
    BY DEF NewStatement, Statement
  <2>2. nodes' = [nodes EXCEPT ![t] = Append(@, s)]
    BY <1>5 DEF PushToken
  <2> HIDE DEF t, L, s
  <2>3. Started(nodes, nodes', t, s)
    BY ONLY <1>2, <2>1, <2>2, StartedIs
  <2>4. Children(nodes') /\ Parents(nodes')
    BY ONLY <1>2, <2>1, <2>3, StartedChildren
  <2>5. Shape'
    <3>1. nodes'[t][Len(nodes'[t])].child = 0
      BY ONLY <2>1, <2>3 DEF Started
    <3> QED BY <1>3, <2>4, <3>1 DEF Shape, LastBare
  <2>6. ASSUME NEW b, NEW b2, IsTree(nodes, stack, last, b),
               IsTree(nodes', stack', last', b2)
        PROVE  Adds(b2[1], b[1], <<v>>)
    <3>1. IsTree(nodes', stack, "NORMAL", b2)
      BY <1>1, <2>6
    <3>2. Started(nodes, nodes', t, NewStatement(<<v>>))
      BY <2>3 DEF s
    <3> QED BY ONLY <1>2, <1>3, <1>5, <2>4, <2>6, <3>1, <3>2, v \in Seq(Chars), NewShows
  <2>7. Told'
    BY <1>1, <1>4, <2>6, TokenTold
  <2> QED BY <2>5, <2>7
<1>6. CASE last = "NORMAL"
  <2>1. nodes' = [nodes EXCEPT ![t][L].tokens = Append(@, v)]
    BY <1>6 DEF PushToken
  <2>2. nodes[t][L].child = 0 /\ L # 0
    BY <1>6, TreeFacts DEF Shape, LastBare
  <2> HIDE DEF t, L
  <2>3. Appended(nodes, nodes', t, L, v)
    BY ONLY <1>2, <2>1, <2>2, v \in Seq(Chars), AppendedIs
  <2>4. Children(nodes') /\ Parents(nodes')
    BY ONLY <1>2, <2>3, AppendedChildren
  <2>5. Shape'
    <3>1. nodes'[t][Len(nodes'[t])].child = 0
      BY ONLY <2>2, <2>3 DEF Appended, OneChange
    <3> QED BY <1>3, <2>4, <3>1 DEF Shape, LastBare
  <2>6. ASSUME NEW b, NEW b2, IsTree(nodes, stack, last, b),
               IsTree(nodes', stack', last', b2)
        PROVE  Adds(b2[1], b[1], <<v>>)
    <3>1. IsTree(nodes', stack, "NORMAL", b2) /\ IsTree(nodes, stack, "NORMAL", b)
      BY <1>1, <1>6, <2>6
    <3> QED BY ONLY <1>2, <1>3, <2>2, <2>3, <2>4, <3>1, v \in Seq(Chars), AppendShows
  <2>7. Told'
    BY <1>1, <1>4, <2>6, TokenTold
  <2> QED BY <2>5, <2>7
<1> QED BY <1>5, <1>6

-----------------------------------------------------------------------------
(* Every step keeps the tree and its text together.                        *)
LEMMA ToldNext == ParserInv /\ ParserInv' /\ Shape /\ Told /\ [Next]_vars => Shape' /\ Told'
<1> SUFFICES ASSUME ParserInv, ParserInv', Shape, Told, [Next]_vars
             PROVE  Shape' /\ Told'
  OBVIOUS
<1>1. TreeInv /\ TreeInv' /\ value \in Seq(Chars)
  BY DEF ParserInv, ReaderOK
<1>2. ASSUME NEW st, NEW v, Continue(st, v) PROVE Shape' /\ Told'
  BY <1>2, SameTold DEF Continue, treeVars
<1>3. ASSUME NEW c \in Chars, ReadBlank(c) \/ ReadFirst(c) PROVE Shape' /\ Told'
  BY <1>2, <1>3 DEF ReadBlank, ReadFirst
<1>4. ASSUME NEW c \in Chars, ReadSymbol(c) PROVE Shape' /\ Told'
  BY <1>1, <1>4, EndTold, OpenTold, CloseTold DEF ReadSymbol
<1>5. ASSUME NEW c \in Chars, ReadQuoted(c) PROVE Shape' /\ Told'
  <2>1. Append(value, c) \in Seq(Chars)
    BY <1>1, AppendIs
  <2> QED BY <1>1, <1>2, <1>5, <2>1, PushTold DEF ReadQuoted
<1>6. ASSUME NEW c \in Chars, ReadComment(c) PROVE Shape' /\ Told'
  BY <1>1, <1>2, <1>6, SkipTold DEF ReadComment
<1>7. ASSUME NEW c \in Chars, ReadNormal(c) PROVE Shape' /\ Told'
  BY <1>1, <1>2, <1>7, PushTold DEF ReadNormal
<1>8. CASE ReadEnd
  BY <1>8, SameTold DEF ReadEnd, Fail, Finish
<1>9. CASE OpenFails
  BY <1>9, SameTold DEF OpenFails
<1>10. CASE UNCHANGED vars
  BY <1>10, SameTold DEF vars
<1> QED BY <1>3, <1>4, <1>5, <1>6, <1>7, <1>8, <1>9, <1>10 DEF Next

(* NodeText writes the blocks out as IsTree does.                          *)
LEMMA ToldIsText ==
    ASSUME TreeInv, Shape, Told
    PROVE  TreeIsText
<1> DEFINE Body(b) ==
             [m \in 1..Len(nodes) |->
                FlattenSeq([j \in DOMAIN nodes[m] |-> StatementText(m, j, b)])]
           block == CHOOSE b : b = Body(b)
<1>1. ASSUME NEW b
      PROVE  Body(b) = [m \in 1..Len(nodes) |-> BlockText(nodes, stack, last, m, b)]
  <2>1. ASSUME NEW m, NEW j
        PROVE  StatementText(m, j, b) = Written(nodes, stack, last, m, j, b)
    BY DEF StatementText, Written, Closing, Ending, Top
  <2>2. ASSUME NEW m
        PROVE  [j \in DOMAIN nodes[m] |-> StatementText(m, j, b)]
                 = Parts(nodes, stack, last, m, b)
    BY <2>1 DEF Parts
  <2> QED BY <2>2 DEF BlockText
<1>2. \E b : b = Body(b)
  <2>1. PICK b : IsTree(nodes, stack, last, b)
    BY TreeFacts, TreeExists DEF Shape
  <2>2. b = Body(b)
    BY <1>1, <2>1 DEF IsTree
  <2> QED BY <2>2
<1>3. block = Body(block)
  <2> HIDE DEF Body
  <2> QED BY <1>2
<1>4. NodeText(1) = block[1]
  BY DEF NodeText
<1> HIDE DEF block
<1>5. IsTree(nodes, stack, last, block)
  BY <1>1, <1>3 DEF IsTree
<1> QED BY <1>4, <1>5 DEF Told, TreeIsText

(* The tree, written out, is the tokens that Parse has accepted, however   *)
(* long the file is and however deep its blocks are: no token is lost, and *)
(* none is in the wrong statement or block, also in the tree that is left  *)
(* by an error.                                                            *)
THEOREM TreeAlwaysText == Spec => []TreeIsText
<1>1. Init => Shape /\ Told
  <2> SUFFICES ASSUME Init PROVE Shape /\ Told
    OBVIOUS
  <2>1. Len(nodes) = 1 /\ nodes[1] = <<>> /\ last = "START" /\ taken = <<>>
    BY DEF Init
  <2>2. \A m \in 1..Len(nodes) : Len(nodes[m]) = 0
    BY <2>1
  <2>3. Shape
    BY <2>1, <2>2 DEF Shape, Children, Parents, LastBare
  <2>4. ASSUME NEW b, IsTree(nodes, stack, last, b) PROVE b[1] = Uncommented(taken)
    <3>1. b[1] = BlockText(nodes, stack, last, 1, b)
      BY <2>1, <2>4 DEF IsTree
    <3>2. Parts(nodes, stack, last, 1, b) = <<>>
      BY ONLY <2>1 DEF Parts
    <3>3. Uncommented(taken) = FlattenSeq(<<>>)
      BY ONLY <2>1 DEF Uncommented
    <3> QED BY ONLY <3>1, <3>2, <3>3 DEF BlockText
  <2> QED BY <2>3, <2>4 DEF Told
<1>2. ParserInv /\ Shape /\ Told => TreeIsText
  BY ToldIsText DEF ParserInv
<1> QED BY <1>1, <1>2, ToldNext, ParserInvariant, PTL DEF Spec
=============================================================================
