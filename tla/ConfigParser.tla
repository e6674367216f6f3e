---------------------------- MODULE ConfigParser ----------------------------
(***************************************************************************)
(* config_parser.cc: from the characters of a configuration file to a tree *)
(* of statements.  ParseToken takes one step per character; a step that    *)
(* completes a token includes what Parse does with it.                     *)
(*                                                                         *)
(* A character stands for itself, "a" for any character without a meaning  *)
(* of its own.  The NginxConfigs of the tree are numbered in the order of  *)
(* their creation, and a pointer to one is its number.                     *)
(***************************************************************************)
EXTENDS Integers, Sequences, SequencesExt

CONSTANTS
    Chars,          \* the characters
    Readable(_)     \* bound: the texts of files, and their prefixes

VARIABLES
    text,    \* what has been read of the file
    pos,     \* how much of that has been consumed (unget: all but one)
    state,   \* TokenParserState; a quote for the two kinds of quoted token
    value,   \* ParseToken's *value
    last,    \* last_token_type
    nodes,   \* nodes[n]: the statements of the n-th NginxConfig; the first
             \* one is the caller's
    stack,   \* config_stack, the top last
    result,  \* what Parse has returned: "none", "true" or "false"
    taken    \* history variable: the tokens that Parse has accepted, comments
             \* included

vars == <<text, pos, state, value, last, nodes, stack, result, taken>>

-----------------------------------------------------------------------------
Blank == {"SP", "HT", "LF", "CR"}
Quote == {"'", "''"}                    \* single and double
Symbol == {";", "{", "}"}
Newline == {"LF", "CR"}

(* What ends an unquoted token.  CR does not: the code tests for HT twice. *)
Delimiter == {"SP", "HT", "LF"} \cup Symbol

ASSUME CharsAssumption == Symbol \subseteq Chars

TokenType == {"START", "NORMAL", "START_BLOCK", "END_BLOCK", "STATEMENT_END"}

Statement == [tokens : Seq(Seq(Chars)), child : Nat]

Top == stack[Len(stack)]

Init ==
    /\ text = <<>> /\ pos = 0
    /\ state = "initial" /\ value = <<>>
    /\ last = "START"
    /\ nodes = << <<>> >> /\ stack = <<1>>
    /\ result = "none"
    /\ taken = <<>>

-----------------------------------------------------------------------------
(* Parse: what a token does to the tree.                                   *)

treeVars == <<last, nodes, stack, result, taken>>

Accept(type, v) ==
    /\ last' = type
    /\ taken' = Append(taken, [type |-> type, value |-> v])

(* Parse returns false; whatever is in the tree stays there.               *)
Fail ==
    /\ result' = "false"
    /\ UNCHANGED <<last, nodes, stack, taken>>

Skip(v) ==
    /\ taken' = Append(taken, [type |-> "COMMENT", value |-> v])
    /\ UNCHANGED <<last, nodes, stack, result>>

NewStatement(tokens) == [tokens |-> tokens, child |-> 0]

(* A token begins a statement or belongs to the last one.                  *)
PushToken(v) ==
    /\ nodes' =
         IF last # "NORMAL"
         THEN [nodes EXCEPT ![Top] = Append(@, NewStatement(<<v>>))]
         ELSE [nodes EXCEPT ![Top][Len(nodes[Top])].tokens = Append(@, v)]
    /\ Accept("NORMAL", v)
    /\ UNCHANGED <<stack, result>>

EndStatement ==
    \/ /\ last = "NORMAL"
       /\ Accept("STATEMENT_END", <<";">>)
       /\ UNCHANGED <<nodes, stack, result>>
    \/ last # "NORMAL" /\ Fail

(* Mutant: the type of the token is not remembered.                        *)
OpenBlockForgets ==
    \/ /\ last = "NORMAL"
       /\ nodes' = Append([nodes EXCEPT ![Top][Len(nodes[Top])].child = Len(nodes) + 1],
                          <<>>)
       /\ stack' = Append(stack, Len(nodes) + 1)
       /\ taken' = Append(taken, [type |-> "START_BLOCK", value |-> <<"{">>])
       /\ UNCHANGED <<last, result>>
    \/ last # "NORMAL" /\ Fail

(* Mutant: the new block is not made the child of its statement.           *)
OpenBlockDetached ==
    \/ /\ last = "NORMAL"
       /\ nodes' = Append(nodes, <<>>)
       /\ stack' = Append(stack, Len(nodes) + 1)
       /\ Accept("START_BLOCK", <<"{">>)
       /\ UNCHANGED result
    \/ last # "NORMAL" /\ Fail

OpenBlock ==
    \/ /\ last = "NORMAL"
       /\ nodes' = Append([nodes EXCEPT ![Top][Len(nodes[Top])].child = Len(nodes) + 1],
                          <<>>)
       /\ stack' = Append(stack, Len(nodes) + 1)
       /\ Accept("START_BLOCK", <<"{">>)
       /\ UNCHANGED result
    \/ last # "NORMAL" /\ Fail

(* Mutant: a brace too many pops the stack all the same.                   *)
CloseBlockUnchecked ==
    \/ /\ last \in {"STATEMENT_END", "END_BLOCK", "START_BLOCK"}
       /\ stack' = SubSeq(stack, 1, Len(stack) - 1)
       /\ Accept("END_BLOCK", <<"}">>)
       /\ UNCHANGED <<nodes, result>>
    \/ last \notin {"STATEMENT_END", "END_BLOCK", "START_BLOCK"} /\ Fail

(* Mutant: the stack is not popped.                                        *)
CloseBlockStays ==
    \/ /\ last \in {"STATEMENT_END", "END_BLOCK", "START_BLOCK"}
       /\ Len(stack) > 1
       /\ Accept("END_BLOCK", <<"}">>)
       /\ UNCHANGED <<nodes, stack, result>>
    \/ /\ \/ last \notin {"STATEMENT_END", "END_BLOCK", "START_BLOCK"}
          \/ Len(stack) <= 1
       /\ Fail

CloseBlock ==
    \/ /\ last \in {"STATEMENT_END", "END_BLOCK", "START_BLOCK"}
       /\ Len(stack) > 1
       /\ stack' = SubSeq(stack, 1, Len(stack) - 1)
       /\ Accept("END_BLOCK", <<"}">>)
       /\ UNCHANGED <<nodes, result>>
    \/ /\ \/ last \notin {"STATEMENT_END", "END_BLOCK", "START_BLOCK"}
          \/ Len(stack) <= 1
       /\ Fail

Finish ==
    \/ /\ last \in {"STATEMENT_END", "END_BLOCK"}
       /\ Len(stack) = 1
       /\ result' = "true"
       /\ UNCHANGED <<last, nodes, stack, taken>>
    \/ /\ last \notin {"STATEMENT_END", "END_BLOCK"} \/ Len(stack) # 1
       /\ Fail

-----------------------------------------------------------------------------
(* ParseToken.  The next character of the file, or the one put back.       *)
Get(c) ==
    /\ result = "none"
    /\ \/ pos < Len(text) /\ c = text[pos + 1] /\ UNCHANGED text
       \/ pos = Len(text) /\ text' = Append(text, c) /\ Readable(text')

Consume == pos' = pos + 1

(* The token goes on, in state st.                                         *)
Continue(st, v) ==
    /\ Consume
    /\ state' = st
    /\ value' = v
    /\ UNCHANGED treeVars

(* ParseToken returns; the next call starts with an empty string.          *)
Return ==
    /\ state' = "initial"
    /\ value' = <<>>

ReadBlank(c) ==
    /\ state = "initial" /\ c \in Blank
    /\ Get(c)
    /\ Continue("initial", value)

ReadSymbol(c) ==
    /\ state = "initial" /\ c \in Symbol
    /\ Get(c)
    /\ Consume
    /\ Return
    /\ \/ c = ";" /\ EndStatement
       \/ c = "{" /\ OpenBlock
       \/ c = "}" /\ CloseBlock

(* A comment, a quoted or an unquoted token begins.                        *)
ReadFirst(c) ==
    /\ state = "initial" /\ c \notin Blank \cup Symbol
    /\ Get(c)
    /\ \/ c = "#" /\ Continue("comment", <<c>>)
       \/ c \in Quote /\ Continue(c, <<c>>)
       \/ c \notin Quote \cup {"#"} /\ Continue("normal", Append(value, c))

ReadQuoted(c) ==
    /\ state \in Quote
    /\ Get(c)
    /\ \/ c # state /\ Continue(state, Append(value, c))
       \/ c = state /\ Consume /\ Return /\ PushToken(Append(value, c))

ReadComment(c) ==
    /\ state = "comment"
    /\ Get(c)
    /\ \/ c \notin Newline /\ Continue(state, Append(value, c))
       \/ c \in Newline /\ Consume /\ Return /\ Skip(value)

(* Mutant: the character after the token is not put back.                  *)
ReadNormalNoUnget(c) ==
    /\ state = "normal"
    /\ Get(c)
    /\ \/ c \notin Delimiter /\ Continue(state, Append(value, c))
       \/ c \in Delimiter /\ Consume /\ Return /\ PushToken(value)

(* The character after the token is put back.                              *)
ReadNormal(c) ==
    /\ state = "normal"
    /\ Get(c)
    /\ \/ c \notin Delimiter /\ Continue(state, Append(value, c))
       \/ c \in Delimiter /\ UNCHANGED pos /\ Return /\ PushToken(value)

(* The end of the file is an error only within quotes: a comment or an     *)
(* unquoted token that is not finished is dropped.                         *)
ReadEnd ==
    /\ result = "none"
    /\ pos = Len(text)
    /\ \/ state \in Quote /\ Fail
       \/ state \notin Quote /\ Finish
    /\ UNCHANGED <<text, pos, state, value>>

(* The file cannot be opened.                                              *)
OpenFails ==
    /\ result = "none"
    /\ text = <<>>
    /\ result' = "false"
    /\ UNCHANGED <<text, pos, state, value, last, nodes, stack, taken>>

Next ==
    \/ \E c \in Chars :
         \/ ReadBlank(c) \/ ReadSymbol(c) \/ ReadFirst(c)
         \/ ReadQuoted(c) \/ ReadComment(c) \/ ReadNormal(c)
    \/ ReadEnd
    \/ OpenFails

Spec == Init /\ [][Next]_vars

-----------------------------------------------------------------------------
(* Type correctness; config_stack, whose top is used at every token, is    *)
(* never empty.                                                            *)
ReaderOK ==
    /\ text \in Seq(Chars)
    /\ pos \in Nat /\ pos <= Len(text) /\ Len(text) <= pos + 1
    /\ state \in {"initial", "normal", "comment"} \cup Quote
    /\ value \in Seq(Chars)

TreeOK ==
    /\ last \in TokenType
    /\ nodes \in Seq(Seq(Statement)) /\ nodes # <<>>
    /\ stack \in Seq(1..Len(nodes)) /\ stack # <<>>
    /\ result \in {"none", "true", "false"}
    /\ taken \in Seq([type : TokenType \cup {"COMMENT"}, value : Seq(Chars)])

TypeOK == ReaderOK /\ TreeOK

(* The stack is the path from the caller's NginxConfig to the open block:  *)
(* each block on it is the child of the last statement of the one below,   *)
(* so a closing brace leads back to the block that the open one is in.     *)
StackIsPath ==
    /\ stack[1] = 1
    /\ \A k \in 1..(Len(stack) - 1) :
         /\ nodes[stack[k]] # <<>>
         /\ Last(nodes[stack[k]]).child = stack[k + 1]

(* statements.back() exists whenever a token is added to a statement or a  *)
(* block opened for it; no statement is without a token and no token is    *)
(* empty.  The readers of the tree rely on it, also of the one that a      *)
(* failed Parse leaves, as NginxServerConfigParser ignores its result.     *)
StatementsUsable ==
    /\ last = "NORMAL" => nodes[Top] # <<>>
    /\ \A n \in DOMAIN nodes : \A j \in DOMAIN nodes[n] :
         /\ nodes[n][j].tokens # <<>>
         /\ \A k \in DOMAIN nodes[n][j].tokens : nodes[n][j].tokens[k] # <<>>

-----------------------------------------------------------------------------
(* The tokens of a statement and of what is in its block, as they stand in *)
(* a file.  What is still open has no end yet.                             *)
StatementText(n, j, block) ==
    LET s == nodes[n][j]
    IN  s.tokens
          \o (IF s.child # 0
              THEN <<<<"{">>>> \o block[s.child]
                     \o (IF s.child \in Range(stack) THEN <<>> ELSE <<<<"}">>>>)
              ELSE IF last = "NORMAL" /\ n = Top /\ j = Len(nodes[n])
                   THEN <<>>
                   ELSE <<<<";">>>>)

(* Children have greater numbers than the blocks they are in.              *)
NodeText(n) ==
    LET block[m \in 1..Len(nodes)] ==
          FlattenSeq([j \in DOMAIN nodes[m] |-> StatementText(m, j, block)])
    IN  block[n]

Uncommented(tokens) ==
    FlattenSeq([i \in DOMAIN tokens |->
                  IF tokens[i].type = "COMMENT" THEN <<>> ELSE <<tokens[i].value>>])

(* At every moment the tree, written out, is the tokens accepted so far:   *)
(* none is lost, none is in the wrong statement or block.  The tree that   *)
(* an error leaves is what was accepted before it; the tree of a file that *)
(* Parse returned true for is its tokens, but for an unquoted one that the *)
(* end of the file cuts off, which is never accepted ("a;a" is "a;").      *)
TreeIsText == NodeText(1) = Uncommented(taken)

Visible(s) == FlattenSeq([i \in DOMAIN s |-> IF s[i] \in Blank THEN <<>> ELSE <<s[i]>>])

AcceptedText == FlattenSeq([i \in DOMAIN taken |-> taken[i].value])

(* Every character that was consumed and is not white space is in a token  *)
(* that was accepted or in the one that is being read, once and in order,  *)
(* although ParseToken puts characters back.  Of a file that Parse returns *)
(* true for, the latter is all that can be missing from the tree.          *)
NothingLost ==
    result # "false" => Visible(SubSeq(text, 1, pos)) = Visible(AcceptedText \o value)
=============================================================================
