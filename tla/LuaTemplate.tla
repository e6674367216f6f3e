---------------------------- MODULE LuaTemplate ----------------------------
(***************************************************************************)
(* do_lua of static_file_handler.cc: a page with Lua in it is translated,  *)
(* character by character, into a Lua script that is then run.  The text   *)
(* of the page becomes put([[text]]), <?lua chunk ?> and <% chunk %> are   *)
(* copied, and <?lua= expression ?> and <%= expression %> become           *)
(* put(expression).                                                        *)
(*                                                                         *)
(* The states of the program come in pairs, one for each kind of tag, and  *)
(* those of chunks and expressions are alike; here the kind is kept beside *)
(* the state.  A page is a sequence of elements, and what do_lua reads is  *)
(* their source; so the page itself says what should be made of it.        *)
(***************************************************************************)
EXTENDS Integers, Sequences, SequencesExt

CONSTANTS
    Characters,  \* the characters of pages; "SP" and "LF" are the blanks, "DQ" is "
    Pages        \* the pages: sequences of elements

(* An element: text, or a tag with what is in it.  "form" is the character *)
(* that the tag opens and closes with; a tag that is not closed ends the   *)
(* page.                                                                   *)
Kinds == {"text", "chunk", "expression"}
Forms == {"?", "%"}

Blank == {"SP", "LF"}

(* What the translation adds to a script; "put)" is the parenthesis that   *)
(* closes the call that "put(" opens.  Everything else is a character.     *)
Pieces == {"put([[", "]])", "put(", "put)"}

(* The characters that the translation looks for.                          *)
Special ==
    Forms \cup Blank \cup {"<", "=", ">", "l", "u", "a", "[", "]", "\\", "'", "DQ"}

(* What Lua takes to be more than a character is not among them: "-" could *)
(* begin a comment, which swallows what follows it; Lua reads "CR" in text *)
(* as a line feed; and "NUL" ends the script, which it is given by c_str().*)
ASSUME CharactersAssumption ==
    /\ Special \subseteq Characters
    /\ Characters \cap (Pieces \cup {"-", "CR", "NUL"}) = {}

(* How a tag begins.                                                       *)
Opening(kind, form) ==
    (IF form = "?" THEN <<"<", "?", "l", "u", "a">> ELSE <<"<", "%">>)
      \o (IF kind = "expression" THEN <<"=">> ELSE <<>>)

(* Text: no tag begins in it.                                              *)
NoTagIn(t) ==
    \A k \in {"chunk", "expression"}, f \in Forms, i \in DOMAIN t, b \in Blank :
        ~ IsPrefix(Opening(k, f) \o <<b>>, SubSeq(t, i, Len(t)))

Element == [kind : Kinds, form : Forms, closed : BOOLEAN, inner : Seq(Characters)]

ASSUME PagesAssumption ==
    \A p \in Pages :
        /\ p \in Seq(Element)
        /\ \A i \in DOMAIN p : /\ p[i].kind = "text" => NoTagIn(p[i].inner)
                               /\ ~ p[i].closed => p[i].kind # "text" /\ i = Len(p)

VARIABLES
    page,    \* the page
    file,    \* its source
    pos,     \* the position in it of the next character
    s,       \* the state, and the kind and form of the tag it is about
    lua,     \* the script: characters and pieces
    code,    \* 0, or the status of the response
    body     \* what the script has put, the value of an expression as "value"

vars == <<page, file, pos, s, lua, code, body>>

Source(e) ==
    IF e.kind = "text" THEN e.inner
    ELSE Opening(e.kind, e.form) \o <<"SP">> \o e.inner
           \o (IF e.closed THEN <<"SP", e.form, ">">> ELSE <<>>)

Init ==
    /\ page \in Pages
    /\ file = FlattenSeq([i \in DOMAIN page |-> Source(page[i])])
    /\ pos = 1
    /\ s = [at |-> "start", kind |-> "chunk", form |-> "?"]
    /\ lua = <<"put([[">>
    /\ code = 0
    /\ body = <<>>

-----------------------------------------------------------------------------
In(A) == code = 0 /\ s.at \in A /\ pos <= Len(file)
c == file[pos]

To(at) == s' = [s EXCEPT !.at = at]

(* lua += t, with next true: the character is done with.                   *)
Emit(t) ==
    /\ lua' = lua \o t
    /\ pos' = pos + 1
    /\ UNCHANGED <<page, file, code, body>>

(* lua += t, with next false: the character is looked at once more.        *)
EmitAgain(t) ==
    /\ lua' = lua \o t
    /\ UNCHANGED <<page, file, pos, code, body>>

(* _start and _start_ignore_immediate_newline, which differ in name only:  *)
(* it is Lua that ignores a line feed behind "[[".                         *)
Text ==
    /\ In({"start", "ignore_newline"})
    /\ \/ c = "<" /\ To("expecting_question_mark") /\ Emit(<<>>)
       \/ c \in {"[", "]"} /\ To("start") /\ Emit(<<"\\", c>>)
       \/ c \notin {"<", "[", "]"} /\ To("start") /\ Emit(<<c>>)

(* It was no tag: t, which has been read, is text.                         *)
NoTag(t) == To("start") /\ EmitAgain(t)

ExpectingQuestionMark ==
    /\ In({"expecting_question_mark"})
    /\ \/ c = "?" /\ s' = [s EXCEPT !.at = "expecting_l", !.form = c] /\ Emit(<<>>)
       \/ c = "%" /\ s' = [s EXCEPT !.at = "expecting_space_1", !.form = c] /\ Emit(<<>>)
       \/ c \notin Forms /\ NoTag(<<"<">>)

(* The letters of "lua": the state, its letter, the next state, and what   *)
(* has been read before.                                                   *)
Letters ==
    {<<"expecting_l", "l", "expecting_u", <<"<", "?">>>>,
     <<"expecting_u", "u", "expecting_a", <<"<", "?", "l">>>>,
     <<"expecting_a", "a", "expecting_space_1", <<"<", "?", "l", "u">>>>}

ExpectingLetter ==
    \E l \in Letters :
        /\ In({l[1]})
        /\ \/ c = l[2] /\ To(l[3]) /\ Emit(<<>>)
           \/ c # l[2] /\ NoTag(l[4])

ExpectingSpace1 ==
    /\ In({"expecting_space_1"})
    /\ \/ /\ c \in Blank
          /\ s' = [s EXCEPT !.at = "code", !.kind = "chunk"]
          /\ Emit(<<"]])", c>>)
       \/ c = "=" /\ To("expecting_space_2") /\ Emit(<<>>)
       \/ c \notin Blank \cup {"="} /\ NoTag(Opening("chunk", s.form))

(* Mutant: the call of put is not opened.                                  *)
ExpectingSpace2NoPut ==
    /\ In({"expecting_space_2"})
    /\ \/ /\ c \in Blank
          /\ s' = [s EXCEPT !.at = "code", !.kind = "expression"]
          /\ Emit(<<"]])", c>>)
       \/ c \notin Blank /\ NoTag(Opening("expression", s.form))

(* "<?lua=" without a blank is written back without its question mark.     *)
ExpectingSpace2 ==
    /\ In({"expecting_space_2"})
    /\ \/ /\ c \in Blank
          /\ s' = [s EXCEPT !.at = "code", !.kind = "expression"]
          /\ Emit(<<"]])", c, "put(">>)
       \/ /\ c \notin Blank
          /\ NoTag(IF s.form = "?" THEN <<"<", "l", "u", "a", "=">> ELSE <<"<", "%", "=">>)

(* _chunk, _expression: outside of a string.                               *)
Code ==
    /\ In({"code"})
    /\ To(CASE c = "'" -> "single_quote" [] c = "DQ" -> "double_quote"
            [] c \in Blank -> "whitespace" [] OTHER -> "code")
    /\ Emit(<<c>>)

(* Mutant: the state is not left.                                          *)
WhitespaceStays ==
    /\ In({"whitespace"})
    /\ \/ c = s.form /\ To("question_mark") /\ Emit(<<>>)
       \/ c \in Blank /\ UNCHANGED s /\ Emit(<<c>>)
       \/ c \notin Blank \cup {s.form} /\ UNCHANGED s /\ EmitAgain(<<>>)

Whitespace ==
    /\ In({"whitespace"})
    /\ \/ c = s.form /\ To("question_mark") /\ Emit(<<>>)
       \/ c \in Blank /\ UNCHANGED s /\ Emit(<<c>>)
       \/ c \notin Blank \cup {s.form} /\ To("code") /\ EmitAgain(<<>>)

(* Mutant: a backslash in a string is like any other character.            *)
QuotedNoEscape ==
    \E q \in {<<"single_quote", "'">>, <<"double_quote", "DQ">>} :
        /\ In({q[1]})
        /\ To(IF c = q[2] THEN "code" ELSE q[1])
        /\ Emit(<<c>>)

(* In a string, and behind a backslash in one.                             *)
Quoted ==
    \E q \in {<<"single_quote", "'", "single_quote_escape">>,
              <<"double_quote", "DQ", "double_quote_escape">>} :
        /\ \/ In({q[1]}) /\ To(IF c = q[2] THEN "code" ELSE IF c = "\\" THEN q[3] ELSE q[1])
           \/ In({q[3]}) /\ To(q[1])
        /\ Emit(<<c>>)

(* The tag may end: the call of put is closed before the last character of *)
(* the script, and text follows.                                           *)
QuestionMark ==
    /\ In({"question_mark"})
    /\ \/ /\ c = ">"
          /\ To("ignore_newline")
          /\ pos' = pos + 1
          /\ lua' = (IF s.kind = "expression" THEN InsertAt(lua, Len(lua), "put)") ELSE lua)
                      \o <<"put([[">>
          /\ UNCHANGED <<page, file, code, body>>
       \/ c # ">" /\ To("code") /\ EmitAgain(<<s.form>>)

-----------------------------------------------------------------------------
(* External: how Lua reads a script.  The "]])" behind i ends a text: it   *)
(* is the first one behind a "put([[".                                     *)
TextUpTo(script, i) ==
    \E j \in 1..i : script[j] = "put([[" /\ \A k \in j..i : script[k] # "]])"

(* A text begins behind "[[", less a line feed there, and ends at the      *)
(* first "]]": a "]" right before its "]])" makes an end too early.        *)
(* Backslashes mean nothing in it.  Code that is not followed by "put([["  *)
(* is cut off by the "]])" at the end of the script, which can only be     *)
(* Lua if it closes brackets of that code, as in put(t[t[1]]).             *)
Loads(script) ==
    /\ \A i \in 1..(Len(script) - 1) :
         script[i] = "]" /\ script[i + 1] = "]])" => ~ TextUpTo(script, i)
    /\ \A i \in DOMAIN script : script[i] = "]])" /\ i < Len(script) =>
         \E j \in (i + 1)..Len(script) :
             /\ script[j] \in {"put([[", "["}
             /\ \A k \in (i + 1)..(j - 1) : script[k] # "]])"

(* What running it puts, one statement after the other: out, and whether   *)
(* what comes next is text.  The code of a page does not jump: no loop or  *)
(* condition of it goes on behind the tag.                                 *)
Statement(r, script, i) ==
    CASE script[i] = "put([[" -> [r EXCEPT !.text = TRUE]
      [] script[i] = "]])"    -> [r EXCEPT !.text = FALSE]
      [] script[i] = "put("   -> [r EXCEPT !.out = Append(@, "value")]
      [] script[i] \in Characters /\ r.text /\ ~ (script[i] = "LF" /\ script[i - 1] = "put([[")
                              -> [r EXCEPT !.out = Append(@, script[i])]
      [] OTHER                -> r

Running(script) ==
    LET run[i \in 0..Len(script)] ==
          IF i = 0 THEN [out |-> <<>>, text |-> FALSE] ELSE Statement(run[i - 1], script, i)
    IN  run

Puts(script) == Running(script)[Len(script)].out

(* The end of the file: the last text is closed and the script is run.  It *)
(* may also fail while it runs.                                            *)
RunLua ==
    /\ code = 0 /\ pos > Len(file)
    /\ lua' = Append(lua, "]])")
    /\ \/ /\ Loads(lua')
          /\ body' = Puts(lua')
          /\ code' = 200
       \/ code' = 500 /\ UNCHANGED body
    /\ UNCHANGED <<page, file, pos, s>>

Next ==
    \/ Text \/ ExpectingQuestionMark \/ ExpectingLetter \/ ExpectingSpace1
    \/ ExpectingSpace2 \/ Code \/ Whitespace \/ Quoted \/ QuestionMark \/ RunLua

Spec == Init /\ [][Next]_vars

(* The thread goes on.                                                     *)
FairSpec == Spec /\ WF_vars(Next)

-----------------------------------------------------------------------------
TextStates ==
    {"start", "ignore_newline", "expecting_question_mark", "expecting_space_1",
     "expecting_space_2"} \cup {l[1] : l \in Letters}

CodeStates ==
    {"code", "whitespace", "single_quote", "single_quote_escape", "double_quote",
     "double_quote_escape", "question_mark"}

(* The pieces of a script in order, without what is between them.          *)
Marks == FlattenSeq([i \in DOMAIN lua |-> IF lua[i] \in Pieces THEN <<lua[i]>> ELSE <<>>])

(* Whatever the page, text is never taken for code nor code for text: the  *)
(* calls of put are opened and closed in turn and as the state says; and   *)
(* the parenthesis that closes one is put in before a blank, not into the  *)
(* expression.                                                             *)
ScriptStructure ==
    code = 0 =>
      /\ \A i \in 1..(Len(Marks) - 1) :
           <<Marks[i], Marks[i + 1]>> \in
             {<<"put([[", "]])">>, <<"]])", "put([[">>, <<"]])", "put(">>,
              <<"put(", "put)">>, <<"put)", "put([[">>}
      /\ s.at \in TextStates <=> Last(Marks) = "put([["
      /\ s.at \in CodeStates => (s.kind = "expression" <=> Last(Marks) = "put(")
      /\ s.at = "question_mark" => Last(lua) \in Blank

(* Text that the translation does not alter: it has no brackets and no     *)
(* "<?lua=" (before a blank that would be a tag).                          *)
Simple(t) ==
    /\ \A i \in DOMAIN t : t[i] \notin {"[", "]"}
    /\ \A i \in 1..(Len(t) - 5) : SubSeq(t, i, i + 5) # Opening("expression", "?")

(* What should be seen of the element at i: text, but for a line feed at   *)
(* its very beginning and, at the end of the page, for what could be the   *)
(* beginning of a tag; the value of an expression; nothing of a chunk.     *)
Beginnings ==
    UNION {{SubSeq(o, 1, k) : k \in DOMAIN o} : o \in {Opening("expression", f) : f \in Forms}}

Shown(i) ==
    LET t     == page[i].inner
        first == IF t # <<>> /\ t[1] = "LF" THEN 2 ELSE 1
        ends  == {k \in first..Len(t) : i = Len(page) /\ SubSeq(t, k, Len(t)) \in Beginnings}
    IN  CASE page[i].kind = "text" ->
               SubSeq(t, first, IF ends = {} THEN Len(t) ELSE CHOOSE k \in 0..Len(t) : k + 1 \in ends)
          [] page[i].kind = "chunk" -> <<>>
          [] OTHER -> <<"value">>

(* Where Lua is behind each character of t: in a string that begins with   *)
(* quote, or, for no quote, in code; and whether behind a backslash.       *)
Behind(w, x) ==
    IF w.quote = "" THEN [quote |-> IF x \in {"'", "DQ"} THEN x ELSE "", escape |-> FALSE]
    ELSE IF w.escape THEN [quote |-> w.quote, escape |-> FALSE]
    ELSE [quote |-> IF x = w.quote THEN "" ELSE w.quote, escape |-> x = "\\"]

Where(t) ==
    LET w[i \in 0..Len(t)] ==
          IF i = 0 THEN [quote |-> "", escape |-> FALSE] ELSE Behind(w[i - 1], t[i])
    IN  w

(* Code in which all strings end, none is a long string, and nothing but a *)
(* string has the end of the tag in it.                                    *)
Sound(t, f) ==
    /\ Where(t)[Len(t)].quote = ""
    /\ t # <<>> => t[1] # f
    /\ \A i \in 1..(Len(t) - 1) :
         Where(t)[i].quote = "" /\ t[i] = "[" => t[i + 1] \notin {"[", "="}
    /\ \A i \in 1..(Len(t) - 2) :
         ~ (t[i] \in Blank /\ Where(t)[i].quote = "" /\ t[i + 1] = f /\ t[i + 2] = ">")

(* A page that can only be read in one way.                                *)
Clear(p) ==
    /\ \A i \in DOMAIN p : p[i].kind # "text" => Sound(p[i].inner, p[i].form)
    /\ \A i \in 1..(Len(p) - 1) : p[i].kind = "text" => p[i + 1].kind # "text"

(* A page of simple text and closed tags becomes a script that Lua can     *)
(* load, and that puts the text and the values of the expressions in the   *)
(* order of the page, whatever the strings in its scripts contain and      *)
(* however much its text looks like tags.  A page whose last tag is not    *)
(* closed is not answered with a part of it, unless a bracket is opened in *)
(* that tag, which the "]])" that do_lua adds could close.                 *)
BodyAsPage ==
    Clear(page) =>
      /\ code = 200 => \A i \in DOMAIN page :
                          page[i].closed \/ \E k \in DOMAIN page[i].inner : page[i].inner[k] = "["
      /\ code # 0 /\ (\A i \in DOMAIN page :
                         page[i].closed /\ (page[i].kind = "text" => Simple(page[i].inner)))
           => /\ Loads(lua)
              /\ code = 200 => body = FlattenSeq([i \in DOMAIN page |-> Shown(i)])

(* The translation of every page ends, although characters are looked at   *)
(* again in another state.                                                 *)
TranslationEnds == <>(code # 0)
=============================================================================
