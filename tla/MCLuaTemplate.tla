--------------------------- MODULE MCLuaTemplate ---------------------------
(***************************************************************************)
(* Pages with up to two tags: all short texts around a few tags, a few     *)
(* texts around all tags with short Lua in them, with brackets too, and    *)
(* pages that end within a tag.                                            *)
(***************************************************************************)
EXTENDS LuaTemplate

CONSTANTS MaxText, MaxCode   \* bounds: lengths of texts and of code

MCCharacters == Special \cup {"x"}

Text_(t) == [kind |-> "text", form |-> "?", closed |-> TRUE, inner |-> t]
Tag(k, f, t) == [kind |-> k, form |-> f, closed |-> TRUE, inner |-> t]
Cut(e) == [e EXCEPT !.closed = FALSE]

Texts ==
    {t \in BoundedSeq({"x", "<", "?", "%", "LF", "]"}, MaxText) : NoTagIn(t)}
      \cup {SubSeq(Opening("expression", "?"), 1, i) : i \in 1..6}
      \cup {Opening(k, f) \o <<"x", "SP">> : k \in {"chunk", "expression"}, f \in Forms}
      \cup {<<"<", "?", "l", "x">>, <<"<", "?", "l", "u", "<">>, <<"[", "x">>}

Codes ==
    BoundedSeq({"x", "SP", "'", "\\", "?", ">"}, MaxCode)
      \cup {<<q>> \o t \o <<q>> : q \in {"'", "DQ"},
              t \in {<<"SP", "?", ">">>, <<"SP", "%", ">">>, <<"\\", "'", "SP", "?", ">">>,
                     <<"\\", "DQ", "SP", "?", ">">>,
                     <<"\\", "\\">>, <<"'">>, <<"DQ", "SP">>, <<"<", "%", "SP">>, <<"[", "[">>}}
      \cup {<<"x", "[", "x", "[", "x">>, <<"x", "[", "x", "[", "x", "]", "]">>, <<"x", "[", "x", "]">>}

Tags == {Tag(k, f, t) : k \in {"chunk", "expression"}, f \in Forms, t \in Codes}
SoundTags == {e \in Tags : Sound(e.inner, e.form)}
SomeTags == {Tag("chunk", "?", <<"x">>), Tag("expression", "%", <<"x">>)}
SomeTexts == {<<"x">>, <<"LF">>}

Page(t, e, u) == <<Text_(t), e, Text_(u)>>

MCPages ==
    {<<Text_(t)>> : t \in Texts}
      \cup {Page(t, e, u) : t \in Texts, e \in SomeTags, u \in SomeTexts}
      \cup {Page(t, e, u) : t \in SomeTexts, e \in SomeTags, u \in Texts}
      \cup {Page(<<"x">>, e, u) : e \in SoundTags, u \in SomeTexts}
      \cup {<<e, f>> : e \in SomeTags, f \in SoundTags}
      \cup {<<e, Cut(f)>> : e \in SomeTags, f \in SoundTags}
=============================================================================
