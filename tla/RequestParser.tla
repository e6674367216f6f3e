--------------------------- MODULE RequestParser ---------------------------
(***************************************************************************)
(* request.cc: the incremental parser of HTTP requests.  Every thread has  *)
(* one Request that it feeds, character by character and read by read,     *)
(* until the request is complete ("good") or cannot become one ("bad").    *)
(* Where one read ends and the next begins makes no difference to the      *)
(* parser, so the model feeds it characters.  After "good" or "bad" the    *)
(* parser is reset and may be fed the next request.                        *)
(*                                                                         *)
(* A character stands for a class of characters that the parser treats     *)
(* alike; see is_ctl.  The one-letter header name "L" stands for           *)
(* Content-Length.                                                         *)
(***************************************************************************)
EXTENDS UriPath, FiniteSets

CONSTANTS
    Char,          \* the characters
    Input(_, _),   \* bound: the ones clients send in a given parser state,
                   \* depending on whether the URI is empty
    Width,         \* bits of unsigned long long
    MaxMethod, MaxUri, MaxVersion,      \* bounds: lengths of the fields of
    MaxHeaders, MaxName, MaxValue,      \* a request, and of its text as a
    MaxRaw                              \* whole

States ==
    {"_method_start", "_method", "_uri", "_http_version_h", "_http_version_t_1",
     "_http_version_t_2", "_http_version_p", "_http_version_slash",
     "_http_version_major_start", "_http_version_major",
     "_http_version_minor_start", "_http_version_minor", "_expecting_newline_1",
     "_header_line_start", "_header_lws", "_header_name",
     "_space_before_header_value", "_header_value", "_expecting_newline_2",
     "_expecting_newline_3", "_body"}

ASSUME ParserAssumption ==
    /\ \A st \in States, e \in BOOLEAN : Input(st, e) \subseteq Char
    /\ Width \in Nat \ {0}
    /\ 2^Width > 0        \* arithmetic that the proofs need stated
    /\ {MaxMethod, MaxUri, MaxVersion, MaxHeaders, MaxName, MaxValue, MaxRaw}
         \subseteq Nat

VARIABLES
    req,      \* thread_local Request local_request
    result,   \* thread_local Request::Result result
    parsed    \* {} or the Request that the last call of Parse returned

vars == <<req, result, parsed>>

-----------------------------------------------------------------------------
(* Character classes.  "HI" is any character above 127 (negative as a      *)
(* char), "CTL" and "TS" any control character and HTTP tspecial that is   *)
(* not listed by itself; all others are themselves, "x" being any other    *)
(* character (but for the x of "0x": see Unescape).                        *)
is_ctl(ch) == ch \in {"NUL", "CR", "LF", "HT", "CTL"}
is_tspecial(ch) == ch \in {"SP", "HT", ":", "/", "?", "=", "TS"}
is_digit(ch) == ch \in {"0", "1", "2", "3"}
is_char(ch) == ch # "HI"

(* What the method and header names are made of.                           *)
IsToken(ch) == is_char(ch) /\ ~ is_ctl(ch) /\ ~ is_tspecial(ch)

-----------------------------------------------------------------------------
(* std::stoull: white space, a sign, and the digits before anything else.  *)
(* {} if it throws, for want of digits or because the number is too large; *)
(* a negative number wraps around.                                         *)
Digit == [c \in {"0", "1", "2", "3"} |->
            CASE c = "0" -> 0 [] c = "1" -> 1 [] c = "2" -> 2 [] c = "3" -> 3]

(* The number that the digits of v between positions i and j spell.        *)
Number(v, i, j) ==
    LET f[k \in (i - 1)..j] == IF k = i - 1 THEN 0 ELSE 10 * f[k - 1] + Digit[v[k]]
    IN  f[j]

Stoull(v) ==
    LET blanks == CHOOSE k \in 0..Len(v) :
                     /\ \A i \in 1..k : v[i] \in {"SP", "HT"}
                     /\ k < Len(v) => v[k + 1] \notin {"SP", "HT"}
        signed == blanks < Len(v) /\ v[blanks + 1] \in {"+", "-"}
        first  == IF signed THEN blanks + 2 ELSE blanks + 1
        last   == CHOOSE k \in (first - 1)..Len(v) :
                     /\ \A i \in first..k : is_digit(v[i])
                     /\ k < Len(v) => ~ is_digit(v[k + 1])
        number == Number(v, first, last)
    IN  IF last < first \/ number >= 2^Width THEN {}
        ELSE IF signed /\ v[blanks + 1] = "-"
             THEN {(2^Width - number) % 2^Width}
             ELSE {number}

(* GetHeaderValue: the value of the first header of that name, or "".      *)
GetHeaderValue(headers, name) ==
    LET I == {i \in DOMAIN headers : headers[i].name = name}
    IN  IF I = {} THEN <<>>
        ELSE headers[CHOOSE i \in I : \A j \in I : i <= j].value

ContentLength == <<"L">>

-----------------------------------------------------------------------------
(* Reset: every field but remaining.                                       *)
Reset(r) ==
    [state |-> "_method_start", raw |-> <<>>, method |-> <<>>, uri |-> <<>>,
     path |-> <<>>, version |-> <<>>, headers |-> <<>>, body |-> <<>>,
     remaining |-> r.remaining]

(* A thread_local object is zeroed before its constructor runs.            *)
Init ==
    /\ req = Reset([remaining |-> 0])
    /\ result = "indeterminate"
    /\ parsed = {}

(* The three ways for Consume to return, and what Parse makes of them.     *)
Continue(r) ==
    /\ req' = r
    /\ result' = "indeterminate"
    /\ parsed' = {}

Good(r) ==
    /\ req' = Reset(r)
    /\ result' = "good"
    /\ parsed' = {r}

Bad(r) ==
    /\ req' = Reset(r)
    /\ result' = "bad"
    /\ parsed' = {}

(* The request with the character appended to raw_request_, in state st.   *)
At(st) == req.state = st
Read(ch) == [req EXCEPT !.raw = Append(@, ch)]
To(st, ch) == [Read(ch) EXCEPT !.state = st]

(* headers_.back().second.push_back(ch) and headers_.back().first...       *)
PushValue(r, ch) == [r EXCEPT !.headers[Len(r.headers)].value = Append(@, ch)]
PushName(r, ch) == [r EXCEPT !.headers[Len(r.headers)].name = Append(@, ch)]

-----------------------------------------------------------------------------
(* Consume, one action per state of the parser (the five states that       *)
(* expect a letter of "HTTP/" share one, as do the first two that expect a *)
(* line feed).                                                             *)

MethodStart(ch) ==
    /\ At("_method_start")
    /\ \/ ~ IsToken(ch) /\ Bad(Read(ch))
       \/ IsToken(ch) /\ Continue([To("_method", ch) EXCEPT !.method = Append(@, ch)])

Method(ch) ==
    /\ At("_method")
    /\ \/ ch = "SP" /\ Continue(To("_uri", ch))
       \/ ch # "SP" /\ ~ IsToken(ch) /\ Bad(Read(ch))
       \/ IsToken(ch) /\ Continue([Read(ch) EXCEPT !.method = Append(@, ch)])

Uri(ch) ==
    /\ At("_uri")
    /\ \/ /\ ch = "SP"
          /\ Continue([To("_http_version_h", ch) EXCEPT !.path = InferPath(@, req.uri)])
       \/ is_ctl(ch) /\ Bad(Read(ch))
       \/ /\ ch # "SP" /\ ~ is_ctl(ch)
          /\ Continue([Read(ch) EXCEPT !.uri = Append(@, ch)])

(* What the states of the literal "HTTP/" expect, and where they lead.     *)
Literal ==
    {<<"_http_version_h", "H", "_http_version_t_1">>,
     <<"_http_version_t_1", "T", "_http_version_t_2">>,
     <<"_http_version_t_2", "T", "_http_version_p">>,
     <<"_http_version_p", "P", "_http_version_slash">>,
     <<"_http_version_slash", "/", "_http_version_major_start">>}

HttpVersion(ch) ==
    \E l \in Literal :
        /\ At(l[1])
        /\ \/ ch = l[2] /\ Continue([To(l[3], ch) EXCEPT !.version = Append(@, ch)])
           \/ ch # l[2] /\ Bad(Read(ch))

VersionStart(ch) ==
    \E next \in {<<"_http_version_major_start", "_http_version_major">>,
                 <<"_http_version_minor_start", "_http_version_minor">>} :
        /\ At(next[1])
        /\ \/ is_digit(ch) /\ Continue([To(next[2], ch) EXCEPT !.version = Append(@, ch)])
           \/ ~ is_digit(ch) /\ Bad(Read(ch))

VersionMajor(ch) ==
    /\ At("_http_version_major")
    /\ \/ /\ ch = "."
          /\ Continue([To("_http_version_minor_start", ch) EXCEPT !.version = Append(@, ch)])
       \/ is_digit(ch) /\ Continue([Read(ch) EXCEPT !.version = Append(@, ch)])
       \/ ch # "." /\ ~ is_digit(ch) /\ Bad(Read(ch))

VersionMinor(ch) ==
    /\ At("_http_version_minor")
    /\ \/ ch = "CR" /\ Continue(To("_expecting_newline_1", ch))
       \/ is_digit(ch) /\ Continue([Read(ch) EXCEPT !.version = Append(@, ch)])
       \/ ch # "CR" /\ ~ is_digit(ch) /\ Bad(Read(ch))

Newline(ch) ==
    /\ At("_expecting_newline_1") \/ At("_expecting_newline_2")
    /\ \/ ch = "LF" /\ Continue(To("_header_line_start", ch))
       \/ ch # "LF" /\ Bad(Read(ch))

(* Mutant: the first line may be a continuation too.                       *)
HeaderLineStartUnguarded(ch) ==
    /\ At("_header_line_start")
    /\ \/ ch = "CR" /\ Continue(To("_expecting_newline_3", ch))
       \/ ch \in {"SP", "HT"} /\ Continue(To("_header_lws", ch))
       \/ ch \notin {"CR", "SP", "HT"} /\ ~ IsToken(ch) /\ Bad(Read(ch))
       \/ /\ IsToken(ch)
          /\ Continue([To("_header_name", ch) EXCEPT
                         !.headers = Append(@, [name |-> <<ch>>, value |-> <<>>])])

(* A line that starts with white space continues the header before it.     *)
HeaderLineStart(ch) ==
    /\ At("_header_line_start")
    /\ \/ ch = "CR" /\ Continue(To("_expecting_newline_3", ch))
       \/ /\ req.headers # <<>> /\ ch \in {"SP", "HT"}
          /\ Continue(To("_header_lws", ch))
       \/ /\ ch # "CR" /\ ~ IsToken(ch)
          /\ ~ (req.headers # <<>> /\ ch \in {"SP", "HT"})
          /\ Bad(Read(ch))
       \/ /\ IsToken(ch)
          /\ Continue([To("_header_name", ch) EXCEPT
                         !.headers = Append(@, [name |-> <<ch>>, value |-> <<>>])])

HeaderLws(ch) ==
    /\ At("_header_lws")
    /\ \/ ch = "CR" /\ Continue(To("_expecting_newline_2", ch))
       \/ ch \in {"SP", "HT"} /\ Continue(Read(ch))
       \/ ch \notin {"CR", "HT"} /\ is_ctl(ch) /\ Bad(Read(ch))
       \/ ch # "SP" /\ ~ is_ctl(ch) /\ Continue(PushValue(To("_header_value", ch), ch))

HeaderName(ch) ==
    /\ At("_header_name")
    /\ \/ ch = ":" /\ Continue(To("_space_before_header_value", ch))
       \/ ch # ":" /\ ~ IsToken(ch) /\ Bad(Read(ch))
       \/ IsToken(ch) /\ Continue(PushName(Read(ch), ch))

SpaceBeforeHeaderValue(ch) ==
    /\ At("_space_before_header_value")
    /\ \/ ch = "SP" /\ Continue(To("_header_value", ch))
       \/ ch # "SP" /\ Bad(Read(ch))

HeaderValue(ch) ==
    /\ At("_header_value")
    /\ \/ ch = "CR" /\ Continue(To("_expecting_newline_2", ch))
       \/ ch # "CR" /\ is_ctl(ch) /\ Bad(Read(ch))
       \/ ~ is_ctl(ch) /\ Continue(PushValue(Read(ch), ch))

(* The line feed of the empty line.  A Content-Length that is no number is *)
(* caught, and the request taken to have no body.                          *)
LastNewline(ch) ==
    /\ At("_expecting_newline_3")
    /\ \/ ch # "LF" /\ Bad(Read(ch))
       \/ /\ ch = "LF"
          /\ LET length == Stoull(GetHeaderValue(req.headers, ContentLength))
             IN  \/ length = {} /\ Good(Read(ch))
                 \/ length = {0} /\ Good([Read(ch) EXCEPT !.remaining = 0])
                 \/ \E k \in length \ {0} :
                       Continue([To("_body", ch) EXCEPT !.remaining = k])

(* Mutant: the counter is tested before it is decremented.                 *)
BodyTestsFirst(ch) ==
    /\ At("_body")
    /\ LET r == [Read(ch) EXCEPT !.body = Append(@, ch),
                                 !.remaining = (@ - 1) % 2^Width]
       IN  IF req.remaining > 0 THEN Continue(r) ELSE Good(r)

(* remaining-- on an unsigned integer.                                     *)
Body(ch) ==
    /\ At("_body")
    /\ LET r == [Read(ch) EXCEPT !.body = Append(@, ch),
                                 !.remaining = (@ - 1) % 2^Width]
       IN  IF r.remaining > 0 THEN Continue(r) ELSE Good(r)

Consume(ch) ==
    \/ MethodStart(ch) \/ Method(ch) \/ Uri(ch)
    \/ HttpVersion(ch) \/ VersionStart(ch) \/ VersionMajor(ch) \/ VersionMinor(ch)
    \/ Newline(ch) \/ HeaderLineStart(ch) \/ HeaderLws(ch) \/ HeaderName(ch)
    \/ SpaceBeforeHeaderValue(ch) \/ HeaderValue(ch) \/ LastNewline(ch) \/ Body(ch)

(* Bounds on what clients send.                                            *)
Fits(r) ==
    /\ Len(r.raw) <= MaxRaw
    /\ Len(r.method) <= MaxMethod
    /\ Len(r.uri) <= MaxUri
    /\ Len(r.version) <= MaxVersion
    /\ Len(r.headers) <= MaxHeaders
    /\ \A i \in DOMAIN r.headers :
         Len(r.headers[i].name) <= MaxName /\ Len(r.headers[i].value) <= MaxValue

Next ==
    /\ \E ch \in Input(req.state, req.uri = <<>>) : Consume(ch)
    /\ Fits(req')

Spec == Init /\ [][Next]_vars

-----------------------------------------------------------------------------
Strings == Seq(Char)

(* Mutant: the second space is looked for from the start of the text.      *)
SetUriFromStart(r, u) ==
    LET spaces == {i \in DOMAIN r.raw : r.raw[i] = "SP"}
        first  == CHOOSE i \in spaces : \A j \in spaces : i <= j
    IN  [r EXCEPT !.uri = u,
                  !.raw = SubSeq(@, 1, first) \o u \o SubSeq(@, first, Len(@))]

(* SetUri, for the reverse proxy: what lies between the first two spaces   *)
(* of the text is replaced.                                                *)
SetUri(r, u) ==
    LET spaces == {i \in DOMAIN r.raw : r.raw[i] = "SP"}
        first  == CHOOSE i \in spaces : \A j \in spaces : i <= j
        second == CHOOSE i \in spaces \ {first} : \A j \in spaces \ {first} : i <= j
    IN  [r EXCEPT !.uri = u,
                  !.raw = SubSeq(@, 1, first) \o u \o SubSeq(@, second, Len(@))]

Request ==
    [state : States, raw : Strings, method : Strings, uri : Strings,
     path : Seq(Char \cup Decoded),
     version : Strings, headers : Seq([name : Strings, value : Strings]),
     body : Strings, remaining : 0..(2^Width - 1)]

(* Type correctness: remaining stays in the range of its type, and there   *)
(* is a parsed request exactly after "good".                               *)
TypeOK ==
    /\ req \in Request
    /\ result \in {"good", "bad", "indeterminate"}
    /\ parsed \subseteq Request
    /\ parsed # {} <=> result = "good"

(* headers_.back() is undefined on an empty vector: whenever the parser is *)
(* in a state that adds to the last header, there is one.  A first line    *)
(* that begins with white space is the case to get wrong.                  *)
LastHeaderExists ==
    req.state \in {"_header_lws", "_header_name", "_space_before_header_value",
                   "_header_value", "_expecting_newline_2"}
      => req.headers # <<>>

(* The body has exactly the announced length, and is consumed one by one:  *)
(* what is read and what remains add up to the Content-Length of the first *)
(* header of that name; the counter never wraps below zero.                *)
BodyAsAnnounced ==
    /\ req.state = "_body" =>
         /\ req.remaining > 0
         /\ Stoull(GetHeaderValue(req.headers, ContentLength))
              = {Len(req.body) + req.remaining}
    /\ \A r \in parsed :
         LET announced == Stoull(GetHeaderValue(r.headers, ContentLength))
         IN  IF announced = {} THEN r.body = <<>> ELSE announced = {Len(r.body)}

(* The path a handler is given is the one of this request's URI; it does   *)
(* not climb with "..", whether written out or escaped, and never ends in  *)
(* a slash.                                                                *)
PathIsSafe ==
    \A r \in parsed :
        /\ r.path = InferPath(<<>>, r.uri)
        /\ ~ HasDotDot(r.path)
        /\ r.path # <<>> => r.path[Len(r.path)] # "/"

(* A request is cut where it should be: its text is its method, URI and    *)
(* version, the headers, and a tail as long as its body.  SetUri, which    *)
(* only sees the text, replaces the URI and nothing else.                  *)
SplitAtSpaces ==
    \A r \in parsed :
        LET line == r.method \o <<"SP">> \o r.uri \o <<"SP">> \o r.version \o <<"CR", "LF">>
            rest == SubSeq(r.raw, Len(line) + 1, Len(r.raw) - Len(r.body))
        IN  /\ r.raw = line \o rest \o r.body
            /\ SubSeq(rest, Len(rest) - 1, Len(rest)) = <<"CR", "LF">>
            /\ SetUri(r, <<"/", "x">>).raw
                 = r.method \o <<"SP", "/", "x", "SP">> \o r.version
                     \o <<"CR", "LF">> \o rest \o r.body
=============================================================================
