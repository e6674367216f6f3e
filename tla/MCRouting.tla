----------------------------- MODULE MCRouting -----------------------------
(***************************************************************************)
(* All URIs of up to MaxUri characters that begin with a slash, and some   *)
(* with escapes or without one; form data of up to MaxBody characters; all *)
(* maps with up to two keys besides the empty one.                         *)
(***************************************************************************)
EXTENDS Routing

CONSTANTS MaxUri, MaxKey, MaxBody   \* bounds: lengths of URIs, keys, bodies

MCChar == {"/", "a", ".", "?", "h", "%", "0", "2", "3", "d", "e", "f", "=", "&", "+",
           "r", "SP", "NUL", "x", "index"}

Escaped ==
    {<<"a">>, <<"a", "?", "a">>, <<"h", ".", "h">>,
     <<"/", "a", "/", "a", ".", "h", "?", "a">>,
     <<"/", "a", "/", "a", ".", "h", "?", "a", "/">>,
     <<"/", "a", "/", "a", ".", "h", "?", "a", "?", "=">>,
     <<"/", "a", "/", "a", "/", "a", "?", "/">>,
     <<"/", "a", "/", "a", "%", "3", "f", "a">>,
     <<"/", "a", "/", "a", "%", "3", "f", "a", "?", "a">>,
     <<"/", "a", "%", "2", "f", "a", ".", "h">>,
     <<"%", "2", "f", "a", "/", "a">>,
     <<"/", "a", "/", "a", "%", "0", "0", ".", "h", "?", "a", "=">>,
     <<"/", "a", "/", "h", "?", "a", "=", "%", "3", "d", "&", "a", "%", "0", "?", "=", "a">>,
     <<"/", "a", ".", "h", "?", "a", "=", "%", "3", "d", "&", "a", "%", "0", "0", "=", "a">>,
     <<"/", "a", "/", "a", "%", "2", "e", "h", "?", "a", "=", "%", "3", "d">>}

Uris == {<<"/">> \o u : u \in BoundedSeq({"/", "a", ".", "?"}, MaxUri - 1)} \cup Escaped

Form == <<"/", "a", ".", "h">>

Bodies ==
    BoundedSeq({"a", "=", "&"}, MaxBody)
      \cup {<<"%", "3", "d", "=", "+", "&", "%", "3", "d", "=", "a">>,
            <<"a", "=", "%", "0", "0", "a", "&", "=", "%", "2">>}

MCRequests ==
    {[uri |-> u, body |-> <<>>] : u \in Uris} \cup {[uri |-> Form, body |-> b] : b \in Bodies}

MCPaths == {InferPath(<<>>, u) : u \in {v \in Uris \cup {Form} : InferPath(<<>>, v) # <<>>}}
MCConfigs == {{<<>>, k1, k2} : k1, k2 \in BoundedSeq({"/", "a"}, MaxKey)}
MCRoots == {<<"r">>, <<"r", "/">>}
MCScripted == {<<"h">>, <<"html">>}
=============================================================================
