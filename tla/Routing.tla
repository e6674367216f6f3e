------------------------------ MODULE Routing ------------------------------
(***************************************************************************)
(* What becomes of a request's URI: the parser infers the path, do_read    *)
(* finds the handler (module Dispatch), and the handler makes its own use  *)
(* of path or URI.  StaticFileHandler opens root + path without the        *)
(* prefix, and a script in the file may ask for the form data of the URI   *)
(* and of the body; ReverseProxyHandler asks the origin for the URI        *)
(* without its first component.                                            *)
(***************************************************************************)
EXTENDS Dispatch, UriPath, SequencesExt

CONSTANTS
    Requests,   \* the URIs and bodies of requests
    Roots,      \* the root directories that configurations define
    Scripted,   \* the extensions of type text/html
    ScriptCodes \* arguments the served scripts pass to setstatus()

ASSUME RoutingAssumption ==
    /\ Requests \subseteq [uri : Seq(Char), body : Seq(Char)]
    /\ Paths = {InferPath(<<>>, r.uri) : r \in Requests} \ {<<>>}
    /\ Roots \subseteq Seq(Char \ {"NUL"}) \ {<<>>}

VARIABLES
    request,      \* the request
    stage,        \* "lookup", "open" (the static file handler has the name
                  \* of the file) or "done"
    file,         \* that name, the root it starts with, and its type
    remote_uri,   \* the URI the origin is asked for
    form,         \* the tables that get() and post() return to a script
    code          \* the status of the response

allvars == <<keys, path, n, at, request, stage, file, remote_uri, form, code>>

-----------------------------------------------------------------------------
(* Positions of c in s, and the first and last of a set of positions.      *)
At(s, c) == {i \in DOMAIN s : s[i] = c}
First(I) == CHOOSE i \in I : \A j \in I : i <= j
Final(I) == CHOOSE i \in I : \A j \in I : j <= i

UpTo(s, c) == IF At(s, c) = {} THEN s ELSE SubSeq(s, 1, First(At(s, c)) - 1)

(* A string as C has it: it ends before its first NUL.                     *)
c_str(s) == UpTo(s, "NUL")

(* Mutant: the path is cut at its last question mark.                      *)
FilePathLast(p) ==
    IF At(p, "?") = {} THEN p ELSE SubSeq(p, 1, Final(At(p, "?")) - 1)

(* The path behind the prefix, without what follows a question mark.       *)
FilePath(p) == UpTo(p, "?")

(* What follows the last dot, if no slash comes after it.  "index" is      *)
(* "index.html".                                                           *)
Extension(p) ==
    IF p # <<>> /\ Last(p) = "index" THEN <<"html">>
    ELSE IF At(p, ".") = {} \/ \E i \in At(p, "/") : i > Final(At(p, ".")) THEN <<>>
    ELSE SubSeq(p, Final(At(p, ".")) + 1, Len(p))

extension_to_type(e) == IF e \in Scripted THEN "text/html" ELSE "other"

(* Mutant: the type is determined before the question mark is cut off.     *)
TypeOfUncut(p) == extension_to_type(Extension(p))

TypeOf(p) == extension_to_type(Extension(FilePath(p)))

(* hex2ascii: like the path of a URI; a malformed escape empties it all.   *)
hex2ascii(s) == IF Decode(s) = {} THEN <<>> ELSE CHOOSE d \in Decode(s) : TRUE

(* What lua_pushstring makes of a key or a value.                          *)
Pushed(s) == c_str(hex2ascii(s))

(* form2table: the pair read last wins.                                    *)
AddPair(s) ==
    LET name == Pushed(s.key)
    IN  [key |-> <<>>, val |-> <<>>, readingkey |-> TRUE,
         table |-> [k \in {name} \cup DOMAIN s.table |->
                      IF k = name THEN Pushed(s.val) ELSE s.table[k]]]

FormStep(s, c) ==
    IF s.readingkey
    THEN IF c = "=" THEN [s EXCEPT !.readingkey = FALSE]
                    ELSE [s EXCEPT !.key = Append(@, c)]
    ELSE IF c = "&" THEN AddPair(s) ELSE [s EXCEPT !.val = Append(@, c)]

NoPairs == [key |-> <<>>, val |-> <<>>, readingkey |-> TRUE, table |-> <<>>]

(* The loop over form data: what it holds after each number of characters. *)
FormStates(data) ==
    LET st[i \in 0..Len(data)] == IF i = 0 THEN NoPairs ELSE FormStep(st[i - 1], data[i])
    IN  st

(* Mutant: a pair is only added when its "&" is read.                      *)
form2tableNoLast(data) == FormStates(data)[Len(data)].table

form2table(data) == AddPair(FormStates(data)[Len(data)]).table

(* lua_get reads the URI, not the path, from its last question mark on.    *)
lua_get(uri) ==
    IF At(uri, "?") = {} THEN <<>>
    ELSE form2table(SubSeq(uri, Final(At(uri, "?")) + 1, Len(uri)))

(* Mutant: the slash is searched for from the first character on.          *)
RemoteUriFromStart(uri, prefix) ==
    IF prefix = <<"/">> \/ At(uri, "/") = {} THEN uri
    ELSE SubSeq(uri, First(At(uri, "/")), Len(uri))

(* erase(0, find("/", 1)), unless the prefix is "/": the first component   *)
(* goes, or everything if there is no second one.                          *)
RemoteUri(uri, prefix) ==
    LET later == At(uri, "/") \ {1}
    IN  IF prefix = <<"/">> THEN uri
        ELSE IF later = {} THEN <<"/">> ELSE SubSeq(uri, First(later), Len(uri))

-----------------------------------------------------------------------------
Prefix == SubSeq(path, 1, n)
Rest == SubSeq(path, n + 1, Len(path))

RoutingInit ==
    /\ request \in Requests
    /\ keys \in Configs
    /\ path = InferPath(<<>>, request.uri)
    /\ path # <<>>
    /\ n = Len(path)
    /\ at = "loop"
    /\ stage = "lookup"
    /\ file = [root |-> <<>>, name |-> <<>>, type |-> "none"]
    /\ remote_uri = <<>>
    /\ form = [get |-> <<>>, post |-> <<>>]
    /\ code = 0

Lookup ==
    /\ Next
    /\ UNCHANGED <<request, stage, file, remote_uri, form, code>>

(* The handler found is a reverse proxy.                                   *)
Forward ==
    /\ at = "found" /\ stage = "lookup"
    /\ remote_uri' = RemoteUri(request.uri, Prefix)
    /\ stage' = "done"
    /\ UNCHANGED <<keys, path, n, at, request, file, form, code>>

(* The handler found serves the files below root.  The file is opened by   *)
(* its name as a C string; its type is that of the whole path.             *)
OpenFile ==
    /\ at = "found" /\ stage = "lookup"
    /\ \E root \in Roots :
         file' = [root |-> root, name |-> c_str(root \o FilePath(Rest)), type |-> TypeOf(Rest)]
    /\ stage' = "open"
    /\ UNCHANGED <<keys, path, n, at, request, remote_uri, form, code>>

Respond(c) ==
    /\ stage = "open"
    /\ stage' = "done"
    /\ code' = c
    /\ UNCHANGED <<keys, path, n, at, request, file, remote_uri>>

(* No such file; a file that cannot be read, a directory for example; a    *)
(* file that is sent as it is; a file whose scripts are run first.         *)
FileNotFound == Respond(404) /\ UNCHANGED form
ReadFails == Respond(500) /\ UNCHANGED form
SendFile == file.type # "text/html" /\ Respond(200) /\ UNCHANGED form

(* The arguments lua_setstatus accepts; any other one is a Lua error.      *)
Settable ==
    (200..204) \cup {301, 302, 304, 400, 401, 403, 404} \cup (500..503)

RunScripts ==
    /\ file.type = "text/html"
    /\ form' = [get |-> lua_get(request.uri), post |-> form2table(request.body)]
    /\ \E c \in {200, 500} \cup (ScriptCodes \cap Settable) : Respond(c)

RoutingNext ==
    Lookup \/ Forward \/ OpenFile \/ FileNotFound \/ ReadFails \/ SendFile \/ RunScripts

RoutingSpec == RoutingInit /\ [][RoutingNext]_allvars

-----------------------------------------------------------------------------
EndsInSlash(s) == s # <<>> /\ Last(s) = "/"

(* A configuration and a request without the known traps: a prefix that    *)
(* ends in a slash, or a path without a leading one at the default         *)
(* handler, with a root that does not end in one.                          *)
Joined ==
    \/ EndsInSlash(file.root)
    \/ ~ EndsInSlash(Prefix) /\ (Prefix = <<>> => path[1] = "/")

(* The file that is opened lies below the root directory (or is the root): *)
(* its name never continues the name of the directory itself.  This rests  *)
(* on the lookup to end at a component boundary.                           *)
FileUnderRoot ==
    stage # "lookup" /\ file.name # <<>> /\ Joined =>
        LET below == SubSeq(file.name, Len(file.root) + 1, Len(file.name))
        IN  /\ IsPrefix(file.root, file.name)
            /\ below = <<>> \/ below[1] = "/" \/ EndsInSlash(file.root)

(* A file with a scripted extension below the root never goes out as it    *)
(* is, scripts and all, whatever the rest of the URI looks like: the file  *)
(* that is opened has the extension the type was determined by.  This      *)
(* needs a path without NUL, which ends the name of the file but not the   *)
(* path that the extension is looked for in.                               *)
ScriptsNotSentRaw ==
    file.type = "other" /\ Joined /\ file.name # file.root /\ At(path, "NUL") = {}
      => Extension(file.name) \notin Scripted

(* An origin is asked for the URI without the prefix, if that is a single  *)
(* component, written as it is in the configuration.                       *)
RemoteUriStripped ==
    LET uri == request.uri
    IN  /\ remote_uri # <<>>
        /\ IsPrefix(Prefix, uri)
        /\ n >= 2 /\ At(Prefix, "/") = {1}
        /\ n = Len(uri) \/ uri[n + 1] = "/"
        => remote_uri = IF n = Len(uri) THEN <<"/">> ELSE SubSeq(uri, n + 1, Len(uri))

(* The fields of form data, by their first and last positions.             *)
Fields(data) ==
    {f \in (1..(Len(data) + 1)) \X (0..Len(data)) :
        /\ f[1] <= f[2] + 1
        /\ f[1] = 1 \/ data[f[1] - 1] = "&"
        /\ f[2] = Len(data) \/ data[f[2] + 1] = "&"
        /\ \A i \in f[1]..f[2] : data[i] # "&"}

(* Form data in which every field has a "=", and what they say: the value  *)
(* of the last field of each name, decoded, and no other names.            *)
WellFormed(data) == \A f \in Fields(data) : \E i \in f[1]..f[2] : data[i] = "="

FieldTable(data) ==
    LET F     == Fields(data)
        eq(f) == First({i \in f[1]..f[2] : data[i] = "="})
        key(f) == Pushed(SubSeq(data, f[1], eq(f) - 1))
        val(f) == Pushed(SubSeq(data, eq(f) + 1, f[2]))
    IN  [k \in {key(f) : f \in F} |->
           val(CHOOSE f \in F : key(f) = k /\ \A g \in F : key(g) = k => g[1] <= f[1])]

(* post() returns what well-formed form data in the body say.              *)
FormAsFields ==
    form.post # <<>> /\ WellFormed(request.body) => form.post = FieldTable(request.body)

(* The file is the one named before the first question mark of the URI, if *)
(* none is escaped there, and get() returns what the form data behind it   *)
(* say, if there is no other: the URI is divided between the two, although *)
(* one is cut from the decoded path, behind the prefix, at the first       *)
(* question mark, and the other from the URI as it came, at the last.      *)
(* This needs a prefix without question marks.                             *)
FileAndQuery ==
    LET uri   == request.uri
        marks == At(uri, "?")
        mark  == First(marks)
        query == SubSeq(uri, mark + 1, Len(uri))
    IN  /\ file.name # <<>>
        /\ marks # {} /\ At(Prefix, "?") = {}
        => /\ \A d \in Decode(SubSeq(uri, 1, mark - 1)) :
                At(d, "?") = {} => file.name = c_str(file.root \o SubSeq(d, n + 1, Len(d)))
           /\ form.get # <<>> /\ marks = {mark} /\ WellFormed(query)
                => form.get = FieldTable(query)
=============================================================================
