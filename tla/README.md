# A TLA+ model of the Team05 web server

This directory holds TLA+ modules that model the multithreaded web server of
this repository, TLC configurations that check them on small instances, and
TLAPS proofs of theorems about them. Everything refers to the C++ sources in
the root of the repository; `PROJECT.json` maps each definition to the lines it
stands for.

    tlc -workers 2 -config MCServer_history.cfg MCServer     # one model-checking run
    tlapm ServerProofs.tla                                   # one proof module

## 1. Inventory

### The parts and how they interact

`main` reads a configuration with `NginxServerConfigParser` (on top of
`NginxConfigParser`), which yields a port, a map from URL prefixes to request
handlers and a table of handler names. `Server::Run` then accepts connections
for ever on the main thread. Each connection gets a `Session` and a detached
thread, which reads until its thread-local `Request` parser is done, looks a
handler up, lets it fill a `Response`, records the response in the server's
history and writes it. The history is the only mutable state that sessions
share by design; `Server::mtx` guards it. `StatusHandler` prints it.

| Part | State it keeps | Operations | Hard about it |
|---|---|---|---|
| `Server` (server.cc/.h) | `requests`, `mtx`, `handlers`, `handler_info`, acceptor | `Run`, `do_accept`, `Lock`, `Unlock`, `GetRequestHistory` | `do_accept` recurses once per connection and never returns; `main` may unwind under running threads |
| `Session` (server.cc/.h) | socket, `data`, thread-local request | `start`, `do_read` (recursive), `do_write` | interleaving, clients that stop or leave, exceptions in detached threads, early return without shutdown |
| `Request` (request.cc/.h) | parser state, fields, `remaining` | `Parse`, `Consume`, `Reset`, `SetUri`, getters | split reads, `Content-Length` arithmetic, URI escapes |
| `Response` (response.cc/.h) | `status`, headers, body, full response | setters, `ToString`, `DefaultResponse` | `status` may be uninitialised or outside its enum |
| `StatusHandler` | pointer to the server | `HandleRequest` | walks through the shared history under a hand-operated lock |
| `EchoHandler`, `NotFoundHandler` | none | `HandleRequest` | - |
| `StaticFileHandler` | `root`, `path_prefix` | `Init`, `HandleRequest`, markdown, Lua templates, forms | translation of templates, script-chosen status |
| `ReverseProxyHandler` | `path`, `remote_host`, `remote_port` (shared by all threads) | `Init`, `HandleRequest`, redirects | unlocked write to `remote_host` on a redirect, no timeouts, no bound on redirects, throws |
| `NginxServerConfigParser` | parsed statements | `ParseServerSettings`, `ParseRequestHandlers` | duplicates, invalid ports, failing `Init` |
| `NginxConfigParser` | block stack, last token | `ParseToken`, `Parse` | end of file inside a token or block; its verdict is ignored |
| handler registry (request_handler.cc/.h) | builders by name | `CreateByName` | filled before `main` |
| `main` | - | start-up, catch | returns while threads run |

### What makes each part correct

* **Server and Session**: mutual exclusion on the history, no lost or duplicated
  entry, status pages that are consistent cuts, a response in the history before
  its client can see it, one response per connection, connections shut down when
  their thread ends, and progress of every session whatever other clients and
  origins do.
* **Lookup**: the loop ends, at the longest prefix that ends at a component
  boundary.
* **Request**: no access to a header that does not exist, bodies of the
  announced length, paths that do not climb, fields cut at the right places.
* **Configuration**: one valid port, the handlers the file describes, always a
  default, and a status table that tells the truth about them; a tree of statements
  that is the file read so far, usable whatever the verdict.
* **Files and forms**: the file that is opened lies below the root, scripts are
  never sent as text, file name and form data come from different parts of the
  URI, form data are the fields that were sent.
* **Templates**: text stays text and code stays code whatever they look like, the
  page comes out in order, an unfinished page does not come out unless Lua can
  make something of its end, the translation ends.
* **Reverse proxy**: requests go only where the configuration and the origins'
  redirects lead (until a data race or a broken connection makes up a name), what is
  forwarded is the last reply, requests end, and no
  request ends the process for a reason other than a faulty peer.

## 2. Modules

| Module | Models |
|---|---|
| `Responses` | the status a handler records and the status line its bytes have |
| `Server` | accepting thread, session threads, history, mutex, clients |
| `RequestLog` | abstract: what the history promises |
| `MCServer` | instances of `Server`; sentences of the repository that the code does not keep |
| `ServerProofs` | proofs about `Server` |
| `Dispatch` | the handler lookup loop of `do_read` |
| `UriPath` | from a URI to a path: escapes, `..`, `index.html` |
| `RequestParser`, `MCRequestParser`, `RequestParserProofs` | `Request::Parse`, `Consume` and `SetUri`; extends `UriPath` |
| `Routing`, `MCRouting`, `RoutingProofs` | composes `UriPath`, `Dispatch` and what the static file handler and the reverse proxy do with path and URI; proofs about both `Dispatch` and `Routing` |
| `LuaTemplate`, `MCLuaTemplate`, `LuaTemplateProofs` | `do_lua`: pages with Lua in them |
| `ReverseProxy`, `MCReverseProxy`, `ReverseProxyProofs` | `sendRequestToOrigin` for threads that share a handler; extends `Responses` |
| `ConfigParser`, `MCConfigParser`, `ConfigParserProofs` | `NginxConfigParser` |
| `RecursionLemmas` | no code: induction and recursion over integers and sequences, and what `FlattenSeq` and the `Decode` of `UriPath` compute, for the proofs about recursive definitions |
| `ServerConfig`, `MCServerConfig`, `ServerConfigProofs` | `main` up to `Server::Run` and `NginxServerConfigParser` |

### Server

One step per system call, per lock operation and per access to the history, so
sessions interleave wherever the threads can. `pc[c]` is the place of the thread
of connection `c`:

    read -> handle | slock -> stotal -> srows -> sunlock   (StatusHandler)
         -> endpoint -> llock -> lpush -> lunlock -> send  (do_write)
         -> close -> done

* A request is abstracted to its outcome: `"bad"`, `"nopath"` (it parses, but an
  escape is malformed or the path has `..`), or the type of the handler that
  serves it. Which outcome a text has is the subject of `RequestParser`; which
  handler, of `Dispatch`. It arrives in pieces (`parts`, then `final`), and a
  read may take several at once; each read that leaves the request incomplete
  adds a `do_read` frame (`depth`).
* Clients close (`"fin"`) or reset (`"rst"`) at any point. `remote_endpoint`,
  `write` and the reverse proxy's calls throw; nothing catches in a detached
  thread, so `proc` becomes `"aborted"`.
* `do_accept` never returns, so accepted descriptors are never released:
  `AcceptThrows` is enabled at `MaxFds` accepted connections, finished or not.
  It may also throw when `MaxThreads` threads are at work. `main` then unwinds;
  a thread that touches the server or a handler meanwhile is undefined
  behaviour (`proc = "undefined"`, after which the model says nothing).
* `got[c]` is what the client has read; `before[c]` is a history variable: who
  had an answer when `c` sent its request.
* A connection stands for the URI of an entry of the history. The code a
  handler records and the code on the wire are separate (`Responses`), as they
  are separate in the program.

### RequestLog

An append-only log, at most one entry per connection, instantaneous snapshots of
it, and answers only for connections that are logged. `Server` implements it
(`ImplementsRequestLog`): the log is `requests`, and a snapshot is taken in the
step that leaves the loop over the rows.

### Dispatch

Every string the loop looks up is a prefix of the path, so `path_prefix` is its
length. `npos + 1` wraps to 0, which `LastSlash` renders as 0. The loop looks at
component boundaries only: with keys `/sta` and `/`, `/static/x` goes to `/`.
`example_config` calls this "longest prefix"; `LongestBoundaryMatch` is the
precise statement.

### RequestParser

One action per state of `Consume`, one character per step: `Parse` processes the
buffer character by character and keeps its state in the thread-local object, so
where reads end makes no difference. Characters stand for classes; `"L"` is the
header name `Content-Length` and `"index"` the text `index.html`. URI decoding
follows `istringstream >> std::hex` (one digit is enough, a sign or a blank may come
first); `%00` gives `"NUL"`, which is a character of the path like any other until a
C string is made of it (see `Routing`). For an empty path, request.cc:206 looks at the
byte before the string, which is a byte of its length or of the heap's and zero in every
build: `InferPath` has that outcome only. One request is all that a session's thread
parses; the model goes on with the next one, which the code would allow;
`Stoull` follows `std::stoull` (blanks, sign, wrap-around of negative numbers,
out of range throws) on `Width` bits. `SetUri`, which the reverse proxy calls on a
copy of a finished request and which finds the URI by the spaces of the raw text,
is an operator on requests; `SplitAtSpaces` applies it to every request parsed.

### Routing

`Lookup` is the next-state relation of `Dispatch`, and no other action touches its
variables, so the theorems about `Dispatch` hold here too
(`RoutingImplementsDispatch`). The handler found is
either a `ReverseProxyHandler` (`Forward`) or a `StaticFileHandler` with one of the
`Roots` (`OpenFile`, and then one action per way `HandleRequest` can end). Whether a
file exists or can be read is left open. The keys of the table that `form2table`
builds are the decoded names. Three things are made C strings of, and end at a NUL
(`c_str`): the name a file is opened by, and the names and values of that table. The
type of a file is found in the path *with* what is behind the NUL, so
`ScriptsNotSentRaw` is about paths without one; `FileUnderRoot` and `FileAndQuery` are
about all. Scripts may set any status that `lua_setstatus` accepts (`ScriptCodes`).

Properties about file names have the premise `Joined`, which excludes two traps of
configurations: a prefix that ends in a slash, and a request for a path without a
leading slash at the default handler, each with a root that does not end in one.
With them, `root` `/srv/a` and path `/b` meet as `/srv/ab`.

`FileAndQuery` has premises of its own, which its proof brought to light. An escape
may swallow a question mark (`%2?` is read as one digit) and another escape may add
one (`%3f`), so comparing their numbers in URI and path, as an earlier version did,
is not enough. What counts is that what precedes the first question mark of the URI
is well-formed by itself and hides none, and that none is part of the prefix. The file
is cut at the first question mark and the form data at the last; with a single one, they
are all of the URI, and `get()` returns what the part behind it says field by field
(`FieldTable`, which `FormAsFields` compares `post()` with).

### LuaTemplate

A page is a sequence of elements (text, chunk or expression tags) and what `do_lua`
reads is their source, so the page itself says what should come out. The program's
states come in pairs for `<?lua ... ?>` and `<% ... %>`, and again for chunks and
expressions; the model keeps the kind and form of the tag beside one set of states.
A script is a sequence of characters and of the pieces the translation adds. How
Lua reads it (`Loads`, `Puts`) is external: long strings end at the first `]]`,
ignore a line feed at their beginning and know no escapes. `BodyAsPage` is about the
pages whose source has only one reading (`Clear`): strings end within the code they
begin in (`Where` follows them, escapes included), outside of strings code has no tag
end and no long string in it, and no two texts are side by side. The `]])` added at the
end of a page that ends in a tag is a syntax error, unless the code of the tag has
brackets open: `put(t[t[1` becomes `put(t[t[1]])`, and the page is answered with 200.
`Loads` leaves it open whether a script loads whose last code has a `[` in it.

Lua is not modelled beyond this. Characters it takes for more than themselves are
excluded from pages by `CharactersAssumption`: `-`, as a comment swallows what follows
it, CR, which a long string turns into a line feed, and NUL, which ends the script that
`luaL_loadstring` is given. The code of a page is taken to be complete statements: a
loop or a condition that goes on behind its tag would repeat or omit the text between.
The module is as detailed as its subject, which is what `do_lua` does with each
character; the classes of characters it distinguishes are the ones the program does.

### ReverseProxy

One step per access to `remote_host` and per call that waits or may throw. The
assignment of the string is two steps, its begin and its end. What a thread reads
meanwhile, and what overlapping assignments leave, is undefined: any host, also one
that nobody has named (a new pointer with an old length), a string that is no host, or
the end of the process. A reply is what the code looks for in it: the code in its first
line, the text `HTTP/1.1 302 Found` anywhere, and what follows `www` after `Location`;
`Replies` are those an origin may give. A connection may also end within one
(`CutShort`, `Heard`): the code follows a redirect before it looks at the error, so
that a name without its end, which may be another host (`Shorter`), is asked next.
`raced` (requests that another thread's redirect overlapped), `faulty` (an exception is
due to an origin, the configuration or the request) and `spoilt` (a query or a second
assignment has coincided with an assignment, or a redirect has come without its end) are
history variables. In `Server` all of this is one step, `Handle`, or an exception,
`HandlerThrows`.

After `spoilt` requests may go anywhere, by what the code does; `HostsReachable` and
`RequestsEnd` say what holds up to then, which is not only as long as requests do not
overlap: two requests that redirect in turn, each between the two reads of the other,
do not spoil anything.

### ConfigParser

`ParseToken` takes one step per character; the step that completes a token
includes what `Parse` does with it. The file is not fixed in advance: `text` grows
by any character that the bound `Readable` allows, until `ReadEnd`. `pos` falls
behind `text` when `unget` puts a character back. The `NginxConfig`s are numbered
in the order of their creation and pointers are numbers, so `nodes` is the heap
and `stack` is `config_stack`. An error ends the parse and leaves the tree, since
`NginxServerConfigParser` ignores the verdict and goes on with it. `taken` is a
history variable: the tokens accepted. `TreeIsText` compares the tree with them and
`NothingLost` compares them, and the token in hand, with the text. Together they say that
all that a file accepted by `Parse` can lose is an unquoted token at its end; that it
does lose it is among the disagreements of section 3.

### ServerConfig

One step per statement and pass. A statement is what the configuration parser
makes of it: tokens, and a block reduced to the names of its settings that have a
value. `Leading` gives the number a token begins with; `std::stoi` throws without
one or outside `int`. `"port;"` reads `tokens[1]` past the end: stage
`"undefined"`.

## 3. Runs

| Run | Instance | Shows |
|---|---|---|
| `history` | 3 connections, `EchoHandler` and `StatusHandler`, 3 descriptors, a third thread may fail to start | `StatusPageConsistent`, `StatusSeesEarlier`, `ImplementsRequestLog` |
| `faults` | 2 connections, all handlers, requests in pieces, close and reset, exceptions, stack limits of 2 frames | `LockDiscipline`, `HistoryMatchesSessions`, `ResponseAsRecorded`, `FinishedIsShutDown` |
| `live` | 2 connections, fair threads, an origin that may never answer | `RequestsAnswered`, `SessionsEnd` |
| `parser` | request lines with URIs of up to 5 characters, good and bad in every state; up to 2 headers with values of 2 characters, continuation lines, bodies; requests in sequence | `SplitAtSpaces`, `PathIsSafe`, `LastHeaderExists`, `BodyAsAnnounced` |
| `routing` | all URIs of up to 4 characters over `/`, `a`, `.`, `?`, some with escapes (of `?`, `=`, NUL) and scripts, which set a status or none; maps with up to two keys of 4 characters and the default; form data of up to 4 characters; roots with and without a slash | `LongestBoundaryMatch`, `LoopProgresses`, `FileUnderRoot`, `ScriptsNotSentRaw`, `FileAndQuery`, `RemoteUriStripped`, `FormAsFields` |
| `template` | all texts of up to 3 characters and some that look like tags, around a few tags; all code of up to 3 characters and some with brackets or with strings that have tag ends in them; open tags | `ScriptStructure`, `BodyAsPage`, `TranslationEnds` |
| `proxy` | 2 threads on port 80, a chain of three origins that redirect, well or badly, or answer; replies may end anywhere. On port 443, and with a port that is no number, 1 thread, every fault of an origin, requests without the headers that are replaced | `HostsReachable`, `HostHeaderMatches`, `OnlyRacesAbort`, `ForwardedIsFinal`, `StatusKnown`, `RequestsEnd` |
| `config` | all sequences of up to 4 of 17 statements | `PortChosen`, `DefaultInstalled`, `HandlersAsConfigured`, `TableShowsHandlersIfLegal` |
| `config_parser` | all files of up to 7 characters, at most 2 of them blanks, quotes or `#` | `TreeIsText`, `NothingLost`, `StackIsPath`, `StatementsUsable`, `TypeOK` |

Why the bounds are enough:

* Two sessions suffice for a conflict on the lock; three let two of them write
  while a third builds a page, and let a page have zero, one or two rows.
  Connections are interchangeable, so they are a symmetry set, except in the
  liveness run. `ServerProofs` removes the bound for the main properties.
* `MaxParts = 2` and `MaxDepth = 2` reach a nested `do_read`, a read of two
  pieces at once, and the overflow of the stack. `MaxFrames`, `MaxFds` and
  `MaxThreads` are the real limits scaled down to where they are reached; a
  value of 9 means "not reached in this run".
* `Width = 4` makes `Content-Length` values overflow at two digits: 16 and up
  play the part of 2^64 and up. `-2` wraps to 14.
* Five characters contain `.%2e`, `%2e.` and `/..`: every mix of a plain and an
  escaped `..` but two escapes.
* Four characters hold a nested prefix, an empty component, a query and a dot in
  it; keys of the same length can match all of a path, any of its components or
  none. Four characters of form data hold `a=&=`: two pairs, empty names and
  values; longer ones with escapes are listed one by one.
* Three characters of text or code hold every pair of neighbours that the
  translation looks at twice, and `'\'`; the openings of tags, longer, are listed
  with all their beginnings. Two tags in a page show that the state of one does
  not reach into the next.
* Two requests suffice for every order of two accesses to `remote_host`, and a chain
  of two redirects lets a request be overtaken in its second round. The name of the
  last host, cut short, is that of a fourth that no redirect names. A fault ends its
  request or the process whatever other threads do, so the run (`BoundedNext`) has
  faults, other than of replies, only where there is one request.
* `MaxInt = 524287` keeps `70000` inside and `9999999` outside `int`, which is
  all `stoi` can tell apart of numbers that are no ports.
* Seven characters hold three nested blocks (`a{a{a{`), a statement after a closed
  block (`a{a;}a;`), and a quoted token or a comment between any two of these.
  `ConfigParserProofs` removes the bound for every invariant of the module.

### Fairness

Weak fairness of the main thread and of each session thread: the kernel
schedules them. No fairness of clients (they may never finish a request), and
none of `Handle` for the reverse proxy, whose calls have no timeout. For
`StaticFileHandler` it would assume that scripts terminate; the run does not use
that handler. Weak fairness is enough for the mutex: a session locks it at most
twice, so with finitely many connections no thread is overtaken for ever.
`TranslationEnds` needs only that the thread goes on.
`RequestsEnd` assumes in addition that origins end their replies, as reads have no
timeout, and, by the instance, that no chain of redirects is endless; what it shows
is that, as long as no string is torn or cut short, requests overwriting each other's `remote_host` do not make one.

### Disagreements between code and repository text

| Run | Says | Does |
|---|---|---|
| `reset` | README.md:78, Multithreading: "The thread closes as soon as it writes back a response or the connection closes." | a reset between read and write throws in a detached thread and ends the process |
| `descriptors` | server.cc:130 "Accept clients continuously in other threads than the main thread" | descriptors of finished sessions are never released; at the limit the server exits |
| `redirects` | reverse_proxy_handler.cc:109 "302 => fetch-loop to 200 or 404 (upon not-found or max-retries)" | no retries are counted; two origins that redirect to each other keep the thread for ever |

Others, met while modelling, that no run is about:

* server.cc:89 "Initiate graceful connection closure.": the branch for an empty
  path (server.cc:48) returns before it, so such a connection, if its request came
  in one read, stays open for ever (`FinishedIsShutDown` names the exception).
* config_parser.h:40 "Returns true iff the input config file is valid", and
  config_parser_test.cc:44 has `foo bar` refused ("Config missing semicolon."), but
  `foo bar;foo` is accepted and its last token dropped: to `Parse`, the end of the file
  inside a token looks like one between tokens (`ReadEnd`, `Finish`).
* The comment on `getRemoteResponseCode` maps the origin's 500 to 404, which happens
  to the recorded code only, as the origin's bytes are forwarded unchanged
  (`RecordedCodes`, `Forwarded`). Other codes are recorded as 500.
* server.h:77 calls the entries of the history "URI and response code", but a
  script's `setstatus(203)` is recorded as 203 and sent as 500 (`StatusLine`).
* server.h:71 calls the table "what handler they're using", but of two handlers for
  one path, which `example_config` calls illegal and nothing refuses, the first
  serves it and the table names the second (hence the premise of
  `TableShowsHandlersIfLegal`).
* "Longest prefix" of `example_config`: see `Dispatch`.
* reverse_proxy_handler.cc:159 strips "/reverse_proxy" as the prefix; it is the
  first component that goes, whatever the prefix (`RemoteUri`), so below a nested
  prefix the origin sees the rest of the prefix.
* design.html:32 "given proper markdown syntax": brackets of a page get a backslash
  that a Lua long string does not take away, so the links of a `.md` page come out
  escaped; a `]` right before a tag or the end of the page ends the string too early
  and makes the page a 500. `<?lua=x` loses its question mark, and what could begin
  a tag at the end of the page is dropped. `BodyAsPage` speaks of text without
  these (`Simple`, `Shown`).
* A page that ends in a tag with open brackets may be answered with 200: see
  `LuaTemplate`.

## 4. Proofs

TLC checks the instances above; the theorems hold for every value of the
constants that satisfies the named assumptions.

**`ServerProofs`** (from `ServerAssumption`, `CodesAssumption`: typing of the
constants only; any set of connections, any limits). A first layer gives
`TypeCorrect`, `MutualExclusion` (`LockDiscipline`) and `StatusPages`
(`StatusPageConsistent`). Its inductive invariant `ServerInv` adds to `TypeOK` and `LockDiscipline`

* `Phases`: what a thread has done by the time it is at a location (it has a
  response from `endpoint` on, a request that is for `StatusHandler` in the
  status locations). Without it a step that reads `res[c]` or `final[c]` could
  not be shown to write what the types allow;
* `Pages`: the rows copied so far are a prefix of the history, and the total is
  the length the history has *while the lock is held*. `StatusPageConsistent`
  speaks only of finished pages; the row-by-row copy is right because no other
  thread can be at `lpush` while this one is in the loop, which is where
  `LockDiscipline` enters.

A second layer, `HistoryInv`, follows a request to its client:

* `Progress`: a response is one that the request may get, and is sent once and last;
* `History`: no connection has two entries, none has one before `push_back`, and from
  there on the entry has the code of the response;
* `Visibility`: who had an answer when a request was sent is in the history, and on
  the page from the moment the loop over the rows ends.

From it follow `HistoryIsSessions` (`HistoryMatchesSessions`), `ResponsesRecorded`
(`ResponseAsRecorded`), `StatusIsCurrent` (`StatusSeesEarlier`) and, step by step,
`RequestLogRefinement` (`ImplementsRequestLog`): `push_back` is the step that records,
the end of the loop over the rows the one that takes a snapshot (`Pages` makes the
copy the whole history at that moment), a send that reaches its client the one that
answers (`History` says that the entry is there), and every other step leaves log,
snapshots and answers alone. `SessionsShutDown` (`FinishedIsShutDown`) needs only the
types.

**`RoutingProofs`**, about `Dispatch` (from `DispatchAssumption`: paths are not
empty, the empty key is in every map): `DispatchCorrect` (`LongestBoundaryMatch`) and
`DispatchTerminates` (`LoopProgresses`). `LoopInv` says that no boundary prefix
longer than the current one is a key and that the current one is a boundary. That
`find_last_of` has a value is shown from the well-foundedness of `<` on the
naturals (`LeastElement`, `LastSlashExists`).

About `Routing` (from `RoutingAssumption`: typing, `Dispatch` is given the paths of
the requests, no root is empty or has a NUL in it): `RoutingImplementsDispatch`, which brings the
theorems above to every request that is routed, and `FilesUnderRoot`
(`FileUnderRoot`), `ScriptsAreRun` (`ScriptsNotSentRaw`), `RemoteUriIsRest`
(`RemoteUriStripped`), `FileBeforeQuery` (`FileAndQuery`), `FormFieldsRead`
(`FormAsFields`). `HandlerInv` says of the names and tables the handlers have computed
what they were computed from; `LoopInv` that the prefix ends at a component boundary,
which is what keeps the file's name from continuing the name of the root directory. As
no root has a NUL, the cut that makes a C string of a name is made behind the root
(`ScriptsAreRun` needs that there is none). The rest is about positions of slashes, dots and question marks in concatenations, and
about two recursions:

* `FileBeforeQuery` rests on `DecodeDivides`: decoding, from the end of the URI to its
  beginning, the part before a question mark and the whole URI side by side, each step
  adds the same character in front of both, since an escape stands for one character
  (`UnescapeOne`) and those of the part are complete. `PathBegins` and `FilePathIs` then
  follow the question mark through the completion of the path, the prefix and the cut.
* `FormFieldsRead` rests on `LoopKept`: after each character of form data, the state of
  `form2table` is that of some field which has begun and has no `&` so far, and the table
  has the fields before it, each name with its last value (`Loop`, `Tabled`). A `&`
  adds exactly one field (`FieldEnds`, `PairAdded`), and so does the end of the data.
  The same gives the second half of `FileBeforeQuery`.

**`LuaTemplateProofs`** (from `CharactersAssumption`: the pieces that the translation
adds to a script are told from characters, the characters it looks for are characters,
and `-`, CR and NUL are none; `PagesAssumption`: typing, no tag begins in an element of
text, and a tag that is not closed is the last element; pages of any length):
`TextAndCodeApart` (`ScriptStructure`) and `PagesAsWritten` (`BodyAsPage`).
`TemplateInv` says, of each state of the translation, which piece was added last: in the states of text it is the opening of a string, in those of a tag
the end of one or, exactly if the tag is an expression, the opening of a call (`Fits`).
It also says that the script ends in a blank wherever a tag may end
(`EndsInBlank`): the parenthesis that closes a call is inserted *before* the last
character of the script, and this is what keeps it behind the expression and before the
next piece (`MarksClose`).

`PagesAsWritten` needs to know where in the page `do_lua` is. `PageInv` adds that it is
in one of three places (`Reading`), each with the number of characters read of it, and
that the script up to there puts what the page shows up to there (`BodyTo`):

* `TextAt`: in the text between two tags, or where there could be some. The last
  characters read, which are not yet in the script, are the ones the state stands for
  (`Pend`, `Holds`); by `NoTagIn` they never become a tag. At the end of the page they
  are what is dropped, and no other end of the text begins a tag (`Known`).
* `OpeningAt`: in the opening of a tag. Its next character is always one that the state
  expects (`OpeningNext`).
* `CodeAt`: in the code of a tag. The state is in a string exactly if Lua is
  (`CodeState`, `Where`). That nothing is taken for the end of the tag before the end
  comes from `Sound`, the part of `Clear` about code: `BodyAsPage` speaks of pages that
  can be read in one way only.

Of scripts it has to be known that each `]])` is followed by another `put([[` or is the
last (`AllClosed`, `LastOpen`) and that no text ends in a bracket (`Tidy`), so that they
load; and that what a script puts is the recursion of `Running`, one statement after
the other (`RunAppend`). Where the file ends in a tag whose code has no `[`, nothing
between the last two `]])` opens what the last one could close (`NoBracket`, a part of
`CodeAt`) and the script does not load (`ScriptFails`), so no such page is a 200. The proof showed two slips of
the model, since corrected: `PagesAssumption` was laid out so that it did not say what it
should of text, and the cases of a statement of Lua were not disjoint, so that what the
end of a text does was up to `CHOOSE`, which TLC hides by taking the first case.

**`RequestParserProofs`** (from `ParserAssumption`: typing of the constants, and
`2^Width > 0`, a fact of arithmetic that the provers do not know; requests of any
length, any integer width): `ParserTypes` (`TypeOK`), `BackIsDefined`
(`LastHeaderExists`), `BodiesAsAnnounced` (`BodyAsAnnounced`), `PathsAreSafe` (`PathIsSafe`), `TextIsSplit` (`SplitAtSpaces`).
`ParserInv` says of each parser state what the text read so far consists of
(`TextInv`), when the path is that of the URI (`PathInv`), when there is a header
(`HeaderInv`) and that body and `remaining` add up to the number announced
(`BodyInv`), and of each request returned the same at its end (`Complete`). It was
checked by TLC on the instance of the run `parser` first. That `Decode` and `Stoull`,
which are recursive functions, return paths of known characters and numbers below
`2^Width` is shown by induction over a *set* of positions (`SetInduction` of
`RecursionLemmas`, from the well-foundedness of `<`), since the library's induction rules have an operator as a
parameter. That method and URI have no space in them makes the first two spaces of the
raw text the ones around the URI, which `SetUri` relies on.

**`ServerConfigProofs`** (from `ConfigAssumption`: statements have a first token
and no token is empty, which `StatementsAlwaysUsable` establishes): `PortCorrect`,
`DefaultAlways`, `MapCorrect`, `TableCorrect`. `ConfigInv` generalises each
property from the end of a pass to the statements already seen (`PortSoFar`,
`MapSoFar`, `SameEntries`). `DefaultAlways` discharges the assumption of
`Dispatch` about the empty key.

**`ConfigParserProofs`** (from `CharsAssumption`: the three symbols are
characters; files of any length, blocks of any depth): `TypeCorrect`,
`StackAlwaysPath` (`StackIsPath`), `StatementsAlwaysUsable` (`StatementsUsable`).
`ParserInv` adds `StackGrows`: blocks are on the stack in the order of their
creation, so the top is there once and a change to it leaves the path below as it
is; and `WordStarted`: an unquoted token that is being read has a character.

`TextNeverLost` (`NothingLost`), which also speaks of files that `Parse` returned true
for, adds to it that no character is held between two tokens (`TextKept`): a character is added to the text read and either to the token being
read or to the one accepted, or it is put back and not counted as read.
`RecursionLemmas` shows what this rests on: `FlattenSeq`, a recursive function,
exists and is unique on sequences of any length (`FlattenDef`), so that flattening a
sequence with one more element adds that element (`FlattenAppend`).

`TreeAlwaysText` (`TreeIsText`) adds `Shape`, that is `Children` (a block has a greater
number than the one it is in), `Parents` (no block is in two statements) and `LastBare`
(a statement that can still get a token has no block), and `Told`, which states the
property for *every* function that satisfies the recursion of `NodeText`; `TreeExists`
shows that there is one, by recursion from the last block to the first. A token changes
one statement, at the top of the stack, but the text of every block on the path to it.
`PathGrows` is the argument: by induction from the last block down, the text of a block
on the stack grows by the token *at its end*, because what is in it and changes is its
last statement (`ChildOnPath`, from `StackIsPath` and `Parents`), and the text of any
other block stays. Each kind of token (`AppendShows`, `NewShows`, `EndShows`,
`OpenShows`, `CloseShows`) then only has to say what it does at the top.

**`ReverseProxyProofs`** (from `ProxyAssumption`: typing, `Junk` and `NoHost` are no
hosts, a code without its end is among `RemoteCodes`; any threads, any origins, replies
and names): `RequestsStayReachable` (`HostsReachable`), `FinalReplyForwarded`
(`ForwardedIsFinal`), `HeaderNamesHost` (`HostHeaderMatches`), `ProxyTypes` (`TypeOK`),
`StatusFromReply` (`StatusKnown`), `AbortsExplained` (`OnlyRacesAbort`). `ProxyInv` ties
the reply a thread holds, or what was heard of one, to the
host it asked (`RepliesOK`) and says that whoever assigns `remote_host` holds a
redirect (`RedirectsOK`), with its end unless `spoilt`; as assignments that overlap have
set `spoilt` too (`TornOK`), what is assigned before is reachable from a host that was
reachable already. `HeaderInv` adds
`Undisturbed`: as long as a request is not overlapped, nobody else is assigning, and
the value read to connect is still there when the header is written. `StatusInv` adds
that a response is made of the reply still held. `NoJunk` says that before the first
fault and the first overlap no string that is no host name is in `remote_host`, in a
request or in a redirect about to be assigned: it is what makes an exception in such a
state impossible.

Model-checked only:

* liveness (`RequestsAnswered`, `SessionsEnd`, `TranslationEnds`, `RequestsEnd`), which
  the prover does not do;
* `TypeOK` of modules without a proof module.

## 5. Not modelled

* `getLocationHeaderValue` and `rerouteRelativeUris` of the reverse proxy: nothing
  calls them.
* Bodies, headers and wording of responses, log lines: no property is about them.
  This leaves out that response.cc:300 appends an array without a terminator as a
  C string.
* The Lua functions that hand out one field of the request or add a header, what
  scripts do besides `put`, `get`, `post` and `setstatus`, and markdown: the work of
  LuaJIT and cpp-markdown.
* The registration of handlers: happens before `main`, never changes.
* Vendored code (`cpp-markdown`, `LuaJIT-2.0.4`, `sqlite-autoconf-3170000`,
  `sqlite-ffi`, `googletest`), which is most of the repository's lines; build and
  deployment scripts, tests, sample pages.

## 6. Plan

1. *(done)* `Server` with `RequestLog`, `Dispatch`, `RequestParser`,
   `ConfigParser`, `ServerConfig`; type, lock, page, lookup and configuration
   theorems.
2. *(done)* `ReverseProxy`, `Routing` with `UriPath`, `LuaTemplate`.
3. *(done)* Proofs of the remaining invariants of `Server`, the refinement of
   `RequestLog`, the invariants of `RequestParser`, `OnlyRacesAbort` and `StatusKnown`
   of `ReverseProxy`, `FileUnderRoot`, `ScriptsNotSentRaw` and `RemoteUriStripped` of
   `Routing`.
4. *(done)* Proofs by set induction of what recursive definitions compute:
   `NothingLost` and `TreeIsText` of `ConfigParser`.
5. *(done)* The same for `FileAndQuery` and `FormAsFields` of `Routing` and
   `ScriptStructure` and `BodyAsPage` of `LuaTemplate`.

What is left to TLC is what the prover does not do (section 4).
