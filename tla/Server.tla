------------------------------- MODULE Server -------------------------------
(***************************************************************************)
(* server.cc: the accepting thread, one detached thread per connection,    *)
(* and the request history they share under Server::mtx.                   *)
(*                                                                         *)
(* A session thread runs do_read (recursively while the request is not     *)
(* complete), a request handler, do_write and the final shutdown.  The     *)
(* model takes one step per system call, per access to the shared history  *)
(* and per lock operation, so that sessions interleave wherever the        *)
(* threads of the program can.  Which handler a path selects is the        *)
(* subject of Dispatch; what the bytes of a request parse to, of           *)
(* RequestParser.  Here a request is its outcome: "bad", "nopath" (it      *)
(* parses, with an empty path) or the type of the handler that serves it.  *)
(***************************************************************************)
EXTENDS Responses, Sequences, FiniteSets, SequencesExt

CONSTANTS
    Conns,        \* the connections clients make
    Nobody,       \* the holder of an unlocked mutex
    Handlers,     \* the handler types the configuration installs
    Disconnects,  \* how clients may leave early: "fin" (close) or "rst" (reset)
    MaxParts,     \* bound: unread pieces of an incomplete request, per client
    MaxDepth,     \* nested do_read frames that fit a thread's stack
    MaxFrames,    \* nested do_accept frames that fit the main thread's stack
    MaxFds,       \* connection descriptors the process may hold
    MaxThreads    \* with fewer session threads at work, another surely starts

ASSUME ServerAssumption ==
    /\ Nobody \notin Conns
    /\ Handlers \subseteq HandlerTypes
    /\ Disconnects \subseteq {"fin", "rst"}
    /\ {MaxParts, MaxDepth, MaxFrames, MaxFds, MaxThreads} \subseteq Nat

VARIABLES
    proc,      \* the process: see Processes
    client,    \* client[c]: the client's end of connection c
    parts,     \* parts[c]: unread pieces of c's request, the last one excepted
    final,     \* final[c]: outcome of the request, once its last piece is sent
    pc,        \* pc[c]: where the thread of c is
    depth,     \* depth[c]: do_read frames on the stack of c's thread
    res,       \* res[c]: the response c's thread works with
    page,      \* page[c]: the status page c's thread has put together
    lock,      \* the holder of Server::mtx
    requests,  \* Server::requests; the connection stands for the URI
    shut,      \* connections on which the server has called shutdown
    got,       \* got[c]: the status codes c's client has received
    before     \* history variable: who had an answer when c's request was sent

clientVars == <<client, parts, final, before>>
vars == <<proc, client, parts, final, pc, depth, res, page, lock, requests,
          shut, got, before>>

-----------------------------------------------------------------------------
(* "unwinding": an exception from do_accept is on its way to main's catch, *)
(* and the Server and the handlers are being destroyed while detached      *)
(* threads still use them; "undefined": one of them did, and anything may  *)
(* follow; "exited": main returned; "aborted": an exception left a thread  *)
(* or a stack overflowed, and the process is gone.                         *)
Processes == {"running", "unwinding", "undefined", "exited", "aborted"}

Requests == {"bad", "nopath"} \cup Handlers

Locations ==
    {"unborn", "read", "handle",
     "slock", "stotal", "srows", "sunlock",          \* StatusHandler
     "endpoint", "llock", "lpush", "lunlock", "send", \* do_write
     "close", "done"}

NoResponse == [code |-> 0, wire |-> 0]
NoPage == [total |-> 0, rows |-> <<>>]
Entry == [conn : Conns, code : Codes]

(* The locations at which the code holds Server::mtx.                      *)
Critical == {"stotal", "srows", "sunlock", "lpush", "lunlock"}

(* Locations past the push_back of do_write.                               *)
Recorded == {"lunlock", "send", "close", "done"}

Accepted == {c \in Conns : pc[c] # "unborn"}
Live == {c \in Accepted : pc[c] # "done"}
LoggedConns == {requests[i].conn : i \in DOMAIN requests}

Init ==
    /\ proc = "running"
    /\ client = [c \in Conns |-> "idle"]
    /\ parts = [c \in Conns |-> 0]
    /\ final = [c \in Conns |-> "none"]
    /\ pc = [c \in Conns |-> "unborn"]
    /\ depth = [c \in Conns |-> 0]
    /\ res = [c \in Conns |-> NoResponse]
    /\ page = [c \in Conns |-> NoPage]
    /\ lock = Nobody
    /\ requests = <<>>
    /\ shut = {}
    /\ got = [c \in Conns |-> <<>>]
    /\ before = [c \in Conns |-> {}]

-----------------------------------------------------------------------------
(* The clients.  Each connects once, sends one request in pieces of its    *)
(* own choosing, and may leave at any time.  After the last piece the      *)
(* server never reads again, so nothing more is sent.                      *)

Connect(c) ==
    /\ client[c] = "idle"
    /\ client' = [client EXCEPT ![c] = "connected"]
    /\ UNCHANGED <<proc, parts, final, before, pc, depth, res, page, lock,
                   requests, shut, got>>

SendPart(c) ==
    /\ client[c] = "connected"
    /\ final[c] = "none"
    /\ parts[c] < MaxParts
    /\ parts' = [parts EXCEPT ![c] = @ + 1]
    /\ UNCHANGED <<proc, client, final, before, pc, depth, res, page, lock,
                   requests, shut, got>>

SendFinal(c) ==
    /\ client[c] = "connected"
    /\ final[c] = "none"
    /\ \E r \in Requests : final' = [final EXCEPT ![c] = r]
    /\ before' = [before EXCEPT ![c] = {d \in Conns : got[d] # <<>>}]
    /\ UNCHANGED <<proc, client, parts, pc, depth, res, page, lock, requests,
                   shut, got>>

(* A close sends a FIN; a reset may also follow a close, when data arrives *)
(* for a client that is gone.                                              *)
Leave(c) ==
    /\ \E how \in Disconnects :
         /\ client[c] = "connected" \/ (client[c] = "fin" /\ how = "rst")
         /\ client' = [client EXCEPT ![c] = how]
    /\ UNCHANGED <<proc, parts, final, before, pc, depth, res, page, lock,
                   requests, shut, got>>

-----------------------------------------------------------------------------
(* Server::do_accept, on the main thread.  It calls itself for the next    *)
(* client and never returns, so every session_ptr stays alive in its frame *)
(* and every accepted descriptor stays open, finished sessions included.   *)

Accept(c) ==
    /\ proc = "running"
    /\ Cardinality(Accepted) < MaxFds
    /\ Cardinality(Accepted) < MaxFrames
    /\ client[c] # "idle"
    /\ pc[c] = "unborn"
    /\ pc' = [pc EXCEPT ![c] = "read"]
    /\ depth' = [depth EXCEPT ![c] = 1]
    /\ UNCHANGED <<proc, client, parts, final, before, res, page, lock,
                   requests, shut, got>>

(* accept() fails for want of a descriptor, whether or not a client waits, *)
(* or std::thread cannot start another thread, which depends on what else  *)
(* the system runs: both throw.                                            *)
AcceptThrows ==
    /\ proc = "running"
    /\ Cardinality(Accepted) < MaxFrames
    /\ \/ Cardinality(Accepted) = MaxFds
       \/ /\ Cardinality(Live) >= MaxThreads
          /\ \E c \in Conns : client[c] # "idle" /\ pc[c] = "unborn"
    /\ proc' = "unwinding"
    /\ UNCHANGED <<clientVars, pc, depth, res, page, lock, requests, shut, got>>

(* The next do_accept frame does not fit the stack.                        *)
AcceptOverflows ==
    /\ proc = "running"
    /\ Cardinality(Accepted) = MaxFrames
    /\ proc' = "aborted"
    /\ UNCHANGED <<clientVars, pc, depth, res, page, lock, requests, shut, got>>

(* main's catch block has printed the exception, and main returns.         *)
MainReturns ==
    /\ proc = "unwinding"
    /\ proc' = "exited"
    /\ UNCHANGED <<clientVars, pc, depth, res, page, lock, requests, shut, got>>

-----------------------------------------------------------------------------
(* Session threads.  A step that only needs the thread's own Session       *)
(* (kept alive by the thread's lambda) goes on while main unwinds; a step  *)
(* that uses the Server or a handler needs them not to be destroyed.       *)

Running(c, loc) ==
    /\ proc \in {"running", "unwinding"}
    /\ pc[c] = loc

InServer(c, loc) ==
    /\ proc = "running"
    /\ pc[c] = loc

Goto(c, loc) == pc' = [pc EXCEPT ![c] = loc]

(* An exception that leaves a detached thread is std::terminate.           *)
Terminate ==
    /\ proc' = "aborted"
    /\ UNCHANGED <<clientVars, pc, depth, res, page, lock, requests, shut, got>>

UsesServer ==
    {"handle", "slock", "stotal", "srows", "sunlock", "llock", "lpush", "lunlock"}

UseDestroyed(c) ==
    /\ proc = "unwinding"
    /\ pc[c] \in UsesServer
    /\ proc' = "undefined"
    /\ UNCHANGED <<clientVars, pc, depth, res, page, lock, requests, shut, got>>

(* Mutant: a reset is an error, the end of the stream is not.              *)
ReadErrorIgnoresEof(c) ==
    /\ Running(c, "read")
    /\ client[c] = "rst"
    /\ Goto(c, "close")
    /\ UNCHANGED <<proc, clientVars, depth, res, page, lock, requests, shut, got>>

(* Mutant: an early return on a read error, without the shutdown.          *)
ReadErrorReturns(c) ==
    /\ Running(c, "read")
    /\ \/ client[c] = "rst"
       \/ client[c] = "fin" /\ parts[c] = 0 /\ final[c] = "none"
    /\ Goto(c, "done")
    /\ UNCHANGED <<proc, clientVars, depth, res, page, lock, requests, shut, got>>

(* do_read, read_some returning an error: the client reset the connection, *)
(* or closed it and everything it sent has been read.                      *)
ReadError(c) ==
    /\ Running(c, "read")
    /\ \/ client[c] = "rst"
       \/ client[c] = "fin" /\ parts[c] = 0 /\ final[c] = "none"
    /\ Goto(c, "close")
    /\ UNCHANGED <<proc, clientVars, depth, res, page, lock, requests, shut, got>>

(* do_read, an indeterminate request: whatever pieces have arrived are     *)
(* consumed and do_read calls itself.                                      *)
ReadMore(c) ==
    /\ Running(c, "read")
    /\ client[c] # "rst"
    /\ depth[c] < MaxDepth
    /\ \E k \in 1..parts[c] : parts' = [parts EXCEPT ![c] = @ - k]
    /\ depth' = [depth EXCEPT ![c] = @ + 1]
    /\ UNCHANGED <<proc, client, final, before, pc, res, page, lock, requests,
                   shut, got>>

ReadOverflows(c) ==
    /\ Running(c, "read")
    /\ client[c] # "rst"
    /\ parts[c] > 0
    /\ depth[c] = MaxDepth
    /\ Terminate

(* do_read, a complete request: one that is bad or has no path is answered *)
(* here, any other one goes to its handler.  StatusHandler has steps of    *)
(* its own.                                                                *)
ReadRequest(c) ==
    /\ Running(c, "read")
    /\ client[c] # "rst"
    /\ final[c] # "none"
    /\ parts' = [parts EXCEPT ![c] = 0]
    /\ \/ /\ final[c] \in {"bad", "nopath"}
          /\ res' = [res EXCEPT ![c] = BadRequest]
          /\ Goto(c, "endpoint")
       \/ /\ final[c] = "StatusHandler"
          /\ Goto(c, "slock")
          /\ UNCHANGED res
       \/ /\ final[c] \in Handlers \ {"StatusHandler"}
          /\ Goto(c, "handle")
          /\ UNCHANGED res
    /\ UNCHANGED <<proc, client, final, before, depth, page, lock, requests,
                   shut, got>>

(* HandleRequest of every handler but StatusHandler.                       *)
Handle(c) ==
    /\ InServer(c, "handle")
    /\ \E r \in HandleRequest(final[c]) : res' = [res EXCEPT ![c] = r]
    /\ Goto(c, "endpoint")
    /\ UNCHANGED <<proc, clientVars, depth, page, lock, requests, shut, got>>

(* The reverse proxy's name lookup, write to the origin, rewriting of the  *)
(* Host header and port conversion all throw, and nothing catches.         *)
HandlerThrows(c) ==
    /\ InServer(c, "handle")
    /\ final[c] = "ReverseProxyHandler"
    /\ Terminate

-----------------------------------------------------------------------------
(* StatusHandler::HandleRequest                                            *)

StatusLock(c) ==
    /\ InServer(c, "slock")
    /\ lock = Nobody
    /\ lock' = c
    /\ Goto(c, "stotal")
    /\ UNCHANGED <<proc, clientVars, depth, res, page, requests, shut, got>>

(* "Total number of requests received so far"                              *)
StatusTotal(c) ==
    /\ InServer(c, "stotal")
    /\ page' = [page EXCEPT ![c].total = Len(requests)]
    /\ Goto(c, "srows")
    /\ UNCHANGED <<proc, clientVars, depth, res, lock, requests, shut, got>>

(* One iteration of the loop over the history, or its exit; the loop reads *)
(* rh.size() anew every time.                                              *)
StatusRow(c) ==
    /\ InServer(c, "srows")
    /\ Len(page[c].rows) < Len(requests)
    /\ page' = [page EXCEPT ![c].rows = Append(@, requests[Len(@) + 1])]
    /\ UNCHANGED <<proc, clientVars, pc, depth, res, lock, requests, shut, got>>

(* Mutant: the loop stops one row short.                                   *)
StatusRowsDoneEarly(c) ==
    /\ InServer(c, "srows")
    /\ Len(page[c].rows) >= Len(requests) - 1
    /\ Goto(c, "sunlock")
    /\ UNCHANGED <<proc, clientVars, depth, res, page, lock, requests, shut, got>>

StatusRowsDone(c) ==
    /\ InServer(c, "srows")
    /\ Len(page[c].rows) = Len(requests)
    /\ Goto(c, "sunlock")
    /\ UNCHANGED <<proc, clientVars, depth, res, page, lock, requests, shut, got>>

StatusUnlock(c) ==
    /\ InServer(c, "sunlock")
    /\ lock' = Nobody
    /\ \E r \in HandleRequest("StatusHandler") : res' = [res EXCEPT ![c] = r]
    /\ Goto(c, "endpoint")
    /\ UNCHANGED <<proc, clientVars, depth, page, requests, shut, got>>

-----------------------------------------------------------------------------
(* Session::do_write                                                       *)

(* Mutant: the response is not recorded.                                   *)
EndpointSkipsLog(c) ==
    /\ Running(c, "endpoint")
    /\ client[c] # "rst"
    /\ Goto(c, "send")
    /\ UNCHANGED <<proc, clientVars, depth, res, page, lock, requests, shut, got>>

(* socket.remote_endpoint(), for the log line: it throws on a connection   *)
(* that was reset.                                                         *)
Endpoint(c) ==
    /\ Running(c, "endpoint")
    /\ client[c] # "rst"
    /\ Goto(c, "llock")
    /\ UNCHANGED <<proc, clientVars, depth, res, page, lock, requests, shut, got>>

EndpointThrows(c) ==
    /\ Running(c, "endpoint")
    /\ client[c] = "rst"
    /\ Terminate

(* Mutant: do_write appends to the history without locking.                *)
LogLockDropped(c) ==
    /\ InServer(c, "llock")
    /\ Goto(c, "lpush")
    /\ UNCHANGED <<proc, clientVars, depth, res, page, lock, requests, shut, got>>

LogLock(c) ==
    /\ InServer(c, "llock")
    /\ lock = Nobody
    /\ lock' = c
    /\ Goto(c, "lpush")
    /\ UNCHANGED <<proc, clientVars, depth, res, page, requests, shut, got>>

(* Mutant: the code recorded is not the one of the response.               *)
LogPushOk(c) ==
    /\ InServer(c, "lpush")
    /\ requests' = Append(requests, [conn |-> c, code |-> 200])
    /\ Goto(c, "lunlock")
    /\ UNCHANGED <<proc, clientVars, depth, res, page, lock, shut, got>>

LogPush(c) ==
    /\ InServer(c, "lpush")
    /\ requests' = Append(requests, [conn |-> c, code |-> res[c].code])
    /\ Goto(c, "lunlock")
    /\ UNCHANGED <<proc, clientVars, depth, res, page, lock, shut, got>>

(* Mutant: a missing Unlock.                                               *)
LogUnlockForgotten(c) ==
    /\ InServer(c, "lunlock")
    /\ Goto(c, "send")
    /\ UNCHANGED <<proc, clientVars, depth, res, page, lock, requests, shut, got>>

LogUnlock(c) ==
    /\ InServer(c, "lunlock")
    /\ lock' = Nobody
    /\ Goto(c, "send")
    /\ UNCHANGED <<proc, clientVars, depth, res, page, requests, shut, got>>

(* Where do_write returns to.  After a request without a path the frame    *)
(* that read it returns at once; the frames below it, if any, go on to     *)
(* their shutdown.  Every other frame goes on to its own.                  *)
AfterWrite(c) ==
    IF final[c] = "nopath" /\ depth[c] = 1 THEN "done" ELSE "close"

(* boost::asio::write.  What is written to a client that has closed its    *)
(* end may still be read (it closed one direction only) or be lost; the    *)
(* write throws once the loss is known.                                    *)
Send(c) ==
    /\ Running(c, "send")
    /\ \/ /\ client[c] \in {"connected", "fin"}
          /\ got' = [got EXCEPT ![c] = Append(@, res[c].wire)]
       \/ /\ client[c] = "fin"
          /\ UNCHANGED got
    /\ Goto(c, AfterWrite(c))
    /\ UNCHANGED <<proc, clientVars, depth, res, page, lock, requests, shut>>

SendThrows(c) ==
    /\ Running(c, "send")
    /\ client[c] \in {"fin", "rst"}
    /\ Terminate

(* The shutdown at the end of do_read, in every frame; errors are ignored. *)
Close(c) ==
    /\ Running(c, "close")
    /\ shut' = shut \cup {c}
    /\ Goto(c, "done")
    /\ UNCHANGED <<proc, clientVars, depth, res, page, lock, requests, got>>

-----------------------------------------------------------------------------
ClientStep(c) == Connect(c) \/ SendPart(c) \/ SendFinal(c) \/ Leave(c)

MainStep ==
    \/ \E c \in Conns : Accept(c)
    \/ AcceptThrows
    \/ AcceptOverflows
    \/ MainReturns

(* What a session thread does when nothing throws.                         *)
ReadStep(c) == ReadError(c) \/ ReadMore(c) \/ ReadRequest(c)

StatusStep(c) ==
    \/ StatusLock(c) \/ StatusTotal(c) \/ StatusRow(c)
    \/ StatusRowsDone(c) \/ StatusUnlock(c)

WriteStep(c) ==
    \/ Endpoint(c) \/ LogLock(c) \/ LogPush(c) \/ LogUnlock(c)
    \/ Send(c) \/ Close(c)

FaultStep(c) ==
    \/ ReadOverflows(c) \/ HandlerThrows(c) \/ EndpointThrows(c)
    \/ SendThrows(c) \/ UseDestroyed(c)

SessionStep(c) ==
    ReadStep(c) \/ Handle(c) \/ StatusStep(c) \/ WriteStep(c) \/ FaultStep(c)

Next == MainStep \/ \E c \in Conns : ClientStep(c) \/ SessionStep(c)

Spec == Init /\ [][Next]_vars

(***************************************************************************)
(* Fairness.  The kernel schedules the main thread and every session       *)
(* thread, so each keeps taking the steps it can take.  Two waits are not  *)
(* promised to end: a client may never send the rest of its request (no    *)
(* fairness on the clients), and an origin may never answer the reverse    *)
(* proxy, whose calls have no timeout (Handle is fair only for the other   *)
(* handlers; for StaticFileHandler that assumes that scripts terminate).   *)
(* Weak fairness is enough for the mutex too: a session takes it at most   *)
(* twice, so with finitely many connections it cannot be taken from under  *)
(* a waiting thread for ever.                                              *)
(***************************************************************************)
ProxyWaits(c) == final[c] = "ReverseProxyHandler" /\ pc[c] = "handle"

Fairness ==
    /\ WF_vars(MainStep)
    /\ \A c \in Conns : WF_vars(SessionStep(c) /\ ~ ProxyWaits(c))

FairSpec == Spec /\ Fairness

-----------------------------------------------------------------------------
(* Type correctness of the whole state.                                    *)
TypeOK ==
    /\ proc \in Processes
    /\ client \in [Conns -> {"idle", "connected", "fin", "rst"}]
    /\ parts \in [Conns -> Nat]
    /\ final \in [Conns -> {"none"} \cup Requests]
    /\ pc \in [Conns -> Locations]
    /\ depth \in [Conns -> Nat]
    /\ res \in [Conns -> {NoResponse} \cup AllResponses]
    /\ page \in [Conns -> [total : Nat, rows : Seq(Entry)]]
    /\ lock \in Conns \cup {Nobody}
    /\ requests \in Seq(Entry)
    /\ shut \subseteq Conns
    /\ got \in [Conns -> Seq(Int)]
    /\ before \in [Conns -> SUBSET Conns]

(* Server::Lock and Unlock bracket the critical sections of do_write and   *)
(* of StatusHandler: the thread inside one is the holder of the mutex, so  *)
(* there is at most one, and the mutex is never held by a thread that has  *)
(* left (or died in) its critical section.                                 *)
LockDiscipline == \A c \in Conns : pc[c] \in Critical <=> lock = c

(* A status page is a consistent cut of the history: although sessions     *)
(* append to Server::requests while pages are put together row by row, a   *)
(* finished page has the rows of some prefix of the history, as many as    *)
(* the total printed above them.                                           *)
StatusPageConsistent ==
    \A c \in Conns :
        pc[c] \notin {"stotal", "srows"} =>
            /\ IsPrefix(page[c].rows, requests)
            /\ page[c].total = Len(page[c].rows)

(* "Track the responses all responses that are sent out": a connection is  *)
(* in the history once its thread is past push_back and never twice, with  *)
(* the code of its response; in particular whoever has an answer is there. *)
HistoryMatchesSessions ==
    \A c \in Conns :
        /\ Cardinality({i \in DOMAIN requests : requests[i].conn = c}) <= 1
        /\ got[c] # <<>> => [conn |-> c, code |-> res[c].code] \in Range(requests)
        /\ c \in LoggedConns => pc[c] \in Recorded

(* Real-time order: a client that asks for the status page after another   *)
(* client has read its response finds that response on the page, whatever  *)
(* the threads were doing in between.                                      *)
StatusSeesEarlier ==
    \A c \in Conns :
        final[c] = "StatusHandler" /\ got[c] # <<>> =>
            before[c] \subseteq {page[c].rows[i].conn : i \in DOMAIN page[c].rows}

(* A client gets one response at most, and except from static files (whose *)
(* scripts choose the code) and from the reverse proxy (which forwards the *)
(* origin's bytes) the status line it reads is the code the history has.   *)
ResponseAsRecorded ==
    \A c \in Conns :
        /\ Len(got[c]) <= 1
        /\ got[c] # <<>>
             /\ final[c] \notin {"StaticFileHandler", "ReverseProxyHandler"}
           => [conn |-> c, code |-> got[c][1]] \in Range(requests)

(* Once the thread of a connection is gone the connection is shut down,    *)
(* but for a request without a path that came in one read: do_read returns *)
(* from there without reaching its shutdown.                               *)
FinishedIsShutDown ==
    \A c \in Conns :
        pc[c] = "done" => c \in shut \/ (final[c] = "nopath" /\ depth[c] = 1)

-----------------------------------------------------------------------------
(* While the process runs, every complete request is answered unless its   *)
(* client leaves or it is for the reverse proxy, also when other clients   *)
(* never finish their requests and other sessions wait for an origin for   *)
(* ever: "the server can respond to many different requests all at the     *)
(* same time".                                                             *)
RequestsAnswered ==
    \A c \in Conns :
        final[c] \notin {"none", "ReverseProxyHandler"} /\ client[c] = "connected"
          ~> got[c] # <<>> \/ client[c] # "connected" \/ proc # "running"

(* The thread of a client that leaves comes to an end, unless it waits for *)
(* an origin: it is not stuck in read_some or on the mutex.                *)
SessionsEnd ==
    \A c \in Conns :
        pc[c] # "unborn" /\ client[c] \in {"fin", "rst"}
          ~> pc[c] = "done" \/ ProxyWaits(c) \/ proc # "running"

-----------------------------------------------------------------------------
(* The history and the pages of this module implement RequestLog: a page   *)
(* is taken in the step that leaves the loop over the rows.                *)
SnapshotTaken(c) ==
    /\ final[c] = "StatusHandler"
    /\ pc[c] = "sunlock" \/ res[c] # NoResponse

Log == INSTANCE RequestLog WITH
    log <- requests,
    snapshot <- [c \in Conns |-> IF SnapshotTaken(c) THEN {page[c].rows} ELSE {}],
    answered <- {c \in Conns : got[c] # <<>>}

(* Every behaviour of the server is one of the abstract request log.       *)
ImplementsRequestLog == Log!LogSpec
=============================================================================
