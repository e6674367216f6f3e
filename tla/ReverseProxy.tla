---------------------------- MODULE ReverseProxy ----------------------------
(***************************************************************************)
(* Requests of several sessions in one ReverseProxyHandler.  The handler   *)
(* is shared by all threads, and so is its remote_host: the loop of        *)
(* sendRequestToOrigin reads it twice for each exchange with an origin, to *)
(* connect and to write the Host header, and assigns it, without a lock,   *)
(* whenever an origin answers "HTTP/1.1 302 Found".                        *)
(*                                                                         *)
(* A host is a model value; Junk stands for every string that is no host   *)
(* name.  A reply is what the code looks for in it, and may end anywhere:  *)
(* the connection can end before the reply does.  The assignment of a      *)
(* std::string is two steps, its begin and its end.  Reading it meanwhile, *)
(* or assigning it too, is undefined behaviour: it gives any string, a     *)
(* host that nobody has named among them, or ends the process.             *)
(***************************************************************************)
EXTENDS Responses, Sequences, FiniteSets

CONSTANTS
    Threads,   \* sessions that are handed to the handler, one request each
    Hosts,     \* names that are host names
    Origin,    \* the remote_host of the configuration
    Junk,      \* a string that is no host name
    NoHost,    \* no "www" behind a "Location", and values not set yet
    Ports,     \* "http", "https" (443) or "bad" (not a number)
    Lacking,   \* which of "Host" and "HTTP/1" a request may be without
    Faults,    \* "resolve", "empty", "refused", "handshake", "reset"
    Replies,   \* the replies that each host may give
    Shorter    \* what is left of a name if its end is missing

(* A reply: the code in its first line (0: none), whether the text         *)
(* "HTTP/1.1 302 Found" is in it, and what lies between the "www" that     *)
(* follows the "Location" and the next "/".                                *)
Reply == [code : RemoteCodes, found : BOOLEAN, www : Hosts \cup {Junk, NoHost}]

(* A code without its last digit, or without any digit.                    *)
ShorterCodes(code) == {code \div 10, 0}

(* What the code finds in a reply of which the end is missing: less than   *)
(* the first line, or all that precedes some place behind it.  A name that *)
(* ends with the reply has no slash behind it and is taken as it is.       *)
CutShort(r) ==
    [code : {r.code} \cup ShorterCodes(r.code), found : {FALSE}, www : {NoHost}]
      \cup [code : {r.code}, found : {FALSE, r.found},
            www : {NoHost, r.www} \cup (IF r.www = NoHost THEN {} ELSE Shorter[r.www])]

ASSUME ProxyAssumption ==
    /\ Origin \in Hosts
    /\ Junk \notin Hosts /\ NoHost \notin Hosts /\ Junk # NoHost
    /\ Ports \subseteq {"http", "https", "bad"}
    /\ Replies \in [Hosts -> SUBSET Reply]
    /\ Shorter \in [Hosts \cup {Junk} -> SUBSET (Hosts \cup {Junk})]
    /\ \A code \in RemoteCodes : ShorterCodes(code) \subseteq RemoteCodes

VARIABLES
    remote_host,    \* the field of the handler
    port,           \* what kind of value remote_port is
    proc,           \* "running", or "aborted" by an uncaught exception
    pc,             \* where each thread is in sendRequestToOrigin
    query,          \* the host each thread has looked up and connected to
    header,         \* the host in the request it sends
    new_response,   \* the replies read into new_response
    ec,             \* the error code of the last read
    response,       \* what the session is left with
    torn,           \* threads whose assignment has overlapped another one
    raced,          \* history: requests another thread's redirect overlapped
    faulty,         \* history: an origin, the configuration or a request was
                    \* such that an exception is due
    spoilt          \* history: a query was made, or an assignment begun, during
                    \* an assignment, or a redirect has come without its end

vars == <<remote_host, port, proc, pc, query, header, new_response,
          ec, response, torn, raced, faulty, spoilt>>

local == <<query, header, new_response, ec, response>>
shared == <<remote_host, port, torn, raced>>

NoResponse == [code |-> -1, wire |-> -1]

Locations == {"idle", "loop", "connect", "edit", "write", "read", "check",
              "assign", "done"}

InFlight == {t \in Threads : pc[t] \notin {"idle", "done"}}
Writers == {t \in Threads : pc[t] = "assign"}

-----------------------------------------------------------------------------
Init ==
    /\ remote_host = Origin
    /\ port \in Ports
    /\ proc = "running"
    /\ pc = [t \in Threads |-> "idle"]
    /\ query = [t \in Threads |-> NoHost]
    /\ header = [t \in Threads |-> NoHost]
    /\ new_response = [t \in Threads |-> <<>>]
    /\ ec = [t \in Threads |-> "none"]
    /\ response = [t \in Threads |-> NoResponse]
    /\ torn = {}
    /\ raced = {}
    /\ faulty = FALSE
    /\ spoilt = FALSE

At(t, l) == proc = "running" /\ pc[t] = l
Goto(t, l) == pc' = [pc EXCEPT ![t] = l]

(* What a thread may read from remote_host: while others assign it, the    *)
(* pointer of one value with the length of another.                        *)
Read(t) == IF Writers = {} THEN {remote_host} ELSE Hosts \cup {Junk}

(* The process ends: nothing catches an exception that leaves              *)
(* HandleRequest, and a torn string may point anywhere.                    *)
Die ==
    /\ proc' = "aborted"
    /\ UNCHANGED <<pc, local, shared, spoilt>>

(* An origin, the configuration or the request is why.                     *)
Abort == Die /\ faulty' = TRUE

(* sendRequestToOrigin returns, and its variables are gone.                *)
Return(t) ==
    /\ Goto(t, "done")
    /\ header' = [header EXCEPT ![t] = NoHost]
    /\ ec' = [ec EXCEPT ![t] = "none"]

(* "RequestHandler::Error" is returned: the session answers 500.           *)
Error(t) ==
    /\ response' = [response EXCEPT ![t] = InternalServerError]
    /\ Return(t)
    /\ UNCHANGED <<proc, query, new_response, faulty, spoilt, shared>>

(* A session calls HandleRequest: SetUri, and an empty new_response.       *)
Start(t) ==
    /\ At(t, "idle")
    /\ Goto(t, "loop")
    /\ raced' = IF Writers = {} THEN raced ELSE raced \cup {t}
    /\ UNCHANGED <<proc, faulty, spoilt, local, remote_host, port, torn>>

(* The query is made from remote_host; stoi(remote_port) throws if that is *)
(* not a number.                                                           *)
Query(t) ==
    /\ At(t, "loop")
    /\ \/ /\ port = "bad"
          /\ Abort
       \/ /\ Writers # {}
          /\ Die
          /\ UNCHANGED faulty
       \/ /\ port # "bad"
          /\ \E h \in Read(t) : query' = [query EXCEPT ![t] = h]
          /\ spoilt' = (spoilt \/ Writers # {})
          /\ Goto(t, "connect")
          /\ UNCHANGED <<proc, faulty, header, new_response, ec,
                         response, shared>>

(* resolve throws for a name that does not exist.  An empty list of        *)
(* addresses and a failing handshake are errors; a refused connection is   *)
(* noticed by the handshake or, without one, by write, which throws.       *)
Connect(t) ==
    /\ At(t, "connect")
    /\ \/ /\ query[t] = Junk
          /\ Die
          /\ UNCHANGED faulty
       \/ /\ "resolve" \in Faults
          /\ Abort
       \/ /\ query[t] # Junk
          /\ \/ "empty" \in Faults
             \/ port = "https" /\ Faults \cap {"refused", "handshake"} # {}
          /\ Error(t)
       \/ /\ query[t] # Junk
          /\ ec' = [ec EXCEPT ![t] = "none"]
          /\ Goto(t, "edit")
          /\ UNCHANGED <<proc, faulty, spoilt, query, header, new_response,
                         response, shared>>

(* Mutant: the Host header always names the configured host.               *)
EditConfigured(t) ==
    /\ At(t, "edit")
    /\ header' = [header EXCEPT ![t] = Origin]
    /\ Goto(t, "write")
    /\ UNCHANGED <<proc, faulty, spoilt, query, new_response, ec, response, shared>>

(* The Host header is replaced, by a second reading of remote_host, and on *)
(* port 443 the version: replace throws for what is not there, which shows *)
(* in the first round.                                                     *)
Edit(t) ==
    /\ At(t, "edit")
    /\ \/ /\ header[t] = NoHost
          /\ "Host" \in Lacking \/ (port = "https" /\ "HTTP/1" \in Lacking)
          /\ Abort
       \/ /\ Writers # {}
          /\ Die
          /\ UNCHANGED faulty
       \/ /\ \E h \in Read(t) : header' = [header EXCEPT ![t] = h]
          /\ Goto(t, "write")
          /\ UNCHANGED <<proc, faulty, spoilt, query, new_response, ec,
                         response, shared>>

Write(t) ==
    /\ At(t, "write")
    /\ \/ /\ "refused" \in Faults
          /\ Abort
       \/ /\ Goto(t, "read")
          /\ UNCHANGED <<proc, faulty, spoilt, local, shared>>

(* What a host may be heard to say: a reply, or the beginning of one.      *)
Heard(h) == Replies[h] \cup (UNION {CutShort(r) : r \in Replies[h]})

(* read until an error: the end of the stream or something worse, before   *)
(* anything of a reply, within it or after all of it.                      *)
ReadReply(t) ==
    /\ At(t, "read")
    /\ \/ UNCHANGED <<new_response, spoilt>>
       \/ \E r \in Heard(query[t]) :
            /\ new_response' = [new_response EXCEPT ![t] = Append(@, r)]
            /\ spoilt' = (spoilt \/ (r.found /\ r \notin Replies[query[t]]))
    /\ \E e \in {"eof"} \cup (Faults \cap {"reset"}) : ec' = [ec EXCEPT ![t] = e]
    /\ Goto(t, "check")
    /\ UNCHANGED <<proc, faulty, query, header, response, shared>>

(* Mutant: only the configured host is followed.                           *)
IsRedirectOnce(t) == query[t] = Origin /\ \E i \in DOMAIN new_response[t] : new_response[t][i].found

(* Mutant: every "www" behind a "Location" is followed.                    *)
IsRedirectAny(t) ==
    \E i \in DOMAIN new_response[t] : new_response[t][i].www \in Hosts

(* new_response.find("HTTP/1.1 302 Found") != npos                         *)
IsRedirect(t) == \E i \in DOMAIN new_response[t] : new_response[t][i].found

(* The assignments that overlap if t's begins now.                         *)
Overlap(t) == IF Writers = {} THEN {} ELSE Writers \cup {t}

(* A redirect: substr throws if there is no "www", else the assignment of  *)
(* remote_host begins.  ec is not looked at.                               *)
Redirect(t) ==
    /\ At(t, "check")
    /\ IsRedirect(t)
    /\ \/ /\ new_response[t][1].www = NoHost
          /\ Abort
       \/ /\ new_response[t][1].www # NoHost
          /\ Goto(t, "assign")
          /\ faulty' = (faulty \/ new_response[t][1].www = Junk)
          /\ torn' = torn \cup Overlap(t)
          /\ raced' = raced \cup (InFlight \ {t}) \cup Overlap(t)
          /\ spoilt' = (spoilt \/ Overlap(t) # {})
          /\ UNCHANGED <<proc, local, remote_host, port>>

(* What the assignment of t leaves in remote_host.                         *)
Assigned(t) == IF t \in torn THEN Hosts \cup {Junk} ELSE {new_response[t][1].www}

(* Mutant: the reply is not emptied before the next round.                 *)
AssignKeeps(t) ==
    /\ At(t, "assign")
    /\ remote_host' \in Assigned(t)
    /\ torn' = torn \ {t}
    /\ Goto(t, "loop")
    /\ UNCHANGED <<proc, faulty, spoilt, local, port, raced>>

(* The assignment of remote_host ends, new_response is emptied and the     *)
(* loop goes round.                                                        *)
Assign(t) ==
    /\ At(t, "assign")
    /\ \/ /\ t \in torn
          /\ Die
          /\ UNCHANGED faulty
       \/ /\ remote_host' \in Assigned(t)
          /\ torn' = torn \ {t}
          /\ new_response' = [new_response EXCEPT ![t] = <<>>]
          /\ Goto(t, "loop")
          /\ UNCHANGED <<proc, faulty, spoilt, query, header, ec, response, port, raced>>

(* An error while reading is an error.                                     *)
ReadFailed(t) ==
    /\ At(t, "check")
    /\ ~ IsRedirect(t)
    /\ ec[t] # "eof"
    /\ Error(t)

(* HandleRequest: the code recorded, and the reply as it came.  An empty   *)
(* reply leaves the response without a status and without a full_response. *)
Forwarded(reply) ==
    IF reply = <<>> THEN {Plain(u) : u \in Uninit}
    ELSE [code : RecordedCodes(reply[1].code), wire : {reply[1].code}]

(* Mutant: the second token of the first line is taken for granted.        *)
RespondAssumesCode(t) ==
    /\ At(t, "check")
    /\ ~ IsRedirect(t)
    /\ ec[t] = "eof"
    /\ \/ /\ new_response[t] = <<>>
          /\ Die
          /\ UNCHANGED faulty
       \/ /\ new_response[t] # <<>>
          /\ response' \in {[response EXCEPT ![t] = r] : r \in Forwarded(new_response[t])}
          /\ Return(t)
          /\ UNCHANGED <<proc, faulty, spoilt, query, new_response, shared>>

Respond(t) ==
    /\ At(t, "check")
    /\ ~ IsRedirect(t)
    /\ ec[t] = "eof"
    /\ response' \in {[response EXCEPT ![t] = r] : r \in Forwarded(new_response[t])}
    /\ Return(t)
    /\ UNCHANGED <<proc, faulty, spoilt, query, new_response, shared>>

Step(t) ==
    \/ Query(t) \/ Connect(t) \/ Edit(t) \/ Write(t) \/ ReadReply(t)
    \/ Redirect(t) \/ Assign(t) \/ ReadFailed(t) \/ Respond(t)

Next == \E t \in Threads : Start(t) \/ Step(t)

Spec == Init /\ [][Next]_vars

(* A thread in the handler goes on, and origins end their replies.         *)
FairSpec == Spec /\ \A t \in Threads : WF_vars(Step(t))

-----------------------------------------------------------------------------
(* The state of the handler and of its requests is well-typed; remote_host *)
(* is never empty.                                                         *)
TypeOK ==
    /\ remote_host \in Hosts \cup {Junk}
    /\ port \in Ports
    /\ proc \in {"running", "aborted"}
    /\ pc \in [Threads -> Locations]
    /\ query \in [Threads -> Hosts \cup {Junk, NoHost}]
    /\ header \in [Threads -> Hosts \cup {Junk, NoHost}]
    /\ new_response \in [Threads -> {<<>>} \cup {<<r>> : r \in Reply}]
    /\ ec \in [Threads -> {"none", "eof", "reset"}]
    /\ response \in [Threads -> ReverseProxyResponses \cup {NoResponse}]
    /\ torn \subseteq Threads
    /\ raced \subseteq Threads
    /\ faulty \in BOOLEAN
    /\ spoilt \in BOOLEAN

(* S contains the configured host and what its members redirect to.        *)
ClosedUnderRedirects(S) ==
    /\ Origin \in S
    /\ \A h \in S : \A r \in Replies[h] : r.found /\ r.www \in Hosts => r.www \in S

Reachable ==
    {h \in Hosts : \A S \in SUBSET Hosts : ClosedUnderRedirects(S) => h \in S}

(* However requests overwrite each other's remote_host between the steps   *)
(* of each, they only go to hosts that the configured one leads to by      *)
(* redirects, until two accesses to remote_host coincide or the connection *)
(* to an origin ends within a redirect: either may make a host of its own. *)
HostsReachable ==
    ~ spoilt =>
        /\ remote_host \in Reachable \cup {Junk}
        /\ \A t \in Threads : query[t] \in Reachable \cup {Junk, NoHost}

(* A request that no other thread's redirect overlapped names, in its Host *)
(* header, the host it is sent to, redirect after redirect.                *)
HostHeaderMatches ==
    \A t \in Threads \ raced :
        pc[t] \in {"write", "read", "check", "assign"} => header[t] = query[t]

(* With origins that exist, accept connections and redirect properly, a    *)
(* sound configuration and sound requests, nothing but the data race on    *)
(* remote_host ends the process.                                           *)
OnlyRacesAbort == proc = "aborted" => faulty \/ raced # {}

Forwards(t) == pc[t] = "done" /\ response[t] # InternalServerError

(* What the client gets is the reply of the last exchange, as far as it    *)
(* was heard, and nothing of the ones before, and it is no redirect that   *)
(* should have been followed.                                              *)
ForwardedIsFinal ==
    \A t \in Threads : Forwards(t) =>
        /\ Len(new_response[t]) <= 1
        /\ \A i \in DOMAIN new_response[t] :
             ~ new_response[t][i].found /\ new_response[t][i] \in Heard(query[t])

(* The uninitialised status of a Response is recorded only if the reply    *)
(* has no code at all, or a 302 other than "302 Found".                    *)
StatusKnown ==
    \A t \in Threads :
        Forwards(t) /\ response[t].code \notin {200, 404, 500}
          => new_response[t] = <<>> \/ new_response[t][1].code \in {0, 302}

(* Every request ends, if no chain of redirects is endless: requests that  *)
(* overwrite each other's remote_host do not send each other round and     *)
(* round.  A string torn or cut short may lead anywhere.                   *)
RequestsEnd ==
    \A t \in Threads :
        pc[t] = "loop" ~> (pc[t] = "done" \/ proc = "aborted" \/ spoilt)
=============================================================================
