------------------------ MODULE ReverseProxyProofs ------------------------
(***************************************************************************)
(* Proofs about ReverseProxy, for any number of threads, any origins and   *)
(* any replies they may give: where requests can go, however the threads   *)
(* overwrite each other's remote_host, and what is forwarded.              *)
(***************************************************************************)
EXTENDS ReverseProxy, TLAPS

(* Hosts that requests may be about to go to.                              *)
Allowed == Reachable \cup {Junk}

(* Past the lookup, a thread has a host that exists.                       *)
Connected == {"edit", "write", "read", "check", "assign"}

(* Whoever connects has read a host from remote_host, or Junk.             *)
(* new_response holds at most one reply, and that is one the host asked    *)
(* last was heard to give, with its end if it is a redirect and none has   *)
(* come without; before the reply is read it is empty.                     *)
RepliesOK ==
    \A t \in Threads :
        /\ pc[t] = "connect" => query[t] # NoHost
        /\ pc[t] \in Connected => query[t] \in Hosts
        /\ new_response[t] # <<>> =>
             /\ pc[t] \in {"check", "assign", "done"}
             /\ query[t] \in Hosts
             /\ \E r \in Heard(query[t]) : new_response[t] = <<r>>
             /\ ~ spoilt /\ new_response[t][1].found =>
                  new_response[t][1] \in Replies[query[t]]

(* A thread that assigns remote_host has a redirect to a host, or Junk.    *)
RedirectsOK ==
    \A t \in Threads : pc[t] = "assign" =>
        /\ new_response[t] # <<>>
        /\ new_response[t][1].found
        /\ new_response[t][1].www # NoHost

(* A thread is done with an error or with a reply that is no redirect.     *)
DoneOK ==
    \A t \in Threads : pc[t] = "done" =>
        response[t] = InternalServerError \/ ~ IsRedirect(t)

(* Assignments that overlap another one have spoilt remote_host.           *)
TornOK == ~ spoilt => torn = {}

Shapes ==
    /\ remote_host \in Hosts \cup {Junk}
    /\ pc \in [Threads -> Locations]
    /\ query \in [Threads -> Hosts \cup {Junk, NoHost}]
    /\ new_response \in [Threads -> {<<>>} \cup {<<r>> : r \in Reply}]
    /\ DOMAIN response = Threads
    /\ torn \subseteq Threads

ProxyInv ==
    Shapes /\ HostsReachable /\ RepliesOK /\ RedirectsOK /\ DoneOK /\ TornOK

(* The configured host is reachable.                                       *)
LEMMA OriginReachable == Origin \in Reachable
BY ProxyAssumption DEF Reachable, ClosedUnderRedirects

(* Where a reachable host redirects to is reachable.                       *)
LEMMA RedirectReachable ==
    ASSUME NEW h \in Reachable, NEW r \in Replies[h], r.found, r.www \in Hosts
    PROVE  r.www \in Reachable
BY DEF Reachable, ClosedUnderRedirects

(* What is heard of a reply is a reply.                                    *)
LEMMA HeardReplies ==
    ASSUME NEW h \in Hosts, NEW q \in Heard(h)
    PROVE  q \in Reply
<1>1. CASE q \in Replies[h]
    BY <1>1, ProxyAssumption
<1>2. CASE q \notin Replies[h]
    <2>1. PICK r \in Replies[h] : q \in CutShort(r)
        BY <1>2 DEF Heard
    <2>2. r \in Reply
        BY ProxyAssumption
    <2>3. /\ r.code \in RemoteCodes /\ r.found \in BOOLEAN
          /\ r.www \in Hosts \cup {Junk, NoHost}
        BY <2>2 DEF Reply
    <2>4. ShorterCodes(r.code) \subseteq RemoteCodes
        BY <2>3, ProxyAssumption
    <2>5. r.www # NoHost => Shorter[r.www] \subseteq Hosts \cup {Junk}
        BY <2>3, ProxyAssumption
    <2> QED BY <2>1, <2>3, <2>4, <2>5 DEF CutShort, Reply
<1> QED BY <1>1, <1>2

(* What a thread that assigns remote_host assigns, of a redirect with its  *)
(* end, is a reachable host, or Junk.                                      *)
LEMMA AssignedAllowed ==
    ASSUME ProxyInv, NEW w \in Threads, pc[w] = "assign"
    PROVE  /\ new_response[w][1].www \in Hosts \cup {Junk}
           /\ ~ spoilt => new_response[w][1].www \in Allowed
<1>1. PICK r \in Heard(query[w]) : new_response[w] = <<r>>
    BY DEF ProxyInv, RepliesOK, RedirectsOK
<1>2. query[w] \in Hosts /\ r.found /\ r.www # NoHost
    BY <1>1 DEF ProxyInv, RepliesOK, RedirectsOK
<1>3. r.www \in Hosts \cup {Junk}
    BY <1>2, HeardReplies DEF Reply
<1>4. ASSUME ~ spoilt
      PROVE  r.www \in Allowed
    <2>1. r \in Replies[query[w]]
        BY <1>1, <1>2, <1>4 DEF ProxyInv, RepliesOK, RedirectsOK
    <2>2. query[w] \in Reachable
        BY <1>2, <1>4, ProxyAssumption DEF ProxyInv, HostsReachable
    <2>3. r.www \in Hosts => r.www \in Reachable
        BY <1>2, <2>1, <2>2, RedirectReachable
    <2> QED BY <1>3, <2>3 DEF Allowed
<1> QED BY <1>1, <1>3, <1>4

(* What a thread reads from remote_host is a host or Junk, and reachable   *)
(* if nothing has spoilt it and nobody assigns it meanwhile.               *)
LEMMA ReadAllowed ==
    ASSUME ProxyInv, NEW t \in Threads, NEW h \in Read(t)
    PROVE  /\ h \in Hosts \cup {Junk}
           /\ ~ spoilt /\ Writers = {} => h \in Allowed
BY DEF Read, ProxyInv, Shapes, HostsReachable, Allowed

(* A reply that is in new_response is the only one there.                  *)
LEMMA FoundFirst ==
    ASSUME ProxyInv, NEW t \in Threads, IsRedirect(t)
    PROVE  new_response[t] # <<>> /\ new_response[t][1].found
BY DEF ProxyInv, Shapes, IsRedirect

LEMMA InitProxy == Init => ProxyInv
BY OriginReachable, ProxyAssumption
   DEF Init, ProxyInv, Shapes, HostsReachable, RepliesOK, RedirectsOK, DoneOK, TornOK,
       Allowed, Connected, Locations

(* Every step of a thread preserves ProxyInv.  A thread's own fields are   *)
(* changed by itself alone, so each action is about one thread, but for    *)
(* torn and remote_host.                                                   *)
LEMMA StepProxy == ProxyInv /\ [Next]_vars => ProxyInv'
<1> SUFFICES ASSUME ProxyInv, [Next]_vars
             PROVE  ProxyInv'
    OBVIOUS
<1> USE DEF ProxyInv, Shapes, TornOK
<1>1. CASE UNCHANGED vars
    BY <1>1 DEF vars, HostsReachable, RepliesOK, RedirectsOK, DoneOK, IsRedirect
<1>2. ASSUME NEW t \in Threads, Start(t)
      PROVE  ProxyInv'
    <2>1. new_response[t] = <<>>
        BY <1>2 DEF Start, At, RepliesOK
    <2> QED BY <1>2, <2>1 DEF Start, At, Goto, Locations, Connected, local,
                              HostsReachable, RepliesOK, RedirectsOK, DoneOK, IsRedirect
<1>3. ASSUME Die
      PROVE  ProxyInv'
    BY <1>3 DEF Die, local, shared, HostsReachable, RepliesOK, RedirectsOK, DoneOK, IsRedirect
<1>4. ASSUME NEW t \in Threads, Error(t)
      PROVE  ProxyInv'
    BY <1>4 DEF Error, Return, Goto, shared, Locations, Connected,
                HostsReachable, RepliesOK, RedirectsOK, DoneOK, IsRedirect
<1>5. ASSUME NEW t \in Threads, Query(t)
      PROVE  ProxyInv'
    <2>1. CASE Die
        BY <2>1, <1>3
    <2>2. CASE ~ Die
        <3>1. PICK h \in Read(t) : query' = [query EXCEPT ![t] = h]
            BY <1>5, <2>2 DEF Query, Abort
        <3>2. h \in Hosts \cup {Junk} /\ h # NoHost
            BY <3>1, ReadAllowed, ProxyAssumption
        <3>3. new_response[t] = <<>> /\ pc[t] = "loop"
            BY <1>5 DEF Query, At, RepliesOK
        <3>4. /\ pc' = [pc EXCEPT ![t] = "connect"]
              /\ spoilt' = (spoilt \/ Writers # {})
              /\ UNCHANGED <<new_response, response, remote_host, torn>>
            BY <1>5, <2>2 DEF Query, Abort, Goto, shared
        <3>5. ~ spoilt' => ~ spoilt /\ h \in Allowed
            BY <3>1, <3>4, ReadAllowed
        <3>6. Shapes' /\ HostsReachable' /\ TornOK'
            BY <3>1, <3>2, <3>4, <3>5 DEF Locations, HostsReachable, Allowed
        <3>7. RepliesOK'
            BY <3>1, <3>2, <3>3, <3>4, <3>5 DEF RepliesOK, Connected
        <3>8. RedirectsOK' /\ DoneOK'
            BY <3>3, <3>4 DEF RedirectsOK, DoneOK, IsRedirect
        <3> QED BY <3>6, <3>7, <3>8
    <2> QED BY <2>1, <2>2
<1>6. ASSUME NEW t \in Threads, Connect(t)
      PROVE  ProxyInv'
    <2>1. CASE Die
        BY <2>1, <1>3
    <2>2. CASE Error(t)
        BY <2>2, <1>4
    <2>3. CASE ~ Die /\ ~ Error(t)
        BY <1>6, <2>3
           DEF Connect, Abort, At, Goto, shared, Locations, Connected,
               HostsReachable, RepliesOK, RedirectsOK, DoneOK, IsRedirect
    <2> QED BY <2>1, <2>2, <2>3
<1>7. ASSUME NEW t \in Threads, Edit(t) \/ Write(t)
      PROVE  ProxyInv'
    <2>1. CASE Die
        BY <2>1, <1>3
    <2>2. CASE ~ Die
        BY <1>7, <2>2
           DEF Edit, Write, Abort, At, Goto, local, shared, Locations, Connected,
               HostsReachable, RepliesOK, RedirectsOK, DoneOK, IsRedirect
    <2> QED BY <2>1, <2>2
<1>8. ASSUME NEW t \in Threads, ReadReply(t)
      PROVE  ProxyInv'
    <2>1. new_response[t] = <<>> /\ query[t] \in Hosts /\ pc[t] = "read"
        BY <1>8 DEF ReadReply, At, RepliesOK, Connected
    <2>2. /\ pc' = [pc EXCEPT ![t] = "check"]
          /\ UNCHANGED <<query, response, remote_host, torn>>
        BY <1>8 DEF ReadReply, Goto, shared
    <2>3. CASE UNCHANGED <<new_response, spoilt>>
        BY <2>1, <2>2, <2>3 DEF Locations, Connected, HostsReachable, RepliesOK,
                                RedirectsOK, DoneOK, IsRedirect
    <2>4. ASSUME NEW r \in Heard(query[t]),
                 new_response' = [new_response EXCEPT ![t] = Append(@, r)],
                 spoilt' = (spoilt \/ (r.found /\ r \notin Replies[query[t]]))
          PROVE  ProxyInv'
        <3>1. r \in Reply
            BY <2>1, HeardReplies
        <3>2. new_response'[t] = <<r>>
            BY <2>1, <2>4
        <3>3. \A u \in Threads \ {t} : new_response'[u] = new_response[u]
            BY <2>4
        <3>4. new_response' \in [Threads -> {<<>>} \cup {<<q>> : q \in Reply}]
            BY <2>1, <2>4, <3>1
        <3>5. Shapes' /\ HostsReachable' /\ TornOK'
            BY <2>2, <2>4, <3>4 DEF Locations, HostsReachable
        <3>6. RepliesOK'
            <4> DEFINE P(u) ==
                  /\ pc[u] = "connect" => query[u] # NoHost
                  /\ pc[u] \in Connected => query[u] \in Hosts
                  /\ new_response[u] # <<>> =>
                       /\ pc[u] \in {"check", "assign", "done"}
                       /\ query[u] \in Hosts
                       /\ \E q \in Heard(query[u]) : new_response[u] = <<q>>
                       /\ ~ spoilt /\ new_response[u][1].found =>
                            new_response[u][1] \in Replies[query[u]]
            <4>1. (~ spoilt' => ~ spoilt) /\ (~ spoilt' /\ r.found => r \in Replies[query[t]])
                BY <2>4
            <4>2. Heard(query'[t]) = Heard(query[t])
                BY <2>2
            <4>3. P(t)'
                BY <2>1, <2>2, <3>2, <4>1, <4>2 DEF Connected
            <4>4. ASSUME NEW u \in Threads \ {t}
                  PROVE  P(u)'
                <5>1. P(u)
                    BY DEF RepliesOK
                <5>2. /\ new_response'[u] = new_response[u] /\ pc'[u] = pc[u]
                      /\ query'[u] = query[u] /\ Heard(query'[u]) = Heard(query[u])
                    BY <2>2, <3>3
                <5> QED BY <4>1, <5>1, <5>2
            <4> QED BY <4>3, <4>4 DEF RepliesOK
        <3>7. RedirectsOK' /\ DoneOK'
            BY <2>2, <3>3 DEF RedirectsOK, DoneOK, IsRedirect
        <3> QED BY <3>5, <3>6, <3>7
    <2> QED BY <1>8, <2>3, <2>4 DEF ReadReply
<1>9. ASSUME NEW t \in Threads, Redirect(t)
      PROVE  ProxyInv'
    <2>1. CASE Die
        BY <2>1, <1>3
    <2>2. CASE ~ Die
        <3>1. /\ pc[t] = "check" /\ pc' = [pc EXCEPT ![t] = "assign"]
              /\ new_response[t][1].www # NoHost
              /\ torn' = torn \cup Overlap(t)
              /\ spoilt' = (spoilt \/ Overlap(t) # {})
              /\ UNCHANGED <<query, new_response, response, remote_host>>
            BY <1>9, <2>2 DEF Redirect, Abort, At, Goto, local
        <3>2. new_response[t] # <<>> /\ new_response[t][1].found
            BY <1>9, FoundFirst DEF Redirect
        <3>3. torn' \subseteq Threads
            BY <3>1 DEF Overlap, Writers
        <3>4. ~ spoilt' => ~ spoilt
            BY <3>1
        <3>5. TornOK'
            BY <3>1
        <3>6. Shapes' /\ HostsReachable'
            BY <3>1, <3>3, <3>4 DEF Locations, HostsReachable
        <3>7. RepliesOK' /\ RedirectsOK' /\ DoneOK'
            BY <3>1, <3>2, <3>4 DEF RepliesOK, RedirectsOK, DoneOK, IsRedirect, Connected
        <3> QED BY <3>5, <3>6, <3>7
    <2> QED BY <2>1, <2>2
<1>10. ASSUME NEW t \in Threads, Assign(t)
       PROVE  ProxyInv'
    <2>1. CASE Die
        BY <2>1, <1>3
    <2>2. CASE ~ Die
        <3>1. /\ pc[t] = "assign" /\ pc' = [pc EXCEPT ![t] = "loop"]
              /\ new_response' = [new_response EXCEPT ![t] = <<>>]
              /\ remote_host' \in Assigned(t) /\ torn' = torn \ {t}
              /\ UNCHANGED <<query, response, spoilt>>
            BY <1>10, <2>2 DEF Assign, At, Goto
        <3>2. /\ new_response[t][1].www \in Hosts \cup {Junk}
              /\ ~ spoilt => new_response[t][1].www \in Allowed
            BY <3>1, AssignedAllowed
        <3>3. remote_host' \in Hosts \cup {Junk}
            BY <3>1, <3>2 DEF Assigned
        <3>4. ~ spoilt => remote_host' \in Allowed
            BY <3>1, <3>2 DEF Assigned
        <3>5. Shapes' /\ HostsReachable' /\ TornOK'
            BY <3>1, <3>3, <3>4 DEF Locations, HostsReachable, Allowed
        <3>6. RepliesOK' /\ RedirectsOK' /\ DoneOK'
            BY <3>1 DEF RepliesOK, RedirectsOK, DoneOK, IsRedirect, Connected
        <3> QED BY <3>5, <3>6
    <2> QED BY <2>1, <2>2
<1>11. ASSUME NEW t \in Threads, ReadFailed(t)
       PROVE  ProxyInv'
    BY <1>11, <1>4 DEF ReadFailed
<1>12. ASSUME NEW t \in Threads, Respond(t)
       PROVE  ProxyInv'
    <2>1. /\ pc[t] = "check" /\ pc' = [pc EXCEPT ![t] = "done"]
          /\ ~ IsRedirect(t)
          /\ \E r : response' = [response EXCEPT ![t] = r]
          /\ UNCHANGED <<query, new_response, remote_host, torn, spoilt>>
        BY <1>12 DEF Respond, Return, At, Goto, shared
    <2>2. Shapes' /\ HostsReachable' /\ TornOK'
        BY <2>1 DEF Locations, HostsReachable, Allowed
    <2>3. RepliesOK' /\ RedirectsOK' /\ DoneOK'
        BY <2>1 DEF RepliesOK, RedirectsOK, DoneOK, IsRedirect, Connected
    <2> QED BY <2>2, <2>3
<1> QED
    BY <1>1, <1>2, <1>5, <1>6, <1>7, <1>8, <1>9, <1>10, <1>11, <1>12 DEF Next, Step

(* The inductive invariant holds in every behaviour.                       *)
LEMMA ProxyInvHolds == Spec => []ProxyInv
<1> QED BY InitProxy, StepProxy, PTL DEF Spec

(* However requests overwrite each other's remote_host, with however many  *)
(* threads and origins, they only go to hosts that the configured one      *)
(* leads to by redirects, until two accesses to remote_host coincide or a  *)
(* redirect comes without its end.                                         *)
THEOREM RequestsStayReachable == Spec => []HostsReachable
<1>1. ProxyInv => HostsReachable
    BY DEF ProxyInv
<1> QED BY <1>1, ProxyInvHolds, PTL

(* What is forwarded is the reply of the last exchange and no redirect,    *)
(* whatever other threads do to remote_host meanwhile.                     *)
THEOREM FinalReplyForwarded == Spec => []ForwardedIsFinal
<1>1. ProxyInv => ForwardedIsFinal
    <2> SUFFICES ASSUME ProxyInv, NEW t \in Threads, Forwards(t)
                 PROVE  /\ Len(new_response[t]) <= 1
                        /\ \A i \in DOMAIN new_response[t] :
                             /\ ~ new_response[t][i].found
                             /\ new_response[t][i] \in Heard(query[t])
        BY DEF ForwardedIsFinal
    <2>1. ~ IsRedirect(t)
        BY DEF ProxyInv, DoneOK, Forwards
    <2>2. CASE new_response[t] = <<>>
        BY <2>2
    <2>3. CASE new_response[t] # <<>>
        <3>1. PICK r \in Heard(query[t]) : new_response[t] = <<r>>
            BY <2>3 DEF ProxyInv, RepliesOK
        <3> QED BY <2>1, <3>1 DEF IsRedirect
    <2> QED BY <2>2, <2>3
<1> QED BY <1>1, ProxyInvHolds, PTL

-----------------------------------------------------------------------------
(* While no other thread's redirect has overlapped a request, nobody else  *)
(* is assigning remote_host, and what was read of it to connect is still   *)
(* there to be read for the header.                                        *)
Undisturbed ==
    \A t \in Threads : t \notin raced /\ pc[t] \notin {"idle", "done"} =>
        /\ Writers \subseteq {t}
        /\ pc[t] \in {"connect", "edit"} => query[t] = remote_host
        /\ pc[t] \in {"write", "read", "check", "assign"} => header[t] = query[t]

HeaderTypes ==
    /\ pc \in [Threads -> Locations]
    /\ DOMAIN query = Threads
    /\ DOMAIN header = Threads

HeaderInv == HeaderTypes /\ Undisturbed

LEMMA InitHeader == Init => HeaderInv
BY DEF Init, HeaderInv, HeaderTypes, Undisturbed, Locations

(* A thread that is not raced and does not assign reads remote_host as it  *)
(* is.                                                                     *)
LEMMA ReadsOwn ==
    ASSUME HeaderInv, NEW t \in Threads, t \notin raced, pc[t] \in {"loop", "edit"}
    PROVE  Read(t) = {remote_host}
<1>1. Writers = {}
    BY DEF HeaderInv, Undisturbed, Writers
<1> QED BY <1>1 DEF Read

(* Every step preserves HeaderInv.                                         *)
LEMMA StepHeader == HeaderInv /\ [Next]_vars => HeaderInv'
<1> SUFFICES ASSUME HeaderInv, [Next]_vars
             PROVE  HeaderInv'
    OBVIOUS
<1> USE DEF HeaderInv, HeaderTypes
<1>1. CASE UNCHANGED vars
    BY <1>1 DEF vars, Undisturbed, Writers
<1>2. ASSUME NEW t \in Threads, Start(t)
      PROVE  HeaderInv'
    BY <1>2 DEF Start, At, Goto, local, Locations, Undisturbed, Writers
<1>3. ASSUME Die
      PROVE  HeaderInv'
    BY <1>3 DEF Die, local, shared, Undisturbed, Writers
<1>4. ASSUME NEW t \in Threads, Error(t)
      PROVE  HeaderInv'
    BY <1>4 DEF Error, Return, Goto, shared, Locations, Undisturbed, Writers
<1>5. ASSUME NEW t \in Threads, Query(t)
      PROVE  HeaderInv'
    <2>1. CASE Die
        BY <2>1, <1>3
    <2>2. CASE ~ Die
        <3>1. PICK h \in Read(t) : query' = [query EXCEPT ![t] = h]
            BY <1>5, <2>2 DEF Query, Abort
        <3>2. t \notin raced => h = remote_host
            BY <1>5, <3>1, ReadsOwn DEF Query, At
        <3> QED BY <1>5, <2>2, <3>1, <3>2
                DEF Query, Abort, At, Goto, shared, Locations, Undisturbed, Writers
    <2> QED BY <2>1, <2>2
<1>6. ASSUME NEW t \in Threads, Connect(t)
      PROVE  HeaderInv'
    <2>1. CASE Die
        BY <2>1, <1>3
    <2>2. CASE Error(t)
        BY <2>2, <1>4
    <2>3. CASE ~ Die /\ ~ Error(t)
        BY <1>6, <2>3 DEF Connect, Abort, At, Goto, shared, Locations, Undisturbed, Writers
    <2> QED BY <2>1, <2>2, <2>3
<1>7. ASSUME NEW t \in Threads, Edit(t)
      PROVE  HeaderInv'
    <2>1. CASE Die
        BY <2>1, <1>3
    <2>2. CASE ~ Die
        <3>1. PICK h \in Read(t) : header' = [header EXCEPT ![t] = h]
            BY <1>7, <2>2 DEF Edit, Abort
        <3>2. t \notin raced => h = remote_host
            BY <1>7, <3>1, ReadsOwn DEF Edit, At
        <3> QED BY <1>7, <2>2, <3>1, <3>2
                DEF Edit, Abort, At, Goto, shared, Locations, Undisturbed, Writers
    <2> QED BY <2>1, <2>2
<1>8. ASSUME NEW t \in Threads, Write(t) \/ ReadReply(t)
      PROVE  HeaderInv'
    <2>1. CASE Die
        BY <2>1, <1>3
    <2>2. CASE ~ Die
        BY <1>8, <2>2
           DEF Write, ReadReply, Abort, At, Goto, local, shared, Locations, Undisturbed, Writers
    <2> QED BY <2>1, <2>2
<1>9. ASSUME NEW t \in Threads, Redirect(t)
      PROVE  HeaderInv'
    <2>1. CASE Die
        BY <2>1, <1>3
    <2>2. CASE ~ Die
        <3>1. /\ pc[t] = "check" /\ pc' = [pc EXCEPT ![t] = "assign"]
              /\ raced' = raced \cup (InFlight \ {t}) \cup Overlap(t)
              /\ UNCHANGED <<query, header, remote_host>>
            BY <1>9, <2>2 DEF Redirect, Abort, At, Goto, local
        <3>2. Writers' = Writers \cup {t}
            BY <3>1 DEF Writers
        <3>3. t \notin raced' => Writers = {}
            BY <3>1 DEF Overlap
        <3> QED BY <3>1, <3>2, <3>3 DEF Undisturbed, InFlight, Locations
    <2> QED BY <2>1, <2>2
<1>10. ASSUME NEW t \in Threads, Assign(t)
       PROVE  HeaderInv'
    <2>1. CASE Die
        BY <2>1, <1>3
    <2>2. CASE ~ Die
        BY <1>10, <2>2 DEF Assign, At, Goto, Locations, Undisturbed, Writers
    <2> QED BY <2>1, <2>2
<1>11. ASSUME NEW t \in Threads, ReadFailed(t)
       PROVE  HeaderInv'
    BY <1>11, <1>4 DEF ReadFailed
<1>12. ASSUME NEW t \in Threads, Respond(t)
       PROVE  HeaderInv'
    BY <1>12 DEF Respond, Return, At, Goto, shared, Locations, Undisturbed, Writers
<1> QED
    BY <1>1, <1>2, <1>5, <1>6, <1>7, <1>8, <1>9, <1>10, <1>11, <1>12 DEF Next, Step

(* With any number of threads, a request that no other thread's redirect   *)
(* overlapped names in its Host header the host it is sent to.             *)
THEOREM HeaderNamesHost == Spec => []HostHeaderMatches
<1>1. HeaderInv => HostHeaderMatches
    BY DEF HeaderInv, Undisturbed, HostHeaderMatches
<1> QED BY <1>1, InitHeader, StepHeader, PTL DEF Spec

-----------------------------------------------------------------------------
(* What a thread has of a status when it is done is an error's, or the one *)
(* getRemoteResponseCode makes of the reply it holds.                      *)
StatusOfReply ==
    \A t \in Threads : pc[t] = "done" =>
        response[t] = InternalServerError \/ response[t] \in Forwarded(new_response[t])

(* The fields that ProxyInv says nothing of.                               *)
OtherTypes ==
    /\ port \in Ports
    /\ proc \in {"running", "aborted"}
    /\ header \in [Threads -> Hosts \cup {Junk, NoHost}]
    /\ ec \in [Threads -> {"none", "eof", "reset"}]
    /\ response \in [Threads -> ReverseProxyResponses \cup {NoResponse}]
    /\ raced \subseteq Threads
    /\ faulty \in BOOLEAN
    /\ spoilt \in BOOLEAN

StatusInv == OtherTypes /\ StatusOfReply

(* Forwarding a reply of some origin gives a response of the handler.      *)
LEMMA ForwardedResponses ==
    ASSUME NEW q \in {<<>>} \cup {<<r>> : r \in Reply}
    PROVE  Forwarded(q) \subseteq ReverseProxyResponses
<1>1. CASE q = <<>>
    BY <1>1 DEF Forwarded, ReverseProxyResponses
<1>2. ASSUME NEW r \in Reply, q = <<r>>
      PROVE  Forwarded(q) \subseteq ReverseProxyResponses
    <2>1. q # <<>> /\ q[1] = r /\ r.code \in RemoteCodes
        BY <1>2 DEF Reply
    <2>2. Forwarded(q) = [code : RecordedCodes(r.code), wire : {r.code}]
        BY <2>1 DEF Forwarded
    <2>3. Forwarded(q) \subseteq
            UNION {[code : RecordedCodes(c), wire : {c}] : c \in RemoteCodes}
        BY <2>1, <2>2
    <2> QED BY <2>3 DEF ReverseProxyResponses
<1> QED BY <1>1, <1>2

(* Initially no thread has a response.                                     *)
LEMMA InitStatus == Init => StatusInv
BY DEF Init, StatusInv, OtherTypes, StatusOfReply

(* Every step preserves StatusInv.                                         *)
LEMMA StepStatus == ProxyInv /\ StatusInv /\ [Next]_vars => StatusInv'
<1> SUFFICES ASSUME ProxyInv, StatusInv, [Next]_vars
             PROVE  StatusInv'
    OBVIOUS
<1> USE DEF StatusInv, OtherTypes
<1>0. pc \in [Threads -> Locations] /\ DOMAIN new_response = Threads
    BY DEF ProxyInv, Shapes
<1>1. CASE UNCHANGED vars
    BY <1>1 DEF vars, StatusOfReply
<1>2. ASSUME NEW t \in Threads, Start(t)
      PROVE  StatusInv'
    BY <1>0, <1>2 DEF Start, At, Goto, local, Writers, StatusOfReply
<1>3. ASSUME Die, faulty' \in BOOLEAN
      PROVE  StatusInv'
    BY <1>3 DEF Die, local, shared, StatusOfReply
<1>4. ASSUME NEW t \in Threads, Error(t)
      PROVE  StatusInv'
    <2>1. InternalServerError \in ReverseProxyResponses
        BY DEF ReverseProxyResponses
    <2> QED BY <1>0, <1>4, <2>1, ProxyAssumption DEF Error, Return, Goto, shared, StatusOfReply
<1>5. ASSUME NEW t \in Threads, Query(t)
      PROVE  StatusInv'
    <2>1. CASE Die
        BY <1>5, <2>1, <1>3 DEF Query, Abort
    <2>2. CASE ~ Die
        BY <1>0, <1>5, <2>2 DEF Query, Abort, At, Goto, shared, StatusOfReply
    <2> QED BY <2>1, <2>2
<1>6. ASSUME NEW t \in Threads, Connect(t)
      PROVE  StatusInv'
    <2>1. CASE Die
        BY <1>6, <2>1, <1>3 DEF Connect, Abort, Error, Return, shared
    <2>2. CASE Error(t)
        BY <2>2, <1>4
    <2>3. CASE ~ Die /\ ~ Error(t)
        BY <1>0, <1>6, <2>3 DEF Connect, Abort, At, Goto, shared, StatusOfReply
    <2> QED BY <2>1, <2>2, <2>3
<1>7. ASSUME NEW t \in Threads, Edit(t)
      PROVE  StatusInv'
    <2>1. CASE Die
        BY <1>7, <2>1, <1>3 DEF Edit, Abort
    <2>2. CASE ~ Die
        <3>1. PICK h \in Read(t) : header' = [header EXCEPT ![t] = h]
            BY <1>7, <2>2 DEF Edit, Abort
        <3>2. h \in Hosts \cup {Junk}
            BY <3>1, ReadAllowed
        <3> QED BY <1>0, <1>7, <2>2, <3>1, <3>2 DEF Edit, Abort, At, Goto, shared, StatusOfReply
    <2> QED BY <2>1, <2>2
<1>8. ASSUME NEW t \in Threads, Write(t)
      PROVE  StatusInv'
    <2>1. CASE Die
        BY <1>8, <2>1, <1>3 DEF Write, Abort
    <2>2. CASE ~ Die
        BY <1>0, <1>8, <2>2 DEF Write, Abort, At, Goto, local, shared, StatusOfReply
    <2> QED BY <2>1, <2>2
<1>9. ASSUME NEW t \in Threads, ReadReply(t)
      PROVE  StatusInv'
    <2>1. /\ pc[t] = "read" /\ pc' = [pc EXCEPT ![t] = "check"]
          /\ UNCHANGED <<proc, faulty, header, response, port, raced>>
          /\ \A u \in Threads \ {t} : new_response'[u] = new_response[u]
          /\ spoilt' \in BOOLEAN
        BY <1>0, <1>9 DEF ReadReply, At, Goto, shared
    <2>2. ec' \in [Threads -> {"none", "eof", "reset"}]
        BY <1>9 DEF ReadReply
    <2> QED BY <1>0, <2>1, <2>2 DEF StatusOfReply
<1>10. ASSUME NEW t \in Threads, Redirect(t)
       PROVE  StatusInv'
    <2>1. CASE Die
        BY <1>10, <2>1, <1>3 DEF Redirect, Abort, Goto
    <2>2. CASE ~ Die
        BY <1>0, <1>10, <2>2
           DEF Redirect, Abort, At, Goto, local, StatusOfReply, InFlight, Overlap, Writers
    <2> QED BY <2>1, <2>2
<1>11. ASSUME NEW t \in Threads, Assign(t)
       PROVE  StatusInv'
    <2>1. CASE Die
        BY <1>11, <2>1, <1>3 DEF Assign
    <2>2. CASE ~ Die
        BY <1>0, <1>11, <2>2 DEF Assign, At, Goto, StatusOfReply
    <2> QED BY <2>1, <2>2
<1>12. ASSUME NEW t \in Threads, ReadFailed(t)
       PROVE  StatusInv'
    BY <1>12, <1>4 DEF ReadFailed
<1>13. ASSUME NEW t \in Threads, Respond(t)
       PROVE  StatusInv'
    <2>1. PICK r \in Forwarded(new_response[t]) : response' = [response EXCEPT ![t] = r]
        BY <1>13 DEF Respond
    <2>2. r \in ReverseProxyResponses
        BY <2>1, ForwardedResponses DEF ProxyInv, Shapes
    <2> QED BY <1>0, <1>13, <2>1, <2>2, ProxyAssumption DEF Respond, Return, At, Goto, shared, StatusOfReply
<1> QED
    BY <1>1, <1>2, <1>5, <1>6, <1>7, <1>8, <1>9, <1>10, <1>11, <1>12, <1>13 DEF Next, Step

(* The two invariants together hold in every behaviour.                    *)
LEMMA StatusInvHolds == Spec => [](ProxyInv /\ StatusInv)
<1>1. Init => ProxyInv /\ StatusInv
    BY InitProxy, InitStatus
<1>2. ProxyInv /\ StatusInv /\ [Next]_vars => (ProxyInv /\ StatusInv)'
    BY StepProxy, StepStatus
<1> QED BY <1>1, <1>2, PTL DEF Spec

(* The state of the handler is well-typed whatever the threads do to       *)
(* remote_host, which is never empty and always a host name or Junk.       *)
THEOREM ProxyTypes == Spec => []TypeOK
<1>1. ProxyInv /\ StatusInv => TypeOK
    BY DEF ProxyInv, StatusInv, Shapes, OtherTypes, TypeOK, HostsReachable, Allowed,
           Reachable
<1> QED BY <1>1, StatusInvHolds, PTL

(* A status that getRemoteResponseCode leaves uninitialised is recorded    *)
(* only for a reply without a code, or with a 302 that is not followed.    *)
THEOREM StatusFromReply == Spec => []StatusKnown
<1>1. ProxyInv /\ StatusInv => StatusKnown
    <2> SUFFICES ASSUME ProxyInv, StatusInv, NEW t \in Threads, Forwards(t),
                        new_response[t] # <<>>, new_response[t][1].code \notin {0, 302}
                 PROVE  response[t].code \in {200, 404, 500}
        BY DEF StatusKnown
    <2> DEFINE code == new_response[t][1].code
    <2>1. response[t] \in [code : RecordedCodes(code), wire : {code}]
        BY DEF StatusInv, StatusOfReply, Forwards, Forwarded
    <2>2. response[t].code \in RecordedCodes(code)
        BY <2>1
    <2> QED BY <2>2 DEF RecordedCodes
<1> QED BY <1>1, StatusInvHolds, PTL

-----------------------------------------------------------------------------
(* Until an origin, the configuration or a request is at fault, or two     *)
(* requests overlap with a redirect, no string that is no host name gets   *)
(* anywhere, and the process runs.                                         *)
Sound == ~ faulty /\ raced = {}

NoJunk ==
    Sound =>
        /\ proc = "running"
        /\ remote_host # Junk
        /\ torn = {}
        /\ \A t \in Threads :
             /\ query[t] # Junk
             /\ pc[t] = "assign" => new_response[t][1].www # Junk

(* Initially remote_host is the configured host.                           *)
LEMMA InitNoJunk == Init => NoJunk
BY ProxyAssumption DEF Init, NoJunk

(* Every step preserves NoJunk.                                            *)
LEMMA StepNoJunk ==
    ProxyInv /\ HeaderInv /\ StatusInv /\ NoJunk /\ [Next]_vars => NoJunk'
<1> SUFFICES ASSUME ProxyInv, HeaderInv, StatusInv, NoJunk, [Next]_vars, Sound'
             PROVE  /\ proc' = "running"
                    /\ remote_host' # Junk
                    /\ torn' = {}
                    /\ \A t \in Threads :
                         /\ query'[t] # Junk
                         /\ pc'[t] = "assign" => new_response'[t][1].www # Junk
    BY DEF NoJunk
<1> DEFINE Clean == /\ proc' = "running"
                    /\ remote_host' # Junk
                    /\ torn' = {}
                    /\ \A t \in Threads :
                         /\ query'[t] # Junk
                         /\ pc'[t] = "assign" => new_response'[t][1].www # Junk
<1>0. /\ pc \in [Threads -> Locations] /\ DOMAIN query = Threads
      /\ DOMAIN new_response = Threads
    BY DEF ProxyInv, Shapes
<1> USE DEF NoJunk, Sound
<1>1. CASE UNCHANGED vars
    BY <1>1 DEF vars
<1>2. ASSUME NEW t \in Threads, Start(t)
      PROVE  Clean
    BY <1>0, <1>2 DEF Start, Goto, local
<1>3. ~ Abort
    BY DEF Abort
<1>4. ASSUME NEW t \in Threads, Error(t)
      PROVE  Clean
    BY <1>0, <1>4 DEF Error, Return, Goto, shared
<1>5. ASSUME NEW t \in Threads, Query(t)
      PROVE  Clean
    <2>1. raced = {} /\ ~ faulty /\ pc[t] = "loop"
        BY <1>3, <1>5 DEF Query, Die, At, shared
    <2>2. Writers = {} /\ Read(t) = {remote_host}
        BY <2>1, ReadsOwn DEF HeaderInv, Undisturbed, Writers
    <2> QED BY <1>0, <1>3, <1>5, <2>1, <2>2 DEF Query, Goto, shared
<1>6. ASSUME NEW t \in Threads, Connect(t)
      PROVE  Clean
    <2>1. CASE Error(t)
        BY <2>1, <1>4
    <2>2. CASE ~ Error(t)
        BY <1>0, <1>3, <1>6, <2>2 DEF Connect, Die, Goto, shared
    <2> QED BY <2>1, <2>2
<1>7. ASSUME NEW t \in Threads, Edit(t)
      PROVE  Clean
    <2>1. raced = {} /\ ~ faulty /\ pc[t] = "edit"
        BY <1>3, <1>7 DEF Edit, Die, At, shared
    <2>2. Writers = {}
        BY <2>1 DEF HeaderInv, Undisturbed, Writers
    <2> QED BY <1>0, <1>3, <1>7, <2>1, <2>2 DEF Edit, Goto, shared
<1>13. ASSUME NEW t \in Threads, Write(t)
      PROVE  Clean
    BY <1>0, <1>3, <1>13 DEF Write, Goto, local, shared
<1>8. ASSUME NEW t \in Threads, ReadReply(t)
      PROVE  Clean
    <2>1. /\ pc' = [pc EXCEPT ![t] = "check"]
          /\ UNCHANGED <<proc, faulty, query, remote_host, torn, raced>>
          /\ \A u \in Threads \ {t} : new_response'[u] = new_response[u]
        BY <1>0, <1>8 DEF ReadReply, Goto, shared
    <2> QED BY <1>0, <2>1
<1>9. ASSUME NEW t \in Threads, Redirect(t)
      PROVE  Clean
    <2>1. /\ pc' = [pc EXCEPT ![t] = "assign"]
          /\ faulty' = (faulty \/ new_response[t][1].www = Junk)
          /\ raced' = raced \cup (InFlight \ {t}) \cup Overlap(t)
          /\ torn' = torn \cup Overlap(t)
          /\ UNCHANGED <<proc, local, remote_host>>
        BY <1>3, <1>9 DEF Redirect, Goto
    <2>2. Overlap(t) = {} /\ raced = {} /\ ~ faulty /\ new_response[t][1].www # Junk
        BY <2>1 DEF StatusInv, OtherTypes
    <2> QED BY <1>0, <2>1, <2>2 DEF local
<1>10. ASSUME NEW t \in Threads, Assign(t)
       PROVE  Clean
    <2>1. pc[t] = "assign" /\ raced = {} /\ ~ faulty
        BY <1>10 DEF Assign, Die, At, shared
    <2>2. torn = {}
        BY <2>1
    <2>3. /\ UNCHANGED <<proc, query>> /\ pc' = [pc EXCEPT ![t] = "loop"]
          /\ new_response' = [new_response EXCEPT ![t] = <<>>]
          /\ torn' = {} /\ remote_host' = new_response[t][1].www
        BY <1>10, <2>2 DEF Assign, Assigned, Goto
    <2> QED BY <1>0, <2>1, <2>3
<1>11. ASSUME NEW t \in Threads, ReadFailed(t)
       PROVE  Clean
    BY <1>11, <1>4 DEF ReadFailed
<1>12. ASSUME NEW t \in Threads, Respond(t)
       PROVE  Clean
    BY <1>0, <1>12 DEF Respond, Return, Goto, shared
<1> QED
    BY <1>1, <1>2, <1>5, <1>6, <1>7, <1>8, <1>9, <1>10, <1>11, <1>12, <1>13
    DEF Next, Step

(* With sound origins, configuration and requests, nothing but the data    *)
(* race on remote_host ends the process.                                   *)
THEOREM AbortsExplained == Spec => []OnlyRacesAbort
<1> DEFINE Inv == ProxyInv /\ HeaderInv /\ StatusInv /\ NoJunk
<1>1. Init => Inv
    BY InitProxy, InitHeader, InitStatus, InitNoJunk
<1>2. Inv /\ [Next]_vars => Inv'
    BY StepProxy, StepHeader, StepStatus, StepNoJunk
<1>3. Inv => OnlyRacesAbort
    BY DEF NoJunk, Sound, OnlyRacesAbort
<1> QED BY <1>1, <1>2, <1>3, PTL DEF Spec
=============================================================================
