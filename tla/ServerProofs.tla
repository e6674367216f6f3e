---------------------------- MODULE ServerProofs ----------------------------
(***************************************************************************)
(* Proofs about Server: for any set of connections, any configuration, any *)
(* limits and any status codes.                                            *)
(***************************************************************************)
EXTENDS Server, SequenceTheorems, FiniteSetTheorems, TLAPS

-----------------------------------------------------------------------------
(* What handlers produce is a pair of integers, from a known set.          *)
LEMMA ResponseTypes ==
    /\ AllResponses \subseteq [code : Int, wire : Int]
    /\ BadRequest \in AllResponses
    /\ \A t \in HandlerTypes : HandleRequest(t) \subseteq AllResponses
    /\ \A r \in AllResponses : r.code \in Codes
    /\ Codes \subseteq Int
<1>1. \A s \in Int : Plain(s) \in [code : Int, wire : Int]
  BY DEF Plain, StatusLine, ResponseCode
<1>2. EchoResponses \subseteq [code : Int, wire : Int]
  BY <1>1 DEF EchoResponses
<1>3. NotFoundResponses \subseteq [code : Int, wire : Int]
  BY <1>1 DEF NotFoundResponses, DefaultResponse
<1>4. StatusResponses \subseteq [code : Int, wire : Int]
  BY <1>1 DEF StatusResponses
<1>5. StaticFileResponses \subseteq [code : Int, wire : Int]
  BY <1>1, <1>3, CodesAssumption
     DEF StaticFileResponses, InternalServerError, DefaultResponse
<1>6. ReverseProxyResponses \subseteq [code : Int, wire : Int]
  <2>1. \A r \in RemoteCodes : RecordedCodes(r) \subseteq Int
    BY CodesAssumption DEF RecordedCodes
  <2>2. UNION {[code : RecordedCodes(r), wire : {r}] : r \in RemoteCodes}
          \subseteq [code : Int, wire : Int]
    BY <2>1, CodesAssumption
  <2>3. {Plain(u) : u \in Uninit} \subseteq [code : Int, wire : Int]
    BY <1>1, CodesAssumption
  <2>4. InternalServerError \in [code : Int, wire : Int]
    BY <1>1 DEF InternalServerError, DefaultResponse
  <2> DEFINE A == UNION {[code : RecordedCodes(r), wire : {r}] : r \in RemoteCodes}
             B == {Plain(u) : u \in Uninit}
  <2>5. ReverseProxyResponses = {InternalServerError} \cup B \cup A
    BY DEF ReverseProxyResponses
  <2> HIDE DEF A, B
  <2>6. A \subseteq [code : Int, wire : Int] /\ B \subseteq [code : Int, wire : Int]
    BY <2>2, <2>3 DEF A, B
  <2> QED BY <2>4, <2>5, <2>6
<1>7. \A t \in HandlerTypes : HandleRequest(t) \subseteq [code : Int, wire : Int]
  BY <1>2, <1>3, <1>4, <1>5, <1>6 DEF HandlerTypes, HandleRequest
<1>8. BadRequest \in [code : Int, wire : Int]
  BY <1>1 DEF BadRequest, DefaultResponse
<1>9. AllResponses \subseteq [code : Int, wire : Int]
  BY <1>7, <1>8 DEF AllResponses
<1>10. /\ BadRequest \in AllResponses
       /\ \A t \in HandlerTypes : HandleRequest(t) \subseteq AllResponses
  BY DEF AllResponses
<1>11. /\ \A r \in AllResponses : r.code \in Codes
       /\ Codes \subseteq Int
  BY <1>9 DEF Codes
<1> QED BY <1>9, <1>10, <1>11

(* A prefix agrees with the sequence at every position it has.             *)
LEMMA PrefixPointwise ==
    ASSUME NEW S, NEW s \in Seq(S), NEW t \in Seq(S)
    PROVE  IsPrefix(s, t) <=> /\ Len(s) <= Len(t)
                              /\ \A i \in 1..Len(s) : s[i] = t[i]
BY SubSeqProperties DEF IsPrefix

-----------------------------------------------------------------------------
(***************************************************************************)
(* The inductive invariant.  LockDiscipline and the properties of the      *)
(* history are not inductive by themselves: a step's effect depends on     *)
(* what the thread has done before it came to where it is, and that is     *)
(* what Phases adds.                                                       *)
(***************************************************************************)
Responding == {"endpoint", "llock", "lpush", "lunlock", "send"}

(* What a thread's location says about its request, response and page.     *)
Phases ==
    \A c \in Conns :
        /\ pc[c] = "handle" => final[c] \in Handlers \ {"StatusHandler"}
        /\ pc[c] \in {"slock", "stotal", "srows", "sunlock"} => final[c] = "StatusHandler"
        /\ pc[c] \in Responding => res[c] \in AllResponses
        /\ pc[c] \in {"unborn", "read", "handle", "slock", "stotal"} => page[c] = NoPage

(* A page under construction agrees with the history, which its thread     *)
(* keeps from growing by holding the mutex.                                *)
Pages ==
    \A c \in Conns :
        /\ IsPrefix(page[c].rows, requests)
        /\ pc[c] \in {"srows", "sunlock"} => page[c].total = Len(requests)
        /\ pc[c] \notin {"stotal", "srows"} => page[c].total = Len(page[c].rows)

ServerInv == TypeOK /\ LockDiscipline /\ Phases /\ Pages

(* Initially nothing has been accepted, recorded or locked.                *)
LEMMA ServerInvInit == Init => ServerInv
<1> SUFFICES ASSUME Init PROVE ServerInv
  OBVIOUS
<1>1. TypeOK
  BY DEF Init, TypeOK, Processes, Locations, NoPage, Entry
<1>2. LockDiscipline
  BY ServerAssumption DEF Init, LockDiscipline, Critical
<1>3. Phases
  BY DEF Init, Phases, Responding
<1>4. Pages
  <2>1. IsPrefix(<<>>, <<>>)
    BY DEF IsPrefix
  <2> QED BY <2>1 DEF Init, Pages, NoPage
<1> QED BY <1>1, <1>2, <1>3, <1>4 DEF ServerInv

(* A page is a record of two fields, updated one at a time.                *)
LEMMA PageUpdate ==
    ASSUME NEW p \in [total : Nat, rows : Seq(Entry)], NEW v
    PROVE  /\ [p EXCEPT !.total = v] = [total |-> v, rows |-> p.rows]
           /\ [p EXCEPT !.rows = v] = [total |-> p.total, rows |-> v]
OBVIOUS

(* Every step of the server keeps the types.                               *)
LEMMA TypeNext == TypeOK /\ Phases /\ Next => TypeOK'
<1> SUFFICES ASSUME TypeOK, Phases, Next PROVE TypeOK'
  OBVIOUS
<1> USE DEF TypeOK
<1>1. ASSUME NEW c \in Conns, Connect(c) PROVE TypeOK'
  BY <1>1 DEF Connect
<1>2. ASSUME NEW c \in Conns, SendPart(c) PROVE TypeOK'
  <2>1. parts' \in [Conns -> Nat]
    BY <1>2 DEF SendPart
  <2> QED BY <1>2, <2>1 DEF SendPart
<1>3. ASSUME NEW c \in Conns, SendFinal(c) PROVE TypeOK'
  <2>1. final' \in [Conns -> {"none"} \cup Requests]
    BY <1>3 DEF SendFinal
  <2>2. before' \in [Conns -> SUBSET Conns]
    BY <1>3 DEF SendFinal
  <2> QED BY <1>3, <2>1, <2>2 DEF SendFinal
<1>4. ASSUME NEW c \in Conns, Leave(c) PROVE TypeOK'
  BY <1>4, ServerAssumption DEF Leave
<1>5. ASSUME NEW c \in Conns, Accept(c) PROVE TypeOK'
  BY <1>5 DEF Accept, Locations
<1>6. CASE AcceptThrows
  BY <1>6 DEF AcceptThrows, clientVars, Processes
<1>7. CASE AcceptOverflows
  BY <1>7 DEF AcceptOverflows, clientVars, Processes
<1>8. CASE MainReturns
  BY <1>8 DEF MainReturns, clientVars, Processes
<1>9. ASSUME NEW c \in Conns, ReadOverflows(c) PROVE TypeOK'
  BY <1>9 DEF ReadOverflows, Terminate, clientVars, Processes
<1>10. ASSUME NEW c \in Conns, HandlerThrows(c) PROVE TypeOK'
  BY <1>10 DEF HandlerThrows, Terminate, clientVars, Processes
<1>11. ASSUME NEW c \in Conns, EndpointThrows(c) PROVE TypeOK'
  BY <1>11 DEF EndpointThrows, Terminate, clientVars, Processes
<1>12. ASSUME NEW c \in Conns, SendThrows(c) PROVE TypeOK'
  BY <1>12 DEF SendThrows, Terminate, clientVars, Processes
<1>13. ASSUME NEW c \in Conns, UseDestroyed(c) PROVE TypeOK'
  BY <1>13 DEF UseDestroyed, clientVars, Processes
<1>14. ASSUME NEW c \in Conns, ReadError(c) PROVE TypeOK'
  BY <1>14 DEF ReadError, Running, Goto, Locations, clientVars
<1>15. ASSUME NEW c \in Conns, ReadMore(c) PROVE TypeOK'
  <2>1. parts' \in [Conns -> Nat]
    <3>1. PICK k \in 1..parts[c] : parts' = [parts EXCEPT ![c] = parts[c] - k]
      BY <1>15 DEF ReadMore
    <3>2. parts[c] \in Nat /\ parts[c] - k \in Nat
      OBVIOUS
    <3> QED BY <3>1, <3>2
  <2>2. depth' \in [Conns -> Nat]
    BY <1>15 DEF ReadMore
  <2> QED BY <1>15, <2>1, <2>2 DEF ReadMore
<1>16. ASSUME NEW c \in Conns, ReadRequest(c) PROVE TypeOK'
  <2>1. res' \in [Conns -> {NoResponse} \cup AllResponses]
    BY <1>16, ResponseTypes DEF ReadRequest
  <2>2. pc' \in [Conns -> Locations]
    BY <1>16 DEF ReadRequest, Goto, Locations
  <2>3. parts' \in [Conns -> Nat]
    BY <1>16 DEF ReadRequest
  <2> QED BY <1>16, <2>1, <2>2, <2>3 DEF ReadRequest
<1>17. ASSUME NEW c \in Conns, Handle(c) PROVE TypeOK'
  <2>1. final[c] \in HandlerTypes
    BY <1>17, ServerAssumption DEF Handle, InServer, Phases
  <2>2. \E r \in AllResponses : res' = [res EXCEPT ![c] = r]
    BY <1>17, <2>1, ResponseTypes DEF Handle
  <2> QED BY <1>17, <2>2 DEF Handle, InServer, Goto, Locations, clientVars
<1>18. ASSUME NEW c \in Conns, StatusLock(c) PROVE TypeOK'
  BY <1>18 DEF StatusLock, InServer, Goto, Locations, clientVars
<1>19. ASSUME NEW c \in Conns, StatusTotal(c) PROVE TypeOK'
  <2>1. page' = [page EXCEPT ![c] = [total |-> Len(requests), rows |-> page[c].rows]]
    <3>1. [page[c] EXCEPT !.total = Len(requests)]
            = [total |-> Len(requests), rows |-> page[c].rows]
      BY PageUpdate
    <3> QED BY <1>19, <3>1 DEF StatusTotal
  <2>2. Len(requests) \in Nat /\ page[c].rows \in Seq(Entry)
    OBVIOUS
  <2>3. page' \in [Conns -> [total : Nat, rows : Seq(Entry)]]
    BY <2>1, <2>2
  <2> QED BY <1>19, <2>3 DEF StatusTotal, InServer, Goto, Locations, clientVars
<1>20. ASSUME NEW c \in Conns, StatusRow(c) PROVE TypeOK'
  <2> DEFINE rows == page[c].rows
  <2>1. rows \in Seq(Entry) /\ Len(rows) + 1 \in 1..Len(requests)
    BY <1>20 DEF StatusRow
  <2>2. requests[Len(rows) + 1] \in Entry
    BY <2>1, ElementOfSeq
  <2>3. Append(rows, requests[Len(rows) + 1]) \in Seq(Entry)
    BY <2>1, <2>2, AppendProperties
  <2>4. page' = [page EXCEPT ![c] = [total |-> page[c].total,
                                     rows |-> Append(rows, requests[Len(rows) + 1])]]
    <3>1. [page[c] EXCEPT !.rows = Append(rows, requests[Len(rows) + 1])]
            = [total |-> page[c].total,
               rows |-> Append(rows, requests[Len(rows) + 1])]
      BY PageUpdate
    <3> QED BY <1>20, <3>1 DEF StatusRow
  <2>5. page' \in [Conns -> [total : Nat, rows : Seq(Entry)]]
    BY <2>3, <2>4
  <2> QED BY <1>20, <2>5 DEF StatusRow, InServer, clientVars
<1>21. ASSUME NEW c \in Conns, StatusRowsDone(c) PROVE TypeOK'
  BY <1>21 DEF StatusRowsDone, InServer, Goto, Locations, clientVars
<1>22. ASSUME NEW c \in Conns, StatusUnlock(c) PROVE TypeOK'
  <2>1. "StatusHandler" \in HandlerTypes
    BY DEF HandlerTypes
  <2>2. \E r \in AllResponses : res' = [res EXCEPT ![c] = r]
    BY <1>22, <2>1, ResponseTypes DEF StatusUnlock
  <2> QED BY <1>22, <2>2 DEF StatusUnlock, InServer, Goto, Locations, clientVars
<1>23. ASSUME NEW c \in Conns, Endpoint(c) PROVE TypeOK'
  BY <1>23 DEF Endpoint, Running, Goto, Locations, clientVars
<1>24. ASSUME NEW c \in Conns, LogLock(c) PROVE TypeOK'
  BY <1>24 DEF LogLock, InServer, Goto, Locations, clientVars
<1>25. ASSUME NEW c \in Conns, LogPush(c) PROVE TypeOK'
  <2>1. res[c].code \in Codes
    BY <1>25, ResponseTypes DEF LogPush, InServer, Phases, Responding
  <2>2. [conn |-> c, code |-> res[c].code] \in Entry
    BY <2>1 DEF Entry
  <2>3. requests' \in Seq(Entry)
    BY <1>25, <2>2, AppendProperties DEF LogPush
  <2> QED BY <1>25, <2>3 DEF LogPush, InServer, Goto, Locations, clientVars
<1>26. ASSUME NEW c \in Conns, LogUnlock(c) PROVE TypeOK'
  BY <1>26 DEF LogUnlock, InServer, Goto, Locations, clientVars
<1>27. ASSUME NEW c \in Conns, Send(c) PROVE TypeOK'
  <2>1. res[c].wire \in Int
    BY <1>27, ResponseTypes DEF Send, Running, Phases, Responding
  <2>2. got[c] \in Seq(Int) /\ Append(got[c], res[c].wire) \in Seq(Int)
    BY <2>1, AppendProperties
  <2>3. got' \in [Conns -> Seq(Int)]
    BY <1>27, <2>2 DEF Send
  <2> QED BY <1>27, <2>3 DEF Send, Running, Goto, AfterWrite, Locations, clientVars
<1>28. ASSUME NEW c \in Conns, Close(c) PROVE TypeOK'
  BY <1>28 DEF Close, Running, Goto, Locations, clientVars
<1> QED
  BY <1>1, <1>2, <1>3, <1>4, <1>5, <1>6, <1>7, <1>8, <1>9, <1>10, <1>11, <1>12, <1>13, <1>14, <1>15, <1>16, <1>17, <1>18, <1>19, <1>20, <1>21, <1>22, <1>23, <1>24, <1>25, <1>26, <1>27, <1>28
     DEF Next, MainStep, ClientStep, SessionStep, ReadStep, StatusStep, WriteStep,
         FaultStep

-----------------------------------------------------------------------------
(* Steps keep the mutex and the critical sections in agreement.            *)
LEMMA LockNext == TypeOK /\ LockDiscipline /\ Next => LockDiscipline'
<1> SUFFICES ASSUME TypeOK, LockDiscipline, Next PROVE LockDiscipline'
  OBVIOUS
<1> USE DEF TypeOK, LockDiscipline, Critical
<1>1. ASSUME NEW c \in Conns, Connect(c) PROVE LockDiscipline'
  BY <1>1, ServerAssumption DEF Connect
<1>2. ASSUME NEW c \in Conns, SendPart(c) PROVE LockDiscipline'
  BY <1>2, ServerAssumption DEF SendPart
<1>3. ASSUME NEW c \in Conns, SendFinal(c) PROVE LockDiscipline'
  BY <1>3, ServerAssumption DEF SendFinal
<1>4. ASSUME NEW c \in Conns, Leave(c) PROVE LockDiscipline'
  BY <1>4, ServerAssumption DEF Leave
<1>5. ASSUME NEW c \in Conns, Accept(c) PROVE LockDiscipline'
  BY <1>5, ServerAssumption DEF Accept
<1>6. CASE AcceptThrows
  BY <1>6, ServerAssumption DEF AcceptThrows, clientVars
<1>7. CASE AcceptOverflows
  BY <1>7, ServerAssumption DEF AcceptOverflows, clientVars
<1>8. CASE MainReturns
  BY <1>8, ServerAssumption DEF MainReturns, clientVars
<1>9. ASSUME NEW c \in Conns, ReadOverflows(c) PROVE LockDiscipline'
  BY <1>9, ServerAssumption DEF ReadOverflows, Terminate, clientVars
<1>10. ASSUME NEW c \in Conns, HandlerThrows(c) PROVE LockDiscipline'
  BY <1>10, ServerAssumption DEF HandlerThrows, Terminate, clientVars
<1>11. ASSUME NEW c \in Conns, EndpointThrows(c) PROVE LockDiscipline'
  BY <1>11, ServerAssumption DEF EndpointThrows, Terminate, clientVars
<1>12. ASSUME NEW c \in Conns, SendThrows(c) PROVE LockDiscipline'
  BY <1>12, ServerAssumption DEF SendThrows, Terminate, clientVars
<1>13. ASSUME NEW c \in Conns, UseDestroyed(c) PROVE LockDiscipline'
  BY <1>13, ServerAssumption DEF UseDestroyed, clientVars
<1>14. ASSUME NEW c \in Conns, ReadError(c) PROVE LockDiscipline'
  BY <1>14, ServerAssumption DEF ReadError, Running, Goto, clientVars
<1>15. ASSUME NEW c \in Conns, ReadMore(c) PROVE LockDiscipline'
  BY <1>15, ServerAssumption DEF ReadMore, Running
<1>16. ASSUME NEW c \in Conns, ReadRequest(c) PROVE LockDiscipline'
  BY <1>16, ServerAssumption DEF ReadRequest, Running, Goto
<1>17. ASSUME NEW c \in Conns, Handle(c) PROVE LockDiscipline'
  BY <1>17, ServerAssumption DEF Handle, InServer, Goto, clientVars
<1>18. ASSUME NEW c \in Conns, StatusLock(c) PROVE LockDiscipline'
  BY <1>18, ServerAssumption DEF StatusLock, InServer, Goto, clientVars
<1>19. ASSUME NEW c \in Conns, StatusTotal(c) PROVE LockDiscipline'
  BY <1>19, ServerAssumption DEF StatusTotal, InServer, Goto, clientVars
<1>20. ASSUME NEW c \in Conns, StatusRow(c) PROVE LockDiscipline'
  BY <1>20, ServerAssumption DEF StatusRow, InServer, clientVars
<1>21. ASSUME NEW c \in Conns, StatusRowsDone(c) PROVE LockDiscipline'
  BY <1>21, ServerAssumption DEF StatusRowsDone, InServer, Goto, clientVars
<1>22. ASSUME NEW c \in Conns, StatusUnlock(c) PROVE LockDiscipline'
  BY <1>22, ServerAssumption DEF StatusUnlock, InServer, Goto, clientVars
<1>23. ASSUME NEW c \in Conns, Endpoint(c) PROVE LockDiscipline'
  BY <1>23, ServerAssumption DEF Endpoint, Running, Goto, clientVars
<1>24. ASSUME NEW c \in Conns, LogLock(c) PROVE LockDiscipline'
  BY <1>24, ServerAssumption DEF LogLock, InServer, Goto, clientVars
<1>25. ASSUME NEW c \in Conns, LogPush(c) PROVE LockDiscipline'
  BY <1>25, ServerAssumption DEF LogPush, InServer, Goto, clientVars
<1>26. ASSUME NEW c \in Conns, LogUnlock(c) PROVE LockDiscipline'
  BY <1>26, ServerAssumption DEF LogUnlock, InServer, Goto, clientVars
<1>27. ASSUME NEW c \in Conns, Send(c) PROVE LockDiscipline'
  BY <1>27, ServerAssumption DEF Send, Running, Goto, AfterWrite, clientVars
<1>28. ASSUME NEW c \in Conns, Close(c) PROVE LockDiscipline'
  BY <1>28, ServerAssumption DEF Close, Running, Goto, clientVars
<1> QED
  BY <1>1, <1>2, <1>3, <1>4, <1>5, <1>6, <1>7, <1>8, <1>9, <1>10,
     <1>11, <1>12, <1>13, <1>14, <1>15, <1>16, <1>17, <1>18, <1>19, <1>20,
     <1>21, <1>22, <1>23, <1>24, <1>25, <1>26, <1>27, <1>28
     DEF Next, MainStep, ClientStep, SessionStep, ReadStep, StatusStep, WriteStep,
         FaultStep

(* Steps keep what is known of a thread from its location.                 *)
LEMMA PhasesNext == TypeOK /\ Phases /\ Next => Phases'
<1> SUFFICES ASSUME TypeOK, Phases, Next PROVE Phases'
  OBVIOUS
<1> USE DEF TypeOK, Phases, Responding
<1>1. ASSUME NEW c \in Conns, Connect(c) PROVE Phases'
  BY <1>1 DEF Connect
<1>2. ASSUME NEW c \in Conns, SendPart(c) PROVE Phases'
  BY <1>2 DEF SendPart
<1>3. ASSUME NEW c \in Conns, SendFinal(c) PROVE Phases'
  BY <1>3, ServerAssumption DEF SendFinal, HandlerTypes
<1>4. ASSUME NEW c \in Conns, Leave(c) PROVE Phases'
  BY <1>4 DEF Leave
<1>5. ASSUME NEW c \in Conns, Accept(c) PROVE Phases'
  BY <1>5 DEF Accept
<1>6. CASE AcceptThrows
  BY <1>6 DEF AcceptThrows, clientVars
<1>7. CASE AcceptOverflows
  BY <1>7 DEF AcceptOverflows, clientVars
<1>8. CASE MainReturns
  BY <1>8 DEF MainReturns, clientVars
<1>9. ASSUME NEW c \in Conns, ReadOverflows(c) PROVE Phases'
  BY <1>9 DEF ReadOverflows, Terminate, clientVars
<1>10. ASSUME NEW c \in Conns, HandlerThrows(c) PROVE Phases'
  BY <1>10 DEF HandlerThrows, Terminate, clientVars
<1>11. ASSUME NEW c \in Conns, EndpointThrows(c) PROVE Phases'
  BY <1>11 DEF EndpointThrows, Terminate, clientVars
<1>12. ASSUME NEW c \in Conns, SendThrows(c) PROVE Phases'
  BY <1>12 DEF SendThrows, Terminate, clientVars
<1>13. ASSUME NEW c \in Conns, UseDestroyed(c) PROVE Phases'
  BY <1>13 DEF UseDestroyed, clientVars
<1>14. ASSUME NEW c \in Conns, ReadError(c) PROVE Phases'
  BY <1>14 DEF ReadError, Running, Goto, clientVars
<1>15. ASSUME NEW c \in Conns, ReadMore(c) PROVE Phases'
  BY <1>15 DEF ReadMore, Running
<1>16. ASSUME NEW c \in Conns, ReadRequest(c) PROVE Phases'
  <2>1. CASE final[c] \in {"bad", "nopath"}
    <3>1. final[c] \notin Handlers
      BY <2>1, ServerAssumption DEF HandlerTypes
    <3>2. res' = [res EXCEPT ![c] = BadRequest] /\ pc' = [pc EXCEPT ![c] = "endpoint"]
      BY <1>16, <2>1, <3>1 DEF ReadRequest, Goto
    <3> QED BY <1>16, <3>2, ResponseTypes DEF ReadRequest
  <2>2. CASE final[c] \notin {"bad", "nopath"}
    <3>1. UNCHANGED res /\ UNCHANGED page /\ UNCHANGED final
      BY <1>16, <2>2 DEF ReadRequest
    <3>2. page[c] = NoPage
      BY <1>16 DEF ReadRequest, Running
    <3>3. \/ pc' = [pc EXCEPT ![c] = "slock"] /\ final[c] = "StatusHandler"
          \/ pc' = [pc EXCEPT ![c] = "handle"] /\ final[c] \in Handlers \ {"StatusHandler"}
      BY <1>16, <2>2 DEF ReadRequest, Goto
    <3> QED BY <3>1, <3>2, <3>3
  <2> QED BY <2>1, <2>2
<1>17. ASSUME NEW c \in Conns, Handle(c) PROVE Phases'
  <2>1. final[c] \in HandlerTypes
    BY <1>17, ServerAssumption DEF Handle, InServer
  <2>2. \E r \in AllResponses : res' = [res EXCEPT ![c] = r]
    BY <1>17, <2>1, ResponseTypes DEF Handle
  <2> QED BY <1>17, <2>2 DEF Handle, InServer, Goto, clientVars
<1>18. ASSUME NEW c \in Conns, StatusLock(c) PROVE Phases'
  BY <1>18 DEF StatusLock, InServer, Goto, clientVars
<1>19. ASSUME NEW c \in Conns, StatusTotal(c) PROVE Phases'
  BY <1>19 DEF StatusTotal, InServer, Goto, clientVars
<1>20. ASSUME NEW c \in Conns, StatusRow(c) PROVE Phases'
  BY <1>20 DEF StatusRow, InServer, clientVars
<1>21. ASSUME NEW c \in Conns, StatusRowsDone(c) PROVE Phases'
  BY <1>21 DEF StatusRowsDone, InServer, Goto, clientVars
<1>22. ASSUME NEW c \in Conns, StatusUnlock(c) PROVE Phases'
  <2>1. "StatusHandler" \in HandlerTypes
    BY DEF HandlerTypes
  <2>2. \E r \in AllResponses : res' = [res EXCEPT ![c] = r]
    BY <1>22, <2>1, ResponseTypes DEF StatusUnlock
  <2> QED BY <1>22, <2>2 DEF StatusUnlock, InServer, Goto, clientVars
<1>23. ASSUME NEW c \in Conns, Endpoint(c) PROVE Phases'
  BY <1>23 DEF Endpoint, Running, Goto, clientVars
<1>24. ASSUME NEW c \in Conns, LogLock(c) PROVE Phases'
  BY <1>24 DEF LogLock, InServer, Goto, clientVars
<1>25. ASSUME NEW c \in Conns, LogPush(c) PROVE Phases'
  BY <1>25 DEF LogPush, InServer, Goto, clientVars
<1>26. ASSUME NEW c \in Conns, LogUnlock(c) PROVE Phases'
  BY <1>26 DEF LogUnlock, InServer, Goto, clientVars
<1>27. ASSUME NEW c \in Conns, Send(c) PROVE Phases'
  BY <1>27 DEF Send, Running, Goto, AfterWrite, clientVars
<1>28. ASSUME NEW c \in Conns, Close(c) PROVE Phases'
  BY <1>28 DEF Close, Running, Goto, clientVars
<1> QED
  BY <1>1, <1>2, <1>3, <1>4, <1>5, <1>6, <1>7, <1>8, <1>9, <1>10,
     <1>11, <1>12, <1>13, <1>14, <1>15, <1>16, <1>17, <1>18, <1>19, <1>20,
     <1>21, <1>22, <1>23, <1>24, <1>25, <1>26, <1>27, <1>28
     DEF Next, MainStep, ClientStep, SessionStep, ReadStep, StatusStep, WriteStep,
         FaultStep

(* Appending to a sequence keeps its prefixes.                             *)
LEMMA PrefixAppend ==
    ASSUME NEW S, NEW s \in Seq(S), NEW t \in Seq(S), NEW e \in S, IsPrefix(s, t)
    PROVE  /\ Append(t, e) \in Seq(S)
           /\ IsPrefix(s, Append(t, e))
<1>1. /\ Append(t, e) \in Seq(S)
      /\ Len(Append(t, e)) = Len(t) + 1
      /\ \A i \in 1..Len(t) : Append(t, e)[i] = t[i]
  BY AppendProperties
<1>2. Len(s) <= Len(t) /\ \A i \in 1..Len(s) : s[i] = t[i]
  BY PrefixPointwise
<1>3. \A i \in 1..Len(s) : s[i] = Append(t, e)[i]
  BY <1>1, <1>2
<1>4. Len(s) <= Len(Append(t, e))
  BY <1>1, <1>2
<1> QED BY <1>1, <1>3, <1>4, PrefixPointwise

(* Steps keep the pages in agreement with the history.                     *)
LEMMA PagesNext == TypeOK /\ LockDiscipline /\ Phases /\ Pages /\ Next => Pages'
<1> SUFFICES ASSUME TypeOK, LockDiscipline, Phases, Pages, Next PROVE Pages'
  OBVIOUS
<1> USE DEF TypeOK, Pages
<1>1. ASSUME NEW c \in Conns, Connect(c) PROVE Pages'
  BY <1>1 DEF Connect
<1>2. ASSUME NEW c \in Conns, SendPart(c) PROVE Pages'
  BY <1>2 DEF SendPart
<1>3. ASSUME NEW c \in Conns, SendFinal(c) PROVE Pages'
  BY <1>3 DEF SendFinal
<1>4. ASSUME NEW c \in Conns, Leave(c) PROVE Pages'
  BY <1>4 DEF Leave
<1>5. ASSUME NEW c \in Conns, Accept(c) PROVE Pages'
  BY <1>5 DEF Accept
<1>6. CASE AcceptThrows
  BY <1>6 DEF AcceptThrows, clientVars
<1>7. CASE AcceptOverflows
  BY <1>7 DEF AcceptOverflows, clientVars
<1>8. CASE MainReturns
  BY <1>8 DEF MainReturns, clientVars
<1>9. ASSUME NEW c \in Conns, ReadOverflows(c) PROVE Pages'
  BY <1>9 DEF ReadOverflows, Terminate, clientVars
<1>10. ASSUME NEW c \in Conns, HandlerThrows(c) PROVE Pages'
  BY <1>10 DEF HandlerThrows, Terminate, clientVars
<1>11. ASSUME NEW c \in Conns, EndpointThrows(c) PROVE Pages'
  BY <1>11 DEF EndpointThrows, Terminate, clientVars
<1>12. ASSUME NEW c \in Conns, SendThrows(c) PROVE Pages'
  BY <1>12 DEF SendThrows, Terminate, clientVars
<1>13. ASSUME NEW c \in Conns, UseDestroyed(c) PROVE Pages'
  BY <1>13 DEF UseDestroyed, clientVars
<1>14. ASSUME NEW c \in Conns, ReadError(c) PROVE Pages'
  BY <1>14 DEF ReadError, Running, Goto, clientVars
<1>15. ASSUME NEW c \in Conns, ReadMore(c) PROVE Pages'
  BY <1>15 DEF ReadMore, Running
<1>16. ASSUME NEW c \in Conns, ReadRequest(c) PROVE Pages'
  BY <1>16 DEF ReadRequest, Running, Goto
<1>17. ASSUME NEW c \in Conns, Handle(c) PROVE Pages'
  BY <1>17 DEF Handle, InServer, Goto, clientVars
<1>18. ASSUME NEW c \in Conns, StatusLock(c) PROVE Pages'
  BY <1>18 DEF StatusLock, InServer, Goto, clientVars
<1>19. ASSUME NEW c \in Conns, StatusTotal(c) PROVE Pages'
  <2>1. page' = [page EXCEPT ![c] = [total |-> Len(requests), rows |-> page[c].rows]]
    BY <1>19, PageUpdate DEF StatusTotal
  <2>2. page'[c].total = Len(requests) /\ page'[c].rows = page[c].rows
    BY <2>1
  <2>3. \A d \in Conns \ {c} : page'[d] = page[d]
    BY <2>1
  <2>4. UNCHANGED requests /\ pc' = [pc EXCEPT ![c] = "srows"]
    BY <1>19 DEF StatusTotal, Goto
  <2> QED BY <2>2, <2>3, <2>4
<1>20. ASSUME NEW c \in Conns, StatusRow(c) PROVE Pages'
  <2> DEFINE rows == page[c].rows
             row == requests[Len(rows) + 1]
  <2>1. rows \in Seq(Entry) /\ Len(rows) < Len(requests)
    BY <1>20 DEF StatusRow
  <2>2. row \in Entry
    BY <2>1, ElementOfSeq
  <2>3. page' = [page EXCEPT ![c] = [total |-> page[c].total, rows |-> Append(rows, row)]]
    BY <1>20, PageUpdate DEF StatusRow
  <2>4. page'[c].total = page[c].total /\ page'[c].rows = Append(rows, row)
    BY <2>3
  <2>5. \A d \in Conns \ {c} : page'[d] = page[d]
    BY <2>3
  <2>6. UNCHANGED requests /\ UNCHANGED pc /\ pc[c] = "srows"
    BY <1>20 DEF StatusRow, InServer
  <2>7. IsPrefix(Append(rows, row), requests)
    <3>1. IsPrefix(rows, requests)
      OBVIOUS
    <3> HIDE DEF rows, row
    <3>2. /\ Append(rows, row) \in Seq(Entry)
          /\ Len(Append(rows, row)) = Len(rows) + 1
          /\ \A i \in 1..Len(rows) : Append(rows, row)[i] = rows[i]
          /\ Append(rows, row)[Len(rows) + 1] = row
      BY <2>1, <2>2, AppendProperties
    <3>3. \A i \in 1..Len(rows) : rows[i] = requests[i]
      BY <2>1, <3>1, PrefixPointwise
    <3>4. \A i \in 1..(Len(rows) + 1) : Append(rows, row)[i] = requests[i]
      BY <2>1, <3>2, <3>3 DEF row
    <3>5. \A i \in 1..Len(Append(rows, row)) : Append(rows, row)[i] = requests[i]
      BY <3>2, <3>4
    <3>6. Len(Append(rows, row)) <= Len(requests)
      BY <2>1, <3>2
    <3> QED BY <3>2, <3>5, <3>6, PrefixPointwise
  <2> QED BY <2>4, <2>5, <2>6, <2>7
<1>21. ASSUME NEW c \in Conns, StatusRowsDone(c) PROVE Pages'
  BY <1>21 DEF StatusRowsDone, InServer, Goto, clientVars
<1>22. ASSUME NEW c \in Conns, StatusUnlock(c) PROVE Pages'
  BY <1>22 DEF StatusUnlock, InServer, Goto, clientVars
<1>23. ASSUME NEW c \in Conns, Endpoint(c) PROVE Pages'
  BY <1>23 DEF Endpoint, Running, Goto, clientVars
<1>24. ASSUME NEW c \in Conns, LogLock(c) PROVE Pages'
  BY <1>24 DEF LogLock, InServer, Goto, clientVars
<1>25. ASSUME NEW c \in Conns, LogPush(c) PROVE Pages'
  <2> DEFINE e == [conn |-> c, code |-> res[c].code]
  <2>1. e \in Entry
    BY <1>25, ResponseTypes DEF LogPush, InServer, Entry, Phases, Responding
  <2>2. /\ requests' = Append(requests, e) /\ UNCHANGED page /\ pc[c] = "lpush"
        /\ pc' = [pc EXCEPT ![c] = "lunlock"]
    BY <1>25 DEF LogPush, InServer, Goto
  <2>3. ASSUME NEW d \in Conns PROVE IsPrefix(page[d].rows, requests')
    <3> HIDE DEF e
    <3>1. /\ IsPrefix(page[d].rows, requests)
          /\ page[d].rows \in Seq(Entry)
      OBVIOUS
    <3> QED BY <2>1, <2>2, <3>1, PrefixAppend
  <2>4. \A d \in Conns : pc[d] \notin {"srows", "sunlock"}
    BY <1>25 DEF LogPush, InServer, LockDiscipline, Critical
  <2> QED BY <2>2, <2>3, <2>4
<1>26. ASSUME NEW c \in Conns, LogUnlock(c) PROVE Pages'
  BY <1>26 DEF LogUnlock, InServer, Goto, clientVars
<1>27. ASSUME NEW c \in Conns, Send(c) PROVE Pages'
  BY <1>27 DEF Send, Running, Goto, AfterWrite, clientVars
<1>28. ASSUME NEW c \in Conns, Close(c) PROVE Pages'
  BY <1>28 DEF Close, Running, Goto, clientVars
<1> QED
  BY <1>1, <1>2, <1>3, <1>4, <1>5, <1>6, <1>7, <1>8, <1>9, <1>10,
     <1>11, <1>12, <1>13, <1>14, <1>15, <1>16, <1>17, <1>18, <1>19, <1>20,
     <1>21, <1>22, <1>23, <1>24, <1>25, <1>26, <1>27, <1>28
     DEF Next, MainStep, ClientStep, SessionStep, ReadStep, StatusStep, WriteStep,
         FaultStep

(* Every step keeps the invariant.                                         *)
LEMMA ServerInvNext == ServerInv /\ [Next]_vars => ServerInv'
<1>1. ServerInv /\ Next => ServerInv'
  BY TypeNext, LockNext, PhasesNext, PagesNext DEF ServerInv
<1>2. ServerInv /\ UNCHANGED vars => ServerInv'
  BY DEF ServerInv, vars, TypeOK, LockDiscipline, Phases, Pages
<1> QED BY <1>1, <1>2

-----------------------------------------------------------------------------
(* The invariant holds throughout every execution of the server.           *)
THEOREM ServerInvariant == Spec => []ServerInv
<1> QED BY ServerInvInit, ServerInvNext, PTL DEF Spec

(* The state of the server is well-typed, however many connections there   *)
(* are and whatever its limits.                                            *)
THEOREM TypeCorrect == Spec => []TypeOK
<1>1. ServerInv => TypeOK
  BY DEF ServerInv
<1> QED BY <1>1, ServerInvariant, PTL

(* Server::mtx does what it is for: its holder is the one thread inside a  *)
(* critical section of do_write or of StatusHandler.                       *)
THEOREM MutualExclusion == Spec => []LockDiscipline
<1>1. ServerInv => LockDiscipline
  BY DEF ServerInv
<1> QED BY <1>1, ServerInvariant, PTL

(* Every status page is a consistent cut of the request history, although  *)
(* it is put together row by row while other sessions want to append.      *)
THEOREM StatusPages == Spec => []StatusPageConsistent
<1>1. ServerInv => StatusPageConsistent
  BY DEF ServerInv, Pages, StatusPageConsistent
<1> QED BY <1>1, ServerInvariant, PTL

(* push_back in do_write is the only thing that ever changes the history.  *)
LEMMA HistorySteps == Next => UNCHANGED requests \/ \E c \in Conns : LogPush(c)
BY DEF Next, MainStep, ClientStep, SessionStep, ReadStep, StatusStep, WriteStep,
       FaultStep, Connect, SendPart, SendFinal, Leave, Accept, AcceptThrows,
       AcceptOverflows, MainReturns, ReadOverflows, HandlerThrows,
       EndpointThrows, SendThrows, UseDestroyed, Terminate, ReadError, ReadMore,
       ReadRequest, Handle, StatusLock, StatusTotal, StatusRow, StatusRowsDone,
       StatusUnlock, Endpoint, LogLock, LogUnlock, Send, Close

-----------------------------------------------------------------------------
(***************************************************************************)
(* From requests to responses.  ServerInv says nothing of what a client    *)
(* has received, nor of which entry of the history is whose; the second    *)
(* layer of the invariant does.                                            *)
(***************************************************************************)
sessionVars == <<final, before, pc, depth, res, page, requests, shut, got>>

(* The steps that change anything of a session.  The others move a client, *)
(* or end the process.                                                     *)
SessionChange(c) ==
    \/ SendFinal(c) \/ Accept(c) \/ ReadStep(c) \/ Handle(c)
    \/ StatusStep(c) \/ WriteStep(c)

(* Everything else leaves the sessions and the history alone.              *)
LEMMA SessionSteps ==
    Next => UNCHANGED sessionVars \/ \E c \in Conns : SessionChange(c)
BY DEF Next, MainStep, ClientStep, SessionStep, FaultStep, SessionChange,
       sessionVars, Connect, SendPart, Leave, AcceptThrows, AcceptOverflows,
       MainReturns, ReadOverflows, HandlerThrows, EndpointThrows, SendThrows,
       UseDestroyed, Terminate, clientVars

(* Where a thread is before it has a response.                             *)
Unanswered == {"unborn", "read", "handle", "slock", "stotal", "srows", "sunlock"}

(* The responses a request of each outcome may get.                        *)
ResponsesTo(f) == IF f \in {"bad", "nopath"} THEN {BadRequest} ELSE HandleRequest(f)

(* The responses are well-formed; the status page's is not the empty one;  *)
(* and what is recorded is what is sent, but for static files and proxies. *)
LEMMA ResponsesToRequests ==
    ASSUME NEW f \in Requests, NEW r \in ResponsesTo(f)
    PROVE  /\ r \in AllResponses
           /\ f = "StatusHandler" => r # NoResponse
           /\ f \notin {"StaticFileHandler", "ReverseProxyHandler"} => r.code = r.wire
<1>1. f \in {"bad", "nopath"} \/ f \in HandlerTypes
  BY ServerAssumption DEF Requests
<1>2. r \in AllResponses
  BY <1>1, ResponseTypes DEF ResponsesTo
<1>3. \A s \in {200, 400, 404} : Plain(s) = [code |-> s, wire |-> s]
  BY DEF Plain, StatusLine, ResponseCode
<1>4. CASE f \in {"bad", "nopath"}
  BY <1>2, <1>3, <1>4 DEF ResponsesTo, BadRequest, DefaultResponse
<1>5. CASE f \in {"EchoHandler", "StatusHandler"}
  <2>1. r = Plain(200)
    BY <1>5 DEF ResponsesTo, HandleRequest, EchoResponses, StatusResponses
  <2> QED BY <1>2, <1>3, <2>1 DEF NoResponse
<1>6. CASE f = "NotFoundHandler"
  <2>1. r = Plain(404)
    BY <1>6 DEF ResponsesTo, HandleRequest, NotFoundResponses, DefaultResponse
  <2> QED BY <1>2, <1>3, <1>6, <2>1
<1>7. CASE f \in {"StaticFileHandler", "ReverseProxyHandler"}
  BY <1>2, <1>7
<1> QED BY <1>1, <1>4, <1>5, <1>6, <1>7 DEF HandlerTypes

(* How far a thread has come, from its request to the client's copy of the *)
(* response: the request is complete before anything is made of it, the    *)
(* response is one the request may get, and it is sent once, at the end.   *)
Progress ==
    \A c \in Conns :
        /\ pc[c] \notin {"unborn", "read", "close", "done"} => final[c] # "none"
        /\ pc[c] \in Unanswered => res[c] = NoResponse
        /\ res[c] # NoResponse => final[c] # "none"
        /\ pc[c] \in Responding \/ got[c] # <<>> =>
             final[c] \in Requests /\ res[c] \in ResponsesTo(final[c])
        /\ got[c] # <<>> => pc[c] \in {"close", "done"} /\ got[c] = <<res[c].wire>>

(* Steps keep track of the responses.                                      *)
LEMMA ProgressNext == TypeOK /\ Phases /\ Progress /\ Next => Progress'
<1> SUFFICES ASSUME TypeOK, Phases, Progress, Next PROVE Progress'
  OBVIOUS
<1> USE DEF TypeOK, Progress, Responding, Unanswered
<1>1. CASE UNCHANGED sessionVars
  BY <1>1 DEF sessionVars
<1>2. ASSUME NEW c \in Conns, SendFinal(c) PROVE Progress'
  <2>1. PICK r \in Requests : final' = [final EXCEPT ![c] = r]
    BY <1>2 DEF SendFinal
  <2>2. r # "none"
    BY ServerAssumption DEF Requests, HandlerTypes
  <2>3. final[c] = "none" /\ UNCHANGED <<pc, res, got>>
    BY <1>2 DEF SendFinal
  <2>4. "none" \notin Requests
    BY ServerAssumption DEF Requests, HandlerTypes
  <2> QED BY <2>1, <2>2, <2>3, <2>4
<1>3. ASSUME NEW c \in Conns, Accept(c) PROVE Progress'
  BY <1>3 DEF Accept
<1>4. ASSUME NEW c \in Conns, ReadError(c) PROVE Progress'
  BY <1>4 DEF ReadError, Running, Goto, clientVars
<1>5. ASSUME NEW c \in Conns, ReadMore(c) PROVE Progress'
  BY <1>5 DEF ReadMore, Running
<1>6. ASSUME NEW c \in Conns, ReadRequest(c) PROVE Progress'
  <2>1. /\ pc[c] = "read" /\ final[c] # "none" /\ final[c] \in Requests
        /\ UNCHANGED <<final, got>>
    BY <1>6 DEF ReadRequest, Running
  <2>2. CASE final[c] \in {"bad", "nopath"}
    <3>1. final[c] \notin Handlers
      BY <2>2, ServerAssumption DEF HandlerTypes
    <3>2. res' = [res EXCEPT ![c] = BadRequest] /\ pc' = [pc EXCEPT ![c] = "endpoint"]
      BY <1>6, <2>2, <3>1 DEF ReadRequest, Goto
    <3>3. BadRequest \in ResponsesTo(final[c])
      BY <2>2 DEF ResponsesTo
    <3> QED BY <2>1, <3>2, <3>3
  <2>3. CASE final[c] \notin {"bad", "nopath"}
    <3>1. UNCHANGED res
      BY <1>6, <2>3 DEF ReadRequest
    <3>2. pc' = [pc EXCEPT ![c] = "slock"] \/ pc' = [pc EXCEPT ![c] = "handle"]
      BY <1>6, <2>3 DEF ReadRequest, Goto
    <3> QED BY <2>1, <3>1, <3>2
  <2> QED BY <2>2, <2>3
<1>7. ASSUME NEW c \in Conns, Handle(c) PROVE Progress'
  <2>1. /\ pc[c] = "handle" /\ final[c] \in Handlers
        /\ UNCHANGED <<final, got>> /\ pc' = [pc EXCEPT ![c] = "endpoint"]
    BY <1>7 DEF Handle, InServer, Phases, Goto, clientVars
  <2>2. final[c] \in Requests /\ final[c] \notin {"bad", "nopath"}
    BY <2>1, ServerAssumption DEF Requests, HandlerTypes
  <2>3. \E r \in ResponsesTo(final[c]) : res' = [res EXCEPT ![c] = r]
    BY <1>7, <2>2 DEF Handle, ResponsesTo
  <2> QED BY <2>1, <2>2, <2>3
<1>8. ASSUME NEW c \in Conns, StatusLock(c) PROVE Progress'
  BY <1>8 DEF StatusLock, InServer, Goto, clientVars
<1>9. ASSUME NEW c \in Conns, StatusTotal(c) PROVE Progress'
  BY <1>9 DEF StatusTotal, InServer, Goto, clientVars
<1>10. ASSUME NEW c \in Conns, StatusRow(c) PROVE Progress'
  BY <1>10 DEF StatusRow, InServer, clientVars
<1>11. ASSUME NEW c \in Conns, StatusRowsDone(c) PROVE Progress'
  BY <1>11 DEF StatusRowsDone, InServer, Goto, clientVars
<1>12. ASSUME NEW c \in Conns, StatusUnlock(c) PROVE Progress'
  <2>1. /\ pc[c] = "sunlock" /\ final[c] = "StatusHandler" /\ final[c] # "none"
        /\ UNCHANGED <<final, got>> /\ pc' = [pc EXCEPT ![c] = "endpoint"]
    BY <1>12 DEF StatusUnlock, InServer, Phases, Goto, clientVars
  <2>2. final[c] \in Requests
    BY <2>1
  <2>3. \E r \in ResponsesTo(final[c]) : res' = [res EXCEPT ![c] = r]
    BY <1>12, <2>1 DEF StatusUnlock, ResponsesTo
  <2> QED BY <2>1, <2>2, <2>3
<1>13. ASSUME NEW c \in Conns, Endpoint(c) PROVE Progress'
  BY <1>13 DEF Endpoint, Running, Goto, clientVars
<1>14. ASSUME NEW c \in Conns, LogLock(c) PROVE Progress'
  BY <1>14 DEF LogLock, InServer, Goto, clientVars
<1>15. ASSUME NEW c \in Conns, LogPush(c) PROVE Progress'
  BY <1>15 DEF LogPush, InServer, Goto, clientVars
<1>16. ASSUME NEW c \in Conns, LogUnlock(c) PROVE Progress'
  BY <1>16 DEF LogUnlock, InServer, Goto, clientVars
<1>17. ASSUME NEW c \in Conns, Send(c) PROVE Progress'
  <2>1. /\ pc[c] = "send" /\ got[c] = <<>>
        /\ UNCHANGED <<final, res>>
        /\ pc' = [pc EXCEPT ![c] = "close"] \/ pc' = [pc EXCEPT ![c] = "done"]
    BY <1>17 DEF Send, Running, Goto, AfterWrite, clientVars
  <2>2. \/ got' = got
        \/ got' = [got EXCEPT ![c] = <<res[c].wire>>]
    BY <1>17, <2>1 DEF Send
  <2>3. /\ got'[c] # <<>> => got'[c] = <<res[c].wire>>
        /\ \A d \in Conns \ {c} : got'[d] = got[d] /\ pc'[d] = pc[d]
    BY <2>1, <2>2
  <2>4. /\ pc'[c] \in {"close", "done"} /\ final[c] # "none"
        /\ final[c] \in Requests /\ res[c] \in ResponsesTo(final[c])
    BY <2>1
  <2> QED BY <2>1, <2>3, <2>4
<1>18. ASSUME NEW c \in Conns, Close(c) PROVE Progress'
  BY <1>18 DEF Close, Running, Goto, clientVars
<1> QED
  BY <1>1, <1>2, <1>3, <1>4, <1>5, <1>6, <1>7, <1>8, <1>9, <1>10, <1>11, <1>12,
     <1>13, <1>14, <1>15, <1>16, <1>17, <1>18, SessionSteps
     DEF SessionChange, ReadStep, StatusStep, WriteStep

(* Which entry of the history is whose.  A connection has one entry at     *)
(* most, only once its thread is past push_back, and between there and     *)
(* the end of the send the entry has the code of the response.             *)
EntryOf(c) == [conn |-> c, code |-> res[c].code]

History ==
    /\ \A i, j \in DOMAIN requests : requests[i].conn = requests[j].conn => i = j
    /\ \A i \in DOMAIN requests : pc[requests[i].conn] \in Recorded
    /\ \A c \in Conns :
         pc[c] \in {"lunlock", "send"} \/ got[c] # <<>> =>
             \E i \in DOMAIN requests : requests[i] = EntryOf(c)

(* A step that records nothing, and does not take a thread back from where *)
(* it had recorded something, keeps the entries in place.                  *)
LEMMA HistoryKept ==
    ASSUME TypeOK, History, UNCHANGED requests,
           \A c \in Conns : pc[c] \in Recorded => pc'[c] \in Recorded,
           \A c \in Conns : pc'[c] \in {"lunlock", "send"} \/ got'[c] # <<>> =>
               /\ pc[c] \in {"lunlock", "send"} \/ got[c] # <<>>
               /\ res'[c] = res[c]
    PROVE  History'
<1>1. \A i \in DOMAIN requests : requests[i] \in Entry
  BY ElementOfSeq DEF TypeOK
<1>2. \A i \in DOMAIN requests : requests[i].conn \in Conns
  BY <1>1 DEF Entry
<1>3. \A i \in DOMAIN requests : pc'[requests[i].conn] \in Recorded
  BY <1>2 DEF History
<1>4. ASSUME NEW c \in Conns, pc'[c] \in {"lunlock", "send"} \/ got'[c] # <<>>
      PROVE  \E i \in DOMAIN requests : requests[i] = [conn |-> c, code |-> res'[c].code]
  BY <1>4 DEF History, EntryOf
<1> QED BY <1>3, <1>4 DEF History, EntryOf

(* What is at the positions of a sequence with one more element.           *)
LEMMA AppendElements ==
    ASSUME NEW S, NEW s \in Seq(S), NEW e \in S
    PROVE  /\ DOMAIN s = 1..Len(s) /\ Len(s) \in Nat
           /\ DOMAIN Append(s, e) = 1..(Len(s) + 1)
           /\ \A i \in DOMAIN s : Append(s, e)[i] = s[i]
           /\ Append(s, e)[Len(s) + 1] = e
BY AppendProperties

(* Steps keep the entries in place.                                        *)
LEMMA HistoryNext ==
    TypeOK /\ Phases /\ Progress /\ History /\ Next => History'
<1> SUFFICES ASSUME TypeOK, Phases, Progress, History, Next PROVE History'
  OBVIOUS
<1> USE DEF TypeOK, Recorded
<1>1. CASE UNCHANGED sessionVars
  BY <1>1, HistoryKept DEF sessionVars
<1>2. ASSUME NEW c \in Conns, SendFinal(c) PROVE History'
  BY <1>2, HistoryKept DEF SendFinal
<1>3. ASSUME NEW c \in Conns, Accept(c) PROVE History'
  BY <1>3, HistoryKept DEF Accept
<1>4. ASSUME NEW c \in Conns, ReadError(c) PROVE History'
  BY <1>4, HistoryKept DEF ReadError, Running, Goto
<1>5. ASSUME NEW c \in Conns, ReadMore(c) PROVE History'
  BY <1>5, HistoryKept DEF ReadMore
<1>6. ASSUME NEW c \in Conns, ReadRequest(c) PROVE History'
  <2>1. /\ pc[c] = "read" /\ got[c] = <<>> /\ UNCHANGED <<requests, got>>
        /\ \A d \in Conns \ {c} : res'[d] = res[d] /\ pc'[d] = pc[d]
    BY <1>6 DEF ReadRequest, Running, Goto, Progress
  <2>2. pc'[c] \in {"endpoint", "slock", "handle"}
    BY <1>6 DEF ReadRequest, Goto
  <2> QED BY <2>1, <2>2, HistoryKept
<1>7. ASSUME NEW c \in Conns, Handle(c) PROVE History'
  <2>1. /\ pc[c] = "handle" /\ got[c] = <<>> /\ UNCHANGED <<requests, got>>
        /\ \A d \in Conns \ {c} : res'[d] = res[d] /\ pc'[d] = pc[d]
        /\ pc'[c] = "endpoint"
    BY <1>7 DEF Handle, InServer, Goto, Progress
  <2> QED BY <2>1, HistoryKept
<1>8. ASSUME NEW c \in Conns, StatusLock(c) PROVE History'
  BY <1>8, HistoryKept DEF StatusLock, InServer, Goto
<1>9. ASSUME NEW c \in Conns, StatusTotal(c) PROVE History'
  BY <1>9, HistoryKept DEF StatusTotal, InServer, Goto
<1>10. ASSUME NEW c \in Conns, StatusRow(c) PROVE History'
  BY <1>10, HistoryKept DEF StatusRow, InServer
<1>11. ASSUME NEW c \in Conns, StatusRowsDone(c) PROVE History'
  BY <1>11, HistoryKept DEF StatusRowsDone, InServer, Goto
<1>12. ASSUME NEW c \in Conns, StatusUnlock(c) PROVE History'
  <2>1. /\ pc[c] = "sunlock" /\ got[c] = <<>> /\ UNCHANGED <<requests, got>>
        /\ \A d \in Conns \ {c} : res'[d] = res[d] /\ pc'[d] = pc[d]
        /\ pc'[c] = "endpoint"
    BY <1>12 DEF StatusUnlock, InServer, Goto, Progress
  <2> QED BY <2>1, HistoryKept
<1>13. ASSUME NEW c \in Conns, Endpoint(c) PROVE History'
  BY <1>13, HistoryKept DEF Endpoint, Running, Goto
<1>14. ASSUME NEW c \in Conns, LogLock(c) PROVE History'
  BY <1>14, HistoryKept DEF LogLock, InServer, Goto
<1>15. ASSUME NEW c \in Conns, LogPush(c) PROVE History'
  <2> DEFINE e == EntryOf(c)
  <2>1. /\ pc[c] = "lpush" /\ requests' = Append(requests, e)
        /\ pc' = [pc EXCEPT ![c] = "lunlock"] /\ UNCHANGED <<res, got>>
    BY <1>15 DEF LogPush, InServer, Goto, EntryOf
  <2>2. e \in Entry /\ e.conn = c
    BY <2>1, ResponseTypes DEF Entry, EntryOf, Phases, Responding
  <2> HIDE DEF e
  <2>3. /\ DOMAIN requests = 1..Len(requests) /\ Len(requests) \in Nat
        /\ DOMAIN requests' = 1..(Len(requests) + 1)
        /\ \A i \in DOMAIN requests : requests'[i] = requests[i]
        /\ requests'[Len(requests) + 1] = e
    BY <2>1, <2>2, AppendElements
  <2>4. \A i \in DOMAIN requests : requests[i] \in Entry
    BY ElementOfSeq
  <2>5. \A i \in DOMAIN requests : requests[i].conn \in Conns \ {c}
    BY <2>1, <2>4 DEF Entry, History
  <2>6. \A i, j \in DOMAIN requests' : requests'[i].conn = requests'[j].conn => i = j
    <3> SUFFICES ASSUME NEW i \in DOMAIN requests', NEW j \in DOMAIN requests',
                        requests'[i].conn = requests'[j].conn
                 PROVE  i = j
      OBVIOUS
    <3>1. CASE i \in DOMAIN requests /\ j \in DOMAIN requests
      BY <2>3, <3>1 DEF History
    <3>2. CASE i \notin DOMAIN requests /\ j \notin DOMAIN requests
      BY <2>3, <3>2
    <3>3. CASE i \in DOMAIN requests /\ j \notin DOMAIN requests
      BY <2>2, <2>3, <2>5, <3>3
    <3>4. CASE i \notin DOMAIN requests /\ j \in DOMAIN requests
      BY <2>2, <2>3, <2>5, <3>4
    <3> QED BY <3>1, <3>2, <3>3, <3>4
  <2>7. ASSUME NEW i \in DOMAIN requests' PROVE pc'[requests'[i].conn] \in Recorded
    <3>1. CASE i \in DOMAIN requests
      <4>1. requests'[i] = requests[i] /\ requests[i].conn \in Conns \ {c}
        BY <2>3, <2>5, <3>1
      <4> QED BY <2>1, <3>1, <4>1 DEF History
    <3>2. CASE i = Len(requests) + 1
      BY <2>1, <2>2, <2>3, <3>2
    <3> QED BY <2>3, <3>1, <3>2
  <2>8. ASSUME NEW d \in Conns, pc'[d] \in {"lunlock", "send"} \/ got'[d] # <<>>
        PROVE  \E i \in DOMAIN requests' : requests'[i] = EntryOf(d)
    <3>1. CASE d = c
      <4>1. Len(requests) + 1 \in DOMAIN requests'
        BY <2>3
      <4>2. requests'[Len(requests) + 1] = EntryOf(d)
        BY <2>3, <3>1 DEF e
      <4> QED BY <4>1, <4>2
    <3>2. CASE d # c
      <4>1. pc[d] \in {"lunlock", "send"} \/ got[d] # <<>>
        BY <2>1, <2>8, <3>2
      <4>2. PICK i \in DOMAIN requests : requests[i] = EntryOf(d)
        BY <4>1 DEF History
      <4> QED BY <2>3, <4>2
    <3> QED BY <3>1, <3>2
  <2>9. \A d \in Conns : EntryOf(d)' = EntryOf(d)
    BY <2>1 DEF EntryOf
  <2> QED BY <2>6, <2>7, <2>8, <2>9 DEF History
<1>16. ASSUME NEW c \in Conns, LogUnlock(c) PROVE History'
  BY <1>16, HistoryKept DEF LogUnlock, InServer, Goto
<1>17. ASSUME NEW c \in Conns, Send(c) PROVE History'
  <2>1. /\ pc[c] = "send" /\ UNCHANGED <<requests, res>>
        /\ pc' = [pc EXCEPT ![c] = "close"] \/ pc' = [pc EXCEPT ![c] = "done"]
        /\ \A d \in Conns \ {c} : got'[d] = got[d]
    BY <1>17 DEF Send, Running, Goto, AfterWrite
  <2> QED BY <2>1, HistoryKept
<1>18. ASSUME NEW c \in Conns, Close(c) PROVE History'
  BY <1>18, HistoryKept DEF Close, Running, Goto
<1> QED
  BY <1>1, <1>2, <1>3, <1>4, <1>5, <1>6, <1>7, <1>8, <1>9, <1>10, <1>11, <1>12,
     <1>13, <1>14, <1>15, <1>16, <1>17, <1>18, SessionSteps
     DEF SessionChange, ReadStep, StatusStep, WriteStep

(* Who is on a status page.                                                *)
RowConns(c) == {page[c].rows[i].conn : i \in DOMAIN page[c].rows}

(* What a client could have seen before it sent its request is recorded,   *)
(* and is on the page if it is the page that the client asked for.         *)
Visibility ==
    \A c \in Conns :
        /\ before[c] \subseteq LoggedConns
        /\ SnapshotTaken(c) => before[c] \subseteq RowConns(c)

(* The snapshot of a connection is taken once, when its loop over the rows *)
(* ends, and stays as it was.                                              *)
LEMMA SnapshotSteps ==
    ASSUME TypeOK, Phases, Progress, Next, NEW c \in Conns
    PROVE  \/ StatusRowsDone(c) /\ ~ SnapshotTaken(c) /\ SnapshotTaken(c)'
           \/ /\ SnapshotTaken(c)' = SnapshotTaken(c)
              /\ SnapshotTaken(c) => page'[c] = page[c] /\ before'[c] = before[c]
<1> USE DEF TypeOK, SnapshotTaken, Progress, Unanswered, Responding
<1>1. CASE UNCHANGED sessionVars
  BY <1>1 DEF sessionVars
<1> DEFINE Kept == /\ SnapshotTaken(c)' = SnapshotTaken(c)
                   /\ SnapshotTaken(c) => page'[c] = page[c] /\ before'[c] = before[c]
<1>2. ASSUME NEW d \in Conns, SendFinal(d) PROVE Kept
  BY <1>2 DEF SendFinal
<1>3. ASSUME NEW d \in Conns, Accept(d) PROVE Kept
  BY <1>3 DEF Accept
<1>4. ASSUME NEW d \in Conns, ReadError(d) PROVE Kept
  BY <1>4 DEF ReadError, Running, Goto, clientVars
<1>5. ASSUME NEW d \in Conns, ReadMore(d) PROVE Kept
  BY <1>5 DEF ReadMore
<1>6. ASSUME NEW d \in Conns, ReadRequest(d) PROVE Kept
  <2>1. /\ pc[d] = "read" /\ UNCHANGED <<final, before, page>> /\ res[d] = NoResponse
        /\ \A x \in Conns \ {d} : res'[x] = res[x] /\ pc'[x] = pc[x]
    BY <1>6 DEF ReadRequest, Running, Goto
  <2>2. pc'[d] \in {"endpoint", "slock", "handle"}
    BY <1>6 DEF ReadRequest, Goto
  <2>3. final[d] = "StatusHandler" => res'[d] = res[d]
    BY <1>6 DEF ReadRequest
  <2> QED BY <2>1, <2>2, <2>3
<1>7. ASSUME NEW d \in Conns, Handle(d) PROVE Kept
  <2>1. /\ pc[d] = "handle" /\ UNCHANGED <<final, before, page>>
        /\ \A x \in Conns \ {d} : res'[x] = res[x] /\ pc'[x] = pc[x]
        /\ pc'[d] = "endpoint" /\ final[d] # "StatusHandler"
    BY <1>7 DEF Handle, InServer, Goto, Phases, clientVars
  <2> QED BY <2>1
<1>8. ASSUME NEW d \in Conns, StatusLock(d) PROVE Kept
  BY <1>8 DEF StatusLock, InServer, Goto, clientVars
<1>9. ASSUME NEW d \in Conns, StatusTotal(d) PROVE Kept
  BY <1>9 DEF StatusTotal, InServer, Goto, clientVars
<1>10. ASSUME NEW d \in Conns, StatusRow(d) PROVE Kept
  BY <1>10 DEF StatusRow, InServer, clientVars
<1>11. ASSUME NEW d \in Conns, StatusRowsDone(d)
       PROVE  IF d = c THEN ~ SnapshotTaken(c) /\ SnapshotTaken(c)' ELSE Kept
  <2>1. /\ pc[d] = "srows" /\ pc' = [pc EXCEPT ![d] = "sunlock"]
        /\ UNCHANGED <<final, before, page, res>>
    BY <1>11 DEF StatusRowsDone, InServer, Goto, clientVars
  <2>2. final[d] = "StatusHandler" /\ res[d] = NoResponse
    BY <2>1 DEF Phases
  <2> QED BY <2>1, <2>2
<1>12. ASSUME NEW d \in Conns, StatusUnlock(d) PROVE Kept
  <2>1. /\ pc[d] = "sunlock" /\ final[d] = "StatusHandler" /\ final[d] \in Requests
        /\ UNCHANGED <<final, before, page>> /\ pc' = [pc EXCEPT ![d] = "endpoint"]
    BY <1>12 DEF StatusUnlock, InServer, Phases, Goto, clientVars
  <2>2. PICK r \in ResponsesTo(final[d]) : res' = [res EXCEPT ![d] = r]
    BY <1>12, <2>1 DEF StatusUnlock, ResponsesTo
  <2>3. r # NoResponse
    BY <2>1, ResponsesToRequests
  <2> QED BY <2>1, <2>2, <2>3
<1>13. ASSUME NEW d \in Conns, Endpoint(d) PROVE Kept
  BY <1>13 DEF Endpoint, Running, Goto, clientVars
<1>14. ASSUME NEW d \in Conns, LogLock(d) PROVE Kept
  BY <1>14 DEF LogLock, InServer, Goto, clientVars
<1>15. ASSUME NEW d \in Conns, LogPush(d) PROVE Kept
  BY <1>15 DEF LogPush, InServer, Goto, clientVars
<1>16. ASSUME NEW d \in Conns, LogUnlock(d) PROVE Kept
  BY <1>16 DEF LogUnlock, InServer, Goto, clientVars
<1>17. ASSUME NEW d \in Conns, Send(d) PROVE Kept
  BY <1>17 DEF Send, Running, Goto, AfterWrite, clientVars
<1>18. ASSUME NEW d \in Conns, Close(d) PROVE Kept
  BY <1>18 DEF Close, Running, Goto, clientVars
<1> QED
  BY <1>1, <1>2, <1>3, <1>4, <1>5, <1>6, <1>7, <1>8, <1>9, <1>10, <1>11, <1>12,
     <1>13, <1>14, <1>15, <1>16, <1>17, <1>18, SessionSteps
     DEF SessionChange, ReadStep, StatusStep, WriteStep

(* A page with as many rows as the history is the history.                 *)
LEMMA PageIsHistory ==
    ASSUME TypeOK, Pages, NEW c \in Conns, Len(page[c].rows) = Len(requests)
    PROVE  page[c].rows = requests
<1>1. page[c].rows \in Seq(Entry) /\ requests \in Seq(Entry)
  BY DEF TypeOK
<1>2. \A i \in 1..Len(page[c].rows) : page[c].rows[i] = requests[i]
  BY <1>1, PrefixPointwise DEF Pages
<1> QED BY <1>1, <1>2, SeqEqual

(* Steps keep what clients have seen visible.                              *)
LEMMA VisibilityNext ==
    TypeOK /\ Phases /\ Pages /\ Progress /\ History /\ Visibility /\ Next
      => Visibility'
<1> SUFFICES ASSUME TypeOK, Phases, Pages, Progress, History, Visibility, Next,
                    NEW c \in Conns
             PROVE  /\ before'[c] \subseteq LoggedConns'
                    /\ SnapshotTaken(c)' => before'[c] \subseteq RowConns(c)'
  BY DEF Visibility
<1>1. LoggedConns \subseteq LoggedConns'
  <2>1. CASE UNCHANGED requests
    BY <2>1 DEF LoggedConns
  <2>2. ASSUME NEW d \in Conns, LogPush(d) PROVE LoggedConns \subseteq LoggedConns'
    <3>1. requests' = Append(requests, EntryOf(d)) /\ EntryOf(d) \in Entry
      BY <2>2, ResponseTypes
         DEF LogPush, InServer, EntryOf, Entry, Phases, Responding
    <3>2. /\ DOMAIN requests = 1..Len(requests) /\ Len(requests) \in Nat
          /\ DOMAIN requests' = 1..(Len(requests) + 1)
          /\ \A i \in DOMAIN requests : requests'[i] = requests[i]
      <4>1. requests \in Seq(Entry)
        BY DEF TypeOK
      <4> QED BY <3>1, <4>1, AppendElements
    <3>3. \A i \in DOMAIN requests : i \in DOMAIN requests' /\ requests'[i] = requests[i]
      BY <3>2
    <3> QED BY <3>3 DEF LoggedConns
  <2> QED BY <2>1, <2>2, HistorySteps
<1>2. \A d \in Conns : got[d] # <<>> => d \in LoggedConns
  <2> SUFFICES ASSUME NEW d \in Conns, got[d] # <<>> PROVE d \in LoggedConns
    OBVIOUS
  <2>1. PICK i \in DOMAIN requests : requests[i] = EntryOf(d)
    BY DEF History
  <2>2. requests[i].conn = d
    BY <2>1 DEF EntryOf
  <2> QED BY <2>2 DEF LoggedConns
<1>3. before'[c] = before[c] \/ before'[c] = {d \in Conns : got[d] # <<>>}
  <2>1. CASE UNCHANGED before
    BY <2>1
  <2>2. ASSUME NEW d \in Conns, SendFinal(d)
        PROVE  before'[c] = before[c] \/ before'[c] = {x \in Conns : got[x] # <<>>}
    BY <2>2 DEF SendFinal, TypeOK
  <2>3. UNCHANGED before \/ \E d \in Conns : SendFinal(d)
    BY SessionSteps
       DEF sessionVars, SessionChange, ReadStep, StatusStep, WriteStep, clientVars,
           Accept, ReadError, ReadMore, ReadRequest, Handle, StatusLock, StatusTotal,
           StatusRow, StatusRowsDone, StatusUnlock, Endpoint, LogLock, LogPush,
           LogUnlock, Send, Close
  <2> QED BY <2>1, <2>2, <2>3
<1>4. before'[c] \subseteq LoggedConns'
  BY <1>1, <1>2, <1>3 DEF Visibility
<1>5. ASSUME StatusRowsDone(c) PROVE before'[c] \subseteq RowConns(c)'
  <2>1. /\ Len(page[c].rows) = Len(requests)
        /\ UNCHANGED <<page, before, requests>>
    BY <1>5 DEF StatusRowsDone, clientVars
  <2>2. page[c].rows = requests
    BY <2>1, PageIsHistory
  <2>3. RowConns(c)' = LoggedConns
    BY <2>1, <2>2 DEF RowConns, LoggedConns
  <2> QED BY <2>1, <2>3 DEF Visibility
<1>6. ASSUME SnapshotTaken(c)' = SnapshotTaken(c), SnapshotTaken(c)',
             SnapshotTaken(c) => page'[c] = page[c] /\ before'[c] = before[c]
      PROVE  before'[c] \subseteq RowConns(c)'
  BY <1>6 DEF Visibility, RowConns
<1> QED BY <1>4, <1>5, <1>6, SnapshotSteps

-----------------------------------------------------------------------------
HistoryInv == Progress /\ History /\ Visibility

(* Initially nobody has asked or been answered.                            *)
LEMMA HistoryInvInit == Init => HistoryInv
<1> SUFFICES ASSUME Init PROVE HistoryInv
  OBVIOUS
<1>1. Progress
  BY DEF Init, Progress, Responding
<1>2. History
  BY DEF Init, History
<1>3. Visibility
  BY DEF Init, Visibility, SnapshotTaken
<1> QED BY <1>1, <1>2, <1>3 DEF HistoryInv

(* Every step keeps the second layer, given the first.                     *)
LEMMA HistoryInvNext == ServerInv /\ HistoryInv /\ [Next]_vars => HistoryInv'
<1>1. ServerInv /\ HistoryInv /\ Next => HistoryInv'
  BY ProgressNext, HistoryNext, VisibilityNext DEF ServerInv, HistoryInv
<1>2. HistoryInv /\ UNCHANGED vars => HistoryInv'
  <2> SUFFICES ASSUME HistoryInv, UNCHANGED vars PROVE HistoryInv'
    OBVIOUS
  <2> USE DEF HistoryInv, vars
  <2>1. Progress'
    BY DEF Progress
  <2>2. History'
    BY DEF History, EntryOf
  <2>3. Visibility'
    BY DEF Visibility, SnapshotTaken, RowConns, LoggedConns
  <2> QED BY <2>1, <2>2, <2>3
<1> QED BY <1>1, <1>2

(* The second layer holds throughout every execution as well.              *)
THEOREM HistoryInvariant == Spec => [](ServerInv /\ HistoryInv)
<1>1. Init => ServerInv /\ HistoryInv
  BY ServerInvInit, HistoryInvInit
<1>2. ServerInv /\ HistoryInv /\ [Next]_vars => (ServerInv /\ HistoryInv)'
  BY ServerInvNext, HistoryInvNext
<1> QED BY <1>1, <1>2, PTL DEF Spec

(* do_write records a connection once, with the code of its response, and  *)
(* before the client can have the response.                                *)
THEOREM HistoryIsSessions == Spec => []HistoryMatchesSessions
<1>1. ServerInv /\ HistoryInv => HistoryMatchesSessions
  <2> SUFFICES ASSUME ServerInv, HistoryInv, NEW c \in Conns
               PROVE  /\ Cardinality({i \in DOMAIN requests : requests[i].conn = c}) <= 1
                      /\ got[c] # <<>> =>
                           [conn |-> c, code |-> res[c].code] \in Range(requests)
                      /\ c \in LoggedConns => pc[c] \in Recorded
    BY DEF HistoryMatchesSessions
  <2>1. Cardinality({i \in DOMAIN requests : requests[i].conn = c}) <= 1
    <3> DEFINE P == {i \in DOMAIN requests : requests[i].conn = c}
    <3>1. CASE P = {}
      BY <3>1, FS_EmptySet
    <3>2. ASSUME NEW i \in P PROVE P = {i}
      BY DEF HistoryInv, History
    <3>3. ASSUME NEW i \in P PROVE Cardinality(P) = 1
      BY <3>2, <3>3, FS_Singleton
    <3> QED BY <3>1, <3>3
  <2>2. got[c] # <<>> => [conn |-> c, code |-> res[c].code] \in Range(requests)
    BY DEF HistoryInv, History, EntryOf, Range
  <2>3. c \in LoggedConns => pc[c] \in Recorded
    BY DEF HistoryInv, History, LoggedConns
  <2> QED BY <2>1, <2>2, <2>3
<1> QED BY <1>1, HistoryInvariant, PTL

(* A client reads one response at most, and its status line is the code in *)
(* the history, but for static files and the reverse proxy.                *)
THEOREM ResponsesRecorded == Spec => []ResponseAsRecorded
<1>1. ServerInv /\ HistoryInv => ResponseAsRecorded
  <2> SUFFICES ASSUME ServerInv, HistoryInv, NEW c \in Conns
               PROVE  /\ Len(got[c]) <= 1
                      /\ got[c] # <<>> /\ final[c] \notin
                             {"StaticFileHandler", "ReverseProxyHandler"}
                         => [conn |-> c, code |-> got[c][1]] \in Range(requests)
    BY DEF ResponseAsRecorded
  <2>1. CASE got[c] = <<>>
    BY <2>1
  <2>2. CASE got[c] # <<>>
    <3>1. /\ got[c] = <<res[c].wire>> /\ final[c] \in Requests
          /\ res[c] \in ResponsesTo(final[c])
      BY <2>2 DEF HistoryInv, Progress
    <3>2. Len(got[c]) = 1 /\ got[c][1] = res[c].wire
      BY <3>1
    <3>3. PICK i \in DOMAIN requests : requests[i] = EntryOf(c)
      BY <2>2 DEF HistoryInv, History
    <3>4. final[c] \notin {"StaticFileHandler", "ReverseProxyHandler"}
            => res[c].code = res[c].wire
      BY <3>1, ResponsesToRequests
    <3> QED BY <3>2, <3>3, <3>4 DEF EntryOf, Range
  <2> QED BY <2>1, <2>2
<1> QED BY <1>1, HistoryInvariant, PTL

(* Real-time order: whoever had its response when the request for a status *)
(* page was sent is on the page that is returned.                          *)
THEOREM StatusIsCurrent == Spec => []StatusSeesEarlier
<1>1. ServerInv /\ HistoryInv => StatusSeesEarlier
  <2> SUFFICES ASSUME ServerInv, HistoryInv, NEW c \in Conns,
                      final[c] = "StatusHandler", got[c] # <<>>
               PROVE  before[c] \subseteq RowConns(c)
    BY DEF StatusSeesEarlier, RowConns
  <2>1. final[c] \in Requests /\ res[c] \in ResponsesTo(final[c])
    BY DEF HistoryInv, Progress
  <2>2. res[c] # NoResponse
    BY <2>1, ResponsesToRequests
  <2> QED BY <2>2 DEF HistoryInv, Visibility, SnapshotTaken
<1> QED BY <1>1, HistoryInvariant, PTL

(* The end of every session but one kind is a shutdown of its connection:  *)
(* do_read misses it after a request without a path that came in one read. *)
THEOREM SessionsShutDown == Spec => []FinishedIsShutDown
<1> USE DEF FinishedIsShutDown
<1>1. Init => FinishedIsShutDown
  BY DEF Init
<1>2. TypeOK /\ FinishedIsShutDown /\ [Next]_vars => FinishedIsShutDown'
  <2> SUFFICES ASSUME TypeOK, FinishedIsShutDown, [Next]_vars
               PROVE  FinishedIsShutDown'
    OBVIOUS
  <2> USE DEF TypeOK, clientVars
  <2>1. CASE UNCHANGED sessionVars
    BY <2>1 DEF sessionVars
  <2>2. ASSUME NEW c \in Conns, SendFinal(c) PROVE FinishedIsShutDown'
    BY <2>2 DEF SendFinal
  <2>3. ASSUME NEW c \in Conns, Accept(c) PROVE FinishedIsShutDown'
    BY <2>3 DEF Accept
  <2>4. ASSUME NEW c \in Conns, ReadStep(c) PROVE FinishedIsShutDown'
    <3>1. CASE ReadError(c)
      BY <3>1 DEF ReadError, Goto
    <3>2. CASE ReadMore(c)
      BY <3>2 DEF ReadMore, Running
    <3>3. CASE ReadRequest(c)
      BY <3>3 DEF ReadRequest, Goto
    <3> QED BY <2>4, <3>1, <3>2, <3>3 DEF ReadStep
  <2>5. ASSUME NEW c \in Conns, Handle(c) PROVE FinishedIsShutDown'
    BY <2>5 DEF Handle, Goto
  <2>6. ASSUME NEW c \in Conns, StatusStep(c) PROVE FinishedIsShutDown'
    BY <2>6 DEF StatusStep, StatusLock, StatusTotal, StatusRow, StatusRowsDone,
                StatusUnlock, Goto
  <2>7. ASSUME NEW c \in Conns, WriteStep(c) PROVE FinishedIsShutDown'
    <3>1. CASE Endpoint(c) \/ LogLock(c) \/ LogPush(c) \/ LogUnlock(c)
      BY <3>1 DEF Endpoint, LogLock, LogPush, LogUnlock, Goto
    <3>2. CASE Send(c)
      BY <3>2 DEF Send, Goto, AfterWrite
    <3>3. CASE Close(c)
      BY <3>3 DEF Close, Goto
    <3> QED BY <2>7, <3>1, <3>2, <3>3 DEF WriteStep
  <2>8. CASE UNCHANGED vars
    BY <2>8 DEF vars
  <2> QED
    BY <2>1, <2>2, <2>3, <2>4, <2>5, <2>6, <2>7, <2>8, SessionSteps
       DEF SessionChange
<1> QED BY <1>1, <1>2, TypeCorrect, PTL DEF Spec

-----------------------------------------------------------------------------
(* A response reaches a client in the send of do_write only.               *)
LEMMA AnswerSteps ==
    TypeOK /\ Progress /\ Next =>
        \/ UNCHANGED got
        \/ \E c \in Conns : /\ Send(c)
                            /\ got[c] = <<>> /\ got' = [got EXCEPT ![c] = <<res[c].wire>>]
<1> SUFFICES ASSUME TypeOK, Progress, Next
             PROVE  \/ UNCHANGED got
                    \/ \E c \in Conns :
                          /\ Send(c)
                          /\ got[c] = <<>> /\ got' = [got EXCEPT ![c] = <<res[c].wire>>]
  OBVIOUS
<1>1. UNCHANGED got \/ \E c \in Conns : Send(c)
  BY SessionSteps
     DEF sessionVars, SessionChange, ReadStep, StatusStep, WriteStep, SendFinal,
         Accept, ReadError, ReadMore, ReadRequest, Handle, StatusLock, StatusTotal,
         StatusRow, StatusRowsDone, StatusUnlock, Endpoint, LogLock, LogPush,
         LogUnlock, Close
<1>2. ASSUME NEW c \in Conns, Send(c)
      PROVE  \/ UNCHANGED got
             \/ got[c] = <<>> /\ got' = [got EXCEPT ![c] = <<res[c].wire>>]
  <2>1. got[c] = <<>>
    BY <1>2 DEF Send, Running, Progress
  <2> QED BY <1>2, <2>1 DEF Send
<1> QED BY <1>1, <1>2

(* A step of the server is a step of the request log, or does not concern  *)
(* it: push_back is Record, leaving the loop over the rows is Snapshot, a  *)
(* send that reaches the client is Answer.                                 *)
LEMMA RefinementStep ==
    ServerInv /\ HistoryInv /\ [Next]_vars => [Log!LogNext]_(Log!logVars)
<1> SUFFICES ASSUME ServerInv, HistoryInv, [Next]_vars
             PROVE  Log!LogNext \/ UNCHANGED Log!logVars
  OBVIOUS
<1> USE DEF ServerInv, HistoryInv
<1> DEFINE snap == [c \in Conns |-> IF SnapshotTaken(c) THEN {page[c].rows} ELSE {}]
           answ == {c \in Conns : got[c] # <<>>}
<1>1. CASE UNCHANGED vars
  BY <1>1 DEF vars, Log!logVars, SnapshotTaken
<1>2. CASE Next
  <2>1. ASSUME NEW c \in Conns, LogPush(c) PROVE Log!LogNext
    <3>1. /\ pc[c] = "lpush" /\ requests' = Append(requests, EntryOf(c))
          /\ UNCHANGED <<final, res, page, got>> /\ pc' = [pc EXCEPT ![c] = "lunlock"]
      BY <2>1 DEF LogPush, InServer, EntryOf, Goto, clientVars
    <3>2. res[c].code \in Codes
      BY <3>1, ResponseTypes DEF Phases, Responding
    <3>3. ~ \E i \in DOMAIN requests : requests[i].conn = c
      BY <3>1 DEF History, Recorded
    <3>4. \A d \in Conns : SnapshotTaken(d)' = SnapshotTaken(d)
      BY <3>1 DEF SnapshotTaken, TypeOK
    <3>5. snap' = snap /\ answ' = answ
      BY <3>1, <3>4
    <3> QED BY <3>1, <3>2, <3>3, <3>5
            DEF Log!LogNext, Log!Record, Log!Logged, EntryOf
  <2>2. ASSUME NEW c \in Conns, StatusRowsDone(c) PROVE Log!LogNext
    <3>1. /\ pc[c] = "srows" /\ Len(page[c].rows) = Len(requests)
          /\ pc' = [pc EXCEPT ![c] = "sunlock"]
          /\ UNCHANGED <<final, res, page, got, requests>>
      BY <2>2 DEF StatusRowsDone, InServer, Goto, clientVars
    <3>2. page[c].rows = requests
      BY <3>1, PageIsHistory
    <3>3. final[c] = "StatusHandler" /\ res[c] = NoResponse
      BY <3>1 DEF Phases, Progress, Unanswered
    <3>4. ~ SnapshotTaken(c) /\ SnapshotTaken(c)'
      BY <3>1, <3>3 DEF SnapshotTaken, TypeOK
    <3>5. \A d \in Conns \ {c} : SnapshotTaken(d)' = SnapshotTaken(d)
      BY <3>1 DEF SnapshotTaken, TypeOK
    <3>6. snap[c] = {} /\ snap' = [snap EXCEPT ![c] = {requests}] /\ answ' = answ
      BY <3>1, <3>2, <3>4, <3>5
    <3> QED BY <3>1, <3>6 DEF Log!LogNext, Log!Snapshot
  <2>3. ASSUME NEW c \in Conns, Send(c), got[c] = <<>>,
               got' = [got EXCEPT ![c] = <<res[c].wire>>]
        PROVE  Log!LogNext
    <3>1. /\ pc[c] = "send" /\ UNCHANGED <<final, res, page, requests>>
          /\ pc' = [pc EXCEPT ![c] = "close"] \/ pc' = [pc EXCEPT ![c] = "done"]
      BY <2>3 DEF Send, Running, Goto, AfterWrite, clientVars
    <3>2. PICK i \in DOMAIN requests : requests[i] = EntryOf(c)
      BY <3>1 DEF History
    <3>3. requests[i].conn = c
      BY <3>2 DEF EntryOf
    <3>4. \A d \in Conns : SnapshotTaken(d)' = SnapshotTaken(d)
      BY <3>1 DEF SnapshotTaken, TypeOK
    <3>5. snap' = snap
      BY <3>1, <3>4
    <3>6. c \notin answ /\ answ' = answ \cup {c}
      BY <2>3 DEF TypeOK
    <3> QED BY <3>1, <3>3, <3>5, <3>6 DEF Log!LogNext, Log!Answer, Log!Logged
  <2>4. CASE /\ UNCHANGED <<requests, got>>
             /\ \A c \in Conns : ~ StatusRowsDone(c)
    <3>1. \A c \in Conns : /\ SnapshotTaken(c)' = SnapshotTaken(c)
                           /\ SnapshotTaken(c) => page'[c] = page[c]
      BY <1>2, <2>4, SnapshotSteps
    <3>2. snap' = snap /\ answ' = answ
      BY <2>4, <3>1
    <3> QED BY <2>4, <3>2 DEF Log!logVars
  <2> QED BY <1>2, <2>1, <2>2, <2>3, <2>4, HistorySteps, AnswerSteps
<1> QED BY <1>1, <1>2

(* Every behaviour of the server, with any number of sessions, is one of   *)
(* the abstract log: an append-only history with one entry per answered    *)
(* connection, and status pages that are instantaneous copies of it.       *)
THEOREM RequestLogRefinement == Spec => ImplementsRequestLog
<1>1. Init => Log!LogInit
  BY DEF Init, Log!LogInit, SnapshotTaken
<1> QED BY <1>1, RefinementStep, HistoryInvariant, PTL
        DEF Spec, ImplementsRequestLog, Log!LogSpec
=============================================================================
