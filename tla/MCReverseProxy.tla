--------------------------- MODULE MCReverseProxy ---------------------------
(***************************************************************************)
(* Origins for ReverseProxy.  In Chain the configured host leads to b and  *)
(* b to c, or nowhere; c answers for good or names d, which nobody         *)
(* redirects to, but which is what the name of c begins with.  In Circle a *)
(* and b redirect to each other and never answer.                          *)
(***************************************************************************)
EXTENDS ReverseProxy, TLC

CONSTANTS a, b, c, d

Final(code) == [code |-> code, found |-> FALSE, www |-> NoHost]
To(h) == [code |-> 302, found |-> TRUE, www |-> h]
Moved(code, h) == [code |-> code, found |-> FALSE, www |-> h]

Chain ==
    (a :> {To(b)})
    @@ (b :> {To(c), To(Junk)})
    @@ (c :> {Final(200), Moved(301, d)})
    @@ (d :> {Final(404)})

Names == (a :> {Junk}) @@ (b :> {Junk}) @@ (c :> {d, Junk}) @@ (d :> {Junk}) @@ (Junk :> {Junk})

Circle == (a :> {To(b)}) @@ (b :> {To(a)}) @@ (c :> {}) @@ (d :> {})

-----------------------------------------------------------------------------
(* Bound: requests overlap on port "http" only, where origins fail only by *)
(* what they reply; on any other port there is one request.                *)
Overlapping == port = "http"

(* A step in which something other than a reply goes wrong.                *)
Fails(t) ==
    \/ ec'[t] = "reset"
    \/ response'[t] = InternalServerError
    \/ faulty' # faulty /\ pc[t] # "check"

BoundedNext ==
    \E t \in Threads :
        \/ Start(t) /\ (Overlapping \/ \A u \in Threads : pc[u] = "idle")
        \/ Step(t) /\ (Overlapping => ~ Fails(t))

(* A step that does not fail is always possible, so this is fair enough.   *)
BoundedSpec == Init /\ [][BoundedNext]_vars /\ \A t \in Threads : WF_vars(Step(t))
=============================================================================
