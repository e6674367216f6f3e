----------------------------- MODULE RequestLog -----------------------------
(***************************************************************************)
(* What the request history of the server promises to its readers: an      *)
(* append-only log with one entry per answered connection, whose entry is  *)
(* there before the client can see the answer, and status pages that are   *)
(* instantaneous copies of the whole log.  Server implements it with a     *)
(* vector, a mutex and one thread per connection.                          *)
(***************************************************************************)
EXTENDS Sequences

CONSTANTS
    Conns,      \* the connections
    Codes       \* the status codes an entry may record

VARIABLES
    log,        \* entries, oldest first
    snapshot,   \* snapshot[c]: {} or the one copy of the log c was given
    answered    \* connections whose client has the response

logVars == <<log, snapshot, answered>>

LogInit ==
    /\ log = <<>>
    /\ snapshot = [c \in Conns |-> {}]
    /\ answered = {}

Logged(c) == \E i \in DOMAIN log : log[i].conn = c

Record(c) ==
    /\ ~ Logged(c)
    /\ \E code \in Codes : log' = Append(log, [conn |-> c, code |-> code])
    /\ UNCHANGED <<snapshot, answered>>

Snapshot(c) ==
    /\ snapshot[c] = {}
    /\ snapshot' = [snapshot EXCEPT ![c] = {log}]
    /\ UNCHANGED <<log, answered>>

Answer(c) ==
    /\ Logged(c)
    /\ c \notin answered
    /\ answered' = answered \cup {c}
    /\ UNCHANGED <<log, snapshot>>

LogNext == \E c \in Conns : Record(c) \/ Snapshot(c) \/ Answer(c)

LogSpec == LogInit /\ [][LogNext]_logVars
=============================================================================
