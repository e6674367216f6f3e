------------------------------ MODULE MCServer ------------------------------
(***************************************************************************)
(* Instances of Server for TLC, and statements of the repository's         *)
(* comments and README that the code does not keep.                        *)
(***************************************************************************)
EXTENDS Server

Symmetry == Permutations(Conns)

(* README.md, Multithreading: "The thread closes as soon as it writes back *)
(* a response or the connection closes."  A client that goes away ends its *)
(* thread and not the process.                                             *)
ClientsEndThreadsOnly == proc # "aborted"

(* server.cc, do_accept: "Accept clients continuously in other threads     *)
(* than the main thread".  The server gives up accepting only if it has as *)
(* many sessions at work as it may have descriptors.                       *)
AcceptsContinuously == proc = "running" \/ Cardinality(Live) = MaxFds
=============================================================================
