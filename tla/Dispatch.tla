------------------------------ MODULE Dispatch ------------------------------
(***************************************************************************)
(* How do_read of server.cc finds the handler for a path: it looks up the  *)
(* whole path and then, from the last "/" to the first, the prefix up to   *)
(* and including that "/" and the prefix without it, until a lookup        *)
(* succeeds.                                                               *)
(*                                                                         *)
(* The map of handlers never changes while the server runs, so the loop    *)
(* works only on the state of its own thread.  A path is a sequence of     *)
(* characters.  Every string the loop looks up is a prefix of the path, so *)
(* path_prefix is represented by its length n.                             *)
(***************************************************************************)
EXTENDS Integers, Sequences

CONSTANTS
    Char,    \* the characters of paths, "/" among them
    Paths,   \* the paths requests ask for
    Configs  \* the key sets of the maps of handlers configurations define

(* do_read has answered a request with an empty path before it gets here;  *)
(* ParseRequestHandlers puts the empty string in the map.                  *)
ASSUME DispatchAssumption ==
    /\ Paths \subseteq Seq(Char) \ {<<>>}
    /\ Configs \subseteq SUBSET Seq(Char)
    /\ \A K \in Configs : <<>> \in K

VARIABLES
    keys,   \* the keys of Session::handlers
    path,   \* request->path()
    n,      \* the length of path_prefix
    at      \* "loop": at the test of the while loop; "with": the prefix
            \* with its slash has been looked up in vain; "found": it is set

vars == <<keys, path, n, at>>

(* handlers.find(path.substr(0, k)) != handlers.end()                      *)
Find(k) == SubSeq(path, 1, k) \in keys

(* Mutant: the prefix is shortened character by character.                 *)
LastSlashAny(k) == IF k = 0 THEN 0 ELSE k - 1

(* 1 + path_prefix.find_last_of("/"), which is 0 when there is no slash:   *)
(* npos + 1 wraps to 0.                                                    *)
LastSlash(k) ==
    CHOOSE i \in 0..k :
        /\ i > 0 => path[i] = "/"
        /\ \A j \in (i + 1)..k : path[j] # "/"

Init ==
    /\ keys \in Configs
    /\ path \in Paths
    /\ n = Len(path)
    /\ at = "loop"

(* The loop ends: the iterator points to a handler.                        *)
Found ==
    /\ at = "loop"
    /\ Find(n)
    /\ at' = "found"
    /\ UNCHANGED <<keys, path, n>>

(* Mutant: the slash is dropped before the prefix with it is looked up.    *)
TryWithSlashSkipped ==
    /\ at = "loop"
    /\ ~ Find(n)
    /\ n' = IF LastSlash(n) = 0 THEN 0 ELSE LastSlash(n) - 1
    /\ at' = "loop"
    /\ UNCHANGED <<keys, path>>

(* path_prefix.substr(0, slash_pos + 1)                                    *)
TryWithSlash ==
    /\ at = "loop"
    /\ ~ Find(n)
    /\ n' = LastSlash(n)
    /\ at' = IF Find(n') THEN "loop" ELSE "with"
    /\ UNCHANGED <<keys, path>>

(* Mutant: the slash is never dropped.                                     *)
TryWithoutSlashKept ==
    /\ at = "with"
    /\ at' = "loop"
    /\ UNCHANGED <<keys, path, n>>

(* path_prefix.substr(0, slash_pos): with slash_pos = npos, all of it.     *)
TryWithoutSlash ==
    /\ at = "with"
    /\ n' = IF n = 0 THEN 0 ELSE n - 1
    /\ at' = "loop"
    /\ UNCHANGED <<keys, path>>

Next == Found \/ TryWithSlash \/ TryWithoutSlash

Spec == Init /\ [][Next]_vars

-----------------------------------------------------------------------------
(* The state of the loop is well-typed: path_prefix is a prefix of path.   *)
TypeOK ==
    /\ keys \in Configs
    /\ path \in Paths
    /\ n \in 0..Len(path)
    /\ at \in {"loop", "with", "found"}

(* The prefixes of a path that end where one of its components does: the   *)
(* path, the empty prefix, and whatever ends in a "/" or before one.       *)
Boundary(k) ==
    \/ k \in {0, Len(path)}
    \/ k \in 1..Len(path) /\ path[k] = "/"
    \/ k \in 0..(Len(path) - 1) /\ path[k + 1] = "/"

(* While the loop runs, no longer boundary prefix of the path is a key:    *)
(* nothing has been skipped.                                               *)
NothingSkipped ==
    \A k \in (n + 1)..Len(path) : Boundary(k) => ~ Find(k)

(* The handler found is the one for the longest prefix of the path, among  *)
(* the prefixes that end at a component boundary, that is a key.           *)
LongestBoundaryMatch ==
    at = "found" =>
        /\ Boundary(n) /\ Find(n)
        /\ NothingSkipped

(* How much of the loop is left at most.                                   *)
Measure == CASE at = "loop" -> 2 * n + 2 [] at = "with" -> 2 * n + 1 [] OTHER -> 0

(* "This will loop until it reaches the empty string, and we are           *)
(* guarenteed the empty string is in the map": every step of the loop      *)
(* brings its end nearer, however the slashes of the path are placed (some *)
(* prefixes are looked up twice).                                          *)
LoopProgresses == [][Measure' < Measure /\ Measure' >= 0]_vars
=============================================================================
