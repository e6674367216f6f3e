--------------------------- MODULE MCConfigParser ---------------------------
(***************************************************************************)
(* All files of up to MaxLen characters, of which up to MaxOdd are white   *)
(* space, quotes or the signs of a comment.                                *)
(***************************************************************************)
EXTENDS ConfigParser

CONSTANTS
    MaxLen,   \* bound: the length of a file
    MaxOdd    \* bound: characters that are neither letters nor symbols

MCChars == {"a", "#", "SP", "LF", "CR"} \cup Quote \cup Symbol

MCReadable(t) ==
    /\ Len(t) <= MaxLen
    /\ Len(SelectSeq(t, LAMBDA c : c \notin Symbol \cup {"a"})) <= MaxOdd
=============================================================================
