------------------------------ MODULE UriPath ------------------------------
(***************************************************************************)
(* How a URI becomes a path: escapes are decoded, a path with ".." is      *)
(* refused, and a directory's is completed.  Form data are decoded in the  *)
(* same way (hex2ascii of static_file_handler.cc is a copy of the loop).   *)
(*                                                                         *)
(* Strings are sequences of characters.  "SP" is the space, "NUL" the      *)
(* character that ends a string for C, and "x" any character that is not   *)
(* listed by itself; "index" stands for the characters of "index.html".    *)
(***************************************************************************)
EXTENDS Integers, Sequences

(* Hexadecimal digits; the values of the ones the model has.               *)
HexDigits == {"0", "1", "2", "3", "d", "e", "f"}

(* The escapes of characters that something depends on.                    *)
Escapes ==
    {<<"2", "e", ".">>, <<"2", "f", "/">>, <<"3", "f", "?">>, <<"3", "d", "=">>,
     <<"0", "0", "NUL">>}

Decoded == {e[3] : e \in Escapes} \cup {"x", "SP", "index"}

(* The character whose code is a single digit.                             *)
OneDigit(d) == IF d = "0" THEN "NUL" ELSE "x"

(* The character that the two after a "%" stand for, as read by            *)
(* operator>>(std::hex): {} if no number can be read.  One digit is enough *)
(* (what follows it is skipped with it), and a sign or a blank may come    *)
(* first.  The prefix "0x", which is no number by itself, is left out.     *)
Unescape(a, b) ==
    IF a \in HexDigits /\ b \in HexDigits
    THEN LET known == {e[3] : e \in {f \in Escapes : f[1] = a /\ f[2] = b}}
         IN  IF known = {} THEN {"x"} ELSE known
    ELSE IF a \in HexDigits THEN {OneDigit(a)}
    ELSE IF a \in {"+", "-", "SP"} /\ b \in HexDigits THEN {OneDigit(b)}
    ELSE {}

(* The loop over the URI: the set of the decoded path, or {} if an escape  *)
(* is malformed.  d[i] is what the loop makes of uri_ from position i on.  *)
Decode(u) ==
    LET d[i \in 1..(Len(u) + 1)] ==
          IF i > Len(u) THEN {<<>>}
          ELSE IF u[i] = "%"
               THEN IF i + 2 > Len(u) THEN {}
                    ELSE {<<c>> \o p : c \in Unescape(u[i + 1], u[i + 2]), p \in d[i + 3]}
               ELSE {<<IF u[i] = "+" THEN "SP" ELSE u[i]>> \o p : p \in d[i + 1]}
    IN  d[1]

HasDotDot(p) == \E i \in 1..(Len(p) - 1) : p[i] = "." /\ p[i + 1] = "."

(* Mutant: ".." is looked for in the URI as it was sent.                   *)
InferPathUndecoded(old, u) ==
    IF Decode(u) = {} \/ HasDotDot(u) THEN <<>>
    ELSE LET p == old \o (CHOOSE q \in Decode(u) : TRUE)
         IN  IF p # <<>> /\ p[Len(p)] = "/" THEN Append(p, "index") ELSE p

(* The path inferred from URI u, appended to what path_ holds; "index"     *)
(* stands for the characters of "index.html".  For an empty path the code  *)
(* reads the byte before the string, which is never a slash: in the empty  *)
(* string that byte belongs to its length or reference count, both zero.   *)
InferPath(old, u) ==
    IF Decode(u) = {} THEN <<>>
    ELSE LET p == old \o (CHOOSE q \in Decode(u) : TRUE)
         IN  IF HasDotDot(p) THEN <<>>
             ELSE IF p # <<>> /\ p[Len(p)] = "/" THEN Append(p, "index")
             ELSE p
=============================================================================
