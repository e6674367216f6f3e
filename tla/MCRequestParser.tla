-------------------------- MODULE MCRequestParser --------------------------
(***************************************************************************)
(* The parser on short requests: with up to two headers and a body, and    *)
(* with every URI of up to MaxUri characters.  In every state there is a   *)
(* character of each kind that the parser tells apart there.               *)
(***************************************************************************)
EXTENDS RequestParser

MCChar ==
    {"SP", "HT", "CR", "LF", "CTL", "HI", ":", "/", "TS", ".", "H", "T", "P", "L",
     "0", "1", "2", "-", "+", "%", "e", "f", "x"}

Literals == {l[1] : l \in Literal}

(* The request line: a right and a wrong character in every state, and all *)
(* URIs over the characters that matter to their decoding.                 *)
LineInput(st) ==
    CASE st \in {"_method_start", "_method"} -> {"x", "SP", "HI"}
      [] st = "_uri" -> {"SP", "/", ".", "%", "+", "2", "e", "f", "CTL"}
      [] st \in Literals -> {"H", "T", "P", "/"}
      [] st \in {"_header_line_start"} -> {"CR", "SP"}
      [] st \in {"_expecting_newline_1", "_expecting_newline_3"} -> {"LF", "CR"}
      [] OTHER -> {"1", ".", "CR"}

(* Headers and bodies, after a line with an empty URI.                     *)
HeaderInput(st) ==
    CASE st \in Literals -> {l[2] : l \in {m \in Literal : m[1] = st}}
      [] st = "_http_version_major" -> {"."}
      [] st = "_http_version_minor" -> {"CR"}
      [] st = "_header_line_start" -> {"L", "x", "CR", "SP", "HT", ":"}
      [] st = "_header_lws" -> {"2", "CR", "SP", "LF"}
      [] st = "_header_name" -> {"L", ":", "CR"}
      [] st = "_space_before_header_value" -> {"SP", "x"}
      [] st = "_header_value" -> {"0", "2", "-", "CR", "LF"}
      [] st \in {"_expecting_newline_1", "_expecting_newline_2", "_expecting_newline_3"}
           -> {"LF", "CR"}
      [] st = "_body" -> {"x"}
      [] OTHER -> {"1"}

MCInput(st, empty) ==
    IF empty /\ st \notin {"_method_start", "_method", "_uri"}
    THEN HeaderInput(st) ELSE LineInput(st)
=============================================================================
