--------------------------- MODULE MCServerConfig ---------------------------
(***************************************************************************)
(* All configurations of up to MaxStatements of the statements below: good *)
(* and bad ports, paths, duplicates and defaults, handlers without the     *)
(* settings they need, unknown types, missing tokens and missing blocks.   *)
(***************************************************************************)
EXTENDS ServerConfig, SequencesExt

CONSTANTS MaxStatements    \* bound: statements in a configuration

(* Numbers out of the range of int stand for numerals as large.            *)
MCLeading ==
    [t \in {"80", "81x", "70000", "-1", "9999999", "x"} |->
       CASE t = "80" -> {80} [] t = "81x" -> {81} [] t = "70000" -> {70000}
         [] t = "-1" -> {-1} [] t = "9999999" -> {9999999} [] t = "x" -> {}]

MakeStatement(tokens, block) == [tokens |-> tokens, block |-> block]
NoBlock == {}
Block(settings) == {settings}

Statements ==
    {MakeStatement(<<"port", t>>, NoBlock) : t \in DOMAIN MCLeading}
      \cup {MakeStatement(<<"port">>, NoBlock),
            MakeStatement(<<"path", "/a", "EchoHandler">>, Block({})),
            MakeStatement(<<"path", "/a", "StatusHandler">>, NoBlock),
            MakeStatement(<<"path", "/a", "StaticFileHandler">>, Block({"root"})),
            MakeStatement(<<"path", "/b", "StaticFileHandler">>, Block({})),
            MakeStatement(<<"path", "/b", "ReverseProxyHandler">>,
                          Block({"remote_host", "remote_port"})),
            MakeStatement(<<"path", "(default)", "EchoHandler">>, Block({})),
            MakeStatement(<<"path", "/b">>, Block({})),
            MakeStatement(<<"default">>, Block({})),
            MakeStatement(<<"default", "EchoHandler">>, Block({})),
            MakeStatement(<<"default", "OtherHandler">>, Block({}))}

MCConfigs == BoundedSeq(Statements, MaxStatements)
=============================================================================
