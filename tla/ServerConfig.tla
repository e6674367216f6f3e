---------------------------- MODULE ServerConfig ----------------------------
(***************************************************************************)
(* server_config_parser.cc and the start of main.cc: from the statements   *)
(* of a configuration to a port, the map of handlers that do_read searches *)
(* and the table of handler names that the status page prints.             *)
(*                                                                         *)
(* The two passes over the statements take one step per statement.  A      *)
(* statement is what config_parser.cc makes of it: its tokens, the first   *)
(* of which always exists, and the child block, if any.  Of a block only   *)
(* the names of the settings that have a value matter here.                *)
(***************************************************************************)
EXTENDS Integers, Sequences

CONSTANTS
    Configs,    \* the sequences of statements configuration files contain
    Leading,    \* Leading[t]: {} or the number that the token t begins with
    MaxInt      \* the largest int

Statement == [tokens : Seq(STRING), block : SUBSET SUBSET STRING]

(* Tokens are never empty, so no path is; every statement has one.         *)
ASSUME ConfigAssumption ==
    /\ Configs \subseteq Seq(Statement)
    /\ \A c \in Configs : \A j \in 1..Len(c) :
         /\ Len(c[j].tokens) > 0
         /\ \A k \in 1..Len(c[j].tokens) : c[j].tokens[k] # ""
    /\ MaxInt \in Nat

VARIABLES
    config,        \* NginxServerConfigParser::config
    stage,         \* what main is doing
    i,             \* the statement that the current pass is at
    port,          \* ServerSettings::port
    handlers,      \* handlers_out: the type of the handler of each path
    handler_info   \* handler_info_out

vars == <<config, stage, i, port, handlers, handler_info>>

(* "undefined": tokens[1] was read of a statement that has only one token. *)
Stages == {"settings", "handlers", "running", "exited", "undefined"}

-----------------------------------------------------------------------------
(* The registered types, and the settings without which Init fails.        *)
Needs ==
    [EchoHandler         |-> {},
     NotFoundHandler     |-> {},
     StatusHandler       |-> {},
     StaticFileHandler   |-> {"root"},
     ReverseProxyHandler |-> {"remote_host", "remote_port"}]

(* std::stoi: {} if it throws, for want of a number or out of range.       *)
Stoi(t) == {v \in Leading[t] : v \in Int /\ - MaxInt - 1 <= v /\ v <= MaxInt}

MaxPort == 65535

(* The ports that a statement sets: at most one.                           *)
ValidPort(s) ==
    IF s.tokens[1] = "port" /\ Len(s.tokens) > 1
    THEN {v \in Stoi(s.tokens[2]) : v >= 0 /\ v <= MaxPort}
    ELSE {}

(* "path <path> <type> {...}" and "default <type> {...}"                   *)
NamesHandler(s) ==
    \/ s.tokens[1] = "path" /\ Len(s.tokens) > 2
    \/ s.tokens[1] = "default" /\ Len(s.tokens) > 1

Key(s) == IF s.tokens[1] = "path" THEN s.tokens[2] ELSE ""
HandlerType(s) == IF s.tokens[1] = "path" THEN s.tokens[3] ELSE s.tokens[2]

(* Mutant: the table of names has the key of the map.                      *)
InfoKeySame(s) == Key(s)

InfoKey(s) == IF s.tokens[1] = "path" THEN s.tokens[2] ELSE "(default)"

(* CreateByName knows the type, there is a block, and Init succeeds.       *)
Installs(s) ==
    /\ NamesHandler(s)
    /\ HandlerType(s) \in DOMAIN Needs
    /\ \E b \in s.block : Needs[HandlerType(s)] \subseteq b

(* map[k] = v                                                              *)
Assign(f, k, v) == [x \in DOMAIN f \cup {k} |-> IF x = k THEN v ELSE f[x]]

(* Mutant: an insert that overwrites.                                      *)
InsertOverwrites(f, k, v) == Assign(f, k, v)

(* map.insert(k, v), which leaves an existing entry alone.                 *)
Insert(f, k, v) == IF k \in DOMAIN f THEN f ELSE Assign(f, k, v)

-----------------------------------------------------------------------------
Init ==
    /\ config \in Configs
    /\ stage = "settings"
    /\ i = 1
    /\ port = -1
    /\ handlers = [x \in {} |-> ""]
    /\ handler_info = [x \in {} |-> ""]

(* Mutant: a later port replaces an earlier one.                           *)
ReadSettingLast ==
    /\ stage = "settings"
    /\ i <= Len(config)
    /\ ~ (port = -1 /\ config[i].tokens = <<"port">>)
    /\ IF ValidPort(config[i]) # {}
       THEN port' \in ValidPort(config[i])
       ELSE UNCHANGED port
    /\ i' = i + 1
    /\ UNCHANGED <<config, stage, handlers, handler_info>>

(* ParseServerSettings, one statement: the first port that is valid counts *)
ReadSetting ==
    /\ stage = "settings"
    /\ i <= Len(config)
    /\ ~ (port = -1 /\ config[i].tokens = <<"port">>)
    /\ IF port = -1 /\ ValidPort(config[i]) # {}
       THEN port' \in ValidPort(config[i])
       ELSE UNCHANGED port
    /\ i' = i + 1
    /\ UNCHANGED <<config, stage, handlers, handler_info>>

(* "port;" while no port has been found: tokens[1] is past the end.        *)
ReadMissingPort ==
    /\ stage = "settings"
    /\ i <= Len(config)
    /\ port = -1
    /\ config[i].tokens = <<"port">>
    /\ stage' = "undefined"
    /\ UNCHANGED <<config, i, port, handlers, handler_info>>

(* main gives up without a port.                                           *)
SettingsDone ==
    /\ stage = "settings"
    /\ i > Len(config)
    /\ stage' = IF port = -1 THEN "exited" ELSE "handlers"
    /\ i' = 1
    /\ UNCHANGED <<config, port, handlers, handler_info>>

(* ParseRequestHandlers, one statement that names a usable handler...      *)
InstallHandler ==
    /\ stage = "handlers"
    /\ i <= Len(config)
    /\ Installs(config[i])
    /\ handlers' = Insert(handlers, Key(config[i]), HandlerType(config[i]))
    /\ handler_info' =
         Assign(handler_info, InfoKey(config[i]), HandlerType(config[i]))
    /\ i' = i + 1
    /\ UNCHANGED <<config, stage, port>>

(* ... or that does not.                                                   *)
SkipStatement ==
    /\ stage = "handlers"
    /\ i <= Len(config)
    /\ ~ Installs(config[i])
    /\ i' = i + 1
    /\ UNCHANGED <<config, stage, port, handlers, handler_info>>

(* Mutant: a default handler is made only if there are no handlers at all. *)
EnsureDefaultIfNone ==
    /\ stage = "handlers"
    /\ i > Len(config)
    /\ IF DOMAIN handlers = {}
       THEN /\ handlers' = Insert(handlers, "", "NotFoundHandler")
            /\ handler_info' = Assign(handler_info, "(default)", "NotFoundHandler")
       ELSE UNCHANGED <<handlers, handler_info>>
    /\ stage' = "running"
    /\ UNCHANGED <<config, i, port>>

(* "Ensure that a default handler is made", and main runs the server.      *)
EnsureDefault ==
    /\ stage = "handlers"
    /\ i > Len(config)
    /\ IF "" \notin DOMAIN handlers
       THEN /\ handlers' = Insert(handlers, "", "NotFoundHandler")
            /\ handler_info' = Assign(handler_info, "(default)", "NotFoundHandler")
       ELSE UNCHANGED <<handlers, handler_info>>
    /\ stage' = "running"
    /\ UNCHANGED <<config, i, port>>

Next ==
    \/ ReadSetting \/ ReadMissingPort \/ SettingsDone
    \/ InstallHandler \/ SkipStatement \/ EnsureDefault

Spec == Init /\ [][Next]_vars

-----------------------------------------------------------------------------
(* Type correctness; in particular a port is one that TCP has.             *)
TypeOK ==
    /\ stage \in Stages
    /\ i \in 1..(Len(config) + 1)
    /\ port \in Int /\ port >= -1 /\ port <= MaxPort
    /\ \A p \in DOMAIN handlers : handlers[p] \in DOMAIN Needs
    /\ \A p \in DOMAIN handler_info : handler_info[p] \in DOMAIN Needs

(* main goes on with the port of the first statement that has a valid one, *)
(* whatever other port statements stand before or after it, and gives up   *)
(* exactly if there is none.                                               *)
PortChosen ==
    /\ stage \in {"handlers", "running"} =>
         \E j \in 1..Len(config) :
            /\ port \in ValidPort(config[j])
            /\ \A k \in 1..(j - 1) : ValidPort(config[k]) = {}
    /\ stage = "exited" => \A j \in 1..Len(config) : ValidPort(config[j]) = {}

(* The lookup loop of do_read ends because the empty path is in the map:   *)
(* when the server runs it always is, also when the configuration has no   *)
(* default, or one that cannot be installed.                               *)
DefaultInstalled ==
    stage = "running" =>
        "" \in DOMAIN handlers /\ "(default)" \in DOMAIN handler_info

(* The statements among the first n that install a handler for path p.     *)
For(p, n) == {j \in 1..n : Installs(config[j]) /\ Key(config[j]) = p}

(* When the server runs, a path has the handler of the first statement     *)
(* that installs one for it, and the map has nothing else but the default. *)
(* Without duplicates the order of the statements makes no difference.     *)
HandlersAsConfigured ==
    stage = "running" =>
        /\ \A j \in 1..Len(config) :
             Installs(config[j]) => Key(config[j]) \in DOMAIN handlers
        /\ \A p \in DOMAIN handlers :
             \/ \E j \in For(p, Len(config)) :
                   /\ handlers[p] = HandlerType(config[j])
                   /\ For(p, j - 1) = {}
             \/ /\ p = "" /\ handlers[p] = "NotFoundHandler"
                /\ For(p, Len(config)) = {}

(* "Duplicate paths in the config are illegal".  A path may not be spelt   *)
(* like the name of the default in the table either.                       *)
NoDuplicates ==
    /\ \A j, k \in 1..Len(config) :
         /\ Installs(config[j]) /\ Installs(config[k])
         /\ InfoKey(config[j]) = InfoKey(config[k])
         => j = k
    /\ \A j \in 1..Len(config) : Installs(config[j]) => Key(config[j]) # "(default)"

(* The table's name for a key of the map.                                  *)
Shown(p) == IF p = "" THEN "(default)" ELSE p

(* The table on the status page tells which handlers are in use: the map   *)
(* and the table have the same entries, the default under its name.        *)
TableShowsHandlers ==
    stage = "running" =>
        /\ DOMAIN handler_info = {Shown(p) : p \in DOMAIN handlers}
        /\ \A p \in DOMAIN handlers : handler_info[Shown(p)] = handlers[p]

(* The table is right for every legal configuration.                       *)
TableShowsHandlersIfLegal == NoDuplicates => TableShowsHandlers
=============================================================================
