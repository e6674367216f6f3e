------------------------- MODULE ServerConfigProofs -------------------------
(***************************************************************************)
(* Proofs about ServerConfig, for configurations of any length.            *)
(***************************************************************************)
EXTENDS ServerConfig, TLAPS

(* Of the first n statements, none or the first valid one is adopted.      *)
PortSoFar(n) ==
    /\ port = -1 => \A j \in 1..n : ValidPort(config[j]) = {}
    /\ port # -1 => \E j \in 1..n :
                       /\ port \in ValidPort(config[j])
                       /\ \A k \in 1..(j - 1) : ValidPort(config[k]) = {}

(* The map after the first n statements: the first of each path.           *)
MapSoFar(n) ==
    /\ \A j \in 1..n :
         Installs(config[j]) => Key(config[j]) \in DOMAIN handlers
    /\ \A p \in DOMAIN handlers :
         \E j \in For(p, n) :
            /\ handlers[p] = HandlerType(config[j])
            /\ For(p, j - 1) = {}

(* The table has the entries of the map, the default under its name.       *)
SameEntries ==
    /\ DOMAIN handler_info = {Shown(p) : p \in DOMAIN handlers}
    /\ \A p \in DOMAIN handlers : handler_info[Shown(p)] = handlers[p]

ConfigInv ==
    /\ config \in Configs
    /\ TypeOK
    /\ stage = "settings" =>
         /\ PortSoFar(i - 1)
         /\ DOMAIN handlers = {} /\ DOMAIN handler_info = {}
    /\ stage \in {"handlers", "running", "exited"} => PortSoFar(Len(config))
    /\ stage \in {"handlers", "running"} => port # -1
    /\ stage = "exited" => port = -1
    /\ stage = "handlers" => MapSoFar(i - 1)
    /\ "" \in DOMAIN handlers => "(default)" \in DOMAIN handler_info
    /\ stage = "handlers" /\ NoDuplicates => SameEntries
    /\ DefaultInstalled
    /\ HandlersAsConfigured
    /\ TableShowsHandlersIfLegal

-----------------------------------------------------------------------------
(* A statement that installs a handler has a path that is not empty or is  *)
(* the default; the table's key is the name shown for the map's.           *)
LEMMA InstallsIs ==
    ASSUME config \in Configs, NEW j \in 1..Len(config), Installs(config[j])
    PROVE  /\ InfoKey(config[j]) = Shown(Key(config[j]))
           /\ HandlerType(config[j]) \in DOMAIN Needs
<1>0. config \in Seq(Statement)
  BY ConfigAssumption
<1>1. config[j] \in Statement
  BY <1>0
<1>2. config[j].tokens \in Seq(STRING)
  BY <1>1 DEF Statement
<1>3. Len(config[j].tokens) \in Nat /\ Len(config[j].tokens) > 1
  BY <1>2 DEF Installs, NamesHandler
<1>5. config[j].tokens[2] # ""
  <2>1. \A k \in 1..Len(config[j].tokens) : config[j].tokens[k] # ""
    BY ConfigAssumption
  <2>2. 2 \in 1..Len(config[j].tokens)
    BY <1>3
  <2> QED BY <2>1, <2>2
<1>6. HandlerType(config[j]) \in DOMAIN Needs
  BY DEF Installs
<1>7. CASE config[j].tokens[1] = "path"
  <2>1. Key(config[j]) = config[j].tokens[2] /\ InfoKey(config[j]) = config[j].tokens[2]
    BY <1>7 DEF Key, InfoKey
  <2> QED BY <1>5, <1>6, <2>1 DEF Shown
<1>8. CASE config[j].tokens[1] # "path"
  <2>1. Key(config[j]) = "" /\ InfoKey(config[j]) = "(default)"
    BY <1>8 DEF Key, InfoKey
  <2> QED BY <1>6, <2>1 DEF Shown
<1> QED BY <1>7, <1>8

(* A configuration has a length.                                           *)
LEMMA ConfigLength == config \in Configs => config \in Seq(Statement) /\ Len(config) \in Nat
<1> SUFFICES ASSUME config \in Configs PROVE config \in Seq(Statement) /\ Len(config) \in Nat
  OBVIOUS
<1>1. config \in Seq(Statement)
  BY ConfigAssumption
<1> QED BY <1>1

(* A valid port is a port.                                                 *)
LEMMA ValidPortIs ==
    ASSUME NEW s, NEW v \in ValidPort(s)
    PROVE  v \in Int /\ 0 <= v /\ v <= MaxPort
BY DEF ValidPort, Stoi

-----------------------------------------------------------------------------
(* The invariant holds before the first statement is read.                 *)
LEMMA ConfigInvInit == Init => ConfigInv
<1> SUFFICES ASSUME Init PROVE ConfigInv
  OBVIOUS
<1>1. config \in Configs /\ Len(config) \in Nat
  BY ConfigLength DEF Init
<1>2. TypeOK
  <2>1. -1 <= MaxPort
    BY DEF MaxPort
  <2> QED BY <1>1, <2>1 DEF Init, TypeOK, Stages
<1>3. PortSoFar(i - 1)
  BY DEF Init, PortSoFar
<1> QED BY <1>1, <1>2, <1>3 DEF Init, ConfigInv, DefaultInstalled,
      HandlersAsConfigured, TableShowsHandlersIfLegal, TableShowsHandlers

(* Every step of the two passes keeps it.                                  *)
LEMMA ConfigInvNext == ConfigInv /\ [Next]_vars => ConfigInv'
<1> SUFFICES ASSUME ConfigInv, [Next]_vars PROVE ConfigInv'
  OBVIOUS
<1>0. /\ config \in Configs /\ Len(config) \in Nat
      /\ i \in 1..(Len(config) + 1) /\ i \in Nat
  <2>1. config \in Configs /\ i \in 1..(Len(config) + 1)
    BY DEF ConfigInv, TypeOK
  <2>2. Len(config) \in Nat
    BY <2>1, ConfigLength
  <2> QED BY <2>1, <2>2
<1>1. CASE ReadSetting
  <2>1. /\ stage = "settings" /\ stage' = "settings" /\ i \in 1..Len(config)
        /\ i' = i + 1 /\ UNCHANGED <<config, handlers, handler_info>>
        /\ IF port = -1 /\ ValidPort(config[i]) # {}
           THEN port' \in ValidPort(config[i]) ELSE port' = port
    BY <1>0, <1>1 DEF ReadSetting
  <2>2. TypeOK'
    BY <1>0, <2>1, ValidPortIs DEF ConfigInv, TypeOK
  <2>3. PortSoFar(i - 1)'
    <3>1. (i - 1)' = i /\ config' = config
      BY <1>0, <2>1
    <3>2. port' = -1 => \A j \in 1..i : ValidPort(config[j]) = {}
      <4>1. ASSUME port' = -1 PROVE port = -1 /\ ValidPort(config[i]) = {}
        BY <4>1, <2>1, ValidPortIs
      <4>2. port = -1 => \A j \in 1..(i - 1) : ValidPort(config[j]) = {}
        BY <2>1 DEF ConfigInv, PortSoFar
      <4> QED BY <1>0, <4>1, <4>2
    <3>3. port' # -1 => \E j \in 1..i :
                           /\ port' \in ValidPort(config[j])
                           /\ \A k \in 1..(j - 1) : ValidPort(config[k]) = {}
      <4>1. CASE port = -1 /\ ValidPort(config[i]) # {}
        <5>1. port' \in ValidPort(config[i])
          BY <4>1, <2>1
        <5>2. \A k \in 1..(i - 1) : ValidPort(config[k]) = {}
          BY <4>1, <2>1 DEF ConfigInv, PortSoFar
        <5>3. i \in 1..i
          BY <1>0
        <5> QED BY <5>1, <5>2, <5>3
      <4>2. CASE ~ (port = -1 /\ ValidPort(config[i]) # {})
        <5>1. port' = port
          BY <4>2, <2>1
        <5>2. port # -1 => \E j \in 1..(i - 1) :
                             /\ port \in ValidPort(config[j])
                             /\ \A k \in 1..(j - 1) : ValidPort(config[k]) = {}
          BY <2>1 DEF ConfigInv, PortSoFar
        <5> QED BY <1>0, <5>1, <5>2
      <4> QED BY <4>1, <4>2
    <3> QED BY <3>1, <3>2, <3>3 DEF PortSoFar
  <2> QED BY <1>0, <2>1, <2>2, <2>3 DEF ConfigInv, DefaultInstalled,
        HandlersAsConfigured, TableShowsHandlersIfLegal, TableShowsHandlers
<1>2. CASE ReadMissingPort
  BY <1>0, <1>2 DEF ReadMissingPort, ConfigInv, TypeOK, Stages, DefaultInstalled,
     HandlersAsConfigured, TableShowsHandlersIfLegal, TableShowsHandlers
<1>3. CASE SettingsDone
  <2>1. /\ stage = "settings" /\ i = Len(config) + 1 /\ i' = 1
        /\ stage' = IF port = -1 THEN "exited" ELSE "handlers"
        /\ UNCHANGED <<config, port, handlers, handler_info>>
    BY <1>0, <1>3 DEF SettingsDone
  <2>2. TypeOK'
    BY <1>0, <2>1 DEF ConfigInv, TypeOK, Stages
  <2>3. PortSoFar(Len(config))'
    <3>1. i - 1 = Len(config) /\ Len(config') = Len(config)
      BY <1>0, <2>1
    <3>2. PortSoFar(Len(config))
      BY <2>1, <3>1 DEF ConfigInv
    <3> QED BY <2>1, <3>2 DEF PortSoFar
  <2>4. MapSoFar(i - 1)' /\ SameEntries'
    BY <2>1 DEF ConfigInv, MapSoFar, SameEntries
  <2> QED BY <1>0, <2>1, <2>2, <2>3, <2>4 DEF ConfigInv, DefaultInstalled,
        HandlersAsConfigured, TableShowsHandlersIfLegal, TableShowsHandlers
<1>4. CASE InstallHandler
  <2> DEFINE k == Key(config[i])
             t == HandlerType(config[i])
             f == InfoKey(config[i])
  <2>1. /\ stage = "handlers" /\ stage' = "handlers" /\ i \in 1..Len(config)
        /\ i' = i + 1 /\ UNCHANGED <<config, port>>
        /\ Installs(config[i])
        /\ handlers' = Insert(handlers, k, t)
        /\ handler_info' = Assign(handler_info, f, t)
    BY <1>0, <1>4 DEF InstallHandler
  <2>2. f = Shown(k) /\ t \in DOMAIN Needs
    BY <1>0, <2>1, InstallsIs
  <2> HIDE DEF k, t, f
  <2>3. /\ DOMAIN handlers' = DOMAIN handlers \cup {k}
        /\ k \notin DOMAIN handlers => handlers'[k] = t
        /\ \A x \in DOMAIN handlers : handlers'[x] = handlers[x]
    BY <2>1 DEF Insert, Assign
  <2>4. /\ DOMAIN handler_info' = DOMAIN handler_info \cup {f}
        /\ handler_info'[f] = t
        /\ \A x \in DOMAIN handler_info : x # f => handler_info'[x] = handler_info[x]
    BY <2>1 DEF Assign
  <2>5. TypeOK'
    <3>1. \A p \in DOMAIN handlers' : handlers'[p] \in DOMAIN Needs
      BY <2>2, <2>3 DEF ConfigInv, TypeOK
    <3>2. \A p \in DOMAIN handler_info' : handler_info'[p] \in DOMAIN Needs
      BY <2>2, <2>4 DEF ConfigInv, TypeOK
    <3>3. i' \in 1..(Len(config') + 1)
      BY <1>0, <2>1
    <3> QED BY <2>1, <3>1, <3>2, <3>3 DEF ConfigInv, TypeOK
  <2>6. MapSoFar(i - 1)'
    <3>1. ASSUME NEW j \in 1..i, Installs(config[j])
          PROVE  Key(config[j]) \in DOMAIN handlers'
      <4>1. CASE j = i
        BY <4>1, <2>3 DEF k
      <4>2. CASE j \in 1..(i - 1)
        BY <4>2, <2>1, <2>3, <3>1 DEF ConfigInv, MapSoFar
      <4> QED BY <1>0, <4>1, <4>2
    <3>2. ASSUME NEW p \in DOMAIN handlers'
          PROVE  \E j \in For(p, i) :
                    handlers'[p] = HandlerType(config[j]) /\ For(p, j - 1) = {}
      <4>1. CASE p \in DOMAIN handlers
        <5>1. PICK j \in For(p, i - 1) :
                 handlers[p] = HandlerType(config[j]) /\ For(p, j - 1) = {}
          BY <4>1, <2>1 DEF ConfigInv, MapSoFar
        <5>2. j \in For(p, i)
          BY <1>0, <5>1 DEF For
        <5> QED BY <4>1, <5>1, <5>2, <2>3
      <4>2. CASE p \notin DOMAIN handlers
        <5>1. p = k /\ handlers'[p] = t
          BY <4>2, <2>3
        <5>2. i \in For(p, i)
          BY <1>0, <2>1, <5>1 DEF For, k
        <5>3. For(p, i - 1) = {}
          <6>1. MapSoFar(i - 1)
            BY <2>1 DEF ConfigInv
          <6> QED BY <4>2, <6>1 DEF For, MapSoFar
        <5> QED BY <5>1, <5>2, <5>3 DEF t
      <4> QED BY <4>1, <4>2
    <3>3. \A p, n : For(p, n)' = For(p, n)
      BY <2>1 DEF For
    <3>4. (i - 1)' = i /\ config' = config
      BY <1>0, <2>1
    <3> QED BY <3>1, <3>2, <3>3, <3>4 DEF MapSoFar
  <2>7. ASSUME NoDuplicates PROVE SameEntries'
    <3>1. SameEntries
      BY <2>1, <2>7 DEF ConfigInv
    <3>2. k \notin DOMAIN handlers
      <4>1. ASSUME NEW j \in 1..(i - 1), Installs(config[j]), Key(config[j]) = k
            PROVE  FALSE
        <5>1. j \in 1..Len(config)
          BY <1>0
        <5>2. InfoKey(config[j]) = InfoKey(config[i])
          BY <1>0, <2>2, <4>1, <5>1, InstallsIs DEF f
        <5>3. j = i
          BY <2>1, <2>7, <4>1, <5>1, <5>2 DEF NoDuplicates
        <5> QED BY <1>0, <5>3
      <4> QED BY <4>1, <2>1 DEF ConfigInv, MapSoFar, For
    <3>3. k # "(default)" /\ "(default)" \notin DOMAIN handlers
      <4>1. k # "(default)"
        BY <2>1, <2>7 DEF NoDuplicates, k
      <4>2. ASSUME "(default)" \in DOMAIN handlers PROVE FALSE
        <5>1. PICK j \in For("(default)", i - 1) : TRUE
          BY <4>2, <2>1 DEF ConfigInv, MapSoFar
        <5>2. j \in 1..Len(config) /\ Installs(config[j]) /\ Key(config[j]) = "(default)"
          BY <1>0, <5>1 DEF For
        <5> QED BY <5>2, <2>7 DEF NoDuplicates
      <4> QED BY <4>1, <4>2
    <3>4. ASSUME NEW p \in DOMAIN handlers PROVE Shown(p) # f
      BY <2>2, <3>2, <3>3 DEF Shown
    <3>5. ASSUME NEW p \in DOMAIN handlers' PROVE handler_info'[Shown(p)] = handlers'[p]
      <4>1. CASE p = k
        BY <4>1, <2>2, <2>3, <2>4, <3>2
      <4>2. CASE p \in DOMAIN handlers
        BY <4>2, <2>3, <2>4, <3>1, <3>4 DEF SameEntries
      <4> QED BY <4>1, <4>2, <2>3
    <3>6. DOMAIN handler_info' = {Shown(p) : p \in DOMAIN handlers'}
      BY <2>2, <2>3, <2>4, <3>1 DEF SameEntries
    <3> QED BY <3>5, <3>6 DEF SameEntries, Shown
  <2>8. NoDuplicates' => NoDuplicates
    BY <2>1 DEF NoDuplicates
  <2>9. "" \in DOMAIN handlers' => "(default)" \in DOMAIN handler_info'
    BY <2>2, <2>3, <2>4 DEF ConfigInv, Shown
  <2>10. PortSoFar(Len(config))'
    BY <2>1 DEF ConfigInv, PortSoFar
  <2> QED BY <1>0, <2>1, <2>5, <2>6, <2>7, <2>8, <2>9, <2>10 DEF ConfigInv,
        DefaultInstalled, HandlersAsConfigured, TableShowsHandlersIfLegal,
        TableShowsHandlers
<1>5. CASE SkipStatement
  <2>1. /\ stage = "handlers" /\ stage' = "handlers" /\ i \in 1..Len(config)
        /\ i' = i + 1 /\ UNCHANGED <<config, port, handlers, handler_info>>
        /\ ~ Installs(config[i])
    BY <1>0, <1>5 DEF SkipStatement
  <2>2. TypeOK'
    <3>1. i' \in 1..(Len(config') + 1)
      BY <1>0, <2>1
    <3> QED BY <2>1, <3>1 DEF ConfigInv, TypeOK
  <2>3. MapSoFar(i - 1)'
    <3>1. MapSoFar(i - 1)
      BY <2>1 DEF ConfigInv
    <3>2. \A j \in 1..i : Installs(config[j]) => j \in 1..(i - 1)
      BY <1>0, <2>1
    <3>3. \A p : For(p, i) = For(p, i - 1)
      BY <1>0, <2>1 DEF For
    <3>4. \A p, n : For(p, n)' = For(p, n)
      BY <2>1 DEF For
    <3>5. (i - 1)' = i /\ config' = config /\ handlers' = handlers
      BY <1>0, <2>1
    <3>6. \A j \in 1..i : Installs(config[j]) => Key(config[j]) \in DOMAIN handlers
      BY <3>1, <3>2 DEF MapSoFar
    <3>7. \A p \in DOMAIN handlers :
            \E j \in For(p, i) :
               handlers[p] = HandlerType(config[j]) /\ For(p, j - 1) = {}
      BY <3>1, <3>3 DEF MapSoFar
    <3> QED BY <3>4, <3>5, <3>6, <3>7 DEF MapSoFar
  <2>4. NoDuplicates' => SameEntries'
    BY <2>1 DEF ConfigInv, SameEntries, NoDuplicates
  <2>5. PortSoFar(Len(config))'
    BY <2>1 DEF ConfigInv, PortSoFar
  <2> QED BY <1>0, <2>1, <2>2, <2>3, <2>4, <2>5 DEF ConfigInv,
        DefaultInstalled, HandlersAsConfigured, TableShowsHandlersIfLegal,
        TableShowsHandlers
<1>6. CASE EnsureDefault
  <2>1. /\ stage = "handlers" /\ stage' = "running" /\ i = Len(config) + 1
        /\ UNCHANGED <<config, i, port>>
        /\ MapSoFar(Len(config))
    <3>1. /\ stage = "handlers" /\ stage' = "running" /\ i > Len(config)
          /\ UNCHANGED <<config, i, port>>
      BY <1>6, Zenon DEF EnsureDefault
    <3>2. i = Len(config) + 1 /\ i - 1 = Len(config)
      BY <1>0, <3>1
    <3> QED BY <3>1, <3>2 DEF ConfigInv
  <2>2. CASE "" \in DOMAIN handlers
    <3>1. UNCHANGED <<handlers, handler_info>>
      BY <2>2, <1>6 DEF EnsureDefault
    <3>2. TypeOK'
      BY <1>0, <2>1, <3>1 DEF ConfigInv, TypeOK, Stages
    <3>3. PortSoFar(Len(config))'
      BY <2>1 DEF ConfigInv, PortSoFar
    <3>4. HandlersAsConfigured'
      <4>1. \A p, n : For(p, n)' = For(p, n)
        BY <2>1 DEF For
      <4> QED BY <1>0, <2>1, <3>1, <4>1
            DEF MapSoFar, HandlersAsConfigured
    <3>5. TableShowsHandlersIfLegal'
      BY <2>1, <3>1 DEF ConfigInv, TableShowsHandlersIfLegal, TableShowsHandlers,
         SameEntries, NoDuplicates
    <3> QED BY <1>0, <2>1, <2>2, <3>1, <3>2, <3>3, <3>4, <3>5
          DEF ConfigInv, DefaultInstalled
  <2>3. CASE "" \notin DOMAIN handlers
    <3>1. /\ handlers' = Insert(handlers, "", "NotFoundHandler")
          /\ handler_info' = Assign(handler_info, "(default)", "NotFoundHandler")
      BY <2>3, <1>6 DEF EnsureDefault
    <3>2. /\ DOMAIN handlers' = DOMAIN handlers \cup {""}
          /\ handlers'[""] = "NotFoundHandler"
          /\ \A x \in DOMAIN handlers : handlers'[x] = handlers[x]
      BY <2>3, <3>1 DEF Insert, Assign
    <3>3. /\ DOMAIN handler_info' = DOMAIN handler_info \cup {"(default)"}
          /\ handler_info'["(default)"] = "NotFoundHandler"
          /\ \A x \in DOMAIN handler_info :
               x # "(default)" => handler_info'[x] = handler_info[x]
      BY <3>1 DEF Assign
    <3>4. TypeOK'
      <4>1. "NotFoundHandler" \in DOMAIN Needs
        BY DEF Needs
      <4>2. \A p \in DOMAIN handlers' : handlers'[p] \in DOMAIN Needs
        BY <3>2, <4>1 DEF ConfigInv, TypeOK
      <4>3. \A p \in DOMAIN handler_info' : handler_info'[p] \in DOMAIN Needs
        BY <3>3, <4>1 DEF ConfigInv, TypeOK
      <4> QED BY <1>0, <2>1, <3>2, <3>3, <4>2, <4>3 DEF ConfigInv, TypeOK, Stages
    <3>5. PortSoFar(Len(config))'
      BY <2>1 DEF ConfigInv, PortSoFar
    <3>6. HandlersAsConfigured'
      <4>1. \A p, n : For(p, n)' = For(p, n)
        BY <2>1 DEF For
      <4>2. For("", Len(config)) = {}
        <5>1. \A j \in 1..Len(config) : Installs(config[j]) => Key(config[j]) # ""
          BY <2>1, <2>3 DEF MapSoFar
        <5> QED BY <5>1 DEF For
      <4>3. \A j \in 1..Len(config) : Installs(config[j]) => Key(config[j]) \in DOMAIN handlers'
        BY <1>0, <2>1, <3>2 DEF MapSoFar
      <4>4. ASSUME NEW p \in DOMAIN handlers, p # ""
            PROVE  \E j \in For(p, Len(config)) :
                      handlers'[p] = HandlerType(config[j]) /\ For(p, j - 1) = {}
        BY <2>1, <3>2 DEF MapSoFar
      <4> QED BY <2>1, <2>3, <3>2, <4>1, <4>2, <4>3, <4>4
            DEF HandlersAsConfigured
    <3>7. TableShowsHandlersIfLegal'
      <4> SUFFICES ASSUME NoDuplicates PROVE TableShowsHandlers'
        BY <2>1 DEF TableShowsHandlersIfLegal, NoDuplicates
      <4>1. SameEntries
        BY <2>1 DEF ConfigInv
      <4>2. "(default)" \notin DOMAIN handlers
        <5>1. ASSUME "(default)" \in DOMAIN handlers PROVE FALSE
          <6>1. PICK j \in For("(default)", Len(config)) : TRUE
            BY <5>1, <2>1 DEF MapSoFar
          <6>2. j \in 1..Len(config) /\ Installs(config[j]) /\ Key(config[j]) = "(default)"
            BY <1>0, <6>1 DEF For
          <6> QED BY <6>2 DEF NoDuplicates
        <5> QED BY <5>1
      <4>3. ASSUME NEW p \in DOMAIN handlers' PROVE handler_info'[Shown(p)] = handlers'[p]
        <5>1. CASE p = ""
          BY <5>1, <3>2, <3>3 DEF Shown
        <5>2. CASE p # ""
          BY <5>2, <3>2, <3>3, <4>1, <4>2 DEF SameEntries, Shown
        <5> QED BY <5>1, <5>2
      <4>4. DOMAIN handler_info' = {Shown(p) : p \in DOMAIN handlers'}
        BY <3>2, <3>3, <4>1 DEF SameEntries, Shown
      <4> QED BY <4>3, <4>4 DEF TableShowsHandlers, Shown
    <3> QED BY <1>0, <2>1, <3>2, <3>3, <3>4, <3>5, <3>6, <3>7
          DEF ConfigInv, DefaultInstalled
  <2> QED BY <2>2, <2>3
<1>7. CASE UNCHANGED vars
  <2>1. UNCHANGED <<config, stage, i, port, handlers, handler_info>>
    BY <1>7 DEF vars
  <2>2. TypeOK' /\ PortSoFar(i - 1)' = PortSoFar(i - 1)
        /\ PortSoFar(Len(config))' = PortSoFar(Len(config))
    BY <2>1 DEF ConfigInv, TypeOK, PortSoFar
  <2>3. \A p, n : For(p, n)' = For(p, n)
    BY <2>1 DEF For
  <2>4. MapSoFar(i - 1)' = MapSoFar(i - 1) /\ SameEntries' = SameEntries
    BY <2>1, <2>3 DEF MapSoFar, SameEntries
  <2>5. NoDuplicates' = NoDuplicates
    BY <2>1 DEF NoDuplicates
  <2>6. HandlersAsConfigured' /\ DefaultInstalled'
    BY <2>1, <2>3 DEF ConfigInv, HandlersAsConfigured, DefaultInstalled
  <2>7. TableShowsHandlersIfLegal'
    BY <2>1, <2>5 DEF ConfigInv, TableShowsHandlersIfLegal, TableShowsHandlers
  <2> QED BY <2>1, <2>2, <2>4, <2>5, <2>6, <2>7 DEF ConfigInv
<1> QED BY <1>1, <1>2, <1>3, <1>4, <1>5, <1>6, <1>7 DEF Next

-----------------------------------------------------------------------------
(* The invariant holds throughout the start of the server.                 *)
THEOREM ConfigInvariant == Spec => []ConfigInv
<1> QED BY ConfigInvInit, ConfigInvNext, PTL DEF Spec

(* The server runs with the first valid port of its configuration, and     *)
(* only gives up if there is none.                                         *)
THEOREM PortCorrect == Spec => []PortChosen
<1>1. ConfigInv => PortChosen
  <2> QED BY ConfigLength DEF ConfigInv, PortChosen, PortSoFar
<1> QED BY <1>1, ConfigInvariant, PTL

(* The map of handlers always has the empty path, on which the lookup loop *)
(* of do_read relies: DispatchAssumption holds of every map it is given.   *)
THEOREM DefaultAlways == Spec => []DefaultInstalled
<1>1. ConfigInv => DefaultInstalled
  BY DEF ConfigInv
<1> QED BY <1>1, ConfigInvariant, PTL

(* The map is the one that the configuration describes, the first of       *)
(* several statements for a path counting.                                 *)
THEOREM MapCorrect == Spec => []HandlersAsConfigured
<1>1. ConfigInv => HandlersAsConfigured
  BY DEF ConfigInv
<1> QED BY <1>1, ConfigInvariant, PTL

(* For a configuration without duplicates, the table on the status page    *)
(* tells the truth about the handlers in use.                              *)
THEOREM TableCorrect == Spec => []TableShowsHandlersIfLegal
<1>1. ConfigInv => TableShowsHandlersIfLegal
  BY DEF ConfigInv
<1> QED BY <1>1, ConfigInvariant, PTL
=============================================================================
