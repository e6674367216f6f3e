--------------------------- MODULE RoutingProofs ---------------------------
(***************************************************************************)
(* Proofs about Dispatch and Routing, for every set of requests, every     *)
(* configuration and every root: which handler the lookup finds, which     *)
(* file a path names, which URI an origin is asked for, and what a script  *)
(* is told of the form data.                                               *)
(***************************************************************************)
EXTENDS Routing, RecursionLemmas

(* What the loop maintains: it has skipped no boundary prefix, it is at    *)
(* one, and a prefix it is about to cut ends in a slash and is no key.     *)
LoopInv ==
    /\ TypeOK
    /\ NothingSkipped
    /\ Boundary(n)
    /\ at = "with" => n > 0 /\ path[n] = "/" /\ ~ Find(n)
    /\ at = "found" => Find(n)

-----------------------------------------------------------------------------
(* A non-empty set of natural numbers has a least element.                 *)
LEMMA LeastElement ==
    ASSUME NEW T, T \subseteq Nat, T # {}
    PROVE  \E x \in T : \A y \in T : x <= y
<1> DEFINE R == OpToRel(<, Nat)
<1>1. \E x \in T : \A y \in T : ~ (<<y, x>> \in R)
  <2> HIDE DEF R
  <2>1. IsWellFoundedOn(R, Nat)
    BY NatLessThanWellFounded DEF R
  <2> QED BY <2>1, WFMin
<1>2. PICK x \in T : \A y \in T : ~ (<<y, x>> \in R)
  BY <1>1
<1>3. ASSUME NEW y \in T PROVE x <= y
  <2>1. ~ (y < x)
    BY <1>2 DEF OpToRel
  <2> QED BY <2>1
<1> QED BY <1>3

(* The value find_last_of computes exists: the position of the last slash  *)
(* among the first k characters, or 0.                                     *)
LEMMA LastSlashExists ==
    ASSUME NEW k \in Nat
    PROVE  \E i \in 0..k : /\ i > 0 => path[i] = "/"
                           /\ \A j \in (i + 1)..k : path[j] # "/"
<1> DEFINE T == {t \in Nat : t <= k /\ (t < k => path[k - t] = "/")}
<1>1. k \in T
  OBVIOUS
<1>2. PICK t \in T : \A u \in T : t <= u
  <2> HIDE DEF T
  <2>1. T \subseteq Nat /\ T # {}
    BY <1>1 DEF T
  <2> QED BY <2>1, LeastElement
<1>3. ASSUME NEW j \in (k - t + 1)..k PROVE path[j] # "/"
  <2>1. k - j \in Nat /\ k - j < t /\ k - j < k /\ k - (k - j) = j
    OBVIOUS
  <2>2. k - j \notin T
    BY <1>2, <2>1
  <2> QED BY <2>1, <2>2
<1>4. k - t \in 0..k /\ (k - t > 0 => path[k - t] = "/")
  OBVIOUS
<1> QED BY <1>3, <1>4

(* LastSlash, the value the loop of do_read adds one to find_last_of for,  *)
(* is a position of a slash, or 0, with no slash after it.                 *)
LEMMA LastSlashIs ==
    ASSUME NEW k \in Nat
    PROVE  /\ LastSlash(k) \in 0..k
           /\ LastSlash(k) > 0 => path[LastSlash(k)] = "/"
           /\ \A j \in (LastSlash(k) + 1)..k : path[j] # "/"
BY LastSlashExists DEF LastSlash

-----------------------------------------------------------------------------
(* The loop starts, at the whole path, with its invariant.                 *)
LEMMA LoopInvInit == Init => LoopInv
<1> SUFFICES ASSUME Init PROVE LoopInv
  OBVIOUS
<1>1. path \in Seq(Char) /\ Len(path) \in Nat
  BY DispatchAssumption DEF Init
<1> QED BY <1>1 DEF Init, LoopInv, TypeOK, NothingSkipped, Boundary

(* Cutting the prefix back to its last slash, or taking that slash off,    *)
(* passes over no boundary prefix that is a key.                           *)
LEMMA LoopInvNext == LoopInv /\ [Next]_vars => LoopInv'
<1> SUFFICES ASSUME LoopInv, [Next]_vars PROVE LoopInv'
  OBVIOUS
<1> USE DEF LoopInv, TypeOK
<1>1. path \in Seq(Char) /\ Len(path) \in Nat /\ n \in Nat
  BY DispatchAssumption
<1>2. CASE Found
  BY <1>1, <1>2 DEF Found, NothingSkipped, Boundary, Find
<1>3. CASE TryWithSlash
  <2> DEFINE m == LastSlash(n)
  <2>1. /\ m \in 0..n
        /\ m > 0 => path[m] = "/"
        /\ \A j \in (m + 1)..n : path[j] # "/"
    BY <1>1, LastSlashIs
  <2>2. /\ n' = m /\ path' = path /\ keys' = keys
        /\ ~ Find(n)
        /\ at' = "loop" \/ (at' = "with" /\ ~ Find(n)')
    BY <1>3 DEF TryWithSlash, Find
  <2> HIDE DEF m
  <2>3. ASSUME NEW k \in (m + 1)..n, Boundary(k) PROVE ~ Find(k)
    <3>1. k = n
      BY <1>1, <2>1, <2>3 DEF Boundary
    <3> QED BY <3>1, <2>2
  <2>4. NothingSkipped'
    <3> SUFFICES ASSUME NEW k \in (m + 1)..Len(path), Boundary(k)
                 PROVE  ~ Find(k)
      BY <2>2 DEF NothingSkipped, Boundary, Find
    <3>1. k \in (m + 1)..n \/ k \in (n + 1)..Len(path)
      BY <1>1, <2>1
    <3> QED BY <3>1, <2>3 DEF NothingSkipped
  <2>5. Boundary(n)'
    BY <1>1, <2>1, <2>2 DEF Boundary
  <2>6. at' = "with" => (n > 0 /\ path[n] = "/" /\ ~ Find(n))'
    <3> SUFFICES ASSUME at' = "with" PROVE m > 0
      BY <2>1, <2>2
    <3>1. ~ (SubSeq(path, 1, m) \in keys)
      BY <2>2 DEF Find
    <3>2. m = 0 => SubSeq(path, 1, m) = <<>>
      BY <1>1
    <3>3. <<>> \in keys
      BY DispatchAssumption
    <3>4. m # 0
      BY <3>1, <3>2, <3>3
    <3> QED BY <1>1, <2>1, <3>4
  <2> QED BY <1>1, <2>1, <2>2, <2>4, <2>5, <2>6
<1>4. CASE TryWithoutSlash
  <2>1. /\ n > 0 /\ path[n] = "/" /\ ~ Find(n)
        /\ n' = n - 1 /\ path' = path /\ keys' = keys /\ at' = "loop"
    BY <1>1, <1>4 DEF TryWithoutSlash
  <2>2. NothingSkipped'
    <3> SUFFICES ASSUME NEW k \in n..Len(path), Boundary(k)
                 PROVE  ~ Find(k)
      BY <1>1, <2>1 DEF NothingSkipped, Boundary, Find
    <3>1. k = n \/ k \in (n + 1)..Len(path)
      BY <1>1
    <3> QED BY <3>1, <2>1 DEF NothingSkipped
  <2>3. Boundary(n)'
    BY <1>1, <2>1 DEF Boundary
  <2> QED BY <1>1, <2>1, <2>2, <2>3
<1>5. CASE UNCHANGED vars
  BY <1>5 DEF vars, NothingSkipped, Boundary, Find
<1> QED BY <1>2, <1>3, <1>4, <1>5 DEF Next

(* The lookup loop of do_read keeps its invariant from start to end.       *)
THEOREM LoopInvariant == Spec => []LoopInv
<1> QED BY LoopInvInit, LoopInvNext, PTL DEF Spec

(* For every path and every configuration, the handler do_read settles on  *)
(* is the one for the longest boundary prefix of the path that is a key.   *)
THEOREM DispatchCorrect == Spec => []LongestBoundaryMatch
<1>1. LoopInv => LongestBoundaryMatch
  BY DEF LoopInv, LongestBoundaryMatch
<1> QED BY <1>1, LoopInvariant, PTL

(* For every path and every configuration, each step of the loop lowers a  *)
(* natural number: it ends.                                                *)
THEOREM DispatchTerminates == Spec => LoopProgresses
<1>1. LoopInv /\ LoopInv' /\ [Next]_vars => [Measure' < Measure /\ Measure' >= 0]_vars
  <2> SUFFICES ASSUME LoopInv, Next
               PROVE  Measure' < Measure /\ Measure' >= 0
    OBVIOUS
  <2>1. path \in Seq(Char) /\ Len(path) \in Nat /\ n \in Nat
    BY DispatchAssumption DEF LoopInv, TypeOK
  <2>2. CASE Found
    BY <2>1, <2>2 DEF Found, Measure
  <2>3. CASE TryWithSlash
    <3>1. LastSlash(n) \in 0..n
      BY <2>1, LastSlashIs
    <3>2. LastSlash(n) = n => at' = "with"
      BY <2>3 DEF TryWithSlash, Find
    <3>3. n' \in 0..n /\ at = "loop" /\ (at' = "with" \/ (at' = "loop" /\ n' < n))
      BY <2>1, <2>3, <3>1, <3>2 DEF TryWithSlash
    <3> QED BY <2>1, <3>3 DEF Measure
  <2>4. CASE TryWithoutSlash
    BY <2>1, <2>4 DEF TryWithoutSlash, Measure, LoopInv
  <2> QED BY <2>2, <2>3, <2>4 DEF Next
<1> QED BY <1>1, LoopInvariant, PTL DEF Spec, LoopProgresses

-----------------------------------------------------------------------------
(* The path of a request that gets to the lookup is one that Dispatch      *)
(* knows of.                                                               *)
LEMMA PathKnown == RoutingInit => Init
BY RoutingAssumption DEF RoutingInit, Init

(* A step of the routing is one of the lookup, or leaves it alone.         *)
LEMMA LookupSteps == [RoutingNext]_allvars => [Next]_vars
BY DEF RoutingNext, allvars, vars, Lookup, Forward, OpenFile, FileNotFound, ReadFails,
       SendFile, RunScripts, Respond

(* The handlers are found by the loop of Dispatch, so that what is proved  *)
(* of the loop holds of every request that is routed.                      *)
THEOREM RoutingImplementsDispatch == RoutingSpec => Spec
<1> QED BY PathKnown, LookupSteps, PTL DEF RoutingSpec, Spec

-----------------------------------------------------------------------------
(* What each handler was left with.  It is computed once, when the lookup  *)
(* is over and path and prefix do not change any more.                     *)
FormInv ==
    /\ form.get # <<>> => form.get = lua_get(request.uri)
    /\ form.post # <<>> => form.post = form2table(request.body)

HandlerInv ==
    /\ request \in Requests
    /\ path = InferPath(<<>>, request.uri)
    /\ stage # "lookup" => at = "found"
    /\ stage = "lookup" => file.name = <<>> /\ remote_uri = <<>>
    /\ file.type # "none" =>
         /\ stage # "lookup"
         /\ \E root \in Roots :
              file = [root |-> root, name |-> c_str(root \o FilePath(Rest)), type |-> TypeOf(Rest)]
    /\ file.type = "none" => file.name = <<>>
    /\ remote_uri # <<>> =>
         /\ stage # "lookup"
         /\ remote_uri = RemoteUri(request.uri, Prefix)
    /\ FormInv

(* TypeOf determines a type.                                               *)
LEMMA TypesKnown == \A p : TypeOf(p) \in {"text/html", "other"}
BY DEF TypeOf, extension_to_type

FormKept == UNCHANGED form
FormRead == form' = [get |-> lua_get(request.uri), post |-> form2table(request.body)]

(* Every step keeps what the handlers were left with.                      *)
LEMMA HandlerInvNext == HandlerInv /\ [RoutingNext]_allvars => HandlerInv'
<1> SUFFICES ASSUME HandlerInv, [RoutingNext]_allvars PROVE HandlerInv'
  OBVIOUS
<1>1. CASE Lookup
  <2>1. at # "found"
    BY <1>1 DEF Lookup, Next, Found, TryWithSlash, TryWithoutSlash
  <2>2. stage = "lookup" /\ file.type = "none" /\ remote_uri = <<>>
    BY <2>1 DEF HandlerInv
  <2>3. UNCHANGED path
    BY <1>1 DEF Lookup, Next, Found, TryWithSlash, TryWithoutSlash
  <2> QED BY <1>1, <2>2, <2>3 DEF Lookup, HandlerInv, FormInv
<1>2. CASE Forward
  BY <1>2 DEF Forward, HandlerInv, FormInv, Prefix, Rest
<1>3. CASE OpenFile
  <2>1. /\ at = "found" /\ stage = "lookup" /\ stage' = "open"
        /\ UNCHANGED <<path, n, at, request, remote_uri, form>>
    BY <1>3 DEF OpenFile
  <2>2. PICK root \in Roots :
          file' = [root |-> root, name |-> c_str(root \o FilePath(Rest)), type |-> TypeOf(Rest)]
    BY <1>3 DEF OpenFile
  <2>3. file'.type # "none"
    BY <2>2, TypesKnown
  <2>4. FilePath(Rest)' = FilePath(Rest) /\ TypeOf(Rest)' = TypeOf(Rest)
    BY <2>1 DEF Rest
  <2> QED BY <2>1, <2>2, <2>3, <2>4 DEF HandlerInv, FormInv
<1>4. ASSUME NEW c, Respond(c), FormKept \/ FormRead PROVE HandlerInv'
  <2>1. /\ stage = "open" /\ stage' = "done"
        /\ UNCHANGED <<keys, path, n, at, request, file, remote_uri>>
    BY <1>4 DEF Respond
  <2>2. FormInv'
    BY <1>4, <2>1 DEF HandlerInv, FormInv, FormKept, FormRead
  <2> QED BY <2>1, <2>2 DEF HandlerInv, Prefix, Rest
<1>5. CASE UNCHANGED allvars
  BY <1>5 DEF allvars, HandlerInv, FormInv, Prefix, Rest
<1> QED
  BY <1>1, <1>2, <1>3, <1>4, <1>5
     DEF RoutingNext, FileNotFound, ReadFails, SendFile, RunScripts, FormKept, FormRead

(* Every request is routed with the invariants of lookup and handlers.     *)
THEOREM RoutingInvariant == RoutingSpec => [](LoopInv /\ HandlerInv)
<1>1. RoutingInit => LoopInv /\ HandlerInv
  BY PathKnown, LoopInvInit DEF RoutingInit, HandlerInv, FormInv
<1>2. LoopInv /\ HandlerInv /\ [RoutingNext]_allvars => (LoopInv /\ HandlerInv)'
  BY LookupSteps, LoopInvNext, HandlerInvNext
<1> QED BY <1>1, <1>2, PTL DEF RoutingSpec

-----------------------------------------------------------------------------
(* First is the least position of a set of them.                           *)
LEMMA FirstIs ==
    ASSUME NEW I, I \subseteq Nat, I # {}
    PROVE  First(I) \in I /\ \A j \in I : First(I) <= j
BY LeastElement DEF First

(* The least position is determined by being least.                        *)
LEMMA FirstUnique ==
    ASSUME NEW I, I \subseteq Nat, NEW i \in I, \A j \in I : i <= j
    PROVE  First(I) = i
<1>1. First(I) \in I /\ First(I) <= i
  BY FirstIs
<1>2. i <= First(I)
  BY <1>1
<1>3. i \in Nat /\ First(I) \in Nat
  BY <1>1
<1> HIDE DEF First
<1> QED BY <1>1, <1>2, <1>3

(* What comes before the first c of s: a prefix of s.                      *)
LEMMA UpToPrefix ==
    ASSUME NEW S, NEW s \in Seq(S), NEW c
    PROVE  /\ UpTo(s, c) \in Seq(S)
           /\ Len(UpTo(s, c)) <= Len(s)
           /\ \A i \in 1..Len(UpTo(s, c)) : UpTo(s, c)[i] = s[i]
<1>1. CASE At(s, c) = {}
  BY <1>1 DEF UpTo
<1>2. CASE At(s, c) # {}
  <2> DEFINE k == First(At(s, c))
  <2>1. k \in 1..Len(s)
    <3>1. At(s, c) \subseteq Nat /\ At(s, c) \subseteq 1..Len(s)
      BY DEF At
    <3> QED BY <1>2, <3>1, FirstIs
  <2>2. UpTo(s, c) = SubSeq(s, 1, k - 1)
    BY <1>2 DEF UpTo
  <2> HIDE DEF k
  <2>3. k - 1 \in 0..Len(s)
    BY <2>1
  <2> QED BY <2>2, <2>3, SubSeqProperties
<1> QED BY <1>1, <1>2

(* What is behind the first k elements of a sequence.                      *)
LEMMA SuffixIs ==
    ASSUME NEW S, NEW s \in Seq(S), NEW k \in 0..Len(s)
    PROVE  /\ SubSeq(s, k + 1, Len(s)) \in Seq(S)
           /\ Len(SubSeq(s, k + 1, Len(s))) = Len(s) - k
           /\ \A i \in 1..(Len(s) - k) : SubSeq(s, k + 1, Len(s))[i] = s[k + i]
<1>1. Len(s) \in Nat /\ k + 1 \in Int /\ \A i \in (k + 1)..Len(s) : s[i] \in S
  BY ElementOfSeq
<1> QED BY <1>1, SubSeqProperties

(* A sequence followed by another.                                         *)
LEMMA ConcatIs ==
    ASSUME NEW S, NEW s \in Seq(S), NEW t \in Seq(S)
    PROVE  /\ s \o t \in Seq(S)
           /\ Len(s \o t) = Len(s) + Len(t)
           /\ \A i \in 1..Len(s) : (s \o t)[i] = s[i]
           /\ \A i \in 1..Len(t) : (s \o t)[Len(s) + i] = t[i]
           /\ IsPrefix(s, s \o t)
           /\ SubSeq(s \o t, Len(s) + 1, Len(s \o t)) = t
<1>1. /\ s \o t \in Seq(S)
      /\ Len(s \o t) = Len(s) + Len(t)
      /\ \A i \in 1..Len(s) : (s \o t)[i] = s[i]
      /\ \A i \in 1..Len(t) : (s \o t)[Len(s) + i] = t[i]
  BY ConcatProperties
<1>2. IsPrefix(s, s \o t)
  <2>1. SubSeq(s \o t, 1, Len(s)) = s
    BY <1>1, SubSeqProperties
  <2> QED BY <1>1, <2>1 DEF IsPrefix
<1>3. SubSeq(s \o t, Len(s) + 1, Len(s \o t)) = t
  <2> DEFINE u == SubSeq(s \o t, Len(s) + 1, Len(s \o t))
  <2>1. /\ u \in Seq(S) /\ Len(u) = Len(t)
        /\ \A i \in 1..Len(t) : u[i] = (s \o t)[Len(s) + i]
    BY <1>1, SubSeqProperties
  <2> HIDE DEF u
  <2>2. u = t
    BY <1>1, <2>1, SeqEqual
  <2> QED BY <2>2 DEF u
<1> QED BY <1>1, <1>2, <1>3

(* A string is a C string if it has no NUL, and the cut that makes a C     *)
(* string of two of which the first has none is made in the second.        *)
LEMMA CutNothing ==
    ASSUME NEW s, At(s, "NUL") = {}
    PROVE  c_str(s) = s
BY DEF c_str, UpTo

LEMMA CutBehind ==
    ASSUME NEW S, NEW r \in Seq(S), NEW p \in Seq(S), At(r, "NUL") = {}
    PROVE  c_str(r \o p) = r \o c_str(p)
<1> DEFINE t == r \o p
           L == Len(r)
           M == Len(p)
<1>1. L \in Nat /\ M \in Nat /\ DOMAIN r = 1..L /\ DOMAIN p = 1..M
  OBVIOUS
<1>2. /\ t \in Seq(S) /\ Len(t) = L + M /\ DOMAIN t = 1..(L + M)
      /\ \A i \in 1..L : t[i] = r[i]
      /\ \A i \in 1..M : t[L + i] = p[i]
  BY ConcatIs
<1> HIDE DEF t
<1>3. \A i \in 1..L : t[i] # "NUL"
  BY <1>1, <1>2 DEF At
<1>4. ASSUME NEW i \in At(t, "NUL") PROVE i - L \in At(p, "NUL")
  <2>1. i \in 1..(L + M) /\ t[i] = "NUL" /\ ~ (i \in 1..L)
    BY <1>2, <1>3 DEF At
  <2>2. i - L \in 1..M /\ L + (i - L) = i
    BY <1>1, <2>1
  <2>3. p[i - L] = "NUL"
    BY <1>2, <2>1, <2>2
  <2> QED BY <1>1, <2>2, <2>3 DEF At
<1>5. CASE At(p, "NUL") = {}
  <2>1. At(t, "NUL") = {}
    BY <1>4, <1>5
  <2> QED BY <1>5, <2>1, CutNothing DEF t
<1>6. CASE At(p, "NUL") # {}
  <2> DEFINE k == First(At(p, "NUL"))
  <2>1. At(p, "NUL") \subseteq Nat
    BY <1>1 DEF At
  <2>2. k \in At(p, "NUL") /\ \A j \in At(p, "NUL") : k <= j
    BY <1>6, <2>1, FirstIs
  <2> HIDE DEF k
  <2>3. k \in 1..M /\ p[k] = "NUL"
    BY <1>1, <2>2 DEF At
  <2>4. First(At(t, "NUL")) = L + k /\ At(t, "NUL") # {}
    <3>1. L + k \in At(t, "NUL")
      BY <1>1, <1>2, <2>3 DEF At
    <3>2. At(t, "NUL") \subseteq Nat
      BY <1>1, <1>2 DEF At
    <3>3. ASSUME NEW j \in At(t, "NUL") PROVE L + k <= j
      <4>1. k <= j - L /\ j \in Nat
        BY <1>4, <2>2, <3>2
      <4> QED BY <1>1, <2>3, <4>1
    <3> QED BY <3>1, <3>2, <3>3, FirstUnique
  <2> DEFINE m == k - 1
             v == SubSeq(p, 1, m)
             u == SubSeq(t, 1, L + m)
             w == r \o v
  <2>5. m \in Nat /\ m <= M /\ L + m \in Nat /\ L + m <= Len(t) /\ (L + k) - 1 = L + m
    BY <1>1, <1>2, <2>3
  <2>6. c_str(t) = u /\ c_str(p) = v
    BY <1>6, <2>4, <2>5 DEF c_str, UpTo, k
  <2> HIDE DEF m
  <2>7. v \in Seq(S) /\ Len(v) = m /\ \A i \in 1..m : v[i] = p[i]
    BY <2>5, SubSeqProperties
  <2>8. u \in Seq(S) /\ Len(u) = L + m /\ \A i \in 1..(L + m) : u[i] = t[i]
    <3> DEFINE z == L + m
    <3> HIDE DEF z
    <3>1. z \in Nat /\ z <= Len(t)
      BY <2>5 DEF z
    <3>2. /\ SubSeq(t, 1, z) \in Seq(S) /\ Len(SubSeq(t, 1, z)) = z
          /\ \A i \in 1..z : SubSeq(t, 1, z)[i] = t[i]
      BY <1>2, <3>1, SubSeqProperties
    <3> QED BY <3>2 DEF z
  <2> HIDE DEF u, v
  <2>9. /\ w \in Seq(S) /\ Len(w) = L + m
        /\ \A i \in 1..L : w[i] = r[i]
        /\ \A i \in 1..m : w[L + i] = v[i]
    <3>1. r \in Seq(S) /\ v \in Seq(S)
      BY <2>7
    <3>2. /\ r \o v \in Seq(S) /\ Len(r \o v) = Len(r) + Len(v)
          /\ \A i \in 1..Len(r) : (r \o v)[i] = r[i]
          /\ \A i \in 1..Len(v) : (r \o v)[Len(r) + i] = v[i]
      BY ONLY <3>1, ConcatIs
    <3> QED BY <2>7, <3>2
  <2> HIDE DEF w
  <2>10. ASSUME NEW i \in 1..(L + m) PROVE u[i] = w[i]
    <3>1. CASE i \in 1..L
      BY <1>2, <2>8, <2>9, <3>1
    <3>2. CASE ~ (i \in 1..L)
      <4>1. i - L \in 1..m /\ i - L \in 1..M /\ L + (i - L) = i
        BY <1>1, <2>5, <3>2
      <4>2. w[i] = v[i - L] /\ t[i] = p[i - L]
        BY <1>2, <2>9, <4>1
      <4> QED BY <2>7, <2>8, <4>1, <4>2
    <3> QED BY <3>1, <3>2
  <2>11. u = w
    BY <2>8, <2>9, <2>10, SeqEqual
  <2> QED BY <2>6, <2>11 DEF w, t
<1> QED BY <1>5, <1>6

(* The name of a file in a directory without NUL in its name.              *)
LEMMA NameIs ==
    ASSUME NEW root \in Roots, NEW p \in Seq(Char)
    PROVE  root \in Seq(Char) \ {<<>>} /\ c_str(root \o p) = root \o c_str(p)
<1>1. root \in Seq(Char \ {"NUL"}) /\ root # <<>>
  BY RoutingAssumption
<1>2. Len(root) \in Nat /\ \A i \in 1..Len(root) : root[i] \in Char /\ root[i] # "NUL"
  <2> DEFINE D == Char \ {"NUL"}
  <2>1. root \in Seq(D)
    BY <1>1
  <2> HIDE DEF D
  <2>2. Len(root) \in Nat /\ \A i \in 1..Len(root) : root[i] \in D
    BY <2>1, ElementOfSeq
  <2> QED BY <2>2 DEF D
<1>3. root \in Seq(Char) /\ At(root, "NUL") = {}
  BY <1>1, <1>2 DEF At
<1> QED BY <1>1, <1>3, CutBehind

-----------------------------------------------------------------------------
(* The part of the path behind the prefix begins with a slash, or is       *)
(* empty, if the prefix does not end in one and is not empty before a path *)
(* without one: this is what the lookup gives by ending at a boundary.     *)
LEMMA RestBegins ==
    ASSUME LoopInv, at = "found",
           ~ EndsInSlash(Prefix), Prefix = <<>> => path[1] = "/"
    PROVE  Rest = <<>> \/ Rest[1] = "/"
<1>1. path \in Seq(Char) /\ Len(path) \in Nat /\ n \in 0..Len(path)
  BY DispatchAssumption DEF LoopInv, TypeOK
<1>2. /\ Rest \in Seq(Char) /\ Len(Rest) = Len(path) - n
      /\ \A i \in 1..(Len(path) - n) : Rest[i] = path[n + i]
  BY <1>1, SubSeqProperties DEF Rest
<1>3. /\ Prefix \in Seq(Char) /\ Len(Prefix) = n
      /\ \A i \in 1..n : Prefix[i] = path[i]
  BY <1>1, SubSeqProperties DEF Prefix
<1>4. CASE n = Len(path)
  <2>1. Len(Rest) = 0
    BY <1>1, <1>2, <1>4
  <2> QED BY <1>2, <2>1, EmptySeq
<1>5. CASE n < Len(path) /\ path[n + 1] = "/"
  BY <1>1, <1>2, <1>5
<1>6. CASE n < Len(path) /\ n = 0
  <2>1. Prefix = <<>>
    BY <1>3, <1>6, EmptySeq
  <2> QED BY <1>1, <1>2, <1>6, <2>1
<1>7. ~ (n \in 1..Len(path) /\ path[n] = "/")
  <2> SUFFICES ASSUME n \in 1..Len(path), path[n] = "/" PROVE FALSE
    OBVIOUS
  <2>1. Prefix # <<>> /\ Prefix[Len(Prefix)] = "/"
    BY <1>3
  <2> QED BY <2>1 DEF EndsInSlash, Last
<1>8. Boundary(n)
  BY DEF LoopInv
<1> QED BY <1>1, <1>4, <1>5, <1>6, <1>7, <1>8 DEF Boundary

(* The name of the file, as the static file handler puts it together: root *)
(* and the path below it, with a slash between the two.                    *)
LEMMA NameJoined ==
    ASSUME LoopInv, HandlerInv, file.type # "none", Joined
    PROVE  \E fp \in Seq(Char) :
              /\ file.root \in Seq(Char) \ {<<>>}
              /\ fp = c_str(FilePath(Rest))
              /\ file.name = file.root \o fp
              /\ fp = <<>> \/ fp[1] = "/" \/ EndsInSlash(file.root)
<1>1. PICK root \in Roots :
        file = [root |-> root, name |-> c_str(root \o FilePath(Rest)), type |-> TypeOf(Rest)]
  BY DEF HandlerInv
<1>2. at = "found"
  BY DEF HandlerInv
<1>4. Rest \in Seq(Char)
  <2>1. path \in Seq(Char) /\ Len(path) \in Nat /\ n \in 0..Len(path)
    BY DispatchAssumption DEF LoopInv, TypeOK
  <2> QED BY <2>1, SubSeqProperties DEF Rest
<1> DEFINE gp == FilePath(Rest)
           fp == c_str(gp)
<1>5. /\ gp \in Seq(Char) /\ Len(gp) <= Len(Rest)
      /\ \A i \in 1..Len(gp) : gp[i] = Rest[i]
  BY <1>4, UpToPrefix DEF FilePath
<1> HIDE DEF gp
<1>a. /\ fp \in Seq(Char) /\ Len(fp) <= Len(gp)
      /\ \A i \in 1..Len(fp) : fp[i] = gp[i]
  BY <1>5, UpToPrefix DEF c_str
<1>3. /\ root \in Seq(Char) \ {<<>>} /\ file.root = root
      /\ file.name = root \o fp
  BY <1>1, <1>5, NameIs DEF gp
<1>6. fp = <<>> \/ fp[1] = "/" \/ EndsInSlash(file.root)
  <2> HIDE DEF fp
  <2> SUFFICES ASSUME fp # <<>>, ~ EndsInSlash(file.root) PROVE fp[1] = "/"
    OBVIOUS
  <2>1. Len(fp) >= 1 /\ Rest # <<>> /\ 1 \in 1..Len(fp) /\ 1 \in 1..Len(gp)
    BY <1>4, <1>5, <1>a, EmptySeq
  <2>2. Rest[1] = "/"
    BY <1>2, <2>1, RestBegins DEF Joined
  <2> QED BY <1>5, <1>a, <2>1, <2>2
<1> QED BY <1>3, <1>a, <1>6 DEF gp

(* For every configuration and request without the known traps, the file   *)
(* that StaticFileHandler opens lies below its root directory: the name of *)
(* the directory is never continued.                                       *)
THEOREM FilesUnderRoot == RoutingSpec => []FileUnderRoot
<1>1. LoopInv /\ HandlerInv => FileUnderRoot
  <2> DEFINE below == SubSeq(file.name, Len(file.root) + 1, Len(file.name))
  <2> SUFFICES ASSUME LoopInv, HandlerInv, stage # "lookup", file.name # <<>>, Joined
               PROVE  /\ IsPrefix(file.root, file.name)
                      /\ below = <<>> \/ below[1] = "/" \/ EndsInSlash(file.root)
    BY DEF FileUnderRoot
  <2>1. file.type # "none"
    BY DEF HandlerInv
  <2>2. PICK fp \in Seq(Char) :
          /\ file.root \in Seq(Char)
          /\ file.name = file.root \o fp
          /\ fp = <<>> \/ fp[1] = "/" \/ EndsInSlash(file.root)
    BY <2>1, NameJoined
  <2>3. IsPrefix(file.root, file.name) /\ below = fp
    <3> DEFINE root == file.root
    <3>1. root \in Seq(Char) /\ file.name = root \o fp
      BY <2>2
    <3> HIDE DEF root
    <3>2. /\ IsPrefix(root, root \o fp)
          /\ SubSeq(root \o fp, Len(root) + 1, Len(root \o fp)) = fp
      BY <3>1, ConcatIs
    <3> QED BY <3>1, <3>2 DEF root
  <2> QED BY <2>2, <2>3
<1> QED BY <1>1, RoutingInvariant, PTL

-----------------------------------------------------------------------------
(* Final is the greatest position of a bounded set of them.                *)
LEMMA FinalIs ==
    ASSUME NEW k \in Nat, NEW I, I \subseteq 1..k, I # {}
    PROVE  Final(I) \in I /\ \A j \in I : j <= Final(I)
<1> DEFINE T == {k - i : i \in I}
<1>0. \A i \in I : i \in Nat /\ i <= k /\ k - i \in Nat
  OBVIOUS
<1>1. T \subseteq Nat /\ T # {}
  BY <1>0
<1>2. PICK x \in T : \A y \in T : x <= y
  <2> HIDE DEF T
  <2> QED BY <1>1, LeastElement
<1>3. PICK i \in I : x = k - i
  BY <1>2
<1>4. ASSUME NEW j \in I PROVE j <= i
  <2>1. k - i <= k - j
    BY <1>2, <1>3
  <2> QED BY <1>0, <2>1
<1> QED BY <1>3, <1>4 DEF Final

(* The greatest position is determined by being greatest.                  *)
LEMMA FinalUnique ==
    ASSUME NEW k \in Nat, NEW I, I \subseteq 1..k, NEW i \in I, \A j \in I : j <= i
    PROVE  Final(I) = i
<1>1. Final(I) \in I /\ i <= Final(I)
  BY FinalIs
<1>2. Final(I) <= i
  BY <1>1
<1> DEFINE f == Final(I)
<1> HIDE DEF f
<1>3. i \in 1..k /\ f \in 1..k /\ i <= f /\ f <= i
  BY <1>1, <1>2 DEF f
<1>4. f = i
  BY <1>3
<1> QED BY <1>4 DEF f

(* The extension of a file below a directory, with a slash between the     *)
(* two, is that of its name there: dots in the directory do not matter.    *)
LEMMA ExtensionBelow ==
    ASSUME NEW root \in Seq(Char), NEW fp \in Seq(Char), root # <<>>, fp # <<>>,
           fp[1] = "/" \/ EndsInSlash(root)
    PROVE  Extension(root \o fp) = Extension(fp)
<1> DEFINE name == root \o fp
           L == Len(root)
           M == Len(fp)
<1>1. /\ L \in Nat /\ L > 0 /\ M \in Nat /\ M > 0
      /\ DOMAIN fp = 1..M
  BY EmptySeq
<1>2. /\ name \in Seq(Char) /\ Len(name) = L + M /\ DOMAIN name = 1..(L + M)
      /\ \A i \in 1..L : name[i] = root[i]
      /\ \A i \in 1..M : name[L + i] = fp[i]
  BY ConcatIs
<1>3. name # <<>> /\ Last(name) = Last(fp)
  BY <1>1, <1>2 DEF Last
<1> HIDE DEF name
<1>4. ASSUME NEW c
      PROVE  /\ \A i \in At(fp, c) : i \in 1..M /\ L + i \in At(name, c)
             /\ \A i \in At(name, c) : i \in 1..(L + M) /\ (i > L => i - L \in At(fp, c))
  <2>1. \A i \in At(fp, c) : i \in 1..M /\ L + i \in At(name, c)
    BY <1>1, <1>2 DEF At
  <2>2. ASSUME NEW i \in At(name, c), i > L PROVE i - L \in At(fp, c)
    <3>1. i - L \in 1..M /\ L + (i - L) = i /\ name[i] = c
      BY <1>1, <1>2, <2>2 DEF At
    <3>2. fp[i - L] = c
      BY <1>2, <3>1
    <3> QED BY <1>1, <3>1, <3>2 DEF At
  <2>3. \A i \in At(name, c) : i \in 1..(L + M)
    BY <1>2 DEF At
  <2> QED BY <2>1, <2>2, <2>3
<1>5. CASE Last(fp) = "index"
  BY <1>3, <1>5 DEF Extension, name
<1>6. CASE Last(fp) # "index" /\ At(fp, ".") = {}
  <2>1. Extension(fp) = <<>>
    BY <1>6 DEF Extension
  <2>2. CASE At(name, ".") = {}
    BY <1>3, <1>6, <2>1, <2>2 DEF Extension, name
  <2>3. CASE At(name, ".") # {}
    <3> DEFINE d == Final(At(name, "."))
    <3>1. d \in At(name, ".") /\ d \in 1..(L + M)
      <4>1. At(name, ".") \subseteq 1..(L + M)
        BY <1>4
      <4> QED BY <1>1, <2>3, <4>1, FinalIs
    <3> HIDE DEF d
    <3>2. d <= L /\ name[d] = "."
      BY <1>1, <1>4, <1>6, <3>1 DEF At
    <3>3. \E i \in At(name, "/") : i > d
      <4>1. CASE fp[1] = "/"
        <5>1. L + 1 \in At(name, "/")
          BY <1>1, <1>2, <4>1 DEF At
        <5> QED BY <1>1, <3>1, <3>2, <5>1
      <4>2. CASE EndsInSlash(root)
        <5>1. name[L] = "/" /\ L \in At(name, "/")
          BY <1>1, <1>2, <4>2 DEF At, EndsInSlash, Last
        <5>2. d # L
          BY <3>2, <5>1
        <5> QED BY <1>1, <3>1, <3>2, <5>1, <5>2
      <4> QED BY <4>1, <4>2
    <3> QED BY <1>3, <1>6, <2>1, <3>3 DEF Extension, name, d
  <2> QED BY <2>2, <2>3
<1>7. CASE Last(fp) # "index" /\ At(fp, ".") # {}
  <2> DEFINE f == Final(At(fp, "."))
  <2>1. f \in At(fp, ".") /\ f \in 1..M /\ \A j \in At(fp, ".") : j <= f
    <3>1. At(fp, ".") \subseteq 1..M
      BY <1>4
    <3> QED BY <1>1, <1>7, <3>1, FinalIs
  <2> HIDE DEF f
  <2>2. Final(At(name, ".")) = L + f
    <3>1. L + f \in At(name, ".") /\ At(name, ".") \subseteq 1..(L + M)
      BY <1>4, <2>1
    <3>2. ASSUME NEW j \in At(name, ".") PROVE j <= L + f
      <4>1. j \in 1..(L + M) /\ (j > L => j - L \in At(fp, "."))
        BY <1>4
      <4> QED BY <1>1, <2>1, <4>1
    <3> QED BY <1>1, <3>1, <3>2, FinalUnique
  <2>3. (\E i \in At(name, "/") : i > L + f) <=> (\E i \in At(fp, "/") : i > f)
    <3>1. ASSUME NEW i \in At(name, "/"), i > L + f PROVE \E j \in At(fp, "/") : j > f
      <4>1. i \in 1..(L + M) /\ (i > L => i - L \in At(fp, "/"))
        BY <1>4
      <4>2. i > L /\ i - L > f
        BY <1>1, <2>1, <3>1, <4>1
      <4> QED BY <4>1, <4>2
    <3>2. ASSUME NEW i \in At(fp, "/"), i > f PROVE \E j \in At(name, "/") : j > L + f
      <4>1. i \in 1..M /\ L + i \in At(name, "/")
        BY <1>4
      <4>2. L + i > L + f
        BY <1>1, <2>1, <3>2, <4>1
      <4> QED BY <4>1, <4>2
    <3> QED BY <3>1, <3>2
  <2>4. SubSeq(name, (L + f) + 1, Len(name)) = SubSeq(fp, f + 1, Len(fp))
    <3> DEFINE u == SubSeq(name, (L + f) + 1, Len(name))
               v == SubSeq(fp, f + 1, Len(fp))
    <3>0. L + f \in 0..Len(name) /\ f \in 0..Len(fp) /\ Len(name) - (L + f) = M - f
      BY <1>1, <1>2, <2>1
    <3>1. /\ u \in Seq(Char) /\ Len(u) = M - f
          /\ \A i \in 1..(M - f) : u[i] = name[(L + f) + i]
      <4> DEFINE k == L + f
      <4> HIDE DEF k
      <4>1. k \in 0..Len(name) /\ Len(name) - k = M - f
        BY <3>0 DEF k
      <4>2. /\ SubSeq(name, k + 1, Len(name)) \in Seq(Char)
            /\ Len(SubSeq(name, k + 1, Len(name))) = Len(name) - k
            /\ \A i \in 1..(Len(name) - k) : SubSeq(name, k + 1, Len(name))[i] = name[k + i]
        BY <1>2, <4>1, SuffixIs
      <4> QED BY <4>1, <4>2 DEF k
    <3>2. /\ v \in Seq(Char) /\ Len(v) = M - f
          /\ \A i \in 1..(M - f) : v[i] = fp[f + i]
      BY <3>0, SuffixIs
    <3>3. ASSUME NEW i \in 1..(M - f) PROVE u[i] = v[i]
      <4>1. f + i \in 1..M /\ (L + f) + i = L + (f + i)
        BY <1>1, <2>1
      <4> HIDE DEF u, v
      <4> QED BY <1>2, <3>1, <3>2, <4>1
    <3> HIDE DEF u, v
    <3>4. u = v
      BY <3>1, <3>2, <3>3, SeqEqual
    <3> QED BY <3>4 DEF u, v
  <2>5. At(name, ".") # {}
    BY <1>4, <2>1
  <2>6. CASE \E i \in At(fp, "/") : i > f
    BY <1>3, <1>7, <2>2, <2>3, <2>6 DEF Extension, f, name
  <2>7. CASE ~ \E i \in At(fp, "/") : i > f
    <3>1. Extension(fp) = SubSeq(fp, f + 1, Len(fp))
      BY <1>7, <2>7 DEF Extension, f
    <3>2. Extension(name) = SubSeq(name, (L + f) + 1, Len(name))
      BY <1>3, <1>7, <2>2, <2>3, <2>5, <2>7 DEF Extension
    <3> QED BY <2>4, <3>1, <3>2 DEF name
  <2> QED BY <2>6, <2>7
<1> QED BY <1>5, <1>6, <1>7

(* For every configuration and request without the known traps and without *)
(* NUL in the path, a file with a scripted extension is never sent as it   *)
(* is: the type is that of the file that is opened, whatever else the URI  *)
(* holds.                                                                  *)
THEOREM ScriptsAreRun == RoutingSpec => []ScriptsNotSentRaw
<1>1. LoopInv /\ HandlerInv => ScriptsNotSentRaw
  <2> SUFFICES ASSUME LoopInv, HandlerInv, file.type = "other", Joined,
                      file.name # file.root, At(path, "NUL") = {}
               PROVE  Extension(file.name) \notin Scripted
    BY DEF ScriptsNotSentRaw
  <2>1. PICK fp \in Seq(Char) :
          /\ file.root \in Seq(Char) \ {<<>>}
          /\ fp = c_str(FilePath(Rest))
          /\ file.name = file.root \o fp
          /\ fp = <<>> \/ fp[1] = "/" \/ EndsInSlash(file.root)
    BY NameJoined
  <2> DEFINE root == file.root
  <2>2. root \in Seq(Char) /\ root # <<>>
    BY <2>1
  <2>3. fp # <<>>
    <3> HIDE DEF root
    <3>1. fp = <<>> => root \o fp = root
      BY <2>2, ConcatEmptySeq
    <3> QED BY <2>1, <3>1 DEF root
  <2>4. Extension(file.name) = Extension(fp)
    BY <2>1, <2>2, <2>3, ExtensionBelow
  <2>5. TypeOf(Rest) = "other"
    BY DEF HandlerInv
  <2>6. fp = FilePath(Rest)
    <3>1. path \in Seq(Char) /\ n \in 0..Len(path)
      BY DispatchAssumption DEF LoopInv, TypeOK
    <3>2. /\ Rest \in Seq(Char) /\ Len(Rest) = Len(path) - n
          /\ \A i \in 1..(Len(path) - n) : Rest[i] = path[n + i]
      BY <3>1, SuffixIs DEF Rest
    <3> DEFINE gp == FilePath(Rest)
    <3>3. /\ gp \in Seq(Char) /\ Len(gp) <= Len(Rest)
          /\ \A i \in 1..Len(gp) : gp[i] = Rest[i]
      BY <3>2, UpToPrefix DEF FilePath
    <3> HIDE DEF gp
    <3>4. ASSUME NEW i \in 1..Len(gp) PROVE gp[i] # "NUL"
      <4>1. i \in 1..(Len(path) - n) /\ n + i \in 1..Len(path)
        BY <3>1, <3>2, <3>3
      <4>2. path[n + i] # "NUL"
        BY <3>1, <4>1 DEF At
      <4> QED BY <3>2, <3>3, <4>1, <4>2
    <3>5. At(gp, "NUL") = {}
      BY <3>3, <3>4 DEF At
    <3> QED BY <2>1, <3>5, CutNothing DEF gp
  <2> QED BY <2>4, <2>5, <2>6 DEF TypeOf, extension_to_type
<1> QED BY <1>1, RoutingInvariant, PTL

(* For every request to a reverse proxy whose prefix is one component,     *)
(* written in the URI as in the configuration, the origin is asked for     *)
(* the URI without that component.                                         *)
THEOREM RemoteUriIsRest == RoutingSpec => []RemoteUriStripped
<1>1. LoopInv /\ HandlerInv => RemoteUriStripped
  <2> DEFINE uri == request.uri
             later == At(uri, "/") \ {1}
  <2> SUFFICES ASSUME LoopInv, HandlerInv, remote_uri # <<>>, IsPrefix(Prefix, uri),
                      n >= 2, At(Prefix, "/") = {1},
                      n = Len(uri) \/ uri[n + 1] = "/"
               PROVE  remote_uri =
                        IF n = Len(uri) THEN <<"/">> ELSE SubSeq(uri, n + 1, Len(uri))
    BY DEF RemoteUriStripped
  <2>1. uri \in Seq(Char) /\ Len(uri) \in Nat
    BY RoutingAssumption DEF HandlerInv
  <2>2. path \in Seq(Char) /\ Len(path) \in Nat /\ n \in 0..Len(path) /\ n \in Nat
    BY DispatchAssumption DEF LoopInv, TypeOK
  <2>3. Prefix \in Seq(Char) /\ Len(Prefix) = n
    BY <2>2, SubSeqProperties DEF Prefix
  <2> HIDE DEF uri
  <2>4. n <= Len(uri) /\ \A i \in 1..n : Prefix[i] = uri[i]
    <3>1. n <= Len(uri) /\ SubSeq(Prefix, 1, n) = SubSeq(uri, 1, n)
      BY <2>3 DEF IsPrefix
    <3>2. \A i \in 1..n : SubSeq(Prefix, 1, n)[i] = Prefix[i]
      BY <2>2, <2>3, SubSeqProperties
    <3>3. \A i \in 1..n : SubSeq(uri, 1, n)[i] = uri[i]
      BY <2>1, <2>2, <3>1, SubSeqProperties
    <3> QED BY <3>1, <3>2, <3>3
  <2>5. \A i \in 2..n : uri[i] # "/"
    <3> SUFFICES ASSUME NEW i \in 2..n, uri[i] = "/" PROVE FALSE
      OBVIOUS
    <3>1. i \in At(Prefix, "/")
      BY <2>2, <2>3, <2>4 DEF At
    <3> QED BY <3>1
  <2>6. later \subseteq (n + 1)..Len(uri)
    BY <2>1, <2>2, <2>5 DEF At
  <2>7. remote_uri = IF later = {} THEN <<"/">> ELSE SubSeq(uri, First(later), Len(uri))
    <3>1. Prefix # <<"/">>
      <4>1. Len(<<"/">>) = 1
        OBVIOUS
      <4> QED BY <2>3, <4>1
    <3> QED BY <3>1 DEF HandlerInv, RemoteUri, uri
  <2>8. CASE n = Len(uri)
    <3>1. later = {}
      BY <2>1, <2>6, <2>8
    <3> QED BY <2>7, <2>8, <3>1
  <2>9. CASE n # Len(uri)
    <3>1. n + 1 \in later
      BY <2>1, <2>2, <2>4, <2>9 DEF At
    <3>2. First(later) = n + 1
      <4> HIDE DEF later
      <4>1. later \subseteq Nat /\ \A j \in later : n + 1 <= j
        BY <2>1, <2>2, <2>6
      <4> QED BY <3>1, <4>1, FirstUnique
    <3>3. later # {}
      BY <3>1
    <3> HIDE DEF later
    <3> QED BY <2>7, <2>9, <3>2, <3>3
  <2> QED BY <2>8, <2>9
<1> QED BY <1>1, RoutingInvariant, PTL

-----------------------------------------------------------------------------
(* The loop over form data exists for all form data, and goes on step by   *)
(* step.                                                                   *)
LEMMA FormStatesAre ==
    ASSUME NEW S, NEW data \in Seq(S)
    PROVE  /\ FormStates(data)[0] = NoPairs
           /\ \A i \in 1..Len(data) :
                FormStates(data)[i] = FormStep(FormStates(data)[i - 1], data[i])
<1> DEFINE N == Len(data)
           StepOf(g, i) == IF i = 0 THEN NoPairs ELSE FormStep(g[i - 1], data[i])
           E == {m \in Nat : m <= N => \E g : g = [i \in 0..m |-> StepOf(g, i)]}
<1>0. N \in Nat
  OBVIOUS
<1>1. \A m \in Nat : m \in E
  <2>1. 0 \in E
    <3> DEFINE g == [i \in 0..0 |-> NoPairs]
    <3>1. g = [i \in 0..0 |-> StepOf(g, i)]
      OBVIOUS
    <3> QED BY <3>1
  <2>2. ASSUME NEW m \in Nat, m \in E PROVE m + 1 \in E
    <3> SUFFICES ASSUME m + 1 <= N
                 PROVE  \E g : g = [i \in 0..(m + 1) |-> StepOf(g, i)]
      OBVIOUS
    <3>1. PICK g : g = [i \in 0..m |-> StepOf(g, i)]
      BY <1>0, <2>2
    <3> DEFINE h == [i \in 0..(m + 1) |-> IF i = m + 1 THEN StepOf(g, i) ELSE g[i]]
    <3>2. ASSUME NEW i \in 0..(m + 1) PROVE h[i] = StepOf(h, i)
      <4>1. i # 0 => i - 1 \in 0..m /\ h[i - 1] = g[i - 1]
        OBVIOUS
      <4>2. StepOf(h, i) = StepOf(g, i)
        <5> HIDE DEF h
        <5> QED BY <4>1
      <4>3. CASE i = m + 1
        BY <4>2, <4>3
      <4>4. CASE i # m + 1
        <5>1. i \in 0..m
          BY <4>4
        <5>2. g[i] = StepOf(g, i)
          BY <3>1, <5>1
        <5> QED BY <4>2, <4>4, <5>2
      <4> QED BY <4>3, <4>4
    <3>3. h = [i \in 0..(m + 1) |-> h[i]]
      OBVIOUS
    <3> HIDE DEF h
    <3>4. h = [i \in 0..(m + 1) |-> StepOf(h, i)]
      BY <3>2, <3>3
    <3> QED BY <3>4
  <2> HIDE DEF E
  <2> QED BY <2>1, <2>2, SetInduction
<1> DEFINE st == CHOOSE st : st = [i \in 0..Len(data) |-> StepOf(st, i)]
<1>2. st = [i \in 0..N |-> StepOf(st, i)]
  BY <1>0, <1>1
<1>3. FormStates(data) = st
  BY DEF FormStates
<1> HIDE DEF st
<1>4. st[0] = NoPairs
  BY <1>0, <1>2
<1>5. \A i \in 1..N : st[i] = FormStep(st[i - 1], data[i])
  BY <1>0, <1>2
<1> QED BY <1>3, <1>4, <1>5

(* A part of a sequence, and the same part with one more element.          *)
LEMMA SubSeqGrows ==
    ASSUME NEW S, NEW s \in Seq(S), NEW a \in 1..Len(s), NEW b \in 1..Len(s), a <= b
    PROVE  SubSeq(s, a, b) = Append(SubSeq(s, a, b - 1), s[b])
<1> DEFINE u == SubSeq(s, a, b)
           v == SubSeq(s, a, b - 1)
           w == Append(v, s[b])
<1>0. /\ a \in Int /\ b \in Int /\ b - 1 \in Int /\ s[b] \in S
      /\ \A i \in a..b : s[i] \in S
      /\ \A i \in a..(b - 1) : s[i] \in S
  BY ElementOfSeq
<1>1. /\ u \in Seq(S) /\ Len(u) = (b - a) + 1
      /\ \A i \in 1..((b - a) + 1) : u[i] = s[a + i - 1]
  BY <1>0, SubSeqProperties
<1>2. /\ v \in Seq(S) /\ Len(v) = b - a
      /\ \A i \in 1..(b - a) : v[i] = s[a + i - 1]
  BY <1>0, SubSeqProperties
<1> HIDE DEF u, v
<1>3. /\ w \in Seq(S) /\ Len(w) = (b - a) + 1 /\ w[(b - a) + 1] = s[b]
      /\ \A i \in 1..(b - a) : w[i] = v[i]
  <2> DEFINE m == b - a
             x == s[b]
  <2>1. v \in Seq(S) /\ x \in S /\ Len(v) = m
    BY <1>0, <1>2
  <2> HIDE DEF m, x
  <2>2. /\ Append(v, x) \in Seq(S) /\ Len(Append(v, x)) = m + 1
        /\ Append(v, x)[m + 1] = x /\ \A i \in 1..m : Append(v, x)[i] = v[i]
    BY ONLY <2>1, AppendProperties
  <2> QED BY <2>2 DEF m, x
<1> HIDE DEF w
<1>4. ASSUME NEW i \in 1..((b - a) + 1) PROVE u[i] = w[i]
  <2>1. CASE i = (b - a) + 1
    <3>1. a + i - 1 = b
      BY <1>0, <2>1
    <3> QED BY <1>1, <1>3, <2>1, <3>1
  <2>2. CASE i \in 1..(b - a)
    BY <1>1, <1>2, <1>3, <2>2
  <2> QED BY <1>0, <2>1, <2>2
<1>5. u = w
  BY <1>1, <1>3, <1>4, SeqEqual
<1> QED BY <1>5 DEF u, v, w

-----------------------------------------------------------------------------
(* The fields of form data, as FieldTable has them.                        *)
Equals(data, f) == {i \in f[1]..f[2] : data[i] = "="}
Name(data, f) == Pushed(SubSeq(data, f[1], First(Equals(data, f)) - 1))
Value(data, f) == Pushed(SubSeq(data, First(Equals(data, f)) + 1, f[2]))

(* The table T has the fields G: the value of the last one of each name.   *)
LastOf(data, G, k, f) ==
    f \in G /\ Name(data, f) = k /\ \A g \in G : Name(data, g) = k => g[1] <= f[1]
Tabled(T, data, G) ==
    /\ DOMAIN T = {Name(data, f) : f \in G}
    /\ \A k \in DOMAIN T : \E f \in G : LastOf(data, G, k, f) /\ T[k] = Value(data, f)

(* What the loop holds of a field from position b to i.                    *)
IsState(s) ==
    s = [key |-> s.key, val |-> s.val, readingkey |-> s.readingkey, table |-> s.table]
FieldRead(s, data, b, i) ==
    LET E == Equals(data, <<b, i>>)
    IN  IF E = {} THEN /\ s.readingkey = TRUE /\ s.key = SubSeq(data, b, i) /\ s.val = <<>>
        ELSE /\ s.readingkey = FALSE /\ s.key = SubSeq(data, b, First(E) - 1)
             /\ s.val = SubSeq(data, First(E) + 1, i)

(* One more character of a field.                                          *)
LEMMA FieldGrows ==
    ASSUME NEW S, NEW data \in Seq(S), NEW i \in 0..(Len(data) - 1), NEW b \in 1..(i + 1),
           NEW s, IsState(s), FieldRead(s, data, b, i), data[i + 1] # "&"
    PROVE  /\ IsState(FormStep(s, data[i + 1]))
           /\ FieldRead(FormStep(s, data[i + 1]), data, b, i + 1)
           /\ FormStep(s, data[i + 1]).table = s.table
<1> DEFINE E == Equals(data, <<b, i>>)
           F == Equals(data, <<b, i + 1>>)
           x == data[i + 1]
           t == FormStep(s, x)
<1>0. i + 1 \in 1..Len(data) /\ i \in Nat /\ b \in Nat
  OBVIOUS
<1>1. /\ E \subseteq b..i /\ F = E \cup (IF x = "=" THEN {i + 1} ELSE {})
  BY <1>0 DEF Equals
<1> HIDE DEF E, F
<1>2. CASE E = {} /\ x = "="
  <2>1. s.readingkey = TRUE /\ s.key = SubSeq(data, b, i) /\ s.val = <<>>
    BY <1>2 DEF FieldRead, E
  <2>2. F = {i + 1} /\ First(F) = i + 1
    <3>1. F = {i + 1}
      BY <1>1, <1>2
    <3>2. F \subseteq Nat /\ i + 1 \in F /\ \A j \in F : i + 1 <= j
      BY <1>0, <3>1
    <3> QED BY <3>1, <3>2, FirstUnique
  <2>3. t = [s EXCEPT !.readingkey = FALSE]
    BY <1>2, <2>1 DEF FormStep
  <2>4. t = [key |-> s.key, val |-> s.val, readingkey |-> FALSE, table |-> s.table]
    BY <2>3 DEF IsState
  <2>5. SubSeq(data, (i + 1) + 1, i + 1) = <<>>
    BY <1>0
  <2>6. (i + 1) - 1 = i
    BY <1>0
  <2> HIDE DEF t
  <2>7. FieldRead(t, data, b, i + 1)
    BY <2>1, <2>2, <2>4, <2>5, <2>6 DEF FieldRead, F
  <2> QED BY <2>4, <2>7 DEF IsState, t
<1>3. CASE E = {} /\ x # "="
  <2>1. s.readingkey = TRUE /\ s.key = SubSeq(data, b, i) /\ s.val = <<>>
    BY <1>3 DEF FieldRead, E
  <2>2. F = {}
    BY <1>1, <1>3
  <2>3. t = [s EXCEPT !.key = Append(s.key, x)]
    BY <1>3, <2>1 DEF FormStep
  <2>4. t = [key |-> Append(s.key, x), val |-> s.val, readingkey |-> s.readingkey,
             table |-> s.table]
    BY <2>3 DEF IsState
  <2>5. Append(s.key, x) = SubSeq(data, b, i + 1)
    <3>1. b \in 1..Len(data) /\ b <= i + 1 /\ (i + 1) - 1 = i
      BY <1>0
    <3> QED BY <1>0, <2>1, <3>1, SubSeqGrows
  <2> HIDE DEF t
  <2>7. FieldRead(t, data, b, i + 1)
    BY <2>1, <2>2, <2>4, <2>5 DEF FieldRead, F
  <2> QED BY <2>4, <2>7 DEF IsState, t
<1>4. CASE E # {}
  <2> DEFINE e == First(E)
  <2>0. E \subseteq Nat
    BY <1>0, <1>1
  <2>1. e \in E /\ \A j \in E : e <= j
    BY <1>4, <2>0, FirstIs
  <2>2. First(F) = e /\ F # {}
    <3> HIDE DEF e
    <3>1. F \subseteq Nat /\ e \in F
      BY <1>0, <1>1, <2>0, <2>1
    <3>2. \A j \in F : e <= j
      BY <1>0, <1>1, <2>1
    <3> QED BY <3>1, <3>2, FirstUnique
  <2>3. s.readingkey = FALSE /\ s.key = SubSeq(data, b, e - 1) /\ s.val = SubSeq(data, e + 1, i)
    BY <1>4 DEF FieldRead, E
  <2> HIDE DEF e
  <2>4. t = [s EXCEPT !.val = Append(s.val, x)]
    BY <2>3 DEF FormStep
  <2>5. t = [key |-> s.key, val |-> Append(s.val, x), readingkey |-> s.readingkey,
             table |-> s.table]
    BY <2>4 DEF IsState
  <2>6. Append(s.val, x) = SubSeq(data, e + 1, i + 1)
    <3>1. e + 1 \in 1..Len(data) /\ e + 1 <= i + 1 /\ (i + 1) - 1 = i
      BY <1>0, <1>1, <2>1
    <3> QED BY <1>0, <2>3, <3>1, SubSeqGrows
  <2> HIDE DEF t
  <2>7. FieldRead(t, data, b, i + 1)
    BY <2>2, <2>3, <2>5, <2>6 DEF FieldRead, F, e
  <2> QED BY <2>5, <2>7 DEF IsState, t
<1> QED BY <1>2, <1>3, <1>4

(* The fields before position b, that is, those read when b is the first   *)
(* position of the current one; and the next one.                          *)
Before(data, b) == {f \in Fields(data) : f[2] + 1 < b}
IsStart(data, b, i) ==
    /\ b = 1 \/ data[b - 1] = "&"
    /\ \A j \in b..i : data[j] # "&"

LEMMA FieldEnds ==
    ASSUME NEW S, NEW data \in Seq(S), NEW i \in 0..Len(data), NEW b \in 1..(i + 1),
           IsStart(data, b, i), i = Len(data) \/ data[i + 1] = "&"
    PROVE  /\ <<b, i>> \in Fields(data)
           /\ Before(data, i + 2) = Before(data, b) \cup {<<b, i>>}
           /\ \A f \in Before(data, b) : f[1] < b
<1> DEFINE N == Len(data)
           F == Fields(data)
<1>0. N \in Nat /\ i \in Nat /\ b \in Nat
  OBVIOUS
<1>1. ASSUME NEW f \in F
      PROVE  /\ f = <<f[1], f[2]>> /\ f[1] \in 1..(N + 1) /\ f[2] \in 0..N /\ f[1] <= f[2] + 1
             /\ f[1] = 1 \/ data[f[1] - 1] = "&"
             /\ f[2] = N \/ data[f[2] + 1] = "&"
             /\ \A j \in f[1]..f[2] : data[j] # "&"
  BY <1>1 DEF Fields
<1>2. <<b, i>> \in F
  BY <1>0 DEF Fields, IsStart
<1>3. ASSUME NEW f \in Before(data, b) PROVE f[1] < b /\ f \in Before(data, i + 2)
  <2>1. f \in F /\ f[2] + 1 < b
    BY <1>3 DEF Before
  <2>2. f[2] + 1 < i + 2
    BY <1>0, <1>1, <2>1
  <2> QED BY <1>0, <1>1, <2>1, <2>2 DEF Before
<1>4. ASSUME NEW f \in Before(data, i + 2), f \notin Before(data, b) PROVE f = <<b, i>>
  <2> DEFINE x == f[1]
             y == f[2]
  <2>1. f \in F /\ y + 1 < i + 2 /\ ~ (y + 1 < b)
    BY <1>4 DEF Before
  <2>2. /\ f = <<x, y>> /\ x \in 1..(N + 1) /\ y \in 0..N /\ x <= y + 1
        /\ x = 1 \/ data[x - 1] = "&"
        /\ y = N \/ data[y + 1] = "&"
        /\ \A j \in x..y : data[j] # "&"
    BY <1>1, <2>1
  <2> HIDE DEF x, y
  <2>3. y = i
    <3> SUFFICES ASSUME y # i PROVE FALSE
      OBVIOUS
    <3>1. y + 1 \in b..i /\ y # N
      BY <1>0, <2>1, <2>2
    <3> QED BY <2>2, <3>1 DEF IsStart
  <2>4. x = b
    <3>1. CASE x < b
      <4>1. b # 1 /\ b - 1 \in x..y
        BY <1>0, <2>2, <2>3, <3>1
      <4> QED BY <2>2, <4>1 DEF IsStart
    <3>2. CASE x > b
      <4>1. x # 1 /\ x - 1 \in b..i
        BY <1>0, <2>2, <2>3, <3>2
      <4> QED BY <2>2, <4>1 DEF IsStart
    <3> QED BY <1>0, <2>2, <3>1, <3>2
  <2> QED BY <2>2, <2>3, <2>4
<1>5. <<b, i>> \in Before(data, i + 2)
  BY <1>0, <1>2 DEF Before
<1> QED BY <1>2, <1>3, <1>4, <1>5

(* The table when a pair is added to it: a later field of the same name    *)
(* takes the place of an earlier one.                                      *)
HasTable(t, data, G) ==
    /\ IsState(t) /\ t.key = <<>> /\ t.val = <<>> /\ t.readingkey = TRUE
    /\ Tabled(t.table, data, G)
    /\ t.table = [k \in DOMAIN t.table |-> t.table[k]]

LEMMA PairAdded ==
    ASSUME NEW data, NEW G, NEW f, NEW s,
           Tabled(s.table, data, G), f[1] \in Int,
           \A g \in G : g[1] \in Int /\ g[1] < f[1],
           Pushed(s.key) = Name(data, f), Pushed(s.val) = Value(data, f)
    PROVE  HasTable(AddPair(s), data, G \cup {f})
<1> DEFINE x == Name(data, f)
           v == Value(data, f)
           T == s.table
           U == [k \in {x} \cup DOMAIN T |-> IF k = x THEN v ELSE T[k]]
           H == G \cup {f}
<1>1. AddPair(s) = [key |-> <<>>, val |-> <<>>, readingkey |-> TRUE, table |-> U]
  BY DEF AddPair
<1>2. /\ DOMAIN T = {Name(data, g) : g \in G}
      /\ \A k \in DOMAIN T : \E g \in G : LastOf(data, G, k, g) /\ T[k] = Value(data, g)
  BY DEF Tabled
<1> HIDE DEF x, v, T
<1>3. DOMAIN U = {Name(data, g) : g \in H}
  BY <1>2 DEF x
<1>4. ASSUME NEW k \in DOMAIN U
      PROVE  \E g \in H : LastOf(data, H, k, g) /\ U[k] = Value(data, g)
  <2>1. CASE k = x
    <3>1. f \in H /\ U[k] = Value(data, f)
      BY <2>1 DEF v
    <3>2. LastOf(data, H, k, f)
      BY <2>1 DEF LastOf, x
    <3> QED BY <3>1, <3>2
  <2>2. CASE k # x
    <3>1. k \in DOMAIN T /\ U[k] = T[k]
      BY <1>4, <2>2
    <3>2. PICK g \in G : LastOf(data, G, k, g) /\ T[k] = Value(data, g)
      BY <1>2, <3>1
    <3>3. LastOf(data, H, k, g)
      BY <2>2, <3>2 DEF LastOf, x
    <3> QED BY <3>1, <3>2, <3>3
  <2> QED BY <2>1, <2>2
<1>5. U = [k \in DOMAIN U |-> U[k]]
  OBVIOUS
<1>6. Tabled(U, data, H)
  <2> HIDE DEF U, H
  <2> QED BY <1>3, <1>4 DEF Tabled
<1> HIDE DEF U, H
<1> QED BY <1>1, <1>5, <1>6 DEF HasTable, IsState, H

(* What the loop maintains in form data in which every field has a "=".    *)
Loop(st, data, b, i) ==
    /\ b \in 1..(i + 1)
    /\ IsStart(data, b, i)
    /\ IsState(st) /\ FieldRead(st, data, b, i)
    /\ Tabled(st.table, data, Before(data, b))

HaveEquals(data) == \A f \in Fields(data) : Equals(data, f) # {}

(* A field whose end is reached is put into the table.                     *)
LEMMA FieldAdded ==
    ASSUME NEW S, NEW data \in Seq(S), HaveEquals(data), NEW i \in 0..Len(data),
           i = Len(data) \/ data[i + 1] = "&", NEW st, NEW b, Loop(st, data, b, i)
    PROVE  st.readingkey = FALSE /\ HasTable(AddPair(st), data, Before(data, i + 2))
<1> DEFINE f == <<b, i>>
           G == Before(data, b)
<1>1. /\ f \in Fields(data) /\ Before(data, i + 2) = G \cup {f}
      /\ \A g \in G : g[1] < b
  BY FieldEnds DEF Loop
<1>2. /\ f[1] = b /\ f[2] = i /\ b \in Int /\ i \in Int /\ f[1] \in Int
      /\ \A g \in G : g[1] \in Int /\ g[1] < f[1]
  <2>1. \A g \in Fields(data) : g[1] \in Int
    BY DEF Fields
  <2> QED BY <1>1, <2>1 DEF Loop, Before
<1>3. Equals(data, f) # {}
  BY <1>1 DEF HaveEquals
<1>4. /\ st.readingkey = FALSE
      /\ Pushed(st.key) = Name(data, f) /\ Pushed(st.val) = Value(data, f)
  BY <1>2, <1>3 DEF Loop, FieldRead, Name, Value
<1>5. Tabled(st.table, data, G)
  BY DEF Loop
<1> HIDE DEF f, G
<1>6. HasTable(AddPair(st), data, G \cup {f})
  <2>1. f[1] \in Int /\ \A g \in G : g[1] \in Int /\ g[1] < f[1]
    BY <1>2
  <2>2. Pushed(st.key) = Name(data, f) /\ Pushed(st.val) = Value(data, f)
    BY <1>4
  <2> QED BY ONLY <1>5, <2>1, <2>2, PairAdded
<1> QED BY <1>1, <1>4, <1>6

(* ... at every position.                                                  *)
LEMMA LoopKept ==
    ASSUME NEW S, NEW data \in Seq(S), HaveEquals(data)
    PROVE  \A i \in 0..Len(data) : \E b : Loop(FormStates(data)[i], data, b, i)
<1> DEFINE N == Len(data)
           st == FormStates(data)
           T == {i \in Nat : i <= N => \E b : Loop(st[i], data, b, i)}
<1>0. N \in Nat
  OBVIOUS
<1>1. /\ st[0] = NoPairs
      /\ \A i \in 1..N : st[i] = FormStep(st[i - 1], data[i])
  BY FormStatesAre
<1> HIDE DEF st
<1>2. 0 \in T
  <2>1. IsStart(data, 1, 0)
    BY DEF IsStart
  <2>2. Equals(data, <<1, 0>>) = {} /\ SubSeq(data, 1, 0) = <<>>
    BY DEF Equals
  <2>3. /\ st[0].readingkey = TRUE /\ st[0].key = <<>> /\ st[0].val = <<>>
        /\ st[0].table = <<>> /\ IsState(st[0])
    BY <1>1 DEF NoPairs, IsState
  <2>4. FieldRead(st[0], data, 1, 0)
    BY <2>2, <2>3 DEF FieldRead
  <2>5. Before(data, 1) = {}
    BY DEF Before, Fields
  <2>6. DOMAIN st[0].table = {}
    BY <2>3
  <2>7. Tabled(st[0].table, data, Before(data, 1))
    BY <2>5, <2>6 DEF Tabled
  <2>8. Loop(st[0], data, 1, 0)
    BY <2>1, <2>3, <2>4, <2>7 DEF Loop
  <2> QED BY <2>8
<1>3. ASSUME NEW i \in Nat, i \in T PROVE i + 1 \in T
  <2> SUFFICES ASSUME i + 1 <= N PROVE \E b : Loop(st[i + 1], data, b, i + 1)
    OBVIOUS
  <2>1. PICK b : Loop(st[i], data, b, i)
    BY <1>0, <1>3
  <2>2. st[i + 1] = FormStep(st[i], data[i + 1])
    <3>1. i + 1 \in 1..N /\ (i + 1) - 1 = i
      BY <1>0
    <3> QED BY <1>1, <3>1
  <2>3. i \in 0..(Len(data) - 1) /\ i \in 0..Len(data)
    BY <1>0
  <2> DEFINE s == st[i]
  <2>4. CASE data[i + 1] # "&"
    <3>1. b \in 1..(i + 1) /\ IsState(s) /\ FieldRead(s, data, b, i)
      BY <2>1 DEF Loop
    <3> HIDE DEF s
    <3>2. /\ IsState(FormStep(s, data[i + 1]))
          /\ FieldRead(FormStep(s, data[i + 1]), data, b, i + 1)
          /\ FormStep(s, data[i + 1]).table = s.table
      BY <2>3, <2>4, <3>1, FieldGrows
    <3>3. IsStart(data, b, i + 1)
      BY <2>1, <2>4, <3>1 DEF Loop, IsStart
    <3>4. b \in 1..((i + 1) + 1) /\ Tabled(s.table, data, Before(data, b))
      BY <2>1, <3>1 DEF Loop, s
    <3> QED BY <2>2, <3>2, <3>3, <3>4 DEF Loop, s
  <2>5. CASE data[i + 1] = "&"
    <3>1. Loop(s, data, b, i)
      BY <2>1
    <3> HIDE DEF s
    <3>a. s.readingkey = FALSE /\ HasTable(AddPair(s), data, Before(data, i + 2))
      BY <2>3, <2>5, <3>1, FieldAdded
    <3>2. /\ IsState(AddPair(s)) /\ s.readingkey = FALSE
          /\ AddPair(s).key = <<>> /\ AddPair(s).val = <<>> /\ AddPair(s).readingkey = TRUE
          /\ Tabled(AddPair(s).table, data, Before(data, i + 2))
      BY <3>a DEF HasTable
    <3>3. FormStep(s, data[i + 1]) = AddPair(s)
      BY <2>5, <3>2 DEF FormStep
    <3>4. IsStart(data, i + 2, i + 1)
      BY <2>5 DEF IsStart
    <3>5. Equals(data, <<i + 2, i + 1>>) = {} /\ SubSeq(data, i + 2, i + 1) = <<>>
      BY DEF Equals
    <3>6. FieldRead(AddPair(s), data, i + 2, i + 1)
      BY <3>2, <3>5 DEF FieldRead
    <3>7. i + 2 \in 1..((i + 1) + 1)
      OBVIOUS
    <3>8. Loop(AddPair(s), data, i + 2, i + 1)
      BY <3>2, <3>4, <3>6, <3>7 DEF Loop
    <3> QED BY <2>2, <3>3, <3>8 DEF s
  <2> QED BY <2>4, <2>5
<1>4. \A i \in Nat : i \in T
  <2> HIDE DEF T
  <2> QED BY <1>2, <1>3, SetInduction
<1> QED BY <1>0, <1>4 DEF st

(* form2table makes the table of all fields.                               *)
LEMMA FormTable ==
    ASSUME NEW S, NEW data \in Seq(S), HaveEquals(data)
    PROVE  /\ Tabled(form2table(data), data, Fields(data))
           /\ form2table(data) = [k \in DOMAIN form2table(data) |-> form2table(data)[k]]
<1> DEFINE N == Len(data)
           s == FormStates(data)[N]
<1>1. N \in 0..Len(data)
  OBVIOUS
<1>2. PICK b : Loop(s, data, b, N)
  BY <1>1, LoopKept
<1>3. form2table(data) = AddPair(s).table
  BY DEF form2table
<1> HIDE DEF s
<1>4. /\ Tabled(AddPair(s).table, data, Before(data, N + 2))
      /\ AddPair(s).table = [k \in DOMAIN AddPair(s).table |-> AddPair(s).table[k]]
  <2>1. HasTable(AddPair(s), data, Before(data, N + 2))
    BY <1>1, <1>2, FieldAdded
  <2> QED BY <2>1 DEF HasTable
<1>5. Before(data, N + 2) = Fields(data)
  BY DEF Before, Fields
<1> QED BY <1>3, <1>4, <1>5

(* The last field of a name is the only one.                               *)
LEMMA LastIsOne ==
    ASSUME NEW S, NEW data \in Seq(S), NEW k, NEW f, NEW g,
           LastOf(data, Fields(data), k, f), LastOf(data, Fields(data), k, g)
    PROVE  f = g
<1>1. ASSUME NEW x \in Fields(data)
      PROVE  /\ x = <<x[1], x[2]>> /\ x[1] \in Nat /\ x[2] \in 0..Len(data) /\ x[1] <= x[2] + 1
             /\ x[2] = Len(data) \/ data[x[2] + 1] = "&"
             /\ \A j \in x[1]..x[2] : data[j] # "&"
  BY <1>1 DEF Fields
<1>2. f \in Fields(data) /\ g \in Fields(data) /\ f[1] <= g[1] /\ g[1] <= f[1]
  BY DEF LastOf
<1>3. f[1] = g[1]
  BY <1>1, <1>2
<1>4. ASSUME NEW x \in Fields(data), NEW y \in Fields(data), x[1] = y[1], x[2] < y[2]
      PROVE  FALSE
  <2>1. x[2] # Len(data) /\ x[2] + 1 \in y[1]..y[2]
    BY <1>1, <1>4
  <2> QED BY <1>1, <2>1
<1>5. f[2] = g[2]
  BY <1>1, <1>2, <1>3, <1>4
<1> QED BY <1>1, <1>2, <1>3, <1>5

(* form2table makes what well-formed form data say.                        *)
LEMMA FormIsFields ==
    ASSUME NEW S, NEW data \in Seq(S), WellFormed(data)
    PROVE  form2table(data) = FieldTable(data)
<1> DEFINE F == Fields(data)
           T == form2table(data)
           W == [k \in {Name(data, f) : f \in F} |->
                   Value(data, CHOOSE f \in F : /\ Name(data, f) = k
                                                /\ \A g \in F : Name(data, g) = k => g[1] <= f[1])]
<1>1. FieldTable(data) = W
  BY DEF FieldTable, Name, Value, Equals
<1>2. HaveEquals(data)
  BY DEF WellFormed, HaveEquals, Equals
<1>4. Tabled(T, data, F) /\ T = [k \in DOMAIN T |-> T[k]]
  BY <1>2, FormTable
<1> HIDE DEF T, F
<1>5. DOMAIN T = {Name(data, f) : f \in F}
  BY <1>4 DEF Tabled
<1>6. ASSUME NEW k \in DOMAIN T
      PROVE  T[k] = Value(data, CHOOSE f \in F : /\ Name(data, f) = k
                                                 /\ \A g \in F : Name(data, g) = k => g[1] <= f[1])
  <2> DEFINE P(f) == Name(data, f) = k /\ \A g \in F : Name(data, g) = k => g[1] <= f[1]
             h == CHOOSE f \in F : P(f)
  <2>1. PICK f \in F : LastOf(data, F, k, f) /\ T[k] = Value(data, f)
    BY <1>4 DEF Tabled
  <2>2. P(f)
    BY <2>1 DEF LastOf
  <2>3. h \in F /\ P(h)
    <3> HIDE DEF P
    <3> QED BY <2>2
  <2>4. LastOf(data, F, k, h)
    <3> HIDE DEF h
    <3> QED BY <2>3 DEF LastOf
  <2> HIDE DEF h
  <2>5. f = h
    BY <2>1, <2>4, LastIsOne DEF F
  <2> QED BY <2>1, <2>5 DEF h
<1>7. T = W
  BY <1>4, <1>5, <1>6
<1> HIDE DEF W
<1> QED BY <1>1, <1>7 DEF T

(* For all requests and all form data in which every field has a "=", a    *)
(* script is given the value of the last field of each name, and no other  *)
(* names: the loop that reads the data character by character loses and    *)
(* mixes up nothing, at its end in particular.                             *)
THEOREM FormFieldsRead == RoutingSpec => []FormAsFields
<1>1. HandlerInv => FormAsFields
  <2> SUFFICES ASSUME HandlerInv, form.post # <<>>, WellFormed(request.body)
               PROVE  form.post = FieldTable(request.body)
    BY DEF FormAsFields
  <2>1. request.body \in Seq(Char)
    BY RoutingAssumption DEF HandlerInv
  <2>2. form.post = form2table(request.body)
    BY DEF HandlerInv, FormInv
  <2> QED BY <2>1, <2>2, FormIsFields
<1> QED BY <1>1, RoutingInvariant, PTL

-----------------------------------------------------------------------------
(* An escape stands for one character.                                     *)
LEMMA UnescapeOne ==
    ASSUME NEW a, NEW b, NEW x \in Unescape(a, b), NEW y \in Unescape(a, b)
    PROVE  x = y
<1>1. \A e, f \in Escapes : e[1] = f[1] /\ e[2] = f[2] => e[3] = f[3]
  BY DEF Escapes
<1> QED BY <1>1 DEF Unescape, OneDigit

(* Three strings one after the other, and one character before them.       *)
LEMMA ConcatThree ==
    ASSUME NEW S, NEW a \in S, NEW b \in S, NEW x \in Seq(S), NEW r \in Seq(S)
    PROVE  <<a>> \o ((x \o <<b>>) \o r) = ((<<a>> \o x) \o <<b>>) \o r
<1>1. <<a>> \in Seq(S) /\ <<b>> \in Seq(S)
  OBVIOUS
<1>2. x \o <<b>> \in Seq(S) /\ <<a>> \o x \in Seq(S)
  BY <1>1, ConcatProperties
<1>3. <<a>> \o ((x \o <<b>>) \o r) = (<<a>> \o (x \o <<b>>)) \o r
  BY <1>1, <1>2, ConcatAssociative
<1>4. <<a>> \o (x \o <<b>>) = (<<a>> \o x) \o <<b>>
  BY <1>1, ConcatAssociative
<1> QED BY <1>3, <1>4

(* A question mark that is no part of an escape divides the decoded path:  *)
(* what comes before it is decoded by itself.                              *)
Joins(x, r) == (x \o <<"?">>) \o r
Divides(X, Y, R) == \A x \in X, y \in Y : \E r \in R : y = Joins(x, r)

LEMMA JoinsAfter ==
    ASSUME NEW S, NEW a \in S, "?" \in S, NEW x \in Seq(S), NEW r \in Seq(S)
    PROVE  Cat(a, Joins(x, r)) = Joins(Cat(a, x), r)
<1> DEFINE b == "?"
<1> HIDE DEF b
<1>1. b \in S
  BY DEF b
<1>2. <<a>> \o ((x \o <<b>>) \o r) = ((<<a>> \o x) \o <<b>>) \o r
  BY <1>1, ConcatThree
<1> QED BY <1>2 DEF Joins, Cat, b

LEMMA DecodeDivides ==
    ASSUME NEW C, NEW u \in Seq(C), NEW k \in 1..Len(u), u[k] = "?"
    PROVE  Divides(Decode(SubSeq(u, 1, k - 1)), Decode(u), Seq(C \cup Decoded))
<1> DEFINE A == SubSeq(u, 1, k - 1)
           N == Len(u)
           S == C \cup Decoded
           R == Seq(S)
<1>0. N \in Nat /\ k \in Nat /\ \A i \in 1..N : u[i] \in C
  BY ElementOfSeq
<1>1. A \in Seq(C) /\ Len(A) = k - 1 /\ \A i \in 1..(k - 1) : A[i] = u[i]
  BY <1>0, SubSeqProperties
<1> HIDE DEF A
<1>2. PICK d : /\ Decode(u) = d[1]
              /\ \A i \in 1..(Len(u) + 1) : d[i] = DecodeStep(u, d, i) /\ d[i] \subseteq R
  BY DecodeRuns
<1>3. PICK e : /\ Decode(A) = e[1]
              /\ \A i \in 1..(Len(A) + 1) : e[i] = DecodeStep(A, e, i) /\ e[i] \subseteq R
  BY <1>1, DecodeRuns
<1>4. "?" \in S /\ "SP" \in S /\ \A i \in 1..N : u[i] \in S
  BY <1>0 DEF Decoded
<1>5. \A a, b : Unescape(a, b) \subseteq S
  BY UnescapeKnown
<1> HIDE DEF S
<1>a. \A a \in S, x \in R, r \in R : Cat(a, Joins(x, r)) = Joins(Cat(a, x), r)
  BY <1>4, JoinsAfter
<1> DEFINE T == {i \in 1..k : Divides(e[i], d[i], R)}
<1>6. ASSUME NEW i \in 1..k, \A j \in 1..k : j > i => j \in T PROVE i \in T
  <2> SUFFICES ASSUME NEW x \in e[i], NEW y \in d[i] PROVE \E r \in R : y = Joins(x, r)
    BY DEF Divides
  <2>0. /\ i \in 1..(Len(u) + 1) /\ i \in 1..(Len(A) + 1) /\ ~ (i > Len(u)) /\ i \in Nat
    BY <1>0, <1>1
  <2>1. e[i] = DecodeStep(A, e, i) /\ d[i] = DecodeStep(u, d, i)
    BY <1>2, <1>3, <2>0
  <2>2. CASE i = k
    <3>1. x = <<>>
      BY <1>0, <1>1, <2>0, <2>1, <2>2 DEF DecodeStep
    <3>2. d[i] = DecodePlain(u, i, d[i + 1]) /\ i + 1 \in 1..(Len(u) + 1)
      BY <1>0, <2>0, <2>1, <2>2 DEF DecodeStep
    <3>3. PICK r \in d[i + 1] : y = <<"?">> \o r
      BY <2>2, <3>2 DEF DecodePlain
    <3>4. r \in R
      BY <1>2, <3>2
    <3>5. <<>> \o <<"?">> = <<"?">>
      OBVIOUS
    <3> QED BY <3>1, <3>3, <3>4, <3>5 DEF Joins
  <2>3. CASE i # k
    <3>0. i \in 1..(k - 1) /\ A[i] = u[i] /\ ~ (i > Len(A))
      BY <1>0, <1>1, <2>0, <2>3
    <3>1. CASE u[i] = "%"
      <4>1. ~ (i + 2 > Len(A))
        BY <2>1, <3>0, <3>1 DEF DecodeStep
      <4>2. /\ A[i + 1] = u[i + 1] /\ A[i + 2] = u[i + 2] /\ ~ (i + 2 > Len(u))
            /\ i + 3 \in 1..k /\ i + 3 > i
            /\ i + 3 \in 1..(Len(u) + 1) /\ i + 3 \in 1..(Len(A) + 1)
        BY <1>0, <1>1, <2>0, <4>1
      <4>3. e[i] = DecodeEscape(A, i, e[i + 3]) /\ d[i] = DecodeEscape(u, i, d[i + 3])
        BY <2>0, <2>1, <3>0, <3>1, <4>1, <4>2 DEF DecodeStep
      <4>4. PICK a \in Unescape(u[i + 1], u[i + 2]), v \in e[i + 3] : x = Cat(a, v)
        BY <4>2, <4>3, SMT DEF DecodeEscape
      <4>5. PICK b \in Unescape(u[i + 1], u[i + 2]), w \in d[i + 3] : y = Cat(b, w)
        BY <4>3, SMT DEF DecodeEscape
      <4>6. a = b /\ a \in S
        BY <1>5, <4>4, <4>5, UnescapeOne
      <4>7. v \in R /\ w \in R
        BY <1>2, <1>3, <4>2, <4>4, <4>5
      <4>8. PICK r \in R : w = Joins(v, r)
        BY <1>6, <4>2, <4>4, <4>5 DEF Divides
      <4> HIDE DEF T
      <4>9. Cat(a, Joins(v, r)) = Joins(Cat(a, v), r)
        BY <1>a, <4>6, <4>7
      <4> QED BY <4>4, <4>5, <4>6, <4>8, <4>9
    <3>2. CASE u[i] # "%"
      <4> DEFINE a == IF u[i] = "+" THEN "SP" ELSE u[i]
      <4>0. i + 1 \in 1..k /\ i + 1 > i /\ i + 1 \in 1..(Len(u) + 1) /\ i + 1 \in 1..(Len(A) + 1)
        BY <1>0, <1>1, <2>0, <3>0
      <4>1. e[i] = DecodePlain(A, i, e[i + 1]) /\ d[i] = DecodePlain(u, i, d[i + 1])
        BY <2>0, <2>1, <3>0, <3>2 DEF DecodeStep
      <4>2. PICK v \in e[i + 1] : x = <<a>> \o v
        BY <3>0, <4>1 DEF DecodePlain
      <4>3. PICK w \in d[i + 1] : y = <<a>> \o w
        BY <4>1 DEF DecodePlain
      <4>6. a \in S
        BY <1>0, <1>4, <3>0
      <4> HIDE DEF a, T
      <4>7. v \in R /\ w \in R
        BY <1>2, <1>3, <4>0, <4>2, <4>3
      <4>8. PICK r \in R : w = Joins(v, r)
        BY <1>6, <4>0, <4>2, <4>3 DEF Divides, T
      <4>9. Cat(a, Joins(v, r)) = Joins(Cat(a, v), r)
        BY <1>a, <4>6, <4>7
      <4> QED BY <4>2, <4>3, <4>8, <4>9 DEF Cat
    <3> QED BY <3>1, <3>2
  <2> QED BY <2>2, <2>3
<1>7. Descends(T, k)
  <2> HIDE DEF T
  <2> QED BY <1>6 DEF Descends
<1>8. 1 \in T
  <2> HIDE DEF T
  <2>1. 1 \in 1..k
    BY <1>0
  <2> QED BY <1>0, <1>7, <2>1, DescendingInduction
<1> QED BY <1>2, <1>3, <1>8 DEF A, S

(* Path and decoded URI agree up to what InferPath appends at the end.     *)
Begins(p, d, S) ==
    /\ d \in Seq(S) /\ p \in Seq(S)
    /\ Len(p) > Len(d) /\ p[Len(d) + 1] = "?"
    /\ \A i \in 1..Len(d) : p[i] = d[i]

LEMMA PathBegins ==
    ASSUME NEW C, NEW u \in Seq(C), NEW k \in 1..Len(u), u[k] = "?",
           NEW d \in Decode(SubSeq(u, 1, k - 1)), InferPath(<<>>, u) # <<>>
    PROVE  Begins(InferPath(<<>>, u), d, C \cup Decoded)
<1> DEFINE S == C \cup Decoded
           p == InferPath(<<>>, u)
           A == SubSeq(u, 1, k - 1)
           q == CHOOSE q \in Decode(u) : TRUE
           L == Len(d)
<1>1. A \in Seq(C)
  BY ElementOfSeq, SubSeqProperties
<1>2. Decode(u) # {} /\ q \in Decode(u)
  BY DEF InferPath
<1>3. d \in Seq(S) /\ q \in Seq(S) /\ "?" \in S /\ "index" \in S
  <2>1. Decode(A) \subseteq Seq(S)
    <3> HIDE DEF A
    <3> QED BY ONLY <1>1, DecodeTyped
  <2>2. Decode(u) \subseteq Seq(S)
    BY DecodeTyped
  <2>3. "?" \in S /\ "index" \in S
    BY DEF Decoded
  <2> QED BY <1>2, <2>1, <2>2, <2>3
<1>4. <<>> \o q = q
  <2> HIDE DEF q, S
  <2> QED BY <1>3, ConcatEmptySeq
<1>5. p = q \/ p = Append(q, "index")
  <2> HIDE DEF q
  <2>1. p = LET y == <<>> \o q IN IF HasDotDot(y) THEN <<>>
             ELSE IF y # <<>> /\ y[Len(y)] = "/" THEN Append(y, "index") ELSE y
    BY <1>2 DEF InferPath, q
  <2> QED BY <1>4, <2>1
<1>6. PICK r \in Seq(S) : q = (d \o <<"?">>) \o r
  <2>1. Divides(Decode(A), Decode(u), Seq(S))
    BY DecodeDivides
  <2> QED BY <1>2, <2>1 DEF Divides, Joins
<1> HIDE DEF S, q, p
<1> SUFFICES Begins(p, d, S)
  BY DEF p, S
<1>7. /\ L \in Nat /\ q \in Seq(S) /\ Len(q) >= L + 1 /\ q[L + 1] = "?"
      /\ \A i \in 1..L : q[i] = d[i]
  <2> DEFINE m == d \o <<"?">>
  <2>1. <<"?">> \in Seq(S) /\ Len(<<"?">>) = 1 /\ <<"?">>[1] = "?" /\ L \in Nat /\ 1 \in 1..1
    BY <1>3
  <2>2. /\ m \in Seq(S) /\ Len(m) = L + 1 /\ m[L + 1] = "?"
        /\ \A i \in 1..L : m[i] = d[i]
    <3> DEFINE z == <<"?">>
    <3>1. z \in Seq(S) /\ Len(z) = 1 /\ z[1] = "?"
      BY <2>1
    <3> HIDE DEF z
    <3>2. /\ d \o z \in Seq(S) /\ Len(d \o z) = Len(d) + Len(z)
          /\ \A i \in 1..Len(d) : (d \o z)[i] = d[i]
          /\ \A i \in 1..Len(z) : (d \o z)[Len(d) + i] = z[i]
      <4>1. d \in Seq(S) /\ z \in Seq(S)
        BY <1>3, <3>1
      <4> QED BY ONLY <4>1, ConcatIs
    <3> QED BY <2>1, <3>1, <3>2 DEF z
  <2> HIDE DEF m
  <2>3. /\ m \o r \in Seq(S) /\ Len(m \o r) = Len(m) + Len(r)
        /\ \A i \in 1..Len(m) : (m \o r)[i] = m[i]
    BY <1>6, <2>2, ConcatIs
  <2>4. Len(r) \in Nat /\ L + 1 \in 1..Len(m) /\ \A i \in 1..L : i \in 1..Len(m)
    BY <1>6, <2>1, <2>2
  <2>5. q = m \o r
    BY <1>6 DEF m
  <2> HIDE DEF L
  <2> QED BY <2>1, <2>2, <2>3, <2>4, <2>5
<1>8. CASE p = q
  BY <1>3, <1>7, <1>8 DEF Begins
<1>9. CASE p = Append(q, "index")
  <2>1. /\ p \in Seq(S) /\ Len(p) = Len(q) + 1
        /\ \A i \in 1..Len(q) : p[i] = q[i]
    <3> DEFINE x == "index"
    <3>1. q \in Seq(S) /\ x \in S
      BY <1>3, <1>7
    <3> HIDE DEF x
    <3>2. /\ Append(q, x) \in Seq(S) /\ Len(Append(q, x)) = Len(q) + 1
          /\ \A i \in 1..Len(q) : Append(q, x)[i] = q[i]
      BY ONLY <3>1, AppendProperties
    <3> QED BY <1>9, <3>2 DEF x
  <2>2. Len(q) \in Nat
    BY <1>7
  <2> QED BY <1>3, <1>7, <2>1, <2>2 DEF Begins
<1> QED BY <1>5, <1>8, <1>9

(* What lies between the prefix and the first question mark is the path of *)
(* the file.                                                               *)
LEMMA FilePathIs ==
    ASSUME NEW S, NEW d \in Seq(S), NEW p \in Seq(S), NEW m \in 0..Len(p),
           Len(p) > Len(d), p[Len(d) + 1] = "?",
           \A i \in 1..Len(d) : p[i] = d[i] /\ d[i] # "?",
           \A i \in 1..m : p[i] # "?"
    PROVE  FilePath(SubSeq(p, m + 1, Len(p))) = SubSeq(d, m + 1, Len(d))
<1> DEFINE L == Len(d)
           R == SubSeq(p, m + 1, Len(p))
<1>0. L \in Nat /\ Len(p) \in Nat /\ m \in Nat
  OBVIOUS
<1>1. m <= L
  <2> SUFFICES ASSUME ~ (m <= L) PROVE FALSE
    OBVIOUS
  <2>1. L + 1 \in 1..m
    BY <1>0
  <2> QED BY <2>1
<1>2. /\ R \in Seq(S) /\ Len(R) = Len(p) - m
      /\ \A i \in 1..(Len(p) - m) : R[i] = p[m + i]
  BY SuffixIs
<1> HIDE DEF R
<1> DEFINE k == (L - m) + 1
<1>3. k \in 1..Len(R) /\ R[k] = "?" /\ \A i \in 1..(k - 1) : R[i] = d[m + i] /\ R[i] # "?"
  <2>1. k \in 1..(Len(p) - m) /\ m + k = L + 1
    BY <1>0, <1>1
  <2>2. ASSUME NEW i \in 1..(k - 1) PROVE R[i] = d[m + i] /\ R[i] # "?"
    <3>1. i \in 1..(Len(p) - m) /\ m + i \in 1..L
      BY <1>0, <1>1
    <3> QED BY <1>2, <3>1
  <2> HIDE DEF k
  <2> QED BY <1>2, <2>1, <2>2
<1>4. First(At(R, "?")) = k /\ At(R, "?") # {}
  <2> HIDE DEF k
  <2>1. k \in At(R, "?") /\ At(R, "?") \subseteq 1..Len(R)
    BY <1>2, <1>3 DEF At
  <2>2. ASSUME NEW j \in At(R, "?") PROVE k <= j
    <3>1. j \in 1..Len(R) /\ R[j] = "?"
      BY <1>2 DEF At
    <3>2. ~ (j \in 1..(k - 1))
      BY <1>3, <3>1
    <3> QED BY <1>2, <1>3, <3>1, <3>2
  <2>3. At(R, "?") \subseteq Nat
    BY <2>1
  <2> QED BY <2>1, <2>2, <2>3, FirstUnique
<1>5. FilePath(R) = SubSeq(R, 1, k - 1)
  BY <1>4 DEF FilePath, UpTo
<1> DEFINE v == SubSeq(R, 1, k - 1)
           w == SubSeq(d, m + 1, Len(d))
<1>6. /\ v \in Seq(S) /\ Len(v) = L - m /\ \A i \in 1..(L - m) : v[i] = R[i]
  <2>1. k - 1 = L - m /\ L - m \in Nat /\ L - m <= Len(R)
    BY <1>0, <1>1, <1>3
  <2> DEFINE z == L - m
  <2> HIDE DEF z, k
  <2>2. k - 1 = z /\ z \in Nat /\ z <= Len(R) /\ \A i \in 1..z : R[i] \in S
    BY <1>2, <2>1 DEF z
  <2>3. /\ SubSeq(R, 1, z) \in Seq(S) /\ Len(SubSeq(R, 1, z)) = z
        /\ \A i \in 1..z : SubSeq(R, 1, z)[i] = R[i]
    BY <1>2, <2>2, SubSeqProperties
  <2> QED BY <2>2, <2>3 DEF z
<1>7. /\ w \in Seq(S) /\ Len(w) = L - m /\ \A i \in 1..(L - m) : w[i] = d[m + i]
  <2>1. m \in 0..Len(d)
    BY <1>0, <1>1
  <2> QED BY <2>1, SuffixIs
<1>8. k - 1 = L - m
  BY <1>0
<1> HIDE DEF v, w, k
<1>9. \A i \in 1..(L - m) : v[i] = w[i]
  BY <1>3, <1>6, <1>7, <1>8
<1>10. v = w
  <2>1. v \in Seq(S) /\ w \in Seq(S) /\ Len(v) = Len(w) /\ \A i \in 1..Len(v) : v[i] = w[i]
    BY <1>6, <1>7, <1>9
  <2> QED BY ONLY <2>1, SeqEqual
<1> QED BY <1>5, <1>10 DEF v, w, R

(* For every request to a prefix without question marks, the file is the   *)
(* one that the URI names before its first question mark, if no escape     *)
(* hides one there, and a script is given what the form data behind it     *)
(* say, if it is the only one: decoding, completing the path with          *)
(* "index.html", taking the prefix off and cutting, at the question mark   *)
(* and at a NUL, do not get into each other's way.                         *)
THEOREM FileBeforeQuery == RoutingSpec => []FileAndQuery
<1>1. LoopInv /\ HandlerInv => FileAndQuery
  <2> DEFINE uri == request.uri
             marks == At(uri, "?")
             k == First(marks)
             query == SubSeq(uri, k + 1, Len(uri))
  <2> SUFFICES ASSUME LoopInv, HandlerInv, file.name # <<>>, marks # {}, At(Prefix, "?") = {}
               PROVE  /\ \A d \in Decode(SubSeq(uri, 1, k - 1)) :
                           At(d, "?") = {} => file.name = c_str(file.root \o SubSeq(d, n + 1, Len(d)))
                      /\ form.get # <<>> /\ marks = {k} /\ WellFormed(query) =>
                           form.get = FieldTable(query)
    BY DEF FileAndQuery
  <2>1. uri \in Seq(Char) /\ path = InferPath(<<>>, uri)
    BY RoutingAssumption DEF HandlerInv
  <2>2. path \in Seq(Char) /\ path # <<>> /\ n \in 0..Len(path)
    BY DispatchAssumption DEF LoopInv, TypeOK
  <2>3. form.get # <<>> => form.get = form2table(SubSeq(uri, Final(marks) + 1, Len(uri)))
    BY DEF HandlerInv, FormInv, lua_get
  <2>4. file.name = c_str(file.root \o FilePath(Rest))
    <3>1. file.type # "none"
      BY DEF HandlerInv
    <3>2. PICK root \in Roots :
            file = [root |-> root, name |-> c_str(root \o FilePath(Rest)), type |-> TypeOf(Rest)]
      BY <3>1 DEF HandlerInv
    <3> QED BY <3>2
  <2> HIDE DEF uri
  <2>5. k \in 1..Len(uri) /\ uri[k] = "?"
    <3>1. marks \subseteq Nat
      BY <2>1 DEF At
    <3>2. k \in marks
      <4> HIDE DEF marks
      <4> QED BY <3>1, FirstIs
    <3> HIDE DEF k
    <3> QED BY <2>1, <3>2 DEF At
  <2>8. ASSUME form.get # <<>>, marks = {k}, WellFormed(query) PROVE form.get = FieldTable(query)
    <3>1. Final(marks) = k
      <4> HIDE DEF k, marks
      <4>1. Len(uri) \in Nat /\ marks \subseteq 1..Len(uri) /\ k \in marks /\ \A j \in marks : j <= k
        BY <2>1, <2>5, <2>8
      <4> QED BY ONLY <4>1, FinalUnique
    <3>2. query \in Seq(Char)
      <4> HIDE DEF k
      <4>1. k \in 0..Len(uri)
        BY <2>5
      <4> QED BY <2>1, <4>1, SuffixIs
    <3>3. form.get = form2table(query)
      BY <2>3, <2>8, <3>1
    <3> HIDE DEF query
    <3> QED BY <2>8, <3>2, <3>3, FormIsFields
  <2>6. \A i \in 1..n : path[i] # "?"
    <3>1. /\ Prefix \in Seq(Char) /\ Len(Prefix) = n
          /\ \A i \in 1..n : Prefix[i] = path[i]
      BY <2>2, SubSeqProperties DEF Prefix
    <3>2. \A i \in 1..n : Prefix[i] # "?"
      BY <3>1 DEF At
    <3> QED BY <3>1, <3>2
  <2> HIDE DEF marks, k
  <2>7. ASSUME NEW d \in Decode(SubSeq(uri, 1, k - 1)), At(d, "?") = {}
        PROVE  file.name = c_str(file.root \o SubSeq(d, n + 1, Len(d)))
    <3> DEFINE S == Char \cup Decoded
               p == path
    <3>1. /\ d \in Seq(S) /\ p \in Seq(S)
          /\ Len(p) > Len(d) /\ p[Len(d) + 1] = "?"
          /\ \A i \in 1..Len(d) : p[i] = d[i]
      <4>1. InferPath(<<>>, uri) # <<>>
        BY <2>1, <2>2
      <4>2. Begins(InferPath(<<>>, uri), d, S)
        BY <2>1, <2>5, <2>7, <4>1, PathBegins
      <4> QED BY <2>1, <4>2 DEF Begins
    <3>2. \A i \in 1..Len(d) : d[i] # "?"
      BY <2>7, <3>1 DEF At
    <3> HIDE DEF S, p
    <3>3. n \in 0..Len(p) /\ \A i \in 1..n : p[i] # "?"
      BY <2>2, <2>6 DEF p
    <3>4. FilePath(SubSeq(p, n + 1, Len(p))) = SubSeq(d, n + 1, Len(d))
      <4> DEFINE m == n
      <4> HIDE DEF m
      <4>1. m \in 0..Len(p) /\ \A i \in 1..m : p[i] # "?"
        BY <3>3 DEF m
      <4>2. FilePath(SubSeq(p, m + 1, Len(p))) = SubSeq(d, m + 1, Len(d))
        BY ONLY <3>1, <3>2, <4>1, FilePathIs
      <4> QED BY <4>2 DEF m
    <3> QED BY <2>4, <3>4 DEF Rest, p
  <2> QED BY <2>7, <2>8
<1> QED BY <1>1, RoutingInvariant, PTL
=============================================================================
