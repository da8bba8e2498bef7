--------------------------- MODULE StartupProofs ---------------------------
(***************************************************************************)
(* What Startup promises for every environment, every answer of a proxy    *)
(* and every stream of a pool, however they are cut into reads.            *)
(***************************************************************************)
EXTENDS Startup, SequenceTheorems, TLAPS

(* The folds of the code and of the properties: the loop over the entries   *)
(* of MINING_POOLS, the loop over the names of MINING_PRESET, and the split *)
(* of a stream into lines.                                                 *)
Entries == INSTANCE FoldProofs WITH Op <- add_entry

Named == INSTANCE FoldProofs WITH Op <- add_named

Bytes == INSTANCE FoldProofs WITH Op <- feed

-----------------------------------------------------------------------------
(* The configuration.                                                      *)

(* What the manager relies on of its pools. *)
Weighed(pools) ==
    \E P : pools \in Seq(P) /\ \A p \in P : p.weight \in Nat \ {0}

LEMMA PositiveOr ==
    ASSUME NEW v, NEW d \in Nat \ {0}
    PROVE  positive_or(v, d) \in Nat \ {0}
BY DEF positive_or

LEMMA ExplicitPools ==
    ASSUME NEW e \in Environments
    PROVE  Weighed(explicit_pools(e))
<1> DEFINE q == set_or(e.POOLS, <<>>)
           E == {q[i] : i \in DOMAIN q}
           P == {pool_of_entry(x) : x \in E}
           A == Seq(P)
<1>1. q \in Seq(E)
  <2>1. q = <<>> \/ IsList(q)
    BY StartupAssumption DEF set_or
  <2> HIDE DEF q
  <2>2. IsList(q) => q \in Seq(E)
    BY DEF IsList
  <2> HIDE DEF E, P, A
  <2>3. <<>> \in Seq(E)
    OBVIOUS
  <2> QED BY <2>1, <2>2, <2>3, Zenon
<1>2. \A p \in P : p.weight \in Nat \ {0}
  BY PositiveOr DEF pool_of_entry
<1>3. explicit_pools(e) = Entries!Folded(<<>>, q)
  BY DEF explicit_pools, Entries!Folded, FoldLeft, Entries!FoldLeft, MapThenFoldSet,
         Entries!MapThenFoldSet, Max, Entries!Max
<1>4. \A x \in E : pool_of_entry(x) \in P
  OBVIOUS
<1> HIDE DEF q, E, P
<1>5. <<>> \in A /\ \A a \in A, x \in E : add_entry(a, x) \in A
  BY <1>4 DEF add_entry
<1> HIDE DEF A
<1>6. Entries!Folded(<<>>, q) \in A
  BY <1>1, <1>5, Entries!FoldedWithin
<1> QED BY <1>2, <1>3, <1>6 DEF Weighed, A

LEMMA PresetPools ==
    ASSUME NEW e \in Environments
    PROVE  Weighed(parse_presets_env(e))
<1> DEFINE q == set_or(e.PRESET, <<>>)
           E == {q[i] : i \in DOMAIN q}
           f == from_file(e)
           P == {f[i] : i \in DOMAIN f} \cup {Embedded[n] : n \in DOMAIN Embedded}
           C == {to_pool_config(p) : p \in P}
           A == Seq(P)
           r == FoldLeft(add_named, f, q)
<1>1. q \in Seq(E)
  <2>1. q = <<>> \/ IsList(q)
    BY StartupAssumption DEF set_or
  <2> HIDE DEF q
  <2>2. IsList(q) => q \in Seq(E)
    BY DEF IsList
  <2> HIDE DEF E, P, A
  <2>3. <<>> \in Seq(E)
    OBVIOUS
  <2> QED BY <2>1, <2>2, <2>3, Zenon
<1>2. f \in A
  <2>1. CASE e.PRESET_FILE \in {Unset, Garbage}
    <3>1. f = <<>>
      BY <2>1 DEF from_file
    <3> QED BY <3>1
  <2>2. CASE e.PRESET_FILE \notin {Unset, Garbage}
    <3>1. IsList(f)
      BY <2>2, StartupAssumption DEF from_file
    <3> HIDE DEF f
    <3>2. f \in Seq({f[i] : i \in DOMAIN f})
      BY <3>1 DEF IsList
    <3> QED BY <3>2
  <2> QED BY <2>1, <2>2
<1>3. \A c \in C : c.weight \in Nat \ {0}
  BY PositiveOr DEF to_pool_config
<1>4. r = Named!Folded(f, q)
  BY DEF Named!Folded, FoldLeft, Named!FoldLeft, MapThenFoldSet,
         Named!MapThenFoldSet, Max, Named!Max
<1>5. \A n \in DOMAIN Embedded : Embedded[n] \in P
  OBVIOUS
<1>6. \A p \in P : to_pool_config(p) \in C
  OBVIOUS
<1>7. parse_presets_env(e) = [i \in DOMAIN r |-> to_pool_config(r[i])]
  BY DEF parse_presets_env
<1> HIDE DEF q, E, f, P, C, r
<1>8. \A a \in A, x \in E : add_named(a, x) \in A
  BY <1>5 DEF add_named
<1> HIDE DEF A
<1>9. r \in A
  BY <1>1, <1>2, <1>4, <1>8, Named!FoldedWithin
<1>10. parse_presets_env(e) \in Seq(C)
  BY <1>6, <1>7, <1>9 DEF A
<1> QED BY <1>3, <1>10 DEF Weighed

(* Whatever the environment holds, the pools of the Config are a list and   *)
(* their weights are at least 1.                                           *)
LEMMA PoolsAreWeighed ==
    ASSUME NEW e \in Environments
    PROVE  Weighed(from_env(e).pools)
<1>1. Weighed(single_pool(e))
  <2> DEFINE p == [addr   |-> set_or(e.POOL, DefaultPool),
                   weight |-> 1,
                   algo   |-> set_or(e.ALGO, "sha256d")]
  <2>1. p.weight = 1 /\ single_pool(e) = <<p>>
    BY DEF single_pool
  <2> HIDE DEF p
  <2>2. single_pool(e) \in Seq({p})
    BY <2>1
  <2>3. \A x \in {p} : x.weight \in Nat \ {0}
    BY <2>1
  <2> QED BY <2>2, <2>3 DEF Weighed
<1>2. from_env(e).pools \in {explicit_pools(e), parse_presets_env(e), single_pool(e)}
  BY DEF from_env, parse_pools_env
<1> QED BY <1>1, <1>2, ExplicitPools, PresetPools

(* A configuration that run_with_config does not refuse suits its loop. *)
LEMMA ConfigSuits ==
    ASSUME NEW e \in Environments, ~refuses(from_env(e))
    PROVE  Suits(runner_config(from_env(e)), Len(from_env(e).pools))
<1> DEFINE c == from_env(e)
           n == Len(c.pools)
           U == unsupported_pools(c)
           r == runner_config(c)
<1>1. PICK P : c.pools \in Seq(P) /\ \A p \in P : p.weight \in Nat \ {0}
  BY PoolsAreWeighed DEF Weighed
<1>2. /\ c.strategy \in Strategies
      /\ c.failures \in Nat \ {0}
      /\ c.cooldown \in Nat \ {0}
      /\ c.max_delay \in Nat
      /\ c.reconnect \in BOOLEAN
  <2>1. positive_or(e.FAILURES_BEFORE_COOLDOWN, 3) \in Nat \ {0}
    BY PositiveOr
  <2>2. positive_or(e.COOLDOWN_SECS, 30) \in Nat \ {0}
    BY PositiveOr
  <2>3. strategy_of(e.STRATEGY) \in Strategies
    BY DEF strategy_of, Strategies
  <2>4. c.strategy \in Strategies
    BY <2>3 DEF from_env
  <2>5. c.failures \in Nat \ {0}
    BY <2>1 DEF from_env
  <2>6. c.cooldown \in Nat \ {0}
    BY <2>2 DEF from_env
  <2>7. c.max_delay \in Nat
    BY DEF from_env
  <2>8. c.reconnect \in BOOLEAN
    <3>1. CASE e.RECONNECT = "off"
      <4>1. c.reconnect = FALSE
        BY <3>1 DEF from_env, bool_or
      <4> QED BY <4>1
    <3>2. CASE e.RECONNECT # "off"
      <4>1. c.reconnect = TRUE
        BY <3>2 DEF from_env, bool_or
      <4> QED BY <4>1
    <3> QED BY <3>1, <3>2
  <2> QED BY <2>4, <2>5, <2>6, <2>7, <2>8
<1>3. U \subseteq DOMAIN c.pools /\ U # DOMAIN c.pools
  BY DEF refuses, unsupported_pools
<1>4. r = [strategy    |-> c.strategy,
           weight      |-> [i \in 0..(n - 1) |-> c.pools[i + 1].weight],
           unsupported |-> {i - 1 : i \in U},
           threshold   |-> c.failures,
           cooldown    |-> AtLeast(1, c.cooldown),
           max_backoff |-> AtLeast(500, c.max_delay),
           reconnect   |-> c.reconnect]
  BY DEF runner_config
<1> HIDE DEF c, U
<1>5. DOMAIN c.pools = 1..n /\ n \in Nat
  BY <1>1
<1>6. [i \in 0..(n - 1) |-> c.pools[i + 1].weight] \in [0..(n - 1) -> Nat \ {0}]
  <2>1. \A i \in 0..(n - 1) : c.pools[i + 1] \in P
    BY <1>1, <1>5
  <2> QED BY <1>1, <2>1
<1> HIDE DEF n
<1>7. {i - 1 : i \in U} \in SUBSET (0..(n - 1))
  BY <1>3, <1>5
<1>8. {i - 1 : i \in U} # 0..(n - 1)
  <2>1. PICK i \in 1..n : i \notin U
    BY <1>3, <1>5
  <2>2. i - 1 \in 0..(n - 1) /\ i - 1 \notin {j - 1 : j \in U}
    BY <1>3, <1>5, <2>1
  <2> QED BY <2>2
<1>9. AtLeast(1, c.cooldown) \in Nat \ {0} /\ AtLeast(500, c.max_delay) \in Nat \ {0}
  BY <1>2 DEF AtLeast
<1>10. r \in ConfigOf(n) /\ r.unsupported = {i - 1 : i \in U}
  BY <1>2, <1>4, <1>6, <1>7, <1>9 DEF ConfigOf
<1> QED BY <1>8, <1>10 DEF Suits, c, n

(* The Config is that of the environment, which is never written. *)
Configured ==
    /\ env \in Environments
    /\ boot \in {"configured", "refused", "running"} => config = from_env(env)
    /\ boot = "running" => ~refuses(config)

LEMMA ConfiguredHolds == Spec => []Configured
<1>1. Init => Configured
  BY DEF Init, Configured
<1>2. Configured /\ [Next]_vars => Configured'
  BY DEF Configured, Next, list_presets, read_config, run_with_config, Attempt,
         connect_and_handshake, Connection, startupVars, vars
<1> QED BY <1>1, <1>2, PTL DEF Spec

(* run_with_config only enters its loop with a Config that PoolRunner is    *)
(* proved for: whatever the environment holds, a pool it can mine for,      *)
(* weights and thresholds of at least 1 and delays that are not 0.         *)
THEOREM RunnerIsSuited == Spec => []ConfigSuitsRunner
<1>1. Configured => ConfigSuitsRunner
  BY ConfigSuits DEF Configured, ConfigSuitsRunner
<1> QED BY <1>1, ConfiguredHolds, PTL

-----------------------------------------------------------------------------
(* The proxy.                                                              *)

(* A set of indices that is not empty has a first one. *)
LEMMA FirstIndex ==
    ASSUME NEW S \in SUBSET Nat, S # {}
    PROVE  \E i \in S : \A j \in S : i <= j
BY Bytes!SmallestExists

(* A value that parses gives a proxy, of the source it was read from. *)
LEMMA ParsedIsProxy ==
    ASSUME NEW v \in ProxyValue, parses(v), NEW source \in ProxySources
    PROVE  /\ parse_proxy_url(v, source) \in ProxyConfig
           /\ parse_proxy_url(v, source).source = source
<1>1. CASE v = Off
  BY <1>1 DEF parse_proxy_url, ProxyConfig
<1>2. CASE v # Off
  <2>1. v.port \in Nat \cup {Unset} /\ Kind(v.scheme) # None
    BY <1>2 DEF parses, ProxyValue
  <2>2. Kind(v.scheme) \in {"socks5", "http"}
    BY <2>1 DEF Kind
  <2> DEFINE p == IF v.port \notin {Unset, DefaultPort(v.scheme)} THEN v.port
                  ELSE IF Kind(v.scheme) = "socks5" THEN 1080 ELSE 8080
  <2>3. p \in Nat
    BY <2>1
  <2>4. parse_proxy_url(v, source) = [kind |-> Kind(v.scheme), port |-> p, source |-> source]
    BY <1>2 DEF parse_proxy_url
  <2> HIDE DEF p
  <2> QED BY <2>2, <2>3, <2>4 DEF ProxyConfig
<1> QED BY <1>1, <1>2

LEMMA FirstOfGroup ==
    ASSUME NEW values \in Seq(ProxyValue)
    PROVE  /\ env_first(values) \in ProxyValue
           /\ FirstParses(values) => parses(env_first(values))
<1> DEFINE Given == {i \in DOMAIN values : values[i] # Unset}
<1>1. CASE Given = {}
  BY <1>1 DEF env_first, ProxyValue, FirstParses
<1>2. CASE Given # {}
  <2>1. Given \in SUBSET Nat
    OBVIOUS
  <2>2. PICK i \in Given : \A j \in Given : i <= j
    BY <1>2, <2>1, FirstIndex
  <2>3. \A j \in 1..(i - 1) : values[j] = Unset
    BY <2>2
  <2>4. \E k \in DOMAIN values : /\ values[k] # Unset
                                 /\ \A j \in 1..(k - 1) : values[j] = Unset
    BY <2>2, <2>3
  <2> DEFINE k == CHOOSE k \in DOMAIN values :
                      values[k] # Unset /\ \A j \in 1..(k - 1) : values[j] = Unset
  <2>5. /\ k \in DOMAIN values
        /\ values[k] # Unset /\ \A j \in 1..(k - 1) : values[j] = Unset
    BY <2>4
  <2>6. env_first(values) = values[k]
    BY <1>2 DEF env_first
  <2> HIDE DEF k
  <2>7. \A m \in DOMAIN values :
           (values[m] # Unset /\ \A j \in 1..(m - 1) : values[j] = Unset) => m = k
    <3> SUFFICES ASSUME NEW m \in DOMAIN values, values[m] # Unset,
                        \A j \in 1..(m - 1) : values[j] = Unset
                 PROVE  m = k
      OBVIOUS
    <3>1. m \in Nat \ {0} /\ k \in Nat \ {0}
      BY <2>5
    <3>2. ~(k < m) /\ ~(m < k)
      BY <2>5, <3>1
    <3> QED BY <3>1, <3>2
  <2>8. FirstParses(values) => parses(values[k])
    BY <2>7 DEF FirstParses
  <2> QED BY <2>5, <2>6, <2>8
<1> QED BY <1>1, <1>2

(* The standard variables give a proxy that is not MINING_PROXY's, or none  *)
(* if none of them parses.                                                 *)
LEMMA StandardProxy ==
    ASSUME NEW e \in Environments
    PROVE  /\ (\E i \in DOMAIN Standard : parses(env_first(e[Standard[i]])))
                => detect_standard(e) \in ProxyConfig
           /\ detect_standard(e) # None
                => \E i \in DOMAIN Standard : parses(env_first(e[Standard[i]]))
<1> DEFINE usable == {i \in DOMAIN Standard : parses(env_first(e[Standard[i]]))}
           first == CHOOSE i \in usable : \A j \in usable : i <= j
<1>1. DOMAIN Standard = 1..3 /\ \A i \in 1..3 : Standard[i] \in ProxySources
  <2>1. DOMAIN Standard = 1..3
    BY DEF Standard
  <2>2. \A i \in DOMAIN Standard : Standard[i] \in ProxySources
    BY DEF ProxySources
  <2> QED BY <2>1, <2>2
<1>2. usable # {} => first \in usable
  <2>1. usable \in SUBSET Nat
    BY <1>1
  <2> HIDE DEF usable
  <2> QED BY <2>1, FirstIndex
<1>3. detect_standard(e) =
         IF usable = {} THEN None
         ELSE parse_proxy_url(env_first(e[Standard[first]]), Standard[first])
  BY DEF detect_standard
<1>4. \A i \in DOMAIN Standard : env_first(e[Standard[i]]) \in ProxyValue
  BY FirstOfGroup, StartupAssumption
<1>5. \A i \in usable : i \in DOMAIN Standard /\ parses(env_first(e[Standard[i]]))
  OBVIOUS
<1>6. usable # {} <=> \E i \in DOMAIN Standard : parses(env_first(e[Standard[i]]))
  OBVIOUS
<1> HIDE DEF usable, first
<1>7. ASSUME usable # {} PROVE detect_standard(e) \in ProxyConfig
  BY <1>1, <1>2, <1>3, <1>4, <1>5, <1>7, ParsedIsProxy
<1> QED BY <1>3, <1>6, <1>7

LEMMA DetectedProxy ==
    ASSUME NEW e \in Environments, NEW a
    PROVE  LET p == detect_proxy_for(e, a)
               usable == \/ parses(e.MINING_PROXY)
                         \/ \E i \in DOMAIN Standard : FirstParses(e[Standard[i]])
           IN  /\ e.MINING_PROXY = Off => p = None
               /\ (p # None /\ is_loopback_target(a)) => p.source = "MINING_PROXY"
               /\ (p = None /\ ~is_loopback_target(a)) => e.MINING_PROXY = Off \/ ~usable
<1> DEFINE p == detect_proxy_for(e, a)
<1>1. CASE e.MINING_PROXY = Off
  BY <1>1 DEF detect_proxy_for
<1>2. CASE e.MINING_PROXY # Off /\ parses(e.MINING_PROXY)
  <2>1. p = parse_proxy_url(e.MINING_PROXY, "MINING_PROXY")
    BY <1>2 DEF detect_proxy_for
  <2>2. e.MINING_PROXY \in ProxyValue
    BY StartupAssumption
  <2>3. p \in ProxyConfig /\ p.source = "MINING_PROXY"
    <3> DEFINE v == e.MINING_PROXY
    <3>1. v \in ProxyValue /\ parses(v) /\ "MINING_PROXY" \in ProxySources
      BY <1>2, <2>2 DEF ProxySources
    <3> HIDE DEF v
    <3>2. /\ parse_proxy_url(v, "MINING_PROXY") \in ProxyConfig
          /\ parse_proxy_url(v, "MINING_PROXY").source = "MINING_PROXY"
      BY <3>1, ParsedIsProxy
    <3> QED BY <2>1, <3>2 DEF v
  <2> QED BY <1>2, <2>3, ProxyAssumption
<1>3. CASE /\ e.MINING_PROXY # Off /\ ~parses(e.MINING_PROXY)
           /\ is_loopback_target(a)
  <2>1. p = None
    BY <1>3 DEF detect_proxy_for
  <2> QED BY <1>3, <2>1
<1>4. CASE /\ e.MINING_PROXY # Off /\ ~parses(e.MINING_PROXY)
           /\ ~is_loopback_target(a)
  <2>1. p = detect_standard(e)
    BY <1>4 DEF detect_proxy_for
  <2>2. \A i \in DOMAIN Standard :
           FirstParses(e[Standard[i]]) => parses(env_first(e[Standard[i]]))
    BY FirstOfGroup, StartupAssumption
  <2> QED BY <1>4, <2>1, <2>2, StandardProxy, ProxyAssumption
<1> QED BY <1>1, <1>2, <1>3, <1>4

(* The proxy of an attempt is the one that was detected for its pool. *)
Detected == stage # "idle" => proxy = detect_proxy_for(env, addr)

LEMMA DetectedHolds == Spec => []Detected
<1>1. Init => Detected
  BY DEF Init, ClientInit, Detected
<1>2. Detected /\ [Next]_vars => Detected'
  <2> SUFFICES ASSUME Detected, [Next]_vars PROVE Detected'
    OBVIOUS
  <2>1. env' = env
    BY DEF Next, list_presets, read_config, run_with_config, Attempt,
           connect_and_handshake, Connection, startupVars, vars
  <2>2. \/ UNCHANGED <<stage, addr, proxy>>
        \/ stage # "idle" /\ UNCHANGED <<addr, proxy>>
        \/ \E a : addr' = a /\ proxy' = detect_proxy_for(env, a)
    BY DEF Next, list_presets, read_config, run_with_config, Attempt,
           connect_and_handshake, Connection, startupVars, vars, clientVars,
           connect, ClientNext, Dial, dial_fails, dial_succeeds, ReadAnswer,
           read_answer, read_answer_eof, ReadLine, fill_from_prefix,
           fill_from_socket, take_line, read_eof, connection_reset
  <2>3. \A a : detect_proxy_for(env, a)' = detect_proxy_for(env', a)
    BY DEF detect_proxy_for, detect_standard, is_loopback_target
  <2> QED BY <2>1, <2>2, <2>3 DEF Detected
<1> QED BY <1>1, <1>2, PTL DEF Spec

(* For every environment: "off" is obeyed, a proxy from the standard        *)
(* variables never comes between the program and a local pool, and no other *)
(* pool is connected to directly while MINING_PROXY, or the first variable  *)
(* that is set of some group, holds a proxy.  A variable behind the first   *)
(* one of its group may well be passed over.                               *)
THEOREM ProxyIsTheUsers == Spec => []ProxyFollowsEnvironment
<1>1. Configured /\ Detected => ProxyFollowsEnvironment
  BY DetectedProxy DEF Configured, Detected, ProxyFollowsEnvironment, UsableProxy,
     Direct
<1> QED BY <1>1, ConfiguredHolds, DetectedHolds, PTL

-----------------------------------------------------------------------------
(* Sequences that are read piece by piece.                                 *)

(* Nothing is lost between a read and what it leaves. *)
LEMMA ReadKeeps ==
    ASSUME NEW E, NEW s \in Seq(E), NEW n \in 0..Len(s)
    PROVE  /\ SubSeq(s, 1, n) \in Seq(E)
           /\ SubSeq(s, n + 1, Len(s)) \in Seq(E)
           /\ SubSeq(s, 1, n) \o SubSeq(s, n + 1, Len(s)) = s
           /\ Len(SubSeq(s, 1, n)) = n
<1>1. Len(s) \in Nat /\ n \in Nat /\ n <= Len(s)
  BY LenProperties
<1>2. SubSeq(s, 1, n) \in Seq(E) /\ Len(SubSeq(s, 1, n)) = n
  BY <1>1
<1>3. SubSeq(s, n + 1, Len(s)) \in Seq(E)
  BY <1>1
<1>4. SubSeq(s, 1, n) \o SubSeq(s, n + 1, Len(s)) = SubSeq(s, 1, Len(s))
  <2>1. 1 \in 1..Len(s) + 1 /\ n \in 1 - 1..Len(s) /\ Len(s) \in n..Len(s)
    BY <1>1
  <2> QED BY ONLY s \in Seq(E), <2>1, ConcatAdjacentSubSeq
<1>5. SubSeq(s, 1, Len(s)) = s
  BY SubSeqFull
<1> QED BY <1>2, <1>3, <1>4, <1>5

LEMMA ConcatAssociates ==
    ASSUME NEW E, NEW a \in Seq(E), NEW b \in Seq(E), NEW c \in Seq(E)
    PROVE  (a \o b) \o c = a \o (b \o c) /\ a \o b \in Seq(E)
OBVIOUS

(* What is between two positions of a sequence is also in what continues it. *)
LEMMA PartOfPrefix ==
    ASSUME NEW E, NEW s \in Seq(E), NEW r \in Seq(E),
           NEW i \in Nat \ {0}, NEW j \in Nat, j <= Len(s)
    PROVE  SubSeq(s \o r, i, j) = SubSeq(s, i, j)
OBVIOUS

(* What matches in a sequence matches in what continues it. *)
LEMMA MatchesOfPrefix ==
    ASSUME NEW E, NEW s \in Seq(E), NEW r \in Seq(E),
           NEW p, Len(p) \in Nat \ {0}, NEW i
    PROVE  i \in Matches(s, p) <=> i \in Matches(s \o r, p) /\ i + Len(p) - 1 <= Len(s)
<1> DEFINE q == s \o r
           l == Len(p)
<1>1. l \in Nat \ {0} /\ Len(s) \in Nat /\ Len(q) = Len(s) + Len(r) /\ Len(r) \in Nat
  OBVIOUS
<1>2. \A x : x \in Matches(s, p) <=> x \in 1..(Len(s) - l + 1) /\ SubSeq(s, x, x + l - 1) = p
  BY DEF Matches
<1>3. \A x : x \in Matches(q, p) <=> x \in 1..(Len(q) - l + 1) /\ SubSeq(q, x, x + l - 1) = p
  BY DEF Matches
<1>4. ASSUME NEW x \in Nat \ {0}, x + l - 1 <= Len(s)
      PROVE  SubSeq(q, x, x + l - 1) = SubSeq(s, x, x + l - 1)
  <2>1. x + l - 1 \in Nat
    BY <1>1
  <2> HIDE DEF l
  <2> QED BY <1>4, <2>1, PartOfPrefix
<1> HIDE DEF q, l
<1>5. ASSUME i \in Matches(s, p) PROVE i \in Matches(q, p) /\ i + l - 1 <= Len(s)
  <2>1. i \in Nat \ {0} /\ i + l - 1 <= Len(s) /\ SubSeq(s, i, i + l - 1) = p
    BY <1>1, <1>2, <1>5
  <2>2. SubSeq(q, i, i + l - 1) = p
    BY <1>4, <2>1
  <2> QED BY <1>1, <1>3, <2>1, <2>2
<1>6. ASSUME i \in Matches(q, p), i + l - 1 <= Len(s) PROVE i \in Matches(s, p)
  <2>1. i \in Nat \ {0} /\ i + l - 1 <= Len(s) /\ SubSeq(q, i, i + l - 1) = p
    BY <1>1, <1>3, <1>6
  <2>2. SubSeq(s, i, i + l - 1) = p
    BY <1>4, <2>1
  <2>3. i \in 1..(Len(s) - l + 1)
    BY <1>1, <2>1
  <2> QED BY <1>2, <2>2, <2>3
<1> QED BY <1>5, <1>6 DEF q, l

LEMMA LeastMatch ==
    ASSUME NEW s, NEW p, Matches(s, p) # {}, Len(s) \in Nat, Len(p) \in Nat \ {0}
    PROVE  /\ Least(Matches(s, p)) \in Matches(s, p)
           /\ \A i \in Matches(s, p) : Least(Matches(s, p)) <= i
           /\ Least(Matches(s, p)) \in Nat \ {0}
           /\ Least(Matches(s, p)) + Len(p) - 1 <= Len(s)
<1> DEFINE S == Matches(s, p)
<1>1. \A i \in S : i \in Nat \ {0} /\ i + Len(p) - 1 <= Len(s)
  BY DEF Matches
<1> HIDE DEF S
<1>2. S \in SUBSET Nat /\ S # {}
  BY <1>1 DEF S
<1>3. \E i \in S : \A j \in S : i <= j
  BY <1>2, FirstIndex
<1>4. Least(S) \in S /\ \A j \in S : Least(S) <= j
  BY <1>3 DEF Least
<1> QED BY <1>1, <1>4 DEF S

(* The first match stays the first when the sequence goes on. *)
LEMMA FirstMatchStays ==
    ASSUME NEW E, NEW s \in Seq(E), NEW r \in Seq(E),
           NEW p, Len(p) \in Nat \ {0}, Matches(s, p) # {}
    PROVE  /\ Matches(s \o r, p) # {}
           /\ Least(Matches(s \o r, p)) = Least(Matches(s, p))
<1> DEFINE q == s \o r
           g == Least(Matches(s, p))
           h == Least(Matches(q, p))
<1>1. Len(s) \in Nat /\ Len(q) \in Nat
  OBVIOUS
<1>2. \A i : i \in Matches(s, p) <=> i \in Matches(q, p) /\ i + Len(p) - 1 <= Len(s)
  BY MatchesOfPrefix
<1>3. /\ g \in Matches(s, p) /\ g \in Nat /\ g + Len(p) - 1 <= Len(s)
      /\ \A i \in Matches(s, p) : g <= i
  BY <1>1, LeastMatch
<1>4. Matches(q, p) # {}
  BY <1>2, <1>3
<1>5. h \in Matches(q, p) /\ h \in Nat /\ \A i \in Matches(q, p) : h <= i
  BY <1>1, <1>4, LeastMatch
<1> HIDE DEF q, g, h
<1>6. h <= g
  BY <1>2, <1>3, <1>5
<1>7. h \in Matches(s, p)
  BY <1>2, <1>3, <1>5, <1>6
<1>8. h = g
  BY <1>3, <1>5, <1>6, <1>7
<1> QED BY <1>4, <1>8 DEF q, g, h

(* What is left of the longer of two beginnings of the same bytes. *)
LEMMA RestOfConcat ==
    ASSUME NEW E, NEW a \in Seq(E), NEW b \in Seq(E), NEW c \in Seq(E), NEW d \in Seq(E),
           a \o b = c \o d, Len(c) <= Len(a)
    PROVE  SubSeq(a, Len(c) + 1, Len(a)) \o b = d
<1> DEFINE x == SubSeq(a, Len(c) + 1, Len(a))
           y == SubSeq(a, 1, Len(c))
<1>1. Len(c) \in 0..Len(a)
  OBVIOUS
<1>2. y \in Seq(E) /\ x \in Seq(E) /\ y \o x = a /\ Len(y) = Len(c)
  BY <1>1, ReadKeeps
<1>3. y = c
  <2>1. \A i \in 1..Len(c) : y[i] = a[i]
    BY <1>1
  <2>2. \A i \in 1..Len(c) : (a \o b)[i] = a[i] /\ (c \o d)[i] = c[i]
    BY <1>1
  <2>3. \A i \in 1..Len(c) : y[i] = c[i]
    BY <2>1, <2>2
  <2> HIDE DEF y
  <2> QED BY <1>2, <2>3, SeqEqual
<1> HIDE DEF x, y
<1>4. c \o (x \o b) = c \o d /\ x \o b \in Seq(E)
  <2>1. (y \o x) \o b = y \o (x \o b)
    <3>1. y \in Seq(E) /\ x \in Seq(E) /\ b \in Seq(E)
      BY <1>2
    <3> QED BY <3>1
  <2>2. x \o b \in Seq(E)
    BY <1>2
  <2> QED BY <1>2, <1>3, <2>1, <2>2
<1>5. x \o b = d
  <2> DEFINE z == x \o b
  <2>1. z \in Seq(E) /\ c \o z = c \o d
    BY <1>4
  <2> HIDE DEF z
  <2>2. Len(z) = Len(d)
    <3>1. Len(c \o z) = Len(c) + Len(z) /\ Len(c \o d) = Len(c) + Len(d)
      BY <2>1
    <3> QED BY <2>1, <3>1
  <2>3. \A i \in 1..Len(z) : (c \o z)[Len(c) + i] = z[i] /\ (c \o d)[Len(c) + i] = d[i]
    BY <2>1, <2>2
  <2>4. \A i \in 1..Len(z) : z[i] = d[i]
    BY <2>1, <2>3
  <2>5. z = d
    BY <2>1, <2>2, <2>4, SeqEqual
  <2> QED BY <2>5 DEF z
<1> QED BY <1>5 DEF x

-----------------------------------------------------------------------------
(* The split of a stream into lines.                                       *)

(* What stands for a byte. *)
Byte == STRING

Accumulated == [whole : Seq(Seq(Byte)), rest : Seq(Byte)]

LEMMA WithoutCRKeeps ==
    ASSUME NEW s \in Seq(Byte)
    PROVE  WithoutCR(s) \in Seq(Byte)
<1>1. CASE s # <<>>
  <2>1. Len(s) - 1 \in 0..Len(s)
    BY <1>1
  <2>2. Front(s) \in Seq(Byte)
    BY <2>1, ReadKeeps DEF Front
  <2> QED BY <2>2 DEF WithoutCR
<1> QED BY <1>1 DEF WithoutCR

(* Without a line feed there is no line yet. *)
LEMMA WithoutFeed ==
    ASSUME NEW E, NEW l, NEW p \in Seq(E), NEW s \in Seq(E),
           \A i \in 1..Len(s) : s[i] # "LF"
    PROVE  Bytes!Folded([whole |-> l, rest |-> p], s) = [whole |-> l, rest |-> p \o s]
<1> DEFINE At(k) == [whole |-> l, rest |-> p \o SubSeq(s, 1, k)]
           R == {<<k, At(k)>> : k \in 0..Len(s)}
           base == [whole |-> l, rest |-> p]
<1>1. Len(s) \in Nat /\ \A k \in 0..Len(s) : SubSeq(s, 1, k) \in Seq(E)
  BY ReadKeeps
<1>2. At(0) = base
  OBVIOUS
<1>3. \A k \in 1..Len(s) : feed(At(k - 1), s[k]) = At(k)
  <2> TAKE k \in 1..Len(s)
  <2>1. SubSeq(s, 1, k) = Append(SubSeq(s, 1, k - 1), s[k])
    BY <1>1
  <2>2. SubSeq(s, 1, k - 1) \in Seq(E) /\ s[k] \in E
    BY <1>1
  <2>3. Append(p \o SubSeq(s, 1, k - 1), s[k]) = p \o SubSeq(s, 1, k)
    <3> DEFINE u == SubSeq(s, 1, k - 1)
               e == s[k]
    <3>1. u \in Seq(E) /\ SubSeq(s, 1, k) = Append(u, e) /\ e \in E
      BY <2>1, <2>2
    <3> HIDE DEF u, e
    <3>2. Append(p \o u, e) = p \o Append(u, e)
      <4>1. <<e>> \in Seq(E) /\ Append(u, e) = u \o <<e>>
        BY <3>1
      <4> DEFINE v == p \o u
                 f == <<e>>
      <4>2. f \in Seq(E) /\ u \in Seq(E) /\ Append(u, e) = u \o f
        BY <3>1, <4>1
      <4>3. v \in Seq(E)
        BY <4>2
      <4> HIDE DEF f
      <4>4. v \o f = p \o (u \o f)
        BY ONLY p \in Seq(E), <4>2
      <4> HIDE DEF v
      <4>5. Append(v, e) = v \o f
        BY <3>1, <4>3, AppendIsConcat DEF f
      <4> QED BY <4>2, <4>4, <4>5 DEF v
    <3> QED BY <3>1, <3>2 DEF u, e
  <2>4. feed(At(k - 1), s[k]) = [whole |-> l, rest |-> Append(p \o SubSeq(s, 1, k - 1), s[k])]
    BY s[k] # "LF" DEF feed
  <2> QED BY <2>3, <2>4
<1> HIDE DEF At
<1>4. <<0, base>> \in R
  <2>1. 0 \in 0..Len(s)
    BY <1>1
  <2> HIDE DEF base
  <2> QED BY <1>2, <2>1
<1>5. \A k \in 1..Len(s) : \A v : <<k - 1, v>> \in R => <<k, feed(v, s[k])>> \in R
  <2> TAKE k \in 1..Len(s)
  <2> TAKE v
  <2>1. HAVE <<k - 1, v>> \in R
  <2>2. v = At(k - 1)
    BY <2>1
  <2> QED BY <1>3, <2>2
<1> HIDE DEF R, base
<1>6. <<Len(s), Bytes!Folded(base, s)>> \in R
  BY <1>4, <1>5, Bytes!FoldedInduction
<1>7. Bytes!Folded(base, s) = At(Len(s))
  BY <1>6 DEF R
<1>8. SubSeq(s, 1, Len(s)) = s
  BY SubSeqFull
<1> QED BY <1>7, <1>8 DEF At, base

(* Bytes that follow leave the lines that are already whole. *)
LEMMA LinesOnlyGrow ==
    ASSUME NEW acc \in Accumulated, NEW s \in Seq(Byte)
    PROVE  /\ Bytes!Folded(acc, s) \in Accumulated
           /\ IsPrefix(acc.whole, Bytes!Folded(acc, s).whole)
<1> DEFINE A == {x \in Accumulated : IsPrefix(acc.whole, x.whole)}
<1>1. acc \in A
  BY DEF IsPrefix
<1>2. \A a \in A, e \in Byte : feed(a, e) \in A
  <2> TAKE a \in A, e \in Byte
  <2>1. a \in Accumulated /\ a.whole \in Seq(Seq(Byte)) /\ a.rest \in Seq(Byte)
    BY DEF Accumulated
  <2>2. IsPrefix(acc.whole, a.whole) /\ acc.whole \in Seq(Seq(Byte))
    BY DEF Accumulated
  <2>3. CASE e = "LF"
    <3> DEFINE w == WithoutCR(a.rest)
               more == Append(a.whole, w)
    <3>1. w \in Seq(Byte)
      BY <2>1, WithoutCRKeeps
    <3>2. feed(a, e) = [whole |-> more, rest |-> <<>>]
      BY <2>3 DEF feed
    <3> HIDE DEF w
    <3>3. more \in Seq(Seq(Byte))
      BY <2>1, <3>1
    <3>4. IsPrefix(acc.whole, more)
      BY <2>1, <2>2, <3>1 DEF IsPrefix
    <3> HIDE DEF more
    <3>5. [whole |-> more, rest |-> <<>>] \in Accumulated
      BY <3>3 DEF Accumulated
    <3> QED BY <3>2, <3>4, <3>5
  <2>4. CASE e # "LF"
    <3>1. feed(a, e) = [whole |-> a.whole, rest |-> Append(a.rest, e)]
      BY <2>1, <2>4 DEF feed, Accumulated
    <3>2. Append(a.rest, e) \in Seq(Byte)
      BY <2>1
    <3>3. feed(a, e) \in Accumulated
      BY <2>1, <3>1, <3>2 DEF Accumulated
    <3> QED BY <2>2, <3>1, <3>3
  <2> QED BY <2>3, <2>4
<1> HIDE DEF A
<1>3. Bytes!Folded(acc, s) \in A
  BY <1>1, <1>2, Bytes!FoldedWithin
<1> QED BY <1>3 DEF A

LEMMA SplitIsFold == \A s : Split(s) = Bytes!Folded([whole |-> <<>>, rest |-> <<>>], s)
BY DEF Split, Bytes!Folded, FoldLeft, Bytes!FoldLeft, MapThenFoldSet,
       Bytes!MapThenFoldSet, Max, Bytes!Max

-----------------------------------------------------------------------------
(* The connection.                                                         *)

(* What the peer sends: the pool's bytes come after those of a grant.      *)
Served == IF ends_header(answer) /\ answer[1] = "200" THEN answer \o sent ELSE answer

Typed ==
    /\ answer \in Seq(Byte)
    /\ sent \in Seq(Byte)
    /\ wire \in Seq(Byte)
    /\ buf \in Seq(Byte)
    /\ prefix \in Seq(Byte)
    /\ buffered \in Seq(Byte)
    /\ partial \in Seq(Byte)
    /\ lines \in Seq(Seq(Byte))

(* Of the program's steps, those of a connection. *)
LEMMA ClientSteps ==
    ASSUME [Next]_vars
    PROVE  \/ UNCHANGED clientVars
           \/ \E a : connect(env, a)
           \/ Dial \/ ReadAnswer \/ ReadLine \/ connection_reset
BY DEF Next, list_presets, read_config, run_with_config, Attempt,
       connect_and_handshake, Connection, startupVars, vars, ClientNext

LEMMA Constants == Answers \in SUBSET Seq(Byte) /\ PoolStreams \in SUBSET Seq(Byte)
BY ClientAssumption DEF Byte

(* What is left of a sequence from any position on. *)
LEMMA RestIsBytes ==
    ASSUME NEW s \in Seq(Byte), NEW i \in Nat \ {0}
    PROVE  SubSeq(s, i, Len(s)) \in Seq(Byte)
OBVIOUS

(* Where the header of an answer ends. *)
LEMMA HeaderEnd ==
    ASSUME NEW s \in Seq(Byte), ends_header(s)
    PROVE  LET g == Least(Matches(s, CRLF \o CRLF))
           IN  g \in Nat \ {0} /\ g + 3 <= Len(s)
<1> DEFINE p == CRLF \o CRLF
           g == Least(Matches(s, p))
<1>1. Len(p) = 4 /\ Len(s) \in Nat /\ Len(p) \in Nat \ {0}
  BY DEF CRLF
<1>2. Matches(s, p) # {}
  BY DEF ends_header
<1> HIDE DEF p
<1>3. g \in Nat \ {0} /\ g + Len(p) - 1 <= Len(s)
  BY <1>1, <1>2, LeastMatch
<1> HIDE DEF g
<1>4. g \in Nat \ {0} /\ g + 3 <= Len(s)
  BY <1>1, <1>3
<1> QED BY <1>4 DEF g, p

(* Where the first line of what is buffered ends. *)
LEMMA LineEnd ==
    ASSUME NEW s \in Seq(Byte), Matches(s, <<"LF">>) # {}
    PROVE  LET k == Least(Matches(s, <<"LF">>))
           IN  /\ k \in 1..Len(s)
               /\ s[k] = "LF"
               /\ \A i \in 1..(k - 1) : s[i] # "LF"
<1> DEFINE p == <<"LF">>
           k == Least(Matches(s, p))
<1>1. Len(p) = 1 /\ Len(s) \in Nat
  OBVIOUS
<1>2. \A i : i \in Matches(s, p) <=> i \in 1..Len(s) /\ s[i] = "LF"
  <2>1. \A i \in 1..Len(s) : SubSeq(s, i, i) = <<s[i]>>
    <3> TAKE i \in 1..Len(s)
    <3> DEFINE u == SubSeq(s, i, i)
               e == s[i]
    <3>1. u \in Seq(Byte) /\ Len(u) = 1 /\ u[1] = e /\ e \in Byte
      OBVIOUS
    <3> HIDE DEF u, e
    <3>2. u = <<e>>
      BY <3>1
    <3> QED BY <3>2 DEF u, e
  <2>2. \A i : i \in Matches(s, p) <=> i \in 1..(Len(s) - Len(p) + 1) /\ SubSeq(s, i, i + Len(p) - 1) = p
    BY DEF Matches
  <2>3. \A i : i \in Matches(s, p) <=> i \in 1..Len(s) /\ SubSeq(s, i, i) = p
    BY <1>1, <2>2
  <2> QED BY <2>1, <2>3
<1> HIDE DEF p
<1>3. k \in Matches(s, p) /\ \A i \in Matches(s, p) : k <= i
  BY <1>1, LeastMatch DEF p
<1> HIDE DEF k
<1>4. k \in 1..Len(s) /\ s[k] = "LF"
  BY <1>2, <1>3
<1>5. \A i \in 1..(k - 1) : s[i] # "LF"
  BY <1>2, <1>3, <1>4
<1> QED BY <1>4, <1>5 DEF k, p

LEMMA TypedHolds == Spec => []Typed
<1>1. Init => Typed
  <2> SUFFICES ASSUME Init PROVE Typed
    OBVIOUS
  <2>1. <<>> \in Seq(Byte) /\ <<>> \in Seq(Seq(Byte))
    OBVIOUS
  <2> QED BY <2>1 DEF Init, ClientInit, Typed
<1>2. Typed /\ [Next]_vars => Typed'
  <2> SUFFICES ASSUME Typed, [Next]_vars PROVE Typed'
    OBVIOUS
  <2>1. CASE UNCHANGED clientVars
    BY <2>1 DEF Typed, clientVars, peer, reader
  <2>2. CASE \E a : connect(env, a)
    BY <2>2 DEF Typed, connect, peer, reader
  <2>3. CASE dial_fails \/ connection_reset
    BY <2>3 DEF Typed, dial_fails, connection_reset, peer, reader
  <2>4. CASE dial_succeeds
    <3>1. sent' \in Seq(Byte) /\ answer' \in Seq(Byte)
      BY <2>4, Constants DEF dial_succeeds, Typed
    <3>2. wire' \in {sent', answer', answer' \o sent'}
      BY <2>4 DEF dial_succeeds
    <3>3. answer' \o sent' \in Seq(Byte)
      BY <3>1
    <3>4. wire' \in Seq(Byte)
      BY <3>1, <3>2, <3>3
    <3> QED BY <2>4, <3>1, <3>4 DEF Typed, dial_succeeds, reader
  <2>5. ASSUME NEW n \in 1..Len(wire), read_answer(n) PROVE Typed'
    <3> DEFINE got == buf \o SubSeq(wire, 1, n)
    <3>1. n \in 0..Len(wire) /\ wire \in Seq(Byte) /\ buf \in Seq(Byte)
      BY DEF Typed
    <3>2. SubSeq(wire, 1, n) \in Seq(Byte) /\ SubSeq(wire, n + 1, Len(wire)) \in Seq(Byte)
      BY <3>1, ReadKeeps
    <3>3. got \in Seq(Byte)
      BY <3>1, <3>2
    <3>4. ends_header(got) => remainder_of(got) \in Seq(Byte)
      <4> HIDE DEF got
      <4> SUFFICES ASSUME ends_header(got) PROVE remainder_of(got) \in Seq(Byte)
        OBVIOUS
      <4> DEFINE g == Least(Matches(got, CRLF \o CRLF))
      <4>1. g \in Nat
        BY <3>3, HeaderEnd
      <4> HIDE DEF g
      <4> QED BY <3>3, <4>1, RestIsBytes, g + 4 \in Nat \ {0} DEF remainder_of, g
    <3>5. prefix' = prefix \/ (ends_header(got) /\ prefix' = remainder_of(got))
      BY <2>5 DEF read_answer
    <3>6. wire' = SubSeq(wire, n + 1, Len(wire)) /\ buf' = got /\ UNCHANGED <<peer, buffered, partial, lines>>
      BY <2>5 DEF read_answer
    <3> HIDE DEF got
    <3>7. prefix' \in Seq(Byte)
      BY <3>4, <3>5 DEF Typed
    <3> QED BY <3>2, <3>3, <3>6, <3>7 DEF Typed, peer
  <2>6. CASE read_answer_eof
    BY <2>6 DEF Typed, read_answer_eof, peer, reader
  <2>7. CASE fill_from_prefix
    <3>1. PICK n \in 0..Len(prefix) :
             /\ buffered' = SubSeq(prefix, 1, n)
             /\ prefix' = SubSeq(prefix, n + 1, Len(prefix))
      <4>1. Len(prefix) \in Nat /\ BufCap \in Nat
        BY ClientAssumption DEF Typed
      <4> DEFINE n == IF Len(prefix) < BufCap THEN Len(prefix) ELSE BufCap
      <4>2. n \in 0..Len(prefix)
        BY <4>1
      <4> QED BY <2>7, <4>2 DEF fill_from_prefix
    <3>2. buffered' \in Seq(Byte) /\ prefix' \in Seq(Byte)
      BY <3>1, ReadKeeps DEF Typed
    <3> QED BY <2>7, <3>2 DEF fill_from_prefix, Typed, peer
  <2>8. ASSUME NEW n \in 1..Len(wire), fill_from_socket(n) PROVE Typed'
    <3>1. n \in 0..Len(wire)
      BY DEF Typed
    <3>2. buffered' \in Seq(Byte) /\ wire' \in Seq(Byte)
      BY <2>8, <3>1, ReadKeeps DEF Typed, fill_from_socket
    <3> QED BY <2>8, <3>2 DEF fill_from_socket, Typed, peer
  <2>9. CASE take_line
    <3>1. CASE Matches(buffered, <<"LF">>) # {}
      <4> DEFINE k == Least(Matches(buffered, <<"LF">>))
                 line == partial \o SubSeq(buffered, 1, k - 1)
      <4>1. k \in Nat \ {0} /\ k <= Len(buffered) /\ Len(buffered) \in Nat
        <5>1. buffered \in Seq(Byte) /\ Len(buffered) \in Nat
          BY DEF Typed
        <5> HIDE DEF k
        <5>2. k \in 1..Len(buffered)
          BY <3>1, <5>1, LineEnd DEF k
        <5> QED BY <5>1, <5>2
      <4> HIDE DEF k
      <4>2. SubSeq(buffered, 1, k - 1) \in Seq(Byte)
        BY <4>1, ReadKeeps, k - 1 \in 0..Len(buffered) DEF Typed
      <4>3. line \in Seq(Byte)
        BY <4>2 DEF Typed
      <4> HIDE DEF line
      <4>4. WithoutCR(line) \in Seq(Byte)
        BY <4>3, WithoutCRKeeps
      <4>5. /\ lines' = Append(lines, WithoutCR(line))
            /\ partial' = <<>>
            /\ buffered' = SubSeq(buffered, k + 1, Len(buffered))
        BY <2>9, <3>1 DEF take_line, line, k
      <4>6. lines' \in Seq(Seq(Byte)) /\ partial' \in Seq(Byte)
        <5> DEFINE w == WithoutCR(line)
        <5>1. w \in Seq(Byte) /\ lines' = Append(lines, w) /\ lines \in Seq(Seq(Byte))
          BY <4>4, <4>5 DEF Typed
        <5> HIDE DEF w
        <5> QED BY <4>5, <5>1
      <4>7. buffered' \in Seq(Byte)
        BY <4>1, <4>5, RestIsBytes, k + 1 \in Nat \ {0} DEF Typed
      <4> QED BY <2>9, <4>6, <4>7 DEF take_line, Typed, peer
    <3>2. CASE Matches(buffered, <<"LF">>) = {}
      <4>1. /\ partial' = partial \o buffered
            /\ buffered' = <<>>
            /\ UNCHANGED <<lines, peer, wire, buf, prefix>>
        BY <2>9, <3>2 DEF take_line
      <4>2. partial' \in Seq(Byte) /\ buffered' \in Seq(Byte)
        BY <4>1 DEF Typed
      <4> QED BY <4>1, <4>2 DEF Typed, peer
    <3> QED BY <3>1, <3>2
  <2>10. CASE read_eof
    <3>1. partial' \in Seq(Byte) /\ lines' \in Seq(Seq(Byte))
      <4>1. partial \in Seq(Byte) /\ lines \in Seq(Seq(Byte))
        BY DEF Typed
      <4>2. Append(lines, partial) \in Seq(Seq(Byte))
        BY <4>1
      <4>3. partial' = <<>> /\ lines' \in {lines, Append(lines, partial)}
        BY <2>10 DEF read_eof
      <4> QED BY <4>1, <4>2, <4>3
    <3> QED BY <2>10, <3>1 DEF read_eof, Typed, peer
  <2> QED BY <2>1, <2>2, <2>3, <2>4, <2>5, <2>6, <2>7, <2>8, <2>9, <2>10, ClientSteps
          DEF Dial, ReadAnswer, ReadLine
<1> QED BY <1>1, <1>2, PTL DEF Spec

-----------------------------------------------------------------------------
(* The answer of a proxy.                                                  *)

LEMMA HeaderIsBytes ==
    ASSUME NEW s \in Seq(Byte), ends_header(s)
    PROVE  LET g == Least(Matches(s, CRLF \o CRLF))
           IN  /\ header_of(s) \in Seq(Byte)
               /\ Len(header_of(s)) = g - 1
               /\ \A i \in 1..(g - 1) : header_of(s)[i] = s[i]
<1> DEFINE g == Least(Matches(s, CRLF \o CRLF))
           h == SubSeq(s, 1, g - 1)
<1>1. h = header_of(s)
  BY DEF header_of
<1> HIDE DEF g
<1>2. g \in Nat \ {0} /\ g + 3 <= Len(s) /\ Len(s) \in Nat
  BY HeaderEnd DEF g
<1>3. h \in Seq(Byte) /\ Len(h) = g - 1 /\ \A i \in 1..(g - 1) : h[i] = s[i]
  BY <1>2
<1> HIDE DEF h
<1> QED BY <1>1, <1>3 DEF g

(* The first status line of a header is what comes before its first CRLF. *)
LEMMA StatusLine ==
    ASSUME NEW h \in Seq(Byte), Matches(h, CRLF) # {}
    PROVE  LET k == Least(Matches(h, CRLF))
               line == first_status_line(h)
           IN  /\ k \in 1..Len(h) /\ SubSeq(h, k, k + 1) = CRLF /\ k + 1 <= Len(h)
               /\ line # <<>> <=> k > 1
               /\ k > 1 => line[1] = h[1]
<1> DEFINE k == Least(Matches(h, CRLF))
           line == SubSeq(h, 1, k - 1)
<1>1. Len(CRLF) = 2 /\ Len(CRLF) \in Nat \ {0} /\ Len(h) \in Nat
  BY DEF CRLF
<1>2. k \in Matches(h, CRLF) /\ k \in Nat \ {0} /\ k + Len(CRLF) - 1 <= Len(h)
  BY <1>1, LeastMatch
<1>3. line = first_status_line(h)
  BY DEF first_status_line
<1> HIDE DEF k
<1>4. k \in 1..Len(h) /\ k + 1 <= Len(h)
  BY <1>1, <1>2
<1>5. SubSeq(h, k, k + 1) = CRLF
  <2>1. SubSeq(h, k, k + Len(CRLF) - 1) = CRLF
    BY <1>2 DEF Matches
  <2>2. k + Len(CRLF) - 1 = k + 1
    BY <1>1, <1>4
  <2> QED BY <2>1, <2>2
<1>6. Len(line) = k - 1 /\ line \in Seq(Byte) /\ (k > 1 => line[1] = h[1])
  BY <1>4
<1> HIDE DEF line
<1>7. line # <<>> <=> k > 1
  BY <1>4, <1>6
<1> QED BY <1>3, <1>4, <1>5, <1>6, <1>7 DEF k

Status(s) == status_code(first_status_line(header_of(s)))

(* A status of 200 is what the answer begins with. *)
LEMMA StatusComesFirst ==
    ASSUME NEW s \in Seq(Byte), ends_header(s), Status(s) = "200"
    PROVE  s # <<>> /\ s[1] = "200"
<1> DEFINE h == header_of(s)
           line == first_status_line(h)
           g == Least(Matches(s, CRLF \o CRLF))
<1>1. /\ g \in Nat \ {0} /\ g + 3 <= Len(s) /\ Len(s) \in Nat
      /\ h \in Seq(Byte) /\ Len(h) = g - 1 /\ \A i \in 1..(g - 1) : h[i] = s[i]
  BY HeaderEnd, HeaderIsBytes
<1>2. line # <<>> /\ line[1] = "200"
  BY DEF Status, status_code
<1> HIDE DEF g, h
<1>3. Matches(h, CRLF) # {}
  BY <1>2 DEF first_status_line
<1> DEFINE k == Least(Matches(h, CRLF))
<1>4. k \in 1..Len(h) /\ (line # <<>> <=> k > 1) /\ (k > 1 => line[1] = h[1])
  BY <1>1, <1>3, StatusLine
<1> HIDE DEF line, k
<1>5. h[1] = "200" /\ 1 \in 1..(g - 1)
  BY <1>1, <1>2, <1>4
<1> QED BY <1>1, <1>5

(* An answer that begins with 200 and has a field is accepted. *)
LEMMA GrantHasStatus ==
    ASSUME NEW s \in Seq(Byte), ends_header(s), s[1] = "200",
           Matches(header_of(s), CRLF) # {}
    PROVE  Status(s) = "200"
<1> DEFINE h == header_of(s)
           line == first_status_line(h)
           g == Least(Matches(s, CRLF \o CRLF))
           k == Least(Matches(h, CRLF))
<1>1. /\ g \in Nat \ {0} /\ g + 3 <= Len(s) /\ Len(s) \in Nat
      /\ h \in Seq(Byte) /\ Len(h) = g - 1 /\ \A i \in 1..(g - 1) : h[i] = s[i]
  BY HeaderEnd, HeaderIsBytes
<1> HIDE DEF g, h
<1>2. Matches(h, CRLF) # {}
  BY DEF h
<1>3. /\ k \in 1..Len(h) /\ SubSeq(h, k, k + 1) = CRLF /\ k + 1 <= Len(h)
      /\ (line # <<>> <=> k > 1) /\ (k > 1 => line[1] = h[1])
  BY <1>1, <1>2, StatusLine
<1> HIDE DEF line, k
<1>4. h[1] = "200"
  BY <1>1, <1>3
<1>5. k > 1
  <2>1. SUFFICES ASSUME k = 1 PROVE FALSE
    BY <1>3
  <2>2. SubSeq(h, 1, 2)[1] = h[1]
    BY <1>1, <1>3
  <2>3. SubSeq(h, 1, 2) = CRLF
    <3>1. SubSeq(h, 1, 1 + 1) = CRLF
      BY <1>3, <2>1
    <3>2. 1 + 1 = 2
      OBVIOUS
    <3> QED BY <3>1, <3>2, Zenon
  <2>4. CRLF[1] = "CR"
    BY DEF CRLF
  <2> QED BY <1>4, <2>2, <2>3, <2>4
<1>6. status_code(line) = "200"
  BY <1>3, <1>4, <1>5 DEF status_code, Codes
<1> QED BY <1>6 DEF Status, line, h

(* Two beginnings of the same bytes that end a header end the same one. *)
LEMMA SameHeader ==
    ASSUME NEW a \in Seq(Byte), NEW b \in Seq(Byte), NEW c \in Seq(Byte), NEW d \in Seq(Byte),
           a \o b = c \o d, ends_header(a), ends_header(c)
    PROVE  /\ Least(Matches(a, CRLF \o CRLF)) = Least(Matches(c, CRLF \o CRLF))
           /\ header_of(a) = header_of(c)
<1> DEFINE p == CRLF \o CRLF
           g == Least(Matches(a, p))
           u == a \o b
<1>1. Len(p) \in Nat \ {0}
  BY DEF CRLF
<1>2. g \in Nat \ {0} /\ g + 3 <= Len(a) /\ Least(Matches(c, p)) + 3 <= Len(c)
  BY HeaderEnd
<1>3. Matches(a, p) # {} /\ Matches(c, p) # {}
  BY DEF ends_header
<1>4. header_of(a) = SubSeq(a, 1, g - 1) /\ header_of(c) = SubSeq(c, 1, Least(Matches(c, p)) - 1)
  BY DEF header_of
<1> HIDE DEF p
<1>5. Least(Matches(u, p)) = g
  BY <1>1, <1>3, FirstMatchStays
<1>6. Least(Matches(c \o d, p)) = Least(Matches(c, p))
  BY <1>1, <1>3, FirstMatchStays
<1>7. Least(Matches(c, p)) = g
  BY <1>5, <1>6
<1> HIDE DEF g
<1>8. g - 1 \in Nat /\ g - 1 <= Len(a) /\ g - 1 <= Len(c) /\ 1 \in Nat \ {0}
  BY <1>2, <1>7, Len(a) \in Nat, Len(c) \in Nat
<1> DEFINE j == g - 1
<1> HIDE DEF j
<1>9. SubSeq(a \o b, 1, j) = SubSeq(a, 1, j) /\ SubSeq(c \o d, 1, j) = SubSeq(c, 1, j)
  BY <1>8, PartOfPrefix DEF j
<1>10. header_of(a) = header_of(c)
  BY <1>4, <1>7, <1>9 DEF j
<1> QED BY <1>7, <1>10 DEF g, p

(* Only what the proxy grants is accepted. *)
LEMMA AcceptedIsGrant ==
    ASSUME Typed, NEW got \in Seq(Byte), NEW rest \in Seq(Byte), got \o rest = Served,
           ends_header(got), Status(got) = "200"
    PROVE  ends_header(answer) /\ answer[1] = "200"
<1>1. got # <<>> /\ got[1] = "200"
  BY StatusComesFirst
<1>2. SUFFICES ASSUME ~(ends_header(answer) /\ answer[1] = "200")
               PROVE  ends_header(answer) /\ answer[1] = "200"
  OBVIOUS
<1>3. answer = got \o rest
  BY <1>2 DEF Served
<1>4. answer[1] = "200"
  BY <1>1, <1>3
<1>5. ends_header(answer)
  <2> DEFINE p == CRLF \o CRLF
  <2>1. Len(p) \in Nat \ {0}
    BY DEF CRLF
  <2>2. Matches(got, p) # {}
    BY DEF ends_header
  <2> HIDE DEF p
  <2>3. Matches(got \o rest, p) # {}
    BY <2>1, <2>2, FirstMatchStays
  <2> QED BY <1>3, <2>3 DEF ends_header, p
<1> QED BY <1>4, <1>5

(* What the proxy grants within the limit is accepted: at the latest when   *)
(* its header is complete or the limit is passed.                          *)
LEMMA GrantIsAccepted ==
    ASSUME GrantsHaveFields, Typed, answer \in Answers, Granted,
           NEW got \in Seq(Byte), NEW rest \in Seq(Byte), got \o rest = Served,
           ends_header(got) \/ Len(got) > HeaderLimit
    PROVE  ends_header(got) /\ Status(got) = "200"
<1> DEFINE p == CRLF \o CRLF
<1>1. got \o rest = answer \o sent /\ answer \in Seq(Byte) /\ sent \in Seq(Byte)
  BY DEF Granted, Served, Typed
<1>2. ends_header(answer) /\ answer[1] = "200" /\ Len(answer) <= HeaderLimit
  BY DEF Granted
<1>3. ends_header(got)
  <2>1. SUFFICES ASSUME Len(got) > HeaderLimit PROVE ends_header(got)
    OBVIOUS
  <2>2. Len(p) \in Nat \ {0}
    BY DEF CRLF
  <2>3. PICK i : i \in Matches(answer, p)
    BY <1>2 DEF ends_header
  <2> HIDE DEF p
  <2>4. i \in Matches(answer \o sent, p) /\ i + Len(p) - 1 <= Len(answer)
    BY <1>1, <2>2, <2>3, MatchesOfPrefix
  <2>5. i + Len(p) - 1 <= Len(got)
    <3>1. i \in Nat
      BY <2>3 DEF Matches
    <3>2. Len(answer) \in Nat /\ Len(got) \in Nat /\ HeaderLimit \in Nat
      BY <1>1, ClientAssumption
    <3> QED BY <1>2, <2>1, <2>2, <2>4, <3>1, <3>2
  <2>6. i \in Matches(got \o rest, p)
    BY <1>1, <2>4
  <2>7. i \in Matches(got, p)
    BY <2>2, <2>5, <2>6, MatchesOfPrefix
  <2> QED BY <2>7 DEF ends_header, p
<1>4. header_of(got) = header_of(answer)
  BY <1>1, <1>2, <1>3, SameHeader
<1>5. Matches(header_of(got), CRLF) # {}
  BY <1>2, <1>4 DEF GrantsHaveFields
<1>6. got[1] = "200"
  <2>1. got # <<>>
    BY <1>3, HeaderEnd
  <2>2. answer # <<>>
    BY <1>1, <1>2, HeaderEnd
  <2>3. (got \o rest)[1] = got[1] /\ (answer \o sent)[1] = answer[1]
    BY <1>1, <2>1, <2>2
  <2> QED BY <1>1, <1>2, <2>3
<1> QED BY <1>3, <1>5, <1>6, GrantHasStatus

(* While the answer is read nothing of it is lost, and it is not decided. *)
Relayed ==
    /\ stage \in {"idle", "dialing"} => buf = <<>>
    /\ stage = "tunnel" =>
           /\ answer \in Answers
           /\ buf \o wire = Served
           /\ ~ends_header(buf)
           /\ Len(buf) <= HeaderLimit

LEMMA NoHeaderYet == ~ends_header(<<>>) /\ Len(<<>>) <= HeaderLimit
<1> DEFINE p == CRLF \o CRLF
<1>1. Len(p) = 4
  BY DEF CRLF
<1> HIDE DEF p
<1>2. Matches(<<>>, p) = {}
  BY <1>1 DEF Matches
<1> QED BY <1>2, ClientAssumption DEF ends_header, p

(* The bytes of a read and those that are left are those that were there. *)
LEMMA ReadAnswerKeeps ==
    ASSUME Typed, NEW n \in 1..Len(wire)
    PROVE  LET got == buf \o SubSeq(wire, 1, n)
               rest == SubSeq(wire, n + 1, Len(wire))
           IN  /\ got \in Seq(Byte) /\ rest \in Seq(Byte)
               /\ got \o rest = buf \o wire
               /\ got # <<>>
<1> DEFINE read == SubSeq(wire, 1, n)
           rest == SubSeq(wire, n + 1, Len(wire))
<1>1. buf \in Seq(Byte) /\ wire \in Seq(Byte) /\ n \in 0..Len(wire)
  BY DEF Typed
<1>2. read \in Seq(Byte) /\ rest \in Seq(Byte) /\ read \o rest = wire /\ Len(read) = n
  BY <1>1, ReadKeeps
<1> HIDE DEF read, rest
<1>3. (buf \o read) \o rest = buf \o wire /\ buf \o read \in Seq(Byte)
  <2>1. buf \in Seq(Byte) /\ read \in Seq(Byte) /\ rest \in Seq(Byte)
    BY <1>1, <1>2
  <2>2. (buf \o read) \o rest = buf \o (read \o rest)
    BY <2>1
  <2>3. buf \o read \in Seq(Byte)
    BY <2>1
  <2> QED BY <1>2, <2>2, <2>3
<1>4. buf \o read # <<>>
  BY <1>1, <1>2
<1> QED BY <1>2, <1>3, <1>4 DEF read, rest

LEMMA RelayedHolds == Spec => []Relayed
<1>1. Init => Relayed
  BY DEF Init, ClientInit, Relayed
<1>2. Typed /\ Relayed /\ [Next]_vars => Relayed'
  <2> SUFFICES ASSUME Typed, Relayed, [Next]_vars PROVE Relayed'
    OBVIOUS
  <2>1. CASE UNCHANGED clientVars
    BY <2>1 DEF Relayed, Served, clientVars, peer, reader
  <2>2. CASE \E a : connect(env, a)
    BY <2>2 DEF Relayed, connect
  <2>3. CASE dial_fails \/ connection_reset
    BY <2>3 DEF Relayed, dial_fails, connection_reset
  <2>4. CASE dial_succeeds
    <3>1. CASE ~ByTunnel
      BY <2>4, <3>1 DEF dial_succeeds, Relayed
    <3>2. CASE ByTunnel
      <4>1. stage' = "tunnel" /\ answer' \in Answers /\ buf' = <<>> /\ wire' = Served'
        BY <2>4, <3>2 DEF dial_succeeds, Relayed, Served
      <4>2. wire' \in Seq(Byte)
        <5>1. sent' \in Seq(Byte) /\ answer' \in Seq(Byte)
          BY <2>4, <4>1, Constants DEF dial_succeeds
        <5>2. answer' \o sent' \in Seq(Byte)
          BY <5>1
        <5> QED BY <4>1, <5>1, <5>2 DEF Served
      <4>3. buf' \o wire' = wire'
        BY <4>1, <4>2
      <4> QED BY <4>1, <4>3, NoHeaderYet DEF Relayed
    <3> QED BY <3>1, <3>2
  <2>5. ASSUME NEW n \in 1..Len(wire), read_answer(n) PROVE Relayed'
    <3> DEFINE got == buf \o SubSeq(wire, 1, n)
               rest == SubSeq(wire, n + 1, Len(wire))
    <3>1. got \o rest = buf \o wire
      BY ReadAnswerKeeps
    <3>2. /\ stage = "tunnel" /\ wire' = rest /\ buf' = got
          /\ UNCHANGED <<answer, sent>>
          /\ stage' \in {"open", "failed"} \/ (~ends_header(got) /\ Len(got) <= HeaderLimit)
          /\ stage' \in {"open", "failed", "tunnel"}
      BY <2>5 DEF read_answer, peer
    <3> HIDE DEF got, rest
    <3>3. Served' = Served
      BY <3>2 DEF Served
    <3> QED BY <3>1, <3>2, <3>3 DEF Relayed
  <2>6. CASE read_answer_eof \/ ReadLine
    BY <2>6 DEF Relayed, read_answer_eof, ReadLine, fill_from_prefix, fill_from_socket,
                take_line, read_eof
  <2> QED BY <2>1, <2>2, <2>3, <2>4, <2>5, <2>6, ClientSteps DEF Dial, ReadAnswer
<1> QED BY <1>1, <1>2, TypedHolds, PTL DEF Spec

LEMMA TunnelStep ==
    ASSUME GrantsHaveFields, Typed, Relayed, TunnelFollowsAnswer, [Next]_vars
    PROVE  TunnelFollowsAnswer'
<1>1. CASE UNCHANGED clientVars
  BY <1>1 DEF TunnelFollowsAnswer, ByTunnel, Granted, clientVars, peer, reader
<1>2. CASE \E a : connect(env, a)
  BY <1>2 DEF TunnelFollowsAnswer, ByTunnel, connect
<1>3. CASE dial_fails \/ connection_reset
  BY <1>3 DEF Relayed, TunnelFollowsAnswer, ByTunnel, Granted, dial_fails, connection_reset, peer
<1>4. CASE dial_succeeds
  BY <1>4 DEF TunnelFollowsAnswer, dial_succeeds, ByTunnel
<1>5. ASSUME NEW n \in 1..Len(wire), read_answer(n) PROVE TunnelFollowsAnswer'
  <2> DEFINE got == buf \o SubSeq(wire, 1, n)
             rest == SubSeq(wire, n + 1, Len(wire))
             accepted == ends_header(got) /\ Status(got) = "200"
  <2>1. got \in Seq(Byte) /\ rest \in Seq(Byte) /\ got \o rest = buf \o wire
    BY ReadAnswerKeeps
  <2>2. /\ stage = "tunnel"
        /\ UNCHANGED <<answer, sent, proxy>>
        /\ \/ accepted /\ stage' = "open"
           \/ (ends_header(got) \/ Len(got) > HeaderLimit) /\ ~accepted /\ stage' = "failed"
           \/ ~ends_header(got) /\ Len(got) <= HeaderLimit /\ stage' = stage
    BY <1>5 DEF read_answer, peer, Status
  <2>3. got \o rest = Served /\ answer \in Answers
    BY <2>1, <2>2 DEF Relayed
  <2> HIDE DEF got, rest
  <2>4. Granted' <=> Granted
    BY <2>2 DEF Granted
  <2>5. CASE accepted /\ stage' = "open"
    <3>1. answer[1] = "200"
      BY <2>1, <2>3, <2>5, AcceptedIsGrant
    <3> QED BY <2>2, <2>5, <3>1 DEF TunnelFollowsAnswer
  <2>6. CASE (ends_header(got) \/ Len(got) > HeaderLimit) /\ ~accepted /\ stage' = "failed"
    <3>1. ~Granted
      BY <2>1, <2>3, <2>6, GrantIsAccepted
    <3> QED BY <2>4, <2>6, <3>1 DEF TunnelFollowsAnswer
  <2>7. CASE ~ends_header(got) /\ Len(got) <= HeaderLimit /\ stage' = stage
    BY <2>2, <2>7 DEF TunnelFollowsAnswer
  <2> QED BY <2>2, <2>5, <2>6, <2>7
<1>6. CASE read_answer_eof
  <2>1. stage = "tunnel" /\ wire = <<>> /\ stage' = "failed" /\ UNCHANGED <<answer, buf>>
    BY <1>6 DEF read_answer_eof, peer
  <2>2. buf = Served /\ ~ends_header(buf)
    <3>1. buf \o wire = buf
      BY <2>1 DEF Typed
    <3> QED BY <2>1, <3>1 DEF Relayed
  <2>3. ~Granted
    <3>1. SUFFICES ASSUME Granted PROVE ends_header(answer \o sent)
      BY <2>2 DEF Granted, Served
    <3> DEFINE p == CRLF \o CRLF
    <3>2. Len(p) \in Nat \ {0}
      BY DEF CRLF
    <3>3. Matches(answer, p) # {}
      BY <3>1 DEF Granted, ends_header
    <3> HIDE DEF p
    <3>4. Matches(answer \o sent, p) # {}
      BY <3>2, <3>3, FirstMatchStays DEF Typed
    <3> QED BY <3>4 DEF ends_header, p
  <2> QED BY <2>1, <2>3 DEF TunnelFollowsAnswer, Granted
<1>7. CASE ReadLine
  <2>1. /\ stage = "open" /\ stage' \in {"open", "ended"}
        /\ UNCHANGED <<answer, proxy>>
    BY <1>7 DEF ReadLine, fill_from_prefix, fill_from_socket, take_line, read_eof, peer
  <2> QED BY <2>1 DEF TunnelFollowsAnswer, ByTunnel
<1> QED BY <1>1, <1>2, <1>3, <1>4, <1>5, <1>6, <1>7, ClientSteps DEF Dial, ReadAnswer

(* For every answer of a proxy and every way it is cut: what is read through *)
(* a tunnel was granted, and a grant within the limit is never given up,   *)
(* as long as grants have a field after their status line.                 *)
THEOREM TunnelIsGranted ==
    ASSUME GrantsHaveFields
    PROVE  Spec => []TunnelFollowsAnswer
<1>1. Init => TunnelFollowsAnswer
  BY DEF Init, ClientInit, TunnelFollowsAnswer
<1>2. Typed /\ Relayed /\ TunnelFollowsAnswer /\ [Next]_vars => TunnelFollowsAnswer'
  BY TunnelStep
<1> QED BY <1>1, <1>2, TypedHolds, RelayedHolds, PTL DEF Spec

-----------------------------------------------------------------------------
(* The lines.                                                              *)

(* What follows the header of a grant is all that the pool has sent so far. *)
LEMMA RemainderIsThePools ==
    ASSUME Typed, answer \in Answers,
           NEW got \in Seq(Byte), NEW rest \in Seq(Byte), got \o rest = Served,
           ends_header(got), Status(got) = "200"
    PROVE  remainder_of(got) \in Seq(Byte) /\ remainder_of(got) \o rest = sent
<1> DEFINE g == Least(Matches(got, CRLF \o CRLF))
<1>1. ends_header(answer) /\ answer[1] = "200"
  BY AcceptedIsGrant
<1>2. got \o rest = answer \o sent /\ answer \in Seq(Byte) /\ sent \in Seq(Byte)
  BY <1>1 DEF Served, Typed
<1>3. g = Least(Matches(answer, CRLF \o CRLF))
  BY <1>1, <1>2, SameHeader
<1>4. g \in Nat \ {0} /\ g + 3 <= Len(got)
  BY HeaderEnd
<1>5. g + 3 = Len(answer)
  BY <1>1, <1>3, ClientAssumption
<1>6. remainder_of(got) = SubSeq(got, g + 4, Len(got))
  BY DEF remainder_of
<1> HIDE DEF g
<1>7. g + 4 = Len(answer) + 1 /\ Len(answer) <= Len(got)
  BY <1>4, <1>5, Len(answer) \in Nat
<1>8. SubSeq(got, Len(answer) + 1, Len(got)) \o rest = sent
  BY <1>2, <1>7, RestOfConcat
<1>9. remainder_of(got) \in Seq(Byte)
  BY <1>4, <1>6, RestIsBytes, g + 4 \in Nat \ {0}
<1> QED BY <1>6, <1>7, <1>8, <1>9

(* The lines so far, and what they continue with. *)
Continued(l, p, s) == Bytes!Folded([whole |-> l, rest |-> p], s)

LEMMA ContinuedTypes ==
    ASSUME NEW l \in Seq(Seq(Byte)), NEW p \in Seq(Byte), NEW s \in Seq(Byte)
    PROVE  /\ IsPrefix(l, Continued(l, p, s).whole)
           /\ Continued(l, p, <<>>) = [whole |-> l, rest |-> p]
<1> DEFINE acc == [whole |-> l, rest |-> p]
<1>1. acc \in Accumulated /\ acc.whole = l
  BY DEF Accumulated
<1> HIDE DEF acc
<1>2. IsPrefix(acc.whole, Bytes!Folded(acc, s).whole)
  BY <1>1, LinesOnlyGrow
<1>3. Bytes!Folded(acc, <<>>) = acc
  BY Bytes!FoldedEmpty
<1> QED BY <1>1, <1>2, <1>3 DEF Continued, acc

LEMMA SplitIsContinued == \A s : Split(s) = Continued(<<>>, <<>>, s)
BY SplitIsFold DEF Continued

LEMMA NoLinesYet ==
    ASSUME NEW s \in Seq(Byte)
    PROVE  IsPrefix(<<>>, Split(s).whole)
<1>1. <<>> \in Seq(Seq(Byte)) /\ <<>> \in Seq(Byte)
  OBVIOUS
<1> QED BY <1>1, ContinuedTypes, SplitIsContinued

(* A buffer without a line feed continues the line. *)
LEMMA TakeWithoutFeed ==
    ASSUME NEW l \in Seq(Seq(Byte)), NEW p \in Seq(Byte), NEW b \in Seq(Byte), NEW r \in Seq(Byte),
           Matches(b, <<"LF">>) = {}
    PROVE  Continued(l, p, b \o r) = Continued(l, p \o b, r)
<1> DEFINE acc == [whole |-> l, rest |-> p]
           more == [whole |-> l, rest |-> p \o b]
<1>1. \A i \in 1..Len(b) : b[i] # "LF"
  <2> TAKE i \in 1..Len(b)
  <2>1. SUFFICES ASSUME b[i] = "LF" PROVE FALSE
    OBVIOUS
  <2> DEFINE u == SubSeq(b, i, i)
  <2>2. u \in Seq(Byte) /\ Len(u) = 1 /\ u[1] = "LF"
    BY <2>1
  <2>3. i + Len(<<"LF">>) - 1 = i /\ i \in 1..(Len(b) - Len(<<"LF">>) + 1)
    OBVIOUS
  <2> HIDE DEF u
  <2>4. u = <<"LF">>
    BY <2>2
  <2>5. i \in Matches(b, <<"LF">>)
    BY <2>3, <2>4 DEF Matches, u
  <2> QED BY <2>5
<1> HIDE DEF acc, more
<1>2. Bytes!Folded(acc, b) = more
  BY <1>1, WithoutFeed DEF acc, more
<1>3. Bytes!Folded(acc, b \o r) = Bytes!Folded(Bytes!Folded(acc, b), r)
  BY Bytes!FoldedConcat
<1> QED BY <1>2, <1>3 DEF Continued, acc, more

(* A line feed ends it. *)
LEMMA TakeToFeed ==
    ASSUME NEW l \in Seq(Seq(Byte)), NEW p \in Seq(Byte), NEW b \in Seq(Byte), NEW r \in Seq(Byte),
           Matches(b, <<"LF">>) # {}
    PROVE  LET k == Least(Matches(b, <<"LF">>))
               line == p \o SubSeq(b, 1, k - 1)
           IN  Continued(l, p, b \o r) =
                   Continued(Append(l, WithoutCR(line)), <<>>, SubSeq(b, k + 1, Len(b)) \o r)
<1> DEFINE k == Least(Matches(b, <<"LF">>))
           front == SubSeq(b, 1, k - 1)
           tail == SubSeq(b, k + 1, Len(b))
           line == p \o front
           e == b[k]
           acc == [whole |-> l, rest |-> p]
           more == [whole |-> l, rest |-> line]
           next == [whole |-> Append(l, WithoutCR(line)), rest |-> <<>>]
<1>1. k \in 1..Len(b) /\ b[k] = "LF" /\ \A i \in 1..(k - 1) : b[i] # "LF"
  BY LineEnd
<1> HIDE DEF k
<1>2. /\ front \in Seq(Byte) /\ tail \in Seq(Byte) /\ e \in Byte
      /\ \A i \in 1..Len(front) : front[i] # "LF"
  BY <1>1
<1>3. b = Append(front, e) \o tail
  <2> DEFINE head == SubSeq(b, 1, k)
  <2>1. head \o tail = b
    BY <1>1, ReadKeeps, k \in 0..Len(b)
  <2>2. head = Append(front, e)
    BY <1>1
  <2> QED BY <2>1, <2>2
<1>4. feed(more, e) = next
  BY <1>1 DEF feed
<1>5. Bytes!Folded(acc, front) = more
  <2> HIDE DEF front
  <2> QED BY <1>2, WithoutFeed
<1> HIDE DEF front, tail, e, acc, more, next, line
<1>6. Bytes!Folded(acc, Append(front, e)) = next
  <2>1. Bytes!Folded(acc, Append(front, e)) = feed(Bytes!Folded(acc, front), e)
    BY <1>2, Bytes!FoldedAppend
  <2> QED BY <1>4, <1>5, <2>1
<1> DEFINE first == Append(front, e)
           rest == tail \o r
<1>7. first \in Seq(Byte) /\ rest \in Seq(Byte) /\ b = first \o tail
  BY <1>2, <1>3
<1> HIDE DEF first
<1>8. b \o r = first \o rest
  BY <1>2, <1>7
<1> HIDE DEF rest
<1>9. Bytes!Folded(acc, first \o rest) = Bytes!Folded(Bytes!Folded(acc, first), rest)
  BY <1>7, Bytes!FoldedConcat
<1>10. Bytes!Folded(acc, b \o r) = Bytes!Folded(next, rest)
  BY <1>6, <1>8, <1>9 DEF first
<1> QED BY <1>10 DEF Continued, acc, next, rest, tail, line, front, k

(* Nothing is read before the connection is open.  Then the lines so far,   *)
(* continued with what is buffered, kept back and on its way, are the      *)
(* pool's.                                                                 *)
ReaderIsEmpty == prefix = <<>> /\ buffered = <<>> /\ partial = <<>> /\ lines = <<>>

Reading ==
    /\ stage \in {"idle", "dialing", "tunnel", "failed"} => ReaderIsEmpty
    /\ stage = "open" => Continued(lines, partial, buffered \o (prefix \o wire)) = Split(sent)
    /\ LinesAreThePools

(* A read into an empty buffer, with nothing kept back. *)
LEMMA ReadingShifts ==
    ASSUME NEW a \in Seq(Byte), NEW b \in Seq(Byte)
    PROVE  /\ a \o (<<>> \o b) = <<>> \o (<<>> \o (a \o b))
           /\ <<>> \o (<<>> \o a) = a
<1>1. a \o b \in Seq(Byte) /\ \A s \in Seq(Byte) : <<>> \o s = s
  OBVIOUS
<1> QED BY <1>1

LEMMA FillFromPrefix ==
    ASSUME Typed, Reading, fill_from_prefix
    PROVE  buffered' \o (prefix' \o wire') = buffered \o (prefix \o wire)
<1> DEFINE n == IF Len(prefix) < BufCap THEN Len(prefix) ELSE BufCap
           a == SubSeq(prefix, 1, n)
           b == SubSeq(prefix, n + 1, Len(prefix))
<1>1. prefix \in Seq(Byte) /\ wire \in Seq(Byte)
  BY DEF Typed
<1>2. n \in 0..Len(prefix)
  BY <1>1, ClientAssumption
<1>3. buffered = <<>> /\ buffered' = a /\ prefix' = b /\ wire' = wire
  BY DEF fill_from_prefix
<1> HIDE DEF n
<1>4. a \in Seq(Byte) /\ b \in Seq(Byte) /\ a \o b = prefix
  BY <1>1, <1>2, ReadKeeps
<1> HIDE DEF a, b
<1>5. a \o (b \o wire) = <<>> \o ((a \o b) \o wire)
  <2>1. a \in Seq(Byte) /\ b \in Seq(Byte) /\ wire \in Seq(Byte)
    BY <1>1, <1>4
  <2>2. a \o (b \o wire) = (a \o b) \o wire /\ (a \o b) \o wire \in Seq(Byte)
    BY <2>1
  <2>3. \A s \in Seq(Byte) : <<>> \o s = s
    OBVIOUS
  <2> QED BY <2>2, <2>3
<1> QED BY <1>3, <1>4, <1>5

LEMMA FillFromSocket ==
    ASSUME Typed, NEW n \in 1..Len(wire), fill_from_socket(n)
    PROVE  buffered' \o (prefix' \o wire') = buffered \o (prefix \o wire)
<1> DEFINE a == SubSeq(wire, 1, n)
           b == SubSeq(wire, n + 1, Len(wire))
<1>1. wire \in Seq(Byte) /\ n \in 0..Len(wire)
  BY DEF Typed
<1>2. /\ buffered = <<>> /\ buffered' = a /\ prefix = <<>> /\ prefix' = <<>>
      /\ wire' = b
  BY DEF fill_from_socket
<1>3. a \in Seq(Byte) /\ b \in Seq(Byte) /\ a \o b = wire
  BY <1>1, ReadKeeps
<1> HIDE DEF a, b
<1>4. a \o (<<>> \o b) = <<>> \o (<<>> \o (a \o b))
  BY <1>3, ReadingShifts
<1> QED BY <1>2, <1>3, <1>4

LEMMA TakeLine ==
    ASSUME Typed, take_line
    PROVE  Continued(lines', partial', buffered' \o (prefix' \o wire')) =
               Continued(lines, partial, buffered \o (prefix \o wire))
<1> DEFINE r == prefix \o wire
           k == Least(Matches(buffered, <<"LF">>))
           line == partial \o SubSeq(buffered, 1, k - 1)
<1>1. /\ r \in Seq(Byte) /\ buffered \in Seq(Byte) /\ partial \in Seq(Byte)
      /\ lines \in Seq(Seq(Byte))
  BY DEF Typed
<1>2. prefix' \o wire' = r
  BY DEF take_line
<1> HIDE DEF r
<1>3. CASE Matches(buffered, <<"LF">>) # {}
  <2>1. /\ lines' = Append(lines, WithoutCR(line))
        /\ partial' = <<>>
        /\ buffered' = SubSeq(buffered, k + 1, Len(buffered))
    BY <1>3 DEF take_line
  <2>2. Continued(lines, partial, buffered \o r) =
            Continued(Append(lines, WithoutCR(line)), <<>>,
                      SubSeq(buffered, k + 1, Len(buffered)) \o r)
    BY <1>1, <1>3, TakeToFeed
  <2> HIDE DEF k, line
  <2> QED BY <1>2, <2>1, <2>2 DEF r
<1>4. CASE Matches(buffered, <<"LF">>) = {}
  <2>1. lines' = lines /\ partial' = partial \o buffered /\ buffered' = <<>>
    BY <1>4 DEF take_line
  <2>2. Continued(lines, partial, buffered \o r) = Continued(lines, partial \o buffered, r)
    BY <1>1, <1>4, TakeWithoutFeed
  <2>3. <<>> \o r = r
    BY <1>1
  <2> QED BY <1>2, <2>1, <2>2, <2>3 DEF r
<1> QED BY <1>3, <1>4

LEMMA ReadingStep ==
    ASSUME Typed, Typed', Relayed, Reading, [Next]_vars
    PROVE  Reading'
<1>1. CASE UNCHANGED clientVars
  BY <1>1 DEF Reading, ReaderIsEmpty, LinesAreThePools, clientVars, peer, reader
<1>2. CASE \/ \E a : connect(env, a)
           \/ dial_fails \/ connection_reset \/ read_answer_eof
  <2>1. /\ UNCHANGED <<sent, wire, prefix, buffered, partial, lines>>
        /\ stage' \in {"dialing", "failed", "broken"} /\ stage # "ended"
        /\ stage' # "broken" => stage \in {"idle", "dialing", "tunnel"}
    BY <1>2 DEF connect, dial_fails, connection_reset, read_answer_eof, peer, reader
  <2> QED BY <2>1 DEF Reading, ReaderIsEmpty, LinesAreThePools
<1>3. CASE dial_succeeds
  <2>1. sent' \in Seq(Byte) /\ wire' \in Seq(Byte)
    BY DEF Typed
  <2>2. stage' \in {"tunnel", "open"} /\ ReaderIsEmpty'
    BY <1>3 DEF dial_succeeds, Reading, ReaderIsEmpty, reader
  <2>3. LinesAreThePools'
    <3>1. IsPrefix(<<>>, Split(sent').whole)
      BY <2>1, NoLinesYet
    <3> QED BY <2>2, <3>1 DEF LinesAreThePools, ReaderIsEmpty
  <2>4. stage' = "open" => wire' = sent'
    BY <1>3 DEF dial_succeeds
  <2>5. ASSUME stage' = "open"
        PROVE  Continued(lines, partial, buffered \o (prefix \o wire))' = Split(sent)'
    <3>1. <<>> \o (<<>> \o wire') = sent'
      BY <2>1, <2>4, <2>5, ReadingShifts
    <3> QED BY <2>2, <3>1, SplitIsContinued DEF ReaderIsEmpty
  <2> QED BY <2>2, <2>3, <2>5 DEF Reading
<1>4. ASSUME NEW n \in 1..Len(wire), read_answer(n) PROVE Reading'
  <2> DEFINE got == buf \o SubSeq(wire, 1, n)
             rest == SubSeq(wire, n + 1, Len(wire))
  <2>1. got \in Seq(Byte) /\ rest \in Seq(Byte) /\ got \o rest = buf \o wire
    BY ReadAnswerKeeps
  <2>2. /\ stage = "tunnel" /\ wire' = rest
        /\ UNCHANGED <<sent, buffered, partial, lines>>
        /\ \/ /\ ends_header(got) /\ Status(got) = "200"
              /\ stage' = "open" /\ prefix' = remainder_of(got)
           \/ stage' \in {"tunnel", "failed"} /\ prefix' = prefix
    BY <1>4 DEF read_answer, peer, Status
  <2>3. got \o rest = Served /\ answer \in Answers /\ ReaderIsEmpty
    BY <2>1, <2>2 DEF Relayed, Reading
  <2> HIDE DEF got, rest
  <2>4. LinesAreThePools'
    BY <2>2 DEF Reading, LinesAreThePools
  <2>5. CASE /\ ends_header(got) /\ Status(got) = "200"
             /\ stage' = "open" /\ prefix' = remainder_of(got)
    <3>1. prefix' \o wire' = sent /\ sent \in Seq(Byte)
      BY <2>1, <2>2, <2>3, <2>5, RemainderIsThePools DEF Typed
    <3>2. buffered' \o (prefix' \o wire') = sent'
      BY <2>2, <2>3, <3>1 DEF ReaderIsEmpty
    <3>3. Continued(lines, partial, buffered \o (prefix \o wire))' = Split(sent)'
      BY <2>2, <2>3, <3>2, SplitIsContinued DEF ReaderIsEmpty
    <3> QED BY <2>4, <2>5, <3>3 DEF Reading
  <2>6. CASE stage' \in {"tunnel", "failed"} /\ prefix' = prefix
    BY <2>2, <2>3, <2>4, <2>6 DEF Reading, ReaderIsEmpty
  <2> QED BY <2>2, <2>5, <2>6
<1>5. CASE \/ fill_from_prefix
           \/ \E n \in 1..Len(wire) : n <= BufCap /\ fill_from_socket(n)
           \/ take_line
  <2>1. stage = "open" /\ stage' = "open" /\ sent' = sent
    BY <1>5 DEF fill_from_prefix, fill_from_socket, take_line, peer
  <2>2. Continued(lines', partial', buffered' \o (prefix' \o wire')) =
            Continued(lines, partial, buffered \o (prefix \o wire))
    <3>1. CASE take_line
      BY <3>1, TakeLine
    <3>2. CASE ~take_line
      <4>1. UNCHANGED <<lines, partial>>
        BY <1>5, <3>2 DEF fill_from_prefix, fill_from_socket
      <4>2. buffered' \o (prefix' \o wire') = buffered \o (prefix \o wire)
        BY <1>5, <3>2, FillFromPrefix, FillFromSocket
      <4> QED BY <4>1, <4>2
    <3> QED BY <3>1, <3>2
  <2>3. Continued(lines, partial, buffered \o (prefix \o wire))' = Split(sent)'
    BY <2>1, <2>2 DEF Reading
  <2>4. LinesAreThePools'
    <3> DEFINE s == buffered' \o (prefix' \o wire')
    <3>1. s \in Seq(Byte) /\ lines' \in Seq(Seq(Byte)) /\ partial' \in Seq(Byte)
      BY DEF Typed
    <3>2. Continued(lines', partial', s) = Split(sent')
      BY <2>3
    <3> HIDE DEF s
    <3>3. IsPrefix(lines', Continued(lines', partial', s).whole)
      BY <3>1, ContinuedTypes
    <3> QED BY <2>1, <3>2, <3>3 DEF LinesAreThePools
  <2> QED BY <2>1, <2>3, <2>4 DEF Reading
<1>6. CASE read_eof
  <2>1. /\ stage = "open" /\ stage' = "ended" /\ sent' = sent
        /\ buffered = <<>> /\ prefix = <<>> /\ wire = <<>>
        /\ lines' = IF partial = <<>> THEN lines ELSE Append(lines, partial)
    BY <1>6 DEF read_eof, peer
  <2>2. <<>> \o (<<>> \o <<>>) = <<>>
    OBVIOUS
  <2>3. Split(sent) = Continued(lines, partial, <<>>)
    BY <2>1, <2>2 DEF Reading
  <2>4. Split(sent) = [whole |-> lines, rest |-> partial]
    BY <2>3, ContinuedTypes DEF Typed
  <2>5. lines' = LinesOf(sent)
    BY <2>1, <2>4 DEF LinesOf
  <2>6. LinesOf(sent') = LinesOf(sent)
    BY <2>1
  <2> QED BY <2>1, <2>5, <2>6 DEF Reading, LinesAreThePools
<1> QED BY <1>1, <1>2, <1>3, <1>4, <1>5, <1>6, ClientSteps DEF Dial, ReadAnswer, ReadLine

(* For every stream of a pool, every answer of a proxy and every way both   *)
(* are cut by the network, by the reads of the answer and by the buffer,   *)
(* the lines read are the lines sent.                                      *)
THEOREM LinesAreKept == Spec => []LinesAreThePools
<1>1. Init => Reading
  <2> SUFFICES ASSUME Init PROVE Reading
    OBVIOUS
  <2>1. stage = "idle" /\ ReaderIsEmpty /\ sent = <<>>
    BY DEF Init, ClientInit, ReaderIsEmpty
  <2>2. IsPrefix(<<>>, Split(<<>>).whole)
    BY NoLinesYet, <<>> \in Seq(Byte)
  <2> QED BY <2>1, <2>2 DEF Reading, ReaderIsEmpty, LinesAreThePools
<1>2. Typed /\ Typed' /\ Relayed /\ Reading /\ [Next]_vars => Reading'
  BY ReadingStep
<1>3. Reading => LinesAreThePools
  BY DEF Reading
<1> QED BY <1>1, <1>2, <1>3, TypedHolds, RelayedHolds, PTL DEF Spec
=============================================================================
