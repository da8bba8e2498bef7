------------------------------- MODULE Proxy -------------------------------
(***************************************************************************)
(* Which proxy a connection goes through (network/proxy.rs): a function of *)
(* the environment variables and of the address of the pool.  The system   *)
(* proxy of macOS, which is looked at last, is compiled for macOS only and *)
(* left out.                                                               *)
(*                                                                         *)
(* A value is a URL, of which scheme and port are kept, Off or Garbage.    *)
(* The url crate does not report a port that is the default of the scheme. *)
(***************************************************************************)
EXTENDS EnvValues, Integers, Sequences

CONSTANT Loopback  \* addresses: localhost, ::1 and 127.*

(* Groups of variables; a group has the values of its names in order. *)
Standard == <<"ALL_PROXY", "SOCKS_PROXY", "HTTP_PROXY">>

Kind(scheme) ==
    CASE scheme \in {"socks", "socks5", "socks5h"} -> "socks5"
      [] scheme \in {"http", "https"}              -> "http"
      [] OTHER                                     -> None

DefaultPort(scheme) ==
    CASE scheme = "http" -> 80 [] scheme = "https" -> 443 [] OTHER -> None

(* parse_proxy_url succeeds.  "off" without a scheme is read as a host name. *)
parses(v) ==
    \/ v = Off
    \/ v \notin {Unset, Garbage, Off} /\ Kind(v.scheme) # None

parse_proxy_url(v, source) ==
    IF v = Off THEN [kind |-> "http", port |-> 8080, source |-> source]
    ELSE [kind   |-> Kind(v.scheme),
          port   |-> IF v.port \notin {Unset, DefaultPort(v.scheme)} THEN v.port
                     ELSE IF Kind(v.scheme) = "socks5" THEN 1080 ELSE 8080,
          source |-> source]

ProxyValue == {Unset, Garbage, Off} \cup [scheme : STRING, port : Nat \cup {Unset}]

ProxySources == {"MINING_PROXY"} \cup {Standard[i] : i \in DOMAIN Standard}

ProxyConfig == [kind : {"socks5", "http"}, port : Nat, source : ProxySources]

ASSUME ProxyAssumption == None \notin ProxyConfig

is_loopback_target(addr) == addr \in Loopback

(* The first standard group whose value parses. *)
detect_standard(env) ==
    LET usable == {i \in DOMAIN Standard : parses(env_first(env[Standard[i]]))}
        first == CHOOSE i \in usable : \A j \in usable : i <= j
    IN  IF usable = {} THEN None
        ELSE parse_proxy_url(env_first(env[Standard[first]]), Standard[first])

(* Mutant: loopback targets are not looked for. *)
detect_for_any(env, addr) ==
    IF env.MINING_PROXY = Off THEN None
    ELSE IF parses(env.MINING_PROXY)
         THEN parse_proxy_url(env.MINING_PROXY, "MINING_PROXY")
         ELSE detect_standard(env)

(* A MINING_PROXY that does not parse is passed over like one not set. *)
detect_proxy_for(env, addr) ==
    CASE env.MINING_PROXY = Off   -> None
      [] /\ env.MINING_PROXY # Off
         /\ parses(env.MINING_PROXY) -> parse_proxy_url(env.MINING_PROXY, "MINING_PROXY")
      [] /\ ~parses(env.MINING_PROXY)
         /\ is_loopback_target(addr) -> None
      [] OTHER                       -> detect_standard(env)
=============================================================================
