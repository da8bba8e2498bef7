----------------------------- MODULE MCStartup -----------------------------
(* Instances of Startup for TLC. *)
EXTENDS Startup

CONSTANTS home,      \* a pool on this host
          far,       \* a pool elsewhere
          presetA, presetB, solo

LocalPools == {home}

Algorithms == {"sha256d", "scrypt"}

SomePresets ==
    [a |-> [addr |-> presetA, coin |-> "btc", weight |-> 1, algo |-> "sha256d"],
     b |-> [addr |-> presetB, coin |-> "ltc", weight |-> 1, algo |-> Unset]]

Plain ==
    [LIST_PRESETS |-> Unset, POOLS |-> Unset, PRESET |-> Unset, PRESET_FILE |-> Unset,
     POOL |-> far, ALGO |-> Unset, STRATEGY |-> Unset,
     FAILURES_BEFORE_COOLDOWN |-> Unset, COOLDOWN_SECS |-> Unset,
     MAX_DELAY_MS |-> Unset, RECONNECT |-> Unset, MINING_PROXY |-> Unset,
     ALL_PROXY |-> <<Unset>>, SOCKS_PROXY |-> <<Unset>>, HTTP_PROXY |-> <<Unset>>]

(* Numbers and words that are missing, wrong, zero or right. *)
Numbers == {Unset, Garbage, 0, 2}

Policies ==
    {[Plain EXCEPT !.FAILURES_BEFORE_COOLDOWN = n, !.COOLDOWN_SECS = n,
                   !.MAX_DELAY_MS = n, !.STRATEGY = s, !.RECONNECT = b] :
        n \in Numbers, s \in {Unset, Garbage, "weighted"}, b \in {Unset, "off"}}

Entry(a, coin, w, algo) == [addr |-> a, coin |-> coin, weight |-> w, algo |-> algo]

(* No entry, one without an address, one that cannot be mined for. *)
PoolLists ==
    {Unset, <<>>, <<Entry(Unset, Unset, 0, Unset)>>,
     <<Entry(home, "ltc", 0, Unset), Entry(Unset, Unset, Unset, Unset),
       Entry(far, Unset, 2, "x11")>>,
     <<Entry(far, "btc", Garbage, "x11")>>}

Files ==
    {Unset, Garbage, <<>>,
     <<[addr |-> home, coin |-> "doge", weight |-> 0, algo |-> Unset],
       [addr |-> far, coin |-> "abc", weight |-> 3, algo |-> "x11"]>>}

Sources ==
    {[Plain EXCEPT !.POOLS = p, !.PRESET = n, !.PRESET_FILE = f, !.ALGO = a, !.POOL = h] :
        p \in PoolLists, n \in {Unset, <<"b", "none", "a">>, <<"none">>},
        f \in Files, a \in {Unset, "x11"}, h \in {Unset, far}}

Url(scheme, port) == [scheme |-> scheme, port |-> port]

ProxyValues == {Unset, Garbage, Off, Url("http", 7890), Url("socks5", Unset), Url("ftp", 21)}

Proxies ==
    {[Plain EXCEPT !.MINING_PROXY = m, !.ALL_PROXY = <<a, b>>, !.HTTP_PROXY = <<h>>,
                   !.POOL = p] :
        m \in ProxyValues, a \in {Unset, Garbage, Url("socks5", Unset)},
        b \in {Unset, Url("ftp", 21), Url("https", 443)},
        h \in {Unset, Url("http", 8080)}, p \in {home, far}}

AllEnvironments ==
    Policies \cup Sources \cup Proxies \cup {[Plain EXCEPT !.LIST_PRESETS = "1"]}

ThroughProxy == {[Plain EXCEPT !.MINING_PROXY = Url("http", 7890)]}

(* Two lines, one of them empty, and what is left of a third. *)
SomeStreams == {<<>>, <<"a", "CR", "LF", "LF", "b">>, <<"CR", "LF", "a", "LF">>}

End == CRLF \o CRLF

(* A grant with a field, refusals, no status, and no end, short and long. *)
SomeAnswers ==
    {<<"200", "CR", "LF", "h">> \o End, <<"407", "CR", "LF", "h">> \o End, <<"407">> \o End,
     <<"h", "CR", "LF", "h">> \o End, <<>>, <<"200", "CR">>,
     <<"h", "h", "h", "h", "h", "h", "h", "h", "h", "h">>}

(* A grant without fields. *)
BareAnswer == {<<"200">> \o End}
=============================================================================
