------------------------------- MODULE Client -------------------------------
(***************************************************************************)
(* One connection to a pool (network/mod.rs): directly, through SOCKS5 or  *)
(* through an HTTP CONNECT tunnel, and the lines that are read from it.    *)
(*                                                                         *)
(* The answer of an HTTP proxy is read in chunks until its header ends;    *)
(* what a chunk holds beyond that is already the pool's and is kept in     *)
(* front of the socket (PrebufferedStream).  Lines are then read through a *)
(* BufReader.  A byte is CR, LF or one of a few others; a status code      *)
(* stands for its status line.                                             *)
(***************************************************************************)
EXTENDS Proxy, FiniteSets, SequencesExt

CONSTANTS Answers,      \* what an HTTP proxy may answer to CONNECT
          PoolStreams,  \* what a pool may send
          Chunk,        \* bytes in a read of the answer (512)
          HeaderLimit,  \* the answer without end of header is cut off (64 K)
          BufCap        \* capacity of the BufReader (8 K)

VARIABLES
    stage,     \* "idle", "dialing", "tunnel", "open", "failed", "broken", "ended"
    addr,      \* the pool
    proxy,     \* a ProxyConfig, or None
    answer,    \* what the proxy answers
    sent,      \* what the pool sends
    wire,      \* bytes on their way, oldest first
    closes,    \* the peer closes after them
    buf,       \* connect_via_http_connect: the answer so far
    prefix,    \* PrebufferedStream: its bytes not yet read
    buffered,  \* BufReader: its bytes not yet taken
    partial,   \* next_line: the line so far
    lines      \* the lines returned

peer == <<answer, sent, closes>>

reader == <<prefix, buffered, partial, lines>>

clientVars == <<stage, addr, proxy, peer, wire, buf, reader>>

CRLF == <<"CR", "LF">>

Codes == {"200", "407"}

(* The positions at which `pattern' begins in s. *)
Matches(s, pattern) ==
    {i \in 1..(Len(s) - Len(pattern) + 1) :
        SubSeq(s, i, i + Len(pattern) - 1) = pattern}

Least(S) == CHOOSE i \in S : \A j \in S : i <= j

ends_header(s) == Matches(s, CRLF \o CRLF) # {}

(* find_double_crlf: the header is what comes before it. *)
header_of(s) == SubSeq(s, 1, Least(Matches(s, CRLF \o CRLF)) - 1)

(* What comes after the header of a grant is the pool's. *)
ASSUME ClientAssumption ==
    /\ Chunk \in Nat \ {0}
    /\ HeaderLimit \in Nat
    /\ BufCap \in Nat \ {0}
    /\ PoolStreams \subseteq Seq(STRING)
    /\ Answers \subseteq Seq(STRING)
    /\ \A a \in Answers :
          ends_header(a) /\ a[1] = "200" => Least(Matches(a, CRLF \o CRLF)) + 3 = Len(a)

(* Mutant: the end of the header is left in front of the pool's bytes. *)
remainder_with_crlf(s) == SubSeq(s, Least(Matches(s, CRLF \o CRLF)) + 2, Len(s))

remainder_of(s) == SubSeq(s, Least(Matches(s, CRLF \o CRLF)) + 4, Len(s))

(* The line before the first CRLF of the header; the empty line if the      *)
(* header has none.                                                        *)
first_status_line(header) ==
    IF Matches(header, CRLF) = {} THEN <<>>
    ELSE SubSeq(header, 1, Least(Matches(header, CRLF)) - 1)

(* Mutant: a status line without a code is taken for a success. *)
code_or_success(line) ==
    IF line # <<>> /\ line[1] \in Codes THEN line[1] ELSE "200"

(* parse_http_status_code, and 0 for a line that has none. *)
status_code(line) ==
    IF line # <<>> /\ line[1] \in Codes THEN line[1] ELSE "0"

-----------------------------------------------------------------------------
ClientInit ==
    /\ stage = "idle"
    /\ addr = None
    /\ proxy = None
    /\ answer = <<>>
    /\ sent = <<>>
    /\ wire = <<>>
    /\ closes = FALSE
    /\ buf = <<>>
    /\ prefix = <<>>
    /\ buffered = <<>>
    /\ partial = <<>>
    /\ lines = <<>>

ByTunnel == proxy # None /\ proxy.kind = "http"

(* connect_with_proxy_info, up to the dialling. *)
connect(env, a) ==
    /\ stage = "idle"
    /\ stage' = "dialing"
    /\ addr' = a
    /\ proxy' = detect_proxy_for(env, a)
    /\ UNCHANGED <<peer, wire, buf, reader>>

(* TcpStream::connect or the SOCKS5 handshake returns an error. *)
dial_fails ==
    /\ stage = "dialing"
    /\ stage' = "failed"
    /\ UNCHANGED <<addr, proxy, peer, wire, buf, reader>>

(* The pool is reached, or the HTTP proxy, which is sent the request. *)
dial_succeeds ==
    /\ stage = "dialing"
    /\ sent' \in PoolStreams
    /\ closes' \in BOOLEAN
    /\ IF ByTunnel
       THEN /\ stage' = "tunnel"
            /\ answer' \in Answers
            /\ wire' = IF ends_header(answer') /\ answer'[1] = "200"
                       THEN answer' \o sent' ELSE answer'
       ELSE /\ stage' = "open"
            /\ wire' = sent'
            /\ UNCHANGED answer
    /\ UNCHANGED <<addr, proxy, buf, reader>>

(* A read of n bytes of the answer. *)
read_answer(n) ==
    LET got == buf \o SubSeq(wire, 1, n)
        accepted == /\ ends_header(got)
                    /\ status_code(first_status_line(header_of(got))) = "200"
    IN  /\ stage = "tunnel"
        /\ wire' = SubSeq(wire, n + 1, Len(wire))
        /\ buf' = got
        /\ \/ /\ accepted
              /\ stage' = "open"
              /\ prefix' = remainder_of(got)
           \/ /\ ends_header(got) \/ Len(got) > HeaderLimit
              /\ ~accepted
              /\ stage' = "failed"
              /\ UNCHANGED prefix
           \/ /\ ~ends_header(got)
              /\ Len(got) <= HeaderLimit
              /\ UNCHANGED <<stage, prefix>>
        /\ UNCHANGED <<addr, proxy, peer, buffered, partial, lines>>

(* The proxy closes before the end of its header. *)
read_answer_eof ==
    /\ stage = "tunnel"
    /\ wire = <<>>
    /\ closes
    /\ stage' = "failed"
    /\ UNCHANGED <<addr, proxy, peer, wire, buf, reader>>

-----------------------------------------------------------------------------
(* next_message. *)

(* poll_read serves the prefix first, as much of it as there is room for. *)
fill_from_prefix ==
    LET n == IF Len(prefix) < BufCap THEN Len(prefix) ELSE BufCap
    IN  /\ stage = "open"
        /\ buffered = <<>>
        /\ prefix # <<>>
        /\ buffered' = SubSeq(prefix, 1, n)
        /\ prefix' = SubSeq(prefix, n + 1, Len(prefix))
        /\ UNCHANGED <<stage, addr, proxy, peer, wire, buf, partial, lines>>

fill_from_socket(n) ==
    /\ stage = "open"
    /\ buffered = <<>>
    /\ prefix = <<>>
    /\ buffered' = SubSeq(wire, 1, n)
    /\ wire' = SubSeq(wire, n + 1, Len(wire))
    /\ UNCHANGED <<stage, addr, proxy, peer, buf, prefix, partial, lines>>

WithoutCR(line) ==
    IF line # <<>> /\ Last(line) = "CR" THEN Front(line) ELSE line

(* The buffer is taken up to a line feed, or all of it. *)
take_line ==
    LET feeds == Matches(buffered, <<"LF">>)
        line == partial \o SubSeq(buffered, 1, Least(feeds) - 1)
    IN  /\ stage = "open"
        /\ buffered # <<>>
        /\ IF feeds # {}
           THEN /\ lines' = Append(lines, WithoutCR(line))
                /\ partial' = <<>>
                /\ buffered' = SubSeq(buffered, Least(feeds) + 1, Len(buffered))
           ELSE /\ partial' = partial \o buffered
                /\ buffered' = <<>>
                /\ UNCHANGED lines
        /\ UNCHANGED <<stage, addr, proxy, peer, wire, buf, prefix>>

(* End of file: a line without line feed is still returned, then None. *)
read_eof ==
    /\ stage = "open"
    /\ buffered = <<>>
    /\ prefix = <<>>
    /\ wire = <<>>
    /\ closes
    /\ stage' = "ended"
    /\ lines' = IF partial = <<>> THEN lines ELSE Append(lines, partial)
    /\ partial' = <<>>
    /\ UNCHANGED <<addr, proxy, peer, wire, buf, prefix, buffered>>

(* The connection is reset: a read returns an error. *)
connection_reset ==
    /\ stage \in {"tunnel", "open"}
    /\ stage' = "broken"
    /\ UNCHANGED <<addr, proxy, peer, wire, buf, reader>>

-----------------------------------------------------------------------------
Dial == dial_fails \/ dial_succeeds

ReadAnswer ==
    \/ \E n \in 1..Len(wire) : n <= Chunk /\ read_answer(n)
    \/ read_answer_eof

ReadLine ==
    \/ fill_from_prefix
    \/ \E n \in 1..Len(wire) : n <= BufCap /\ fill_from_socket(n)
    \/ take_line
    \/ read_eof

ClientNext == Dial \/ ReadAnswer \/ ReadLine \/ connection_reset

-----------------------------------------------------------------------------
(* Lines as the pool means them: up to a line feed, without a carriage      *)
(* return before it, and what is left at the end.                          *)
feed(acc, b) ==
    IF b = "LF"
    THEN [whole |-> Append(acc.whole, WithoutCR(acc.rest)), rest |-> <<>>]
    ELSE [acc EXCEPT !.rest = Append(@, b)]

Split(bytes) == FoldLeft(feed, [whole |-> <<>>, rest |-> <<>>], bytes)

LinesOf(bytes) ==
    LET s == Split(bytes)
    IN  IF s.rest = <<>> THEN s.whole ELSE Append(s.whole, s.rest)

(***************************************************************************)
(* The lines read are the lines the pool sent, in order, none lost, split  *)
(* or doubled, however the bytes are cut by the network, by the reads of   *)
(* the answer and by the buffer (network/mod.rs: "Read response headers    *)
(* without losing any extra bytes.").                                      *)
(***************************************************************************)
LinesAreThePools ==
    IF stage = "ended" THEN lines = LinesOf(sent)
                       ELSE IsPrefix(lines, Split(sent).whole)

(* A grant has a field after its status line.  Without one there is no CRLF  *)
(* before the end of the header, and first_status_line finds no line.      *)
GrantsHaveFields ==
    \A a \in Answers : ends_header(a) /\ a[1] = "200" => Matches(header_of(a), CRLF) # {}

(***************************************************************************)
(* A tunnel is used if and only if the proxy granted it: the pool's lines  *)
(* are read after a 200, and an HTTP proxy that answers 200, within the    *)
(* limit, is never given up (README.md: "HTTP proxy (uses HTTP CONNECT     *)
(* tunnel)").                                                              *)
(***************************************************************************)
Granted ==
    /\ ends_header(answer)
    /\ answer[1] = "200"
    /\ Len(answer) <= HeaderLimit

TunnelFollowsAnswer ==
    /\ (stage \in {"open", "ended"} /\ ByTunnel) => answer[1] = "200"
    /\ (stage = "failed" /\ buf # <<>>) => ~Granted
=============================================================================
