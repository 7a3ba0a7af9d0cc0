------------------------------ MODULE HostGuard ------------------------------
(***************************************************************************)
(* The router-wide check of the Host header, src/src/host_guard.rs, layered *)
(* over every route by build_router of src/src/server.rs.                  *)
(*                                                                         *)
(* A header value is a sequence of tokens: brackets, colons and the runs   *)
(* of characters between them.  Clients name a host, with or without a     *)
(* port, which HTTP lets be empty after its colon, or they send no usable  *)
(* header.  HTTP wants IPv6 literals in brackets; clients may leave these  *)
(* out.  A host is the sequence of tokens that spells it, without them.    *)
(***************************************************************************)
EXTENDS Naturals, SequencesExt

CONSTANTS
  Names,       \* host names and IPv4 literals, each one token
  V6,          \* IPv6 literals: sequences of groups and colons
  Ports,       \* port numbers, each one token
  Digits,      \* the tokens made of digits only
  Localhost,   \* the token "localhost"
  Loopback,    \* the hosts that parse as a loopback address
  Lower(_),    \* a token in lower case
  Allowed,     \* hosts that --allowed-hosts may list
  NoHeader     \* no Host header, or one that is not a string

Hosts == {<<name>> : name \in Names} \cup V6

\* The optional ":port" of a header, whose digits may be missing.
NoPort == <<>>
EmptyPort == <<":">>
PortSuffixes == {NoPort, EmptyPort} \cup {<<":", port>> : port \in Ports}

\* eq_ignore_ascii_case
SameHost(g, h) ==
  Len(g) = Len(h) /\ \A i \in 1 .. Len(g) : Lower(g[i]) = Lower(h[i])

Requests ==
  {req \in [host : Hosts, brackets : BOOLEAN, port : PortSuffixes] :
     req.brackets => req.host \in V6}

ASSUME HostGuardAssumption ==
  /\ V6 \subseteq Seq(STRING)
  /\ Ports \subseteq Digits
  /\ Names \cap (Digits \cup {":", "[", "]"}) = {}
  /\ Loopback \subseteq Hosts
  /\ \A h \in V6 : \A i \in 1 .. Len(h) : h[i] \notin {"[", "]"}
  /\ ":" \notin Digits
  /\ \A h \in Loopback \cup Allowed : \A name \in Names : ~SameHost(h, <<name, ":">>)
  /\ NoHeader \notin Requests

VARIABLES
  allowed_hosts, \* AppState.allowed_hosts
  request,       \* the last request
  verdict        \* whether it reached its route

vars == <<allowed_hosts, request, verdict>>

Init ==
  /\ allowed_hosts \in SUBSET Allowed
  /\ request = NoHeader
  /\ verdict = "none"

\* The Host header a client sends.
Header(req) ==
  (IF req.brackets THEN <<"[">> \o req.host \o <<"]">> ELSE req.host) \o req.port

-----------------------------------------------------------------------------
Positions(token, seq) == {i \in 1 .. Len(seq) : seq[i] = token}

\* Faulty variant: brackets are not treated apart.
StripPortOnly(header) ==
  LET colons == Positions(":", header)
      last == Max(colons)
  IN  IF /\ colons # {} /\ last < Len(header)
         /\ \A i \in last + 1 .. Len(header) : header[i] \in Digits
      THEN SubSeq(header, 1, last - 1)
      ELSE header

\* strip_port: what is inside leading brackets; else what precedes the last
\* colon, if only digits, at least one, follow it; else all of it.
StripPort(header) ==
  LET rest == Tail(header)
      closing == Positions("]", rest)
      colons == Positions(":", header)
      last == Max(colons)
  IN  IF header[1] = "["
      THEN IF closing = {} THEN rest ELSE SubSeq(rest, 1, Min(closing) - 1)
      ELSE IF /\ colons # {} /\ last < Len(header)
              /\ \A i \in last + 1 .. Len(header) : header[i] \in Digits
           THEN SubSeq(header, 1, last - 1)
           ELSE header

IsLoopbackHost(h) == SameHost(h, <<Localhost>>) \/ h \in Loopback

HostIsAllowed(header) ==
  LET h == StripPort(header)
  IN  IsLoopbackHost(h) \/ \E allowed \in allowed_hosts : SameHost(allowed, h)

\* enforce_allowed_host: the request is passed on, or refused before any
\* handler runs; so is one without a usable header.
EnforceAllowedHost ==
  \/ \E req \in Requests :
       /\ request' = req
       /\ verdict' = IF HostIsAllowed(Header(req)) THEN "served" ELSE "421"
       /\ UNCHANGED allowed_hosts
  \/ /\ request' = NoHeader
     /\ verdict' = "421"
     /\ UNCHANGED allowed_hosts

Next == EnforceAllowedHost

Spec == Init /\ [][Next]_vars

-----------------------------------------------------------------------------
\* The hosts the broker answers for.
Permitted ==
  {h \in Hosts : \/ h \in Loopback \/ SameHost(h, <<Localhost>>)
                 \/ \E allowed \in allowed_hosts : SameHost(allowed, h)}

\* HTTP's syntax of the header: an IPv6 literal stands in brackets.
Conformant(req) == req.host \in V6 => req.brackets

\* A conformant request is served exactly if it addresses a loopback host or
\* one that was allowed, in whatever case and with whatever port the header
\* spells it, except that a colon without a port after a name, which
\* strip_port leaves in place, is refused; so is a request that names no host.
ServedIffPermitted ==
  verdict # "none" =>
    IF request = NoHeader THEN verdict = "421"
    ELSE Conformant(request) =>
           (verdict = "served" <=> /\ request.host \in Permitted
                                   /\ request.port = EmptyPort => request.brackets)
=============================================================================
