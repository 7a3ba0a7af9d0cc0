--------------------------- MODULE HostGuardProofs ---------------------------
(***************************************************************************)
(* Proofs about the Host header check, for every set of hosts, ports and   *)
(* allowed hosts.                                                          *)
(***************************************************************************)
EXTENDS HostGuard, SequenceTheorems, TLAPS

\* Max and Min of a set of positions are its last and its first member.
LEMMA MaxIsTheLast ==
  ASSUME NEW S \in SUBSET Int, NEW n \in S, \A m \in S : n >= m
  PROVE  Max(S) = n
<1>1. Max(S) \in S /\ \A m \in S : Max(S) >= m
  <2> DEFINE P(x) == \A y \in S : x >= y
  <2>1. \E x \in S : P(x)
    OBVIOUS
  <2>2. (CHOOSE x \in S : P(x)) \in S /\ P(CHOOSE x \in S : P(x))
    <3> HIDE DEF P
    <3> QED
      BY <2>1
  <2> QED
    BY <2>2 DEF Max
<1>2. \A x \in S : x >= n /\ n >= x => x = n
  OBVIOUS
<1> QED
  BY <1>1, <1>2

\* The lower end of a set of integers is its minimum.
LEMMA MinIsTheFirst ==
  ASSUME NEW S \in SUBSET Int, NEW n \in S, \A m \in S : n <= m
  PROVE  Min(S) = n
<1>1. Min(S) \in S /\ \A m \in S : Min(S) <= m
  <2> DEFINE P(x) == \A y \in S : x =< y
  <2>1. \E x \in S : P(x)
    OBVIOUS
  <2>2. (CHOOSE x \in S : P(x)) \in S /\ P(CHOOSE x \in S : P(x))
    <3> HIDE DEF P
    <3> QED
      BY <2>1
  <2> QED
    BY <2>2 DEF Min
<1>2. \A x \in S : x <= n /\ n <= x => x = n
  OBVIOUS
<1> QED
  BY <1>1, <1>2

\* Headers of one, two and three tokens.
LEMMA OneToken ==
  ASSUME NEW T, NEW a \in T
  PROVE  <<a>> \in Seq(T) /\ Len(<<a>>) = 1 /\ <<a>>[1] = a
<1> QED
  OBVIOUS

\* The same for a header of two tokens.
LEMMA TwoTokens ==
  ASSUME NEW T, NEW a \in T, NEW b \in T
  PROVE  /\ <<a, b>> \in Seq(T) /\ Len(<<a, b>>) = 2
         /\ <<a, b>>[1] = a /\ <<a, b>>[2] = b
<1> QED
  OBVIOUS

\* How a header of three tokens is put together and cut.
LEMMA ThreeTokens ==
  \A T : \A a, b, c \in T :
    /\ <<a>> \o <<b, c>> = <<a, b, c>>
    /\ SubSeq(<<a, b, c>>, 1, 1) = <<a>>
<1> SUFFICES ASSUME NEW T, NEW a \in T, NEW b \in T, NEW c \in T
             PROVE  /\ <<a>> \o <<b, c>> = <<a, b, c>>
                    /\ SubSeq(<<a, b, c>>, 1, 1) = <<a>>
  OBVIOUS
<1> DEFINE cat == <<a>> \o <<b, c>>
           sub == SubSeq(<<a, b, c>>, 1, 1)
<1>1. <<a>> \in Seq(T) /\ Len(<<a>>) = 1 /\ <<a>>[1] = a
  BY OneToken
<1>2. cat \in Seq(T) /\ Len(cat) = 3
  BY <1>1, TwoTokens, ConcatProperties
<1>3. cat[1] = a
  OBVIOUS
<1>4. cat[2] = b
  OBVIOUS
<1>5. cat[3] = c
  OBVIOUS
<1>6. <<a, b, c>> \in Seq(T) /\ Len(<<a, b, c>>) = 3
  OBVIOUS
<1>7. sub \in Seq(T) /\ Len(sub) = 1 /\ sub[1] = a
  BY <1>6
<1> HIDE DEF cat, sub
<1>8. \A i \in 1 .. 3 : cat[i] = <<a, b, c>>[i]
  BY <1>3, <1>4, <1>5
<1>9. cat = <<a, b, c>>
  BY <1>2, <1>6, <1>8, SeqEqual
<1>10. sub = <<a>>
  BY <1>1, <1>7, SeqEqual
<1> QED
  BY <1>9, <1>10 DEF cat, sub

\* u is s followed by t, token by token.
Joined(u, s, t) ==
  /\ u = s \o t
  /\ Len(u) = Len(s) + Len(t)
  /\ \A i \in 1 .. Len(s) + Len(t) :
       u[i] = IF i <= Len(s) THEN s[i] ELSE t[i - Len(s)]

\* Any two headers can be joined.
LEMMA Concatenated ==
  \A T : \A s, t \in Seq(T) : \E u \in Seq(T) : Joined(u, s, t)
<1> SUFFICES ASSUME NEW T, NEW s \in Seq(T), NEW t \in Seq(T)
             PROVE  s \o t \in Seq(T) /\ Joined(s \o t, s, t)
  BY Zenon
<1> QED
  BY ConcatProperties DEF Joined

\* A header that starts with a bracketed host: what follows the opening
\* bracket is the host, then the closing bracket.
LEMMA Bracketed ==
  ASSUME NEW T, NEW a \in Seq(T), NEW b \in Seq(T), Len(a) = 1, Len(b) = 1,
         NEW h \in Seq(T), NEW port \in Seq(T)
  PROVE  LET header == (a \o h \o b) \o port
             rest == Tail(header)
         IN  /\ header[1] = a[1]
             /\ rest \in Seq(T) /\ Len(rest) = Len(h) + 1 + Len(port)
             /\ rest[Len(h) + 1] = b[1]
             /\ \A i \in 1 .. Len(h) : rest[i] = h[i]
             /\ SubSeq(rest, 1, Len(h)) = h
<1>1. Len(h) \in Nat /\ Len(port) \in Nat
  BY LenProperties
<1>2. PICK inner \in Seq(T) : Joined(inner, h, b)
  BY Concatenated, Zenon
<1>3. PICK rest \in Seq(T) : Joined(rest, inner, port)
  BY Concatenated, Zenon
<1>4. /\ Len(rest) = Len(h) + 1 + Len(port)
      /\ rest[Len(h) + 1] = b[1]
      /\ \A i \in 1 .. Len(h) : rest[i] = h[i]
  BY <1>1, <1>2, <1>3 DEF Joined
<1>5. Len(rest) \in Nat
  BY <1>1, <1>4
<1>6. PICK header \in Seq(T) : Joined(header, a, rest)
  BY Concatenated, Zenon
<1>7. (a \o h \o b) \o port = header
  <2>1. (a \o h) \o b = a \o inner
    BY <1>2 DEF Joined
  <2>2. (a \o inner) \o port = a \o rest
    BY <1>3 DEF Joined
  <2> QED
    BY <1>6, <2>1, <2>2 DEF Joined
<1>8. header # <<>>
  BY <1>5, <1>6, EmptySeq DEF Joined
<1>9. /\ Tail(header) \in Seq(T) /\ Len(Tail(header)) = Len(rest)
      /\ \A i \in 1 .. Len(rest) : Tail(header)[i] = rest[i]
  BY <1>5, <1>6, <1>8, HeadTailProperties DEF Joined
<1>10. Tail(header) = rest
  BY <1>9, SeqEqual
<1>11. SubSeq(rest, 1, Len(h)) = h
  <2>1. \A i \in 1 .. Len(h) : h[i] \in T
    BY ElementOfSeq
  <2>2. /\ SubSeq(rest, 1, Len(h)) \in Seq(T)
        /\ Len(SubSeq(rest, 1, Len(h))) = Len(h)
        /\ \A i \in 1 .. Len(h) : SubSeq(rest, 1, Len(h))[i] = rest[i]
    BY <1>1, <1>4, <2>1
  <2> QED
    BY <1>1, <1>4, <2>2, SeqEqual
<1> QED
  <2>1. header[1] = a[1]
    BY <1>5, <1>6 DEF Joined
  <2> QED
    BY <1>4, <1>10, <1>11, <1>7, <2>1

\* What the tokens of headers are taken from.
Token == Names \cup Digits \cup STRING \cup {":", "[", "]"}

\* A name without a port has no colon and is taken whole.
LEMMA StripPlainName ==
  ASSUME NEW name \in Names
  PROVE  StripPort(<<name>>) = <<name>>
<1>1. name # "[" /\ name # ":"
  BY HostGuardAssumption
<1>2. Positions(":", <<name>>) = {}
  BY <1>1 DEF Positions
<1> QED
  BY <1>1, <1>2 DEF StripPort

\* A colon that no port follows stays.
LEMMA StripNameColon ==
  ASSUME NEW name \in Names
  PROVE  StripPort(<<name, ":">>) = <<name, ":">>
<1> DEFINE header == <<name, ":">>
<1>1. name # "[" /\ name # ":"
  BY HostGuardAssumption
<1>2. Len(header) = 2 /\ header[1] = name /\ header[2] = ":"
  OBVIOUS
<1> HIDE DEF header
<1>3. Positions(":", header) = {2}
  BY <1>1, <1>2 DEF Positions
<1>4. Max(Positions(":", header)) = 2
  BY <1>3, MaxIsTheLast
<1>5. StripPort(header) = header
  BY <1>1, <1>2, <1>3, <1>4 DEF StripPort
<1> QED
  BY <1>5 DEF header

\* The port after a name is cut off with its colon.
LEMMA StripNamePort ==
  ASSUME NEW name \in Names, NEW port \in Ports
  PROVE  StripPort(<<name, ":", port>>) = <<name>>
<1> DEFINE header == <<name, ":", port>>
<1>1. name # "[" /\ name # ":" /\ port \in Digits /\ port # ":"
  BY HostGuardAssumption
<1>2. name \in Token /\ port \in Token /\ ":" \in Token
  BY <1>1 DEF Token
<1>3. /\ Len(header) = 3
      /\ header[1] = name /\ header[2] = ":" /\ header[3] = port
      /\ SubSeq(header, 1, 1) = <<name>>
  <2>1. SubSeq(header, 1, 1) = <<name>>
    BY <1>2, ThreeTokens, Zenon
  <2>2. /\ Len(header) = 3
        /\ header[1] = name /\ header[2] = ":" /\ header[3] = port
    OBVIOUS
  <2> QED
    BY <2>1, <2>2
<1> HIDE DEF header
<1>4. Positions(":", header) = {2}
  BY <1>1, <1>3 DEF Positions
<1>5. Max(Positions(":", header)) = 2
  BY <1>4, MaxIsTheLast
<1>6. StripPort(header) = SubSeq(header, 1, 1)
  <2>1. \A i \in 2 + 1 .. Len(header) : header[i] \in Digits
    BY <1>1, <1>3
  <2>2. SubSeq(header, 1, 2 - 1) = SubSeq(header, 1, 1)
    OBVIOUS
  <2> QED
    BY <1>1, <1>3, <1>4, <1>5, <2>1, <2>2 DEF StripPort
<1> QED
  BY <1>3, <1>6 DEF header

\* What stands inside the brackets comes out, whatever follows them.
LEMMA StripBrackets ==
  ASSUME NEW h \in V6, NEW port \in PortSuffixes
  PROVE  StripPort((<<"[">> \o h \o <<"]">>) \o port) = h
<1> DEFINE header == (<<"[">> \o h \o <<"]">>) \o port
           rest == Tail(header)
<1>1. h \in Seq(Token) /\ \A i \in 1 .. Len(h) : h[i] # "]"
  <2>1. h \in Seq(STRING) /\ \A i \in 1 .. Len(h) : h[i] # "]"
    BY HostGuardAssumption
  <2>2. STRING \subseteq Token
    BY DEF Token
  <2> QED
    BY <2>1, <2>2, SeqMonotonic
<1>2. port \in Seq(Token)
  <2>1. Ports \subseteq Token /\ ":" \in Token
    BY HostGuardAssumption DEF Token
  <2>2. <<>> \in Seq(Token)
    BY EmptySeq
  <2>3. \A p \in Ports : <<":", p>> \in Seq(Token)
    BY <2>1, TwoTokens
  <2>4. <<":">> \in Seq(Token)
    BY <2>1, OneToken
  <2> QED
    BY <2>2, <2>3, <2>4 DEF PortSuffixes, NoPort, EmptyPort
<1>3. /\ header[1] = "["
      /\ rest \in Seq(Token) /\ Len(rest) = Len(h) + 1 + Len(port)
      /\ rest[Len(h) + 1] = "]"
      /\ \A i \in 1 .. Len(h) : rest[i] = h[i]
      /\ SubSeq(rest, 1, Len(h)) = h
  <2>1. "[" \in Token /\ "]" \in Token
    BY DEF Token
  <2>2. /\ <<"[">> \in Seq(Token) /\ Len(<<"[">>) = 1 /\ <<"[">>[1] = "["
        /\ <<"]">> \in Seq(Token) /\ Len(<<"]">>) = 1 /\ <<"]">>[1] = "]"
    BY <2>1, OneToken
  <2> QED
    BY <1>1, <1>2, <2>2, Bracketed
<1>4. Len(h) \in Nat /\ Len(port) \in Nat
  BY <1>1, <1>2, LenProperties
<1> HIDE DEF header
<1>5. Len(h) + 1 \in Positions("]", rest)
  BY <1>3, <1>4 DEF Positions
<1>6. \A i \in Positions("]", rest) : Len(h) + 1 <= i
  BY <1>1, <1>3, <1>4 DEF Positions
<1>7. Min(Positions("]", rest)) = Len(h) + 1
  <2>1. Positions("]", rest) \in SUBSET Int
    BY <1>3, <1>4 DEF Positions
  <2> QED
    BY <1>5, <1>6, <2>1, MinIsTheFirst
<1>8. StripPort(header) = SubSeq(rest, 1, Len(h))
  <2>1. Min(Positions("]", rest)) - 1 = Len(h)
    BY <1>4, <1>7
  <2> QED
    BY <1>3, <1>5, <2>1 DEF StripPort
<1> QED
  BY <1>3, <1>8 DEF header

\* strip_port recovers the host from a conformant header, unless a name is
\* followed by a colon without a port.
LEMMA StripPortFindsHost ==
  ASSUME NEW req \in Requests, Conformant(req), req.port = EmptyPort => req.brackets
  PROVE  StripPort(Header(req)) = req.host
<1>0. req.host \in Hosts /\ req.port \in PortSuffixes /\ (req.brackets <=> req.host \in V6)
  BY DEF Requests, Conformant
<1>1. CASE req.brackets
  BY <1>0, <1>1, StripBrackets DEF Header
<1>2. CASE ~req.brackets
  <2>1. PICK name \in Names : req.host = <<name>>
    BY <1>0, <1>2 DEF Hosts
  <2>2. name \in Token
    BY DEF Token
  <2>3. CASE req.port = NoPort
    <3>1. <<name>> \in Seq(Token)
      BY <2>2, OneToken
    <3>2. <<name>> \o <<>> = <<name>>
      BY <3>1, ConcatEmptySeq
    <3>3. Header(req) = <<name>>
      BY <1>2, <2>1, <2>3, <3>2 DEF Header, NoPort
    <3> QED
      BY <2>1, <3>3, StripPlainName
  <2>4. ASSUME NEW port \in Ports, req.port = <<":", port>>
        PROVE  StripPort(Header(req)) = req.host
    <3>1. port \in Token /\ ":" \in Token
      BY HostGuardAssumption DEF Token
    <3>2. <<name>> \o <<":", port>> = <<name, ":", port>>
      BY <2>2, <3>1, ThreeTokens, Zenon
    <3>3. Header(req) = <<name, ":", port>>
      BY <1>2, <2>1, <2>4, <3>1, <3>2 DEF Header
    <3> QED
      BY <2>1, <3>3, StripNamePort
  <2> QED
    BY <1>0, <1>2, <2>3, <2>4 DEF PortSuffixes
<1> QED
  BY <1>1, <1>2

\* A name followed by a colon without a port is no host that is allowed.
LEMMA NameColonIsRefused ==
  ASSUME allowed_hosts \subseteq Allowed, NEW req \in Requests,
         Conformant(req), req.port = EmptyPort, ~req.brackets
  PROVE  ~HostIsAllowed(Header(req))
<1>1. PICK name \in Names : req.host = <<name>>
  BY DEF Requests, Conformant, Hosts
<1> DEFINE header == <<name, ":">>
<1>2. Header(req) = header
  <2>1. name \in Token /\ ":" \in Token
    BY DEF Token
  <2>2. PICK u \in Seq(Token) : Joined(u, <<name>>, <<":">>)
    BY <2>1, OneToken, Concatenated
  <2>3. u = header
    <3>1. Len(u) = 2 /\ u[1] = name /\ u[2] = ":"
      BY <2>1, <2>2, OneToken DEF Joined
    <3>2. header \in Seq(Token) /\ Len(header) = 2 /\ header[1] = name /\ header[2] = ":"
      BY <2>1, TwoTokens
    <3> QED
      BY <3>1, <3>2, SeqEqual
  <2> QED
    BY <1>1, <2>2, <2>3 DEF Header, EmptyPort, Joined
<1>3. StripPort(header) = header
  BY StripNameColon
<1>4. Len(header) = 2 /\ Len(<<Localhost>>) = 1
  OBVIOUS
<1> HIDE DEF header
<1>5. SameHost(header, header)
  BY <1>4 DEF SameHost
<1>6. \A h \in Loopback \cup Allowed : ~SameHost(h, header)
  BY HostGuardAssumption DEF header
<1>7. ~IsLoopbackHost(header)
  BY <1>4, <1>5, <1>6 DEF IsLoopbackHost, SameHost
<1> QED
  BY <1>2, <1>3, <1>6, <1>7 DEF HostIsAllowed

\* enforce_allowed_host serves a conformant request exactly if its host is
\* permitted and no colon without a port follows a name, for every set of
\* hosts, ports and allowed hosts.
THEOREM RequestsAreServedIffPermitted == Spec => []ServedIffPermitted
<1> DEFINE Inv == allowed_hosts \subseteq Allowed /\ ServedIffPermitted
<1>1. Init => Inv
  BY DEF Init, ServedIffPermitted
<1>2. Inv /\ [Next]_vars => Inv'
  <2> SUFFICES ASSUME Inv, [Next]_vars
               PROVE  Inv'
    OBVIOUS
  <2>1. ASSUME NEW req \in Requests,
               request' = req,
               verdict' = IF HostIsAllowed(Header(req)) THEN "served" ELSE "421",
               UNCHANGED allowed_hosts
        PROVE  Inv'
    <3>1. req # NoHeader /\ req.host \in Hosts
      BY HostGuardAssumption DEF Requests
    <3>2. ASSUME Conformant(req), req.port = EmptyPort => req.brackets
          PROVE  HostIsAllowed(Header(req)) <=> req.host \in Permitted'
      BY <2>1, <3>1, <3>2, StripPortFindsHost DEF HostIsAllowed, IsLoopbackHost, Permitted
    <3>3. ASSUME Conformant(req), req.port = EmptyPort, ~req.brackets
          PROVE  ~HostIsAllowed(Header(req))
      BY <3>3, NameColonIsRefused
    <3>4. verdict' \in {"served", "421"} /\ (verdict' = "served" <=> HostIsAllowed(Header(req)))
      BY <2>1
    <3>5. ServedIffPermitted'
      BY <2>1, <3>1, <3>2, <3>3, <3>4 DEF ServedIffPermitted, Conformant
    <3> QED
      BY <2>1, <3>5
  <2>2. CASE request' = NoHeader /\ verdict' = "421" /\ UNCHANGED allowed_hosts
    BY <2>2 DEF ServedIffPermitted
  <2>3. CASE UNCHANGED vars
    BY <2>3 DEF ServedIffPermitted, Permitted, vars
  <2> QED
    BY <2>1, <2>2, <2>3 DEF Next, EnforceAllowedHost
<1> QED
  BY <1>1, <1>2, PTL DEF Spec
=============================================================================
