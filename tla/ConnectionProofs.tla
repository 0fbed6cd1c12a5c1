--------------------------- MODULE ConnectionProofs ---------------------------
(* What Connection promises of every configuration and order of calls.      *)
EXTENDS Connection, TLAPS

\* A connection or copy s is as its user asked for: a.
Agrees(s, a) ==
  /\ s.transport = options.transport /\ s.port = a.port /\ s.login = a.login
  /\ s.timeout = a.timeout
  /\ IF options.family = "cluster" THEN s.vserver = a.tunnel /\ s.vfiler = None
                                   ELSE s.vfiler = a.tunnel /\ s.vserver = None

Tunnelled == Tunnels \cup {None}

\* A request went where it was meant to, with the credentials for this address.
Right(w) ==
  /\ w.tunnel = (IF w.tunneling THEN w.want.tunnel ELSE None)
  /\ w.timeout = w.want.timeout
  /\ w.url = <<options.transport, w.want.port>>
  /\ w.auth = [url |-> w.url, login |-> w.want.login]

\* The attempts to send EMS messages: none has sent after the time that is noted.
Noted ==
  /\ last_ems # None => last_ems <= now
  /\ emsAt # None => emsAt <= now
  /\ call = "idle" /\ emsAt # None => last_ems # None /\ emsAt <= last_ems
  /\ call = "version" => emsAt = None

ConnInv ==
  /\ ConnTypeOK
  /\ Agrees(server, asked.client) /\ asked.client.timeout = None
  /\ pager # None => Agrees(pager, asked.pager)
  /\ ems # None => Agrees(ems, asked.ems)
  /\ wire # None => Right(wire)
  /\ Noted


\* What a connection or copy looks like after each of its setters, and after a request.
LEMMA SetTunnelAgrees ==
  ASSUME NEW s \in Servers, NEW a \in Wants, Agrees(s, a), NEW t \in Tunnelled
  PROVE  /\ SetTunnel(s, t) \in Servers /\ [a EXCEPT !.tunnel = t] \in Wants
         /\ Agrees(SetTunnel(s, t), [a EXCEPT !.tunnel = t])
         /\ SetTunnel(s, t).version = s.version
         /\ [a EXCEPT !.tunnel = t].timeout = a.timeout
  BY DEF SetTunnel, Agrees, Servers, Wants, Tunnelled

LEMMA SetTimeoutAgrees ==
  ASSUME NEW s \in Servers, NEW a \in Wants, Agrees(s, a), NEW t \in Nat
  PROVE  /\ SetTimeout(s, t) \in Servers /\ [a EXCEPT !.timeout = t] \in Wants
         /\ Agrees(SetTimeout(s, t), [a EXCEPT !.timeout = t])
  BY DEF SetTimeout, Agrees, Servers, Wants

LEMMA SetPortAgrees ==
  ASSUME NEW s \in Servers, NEW a \in Wants, Agrees(s, a), NEW p \in Nat
  PROVE  /\ SetPort(s, p) \in Servers /\ [a EXCEPT !.port = p] \in Wants
         /\ Agrees(SetPort(s, p), [a EXCEPT !.port = p])
         /\ SetPort(s, p).version = s.version
         /\ [a EXCEPT !.port = p].timeout = a.timeout
  BY DEF SetPort, Agrees, Servers, Wants

LEMMA SetLoginAgrees ==
  ASSUME NEW s \in Servers, NEW a \in Wants, Agrees(s, a), NEW u \in Logins
  PROVE  /\ SetLogin(s, u) \in Servers /\ [a EXCEPT !.login = u] \in Wants
         /\ Agrees(SetLogin(s, u), [a EXCEPT !.login = u])
         /\ SetLogin(s, u).version = s.version
         /\ [a EXCEPT !.login = u].timeout = a.timeout
  BY DEF SetLogin, Agrees, Servers, Wants

LEMMA TransportKept ==
  ASSUME NEW s \in Servers, NEW t \in Transports
  PROVE  /\ SetTransportType(s, t) \in Servers /\ SetTransportType(s, t).transport = t
         /\ SetTransportType(s, t).port = (IF t = "http" THEN 80 ELSE 443)
         /\ SetTransportType(s, t).login = s.login /\ SetTransportType(s, t).timeout = s.timeout
         /\ SetTransportType(s, t).vserver = s.vserver /\ SetTransportType(s, t).vfiler = s.vfiler
<1> DEFINE p  == IF t = "http" THEN 80 ELSE 443
           s1 == [s EXCEPT !.transport = t]
           s2 == [s1 EXCEPT !.port = p]
<1>1. s1 \in Servers /\ s1.transport = t /\ s1.login = s.login /\ s1.timeout = s.timeout
      /\ s1.vserver = s.vserver /\ s1.vfiler = s.vfiler
  BY DEF Servers
<1>2. p \in Nat
  OBVIOUS
<1>3. SetTransportType(s, t) = [s2 EXCEPT !.refresh = TRUE]
  BY DEF SetTransportType
<1> HIDE DEF s1, p
<1>4. s2 \in Servers /\ s2.transport = t /\ s2.login = s.login /\ s2.timeout = s.timeout
      /\ s2.vserver = s.vserver /\ s2.vfiler = s.vfiler /\ s2.port = p
  BY <1>1, <1>2 DEF Servers
<1> HIDE DEF s2
<1>5. [s2 EXCEPT !.refresh = TRUE] \in Servers
  BY <1>4 DEF Servers
<1>6. /\ [s2 EXCEPT !.refresh = TRUE].transport = s2.transport
      /\ [s2 EXCEPT !.refresh = TRUE].port = s2.port
      /\ [s2 EXCEPT !.refresh = TRUE].login = s2.login
      /\ [s2 EXCEPT !.refresh = TRUE].timeout = s2.timeout
      /\ [s2 EXCEPT !.refresh = TRUE].vserver = s2.vserver
      /\ [s2 EXCEPT !.refresh = TRUE].vfiler = s2.vfiler
  BY <1>4 DEF Servers
<1> QED
  BY <1>3, <1>4, <1>5, <1>6 DEF p

LEMMA PortSet ==
  ASSUME NEW s \in Servers, NEW p \in Nat
  PROVE  SetPort(s, p) \in Servers /\ SetPort(s, p).port = p
<1>1. [s EXCEPT !.port = p] \in Servers /\ [s EXCEPT !.port = p].port = p
  BY DEF Servers
<1> QED
  BY <1>1 DEF SetPort, Servers

LEMMA SetApiVersionAgrees ==
  ASSUME NEW s \in Servers, NEW a \in Wants, Agrees(s, a), NEW v \in Nat \X Nat
  PROVE  /\ SetApiVersion(s, v) \in Servers /\ Agrees(SetApiVersion(s, v), a)
         /\ SetApiVersion(s, v).version = v
  BY DEF SetApiVersion, Agrees, Servers, Wants

LEMMA OpenedAgrees ==
  ASSUME NEW s \in Servers, NEW a \in Wants, Agrees(s, a)
  PROVE  /\ Opened(s) \in Servers /\ Agrees(Opened(s), a)
         /\ Opened(s).opener = [url |-> <<s.transport, s.port>>, login |-> s.login]
         /\ Opened(s).version = s.version
  BY DEF Opened, Url, Agrees, Servers, Wants, Transports

\* A request over a connection that is as its user asked for goes right.
LEMMA SentIsRight ==
  ASSUME NEW w, NEW s \in Servers, NEW a \in Wants, Agrees(s, a), NEW tunneling \in BOOLEAN
  PROVE  Right(Sent(w, s, tunneling, a))
<1>1. Opened(s).opener = [url |-> Url(s), login |-> s.login]
  BY OpenedAgrees DEF Url
<1>2. TunnelOf(s) = a.tunnel
  BY DEF TunnelOf, Agrees
<1> DEFINE r == Sent(w, s, tunneling, a)
<1>3. r.by = w /\ r.url = Url(s) /\ r.auth = [url |-> Url(s), login |-> s.login] /\ r.want = a
      /\ r.timeout = s.timeout
  BY <1>1 DEF Sent
<1>4. r.tunnel = (IF r.tunneling THEN a.tunnel ELSE None)
  BY <1>2 DEF Sent
<1>5. r.url = <<options.transport, a.port>> /\ s.login = a.login /\ s.timeout = a.timeout
  BY <1>3 DEF Agrees, Url
<1>6. r.auth = [url |-> r.url, login |-> r.want.login]
  BY <1>3, <1>5
<1> HIDE DEF r
<1>7. r.want = a /\ r.timeout = a.timeout
  BY <1>3, <1>5
<1>8. Right(r)
  BY <1>4, <1>5, <1>6, <1>7 DEF Right
<1> QED
  BY <1>8 DEF r

\* What the invariant says of the connection and the copies.
LEMMA UsersAgree ==
  ASSUME ConnInv
  PROVE  /\ server \in Servers /\ asked.client \in Wants /\ Agrees(server, asked.client)
         /\ asked.client.timeout = None
         /\ pager # None => pager \in Servers /\ asked.pager \in Wants /\ Agrees(pager, asked.pager)
         /\ ems # None => ems \in Servers /\ asked.ems \in Wants /\ Agrees(ems, asked.ems)
  BY DEF ConnInv, ConnTypeOK

\* The parts of the invariant after a step.
LEMMA Assembled ==
  ASSUME UNCHANGED options, ConnTypeOK', Noted', Agrees(server', asked'.client),
         asked'.client.timeout = None,
         pager' # None => Agrees(pager', asked'.pager),
         ems' # None => Agrees(ems', asked'.ems),
         wire' # None => Right(wire')
  PROVE  ConnInv'
  BY DEF ConnInv, Agrees, Right

\* The client is made.
LEMMA VersionKept ==
  ASSUME ConnInv, NEW v \in Versions, GetVersion(v)
  PROVE  ConnInv'
<1>1. /\ server' \in Servers /\ Agrees(server', asked.client) /\ server'.version = v
  <2>1. v \in Nat \X Nat
    BY ConnAssumption
  <2>2. Opened(server) \in Servers /\ Agrees(Opened(server), asked.client)
    BY UsersAgree, OpenedAgrees
  <2> QED
    BY <2>1, <2>2, UsersAgree, SetApiVersionAgrees DEF GetVersion
<1>2. Right(wire')
  BY UsersAgree, SentIsRight DEF GetVersion
<1>3. /\ call' = "idle" /\ reported' = v /\ fast' = FastWith(v) /\ call = "version"
      /\ UNCHANGED <<options, pager, ems, last_ems, emsAt, now, asked>>
  BY DEF GetVersion, emsVars
<1>4. v # None /\ FastWith(v) \in BOOLEAN
  BY ConnAssumption DEF FastWith
<1>5. ConnTypeOK'
  BY <1>1, <1>3, <1>4 DEF ConnInv, ConnTypeOK, FastWith
<1>6. Noted'
  BY <1>3 DEF ConnInv, Noted
<1> QED
  BY <1>1, <1>2, <1>3, <1>5, <1>6, UsersAgree, Assembled

LEMMA VersionFailKept == ConnInv /\ GetVersionFails => ConnInv'
<1> SUFFICES ASSUME ConnInv, GetVersionFails PROVE ConnInv'
  OBVIOUS
<1>1. server' \in Servers /\ Agrees(server', asked.client)
  BY UsersAgree, OpenedAgrees DEF GetVersionFails
<1>2. Right(wire')
  BY UsersAgree, SentIsRight DEF GetVersionFails
<1>3. /\ call = "version" /\ call' = "failed"
      /\ UNCHANGED <<options, reported, fast, pager, ems, last_ems, emsAt, now, asked>>
  BY DEF GetVersionFails, emsVars, clientVars
<1>4. ConnTypeOK'
  BY <1>1, <1>3 DEF ConnInv, ConnTypeOK
<1>5. Noted'
  BY <1>3 DEF ConnInv, Noted
<1> QED
  BY <1>1, <1>2, <1>3, <1>4, <1>5, UsersAgree, Assembled

\* The owner sends a request over the connection, or over a copy that it drops.
LEMMA RequestKept ==
  ASSUME ConnInv, NEW tunneling \in BOOLEAN, SendRequest(tunneling)
  PROVE  ConnInv'
<1>1. /\ server' \in Servers /\ Agrees(server', asked.client)
      /\ server'.version = server.version
  BY UsersAgree, OpenedAgrees DEF SendRequest
<1>2. Right(wire')
  BY UsersAgree, SentIsRight DEF SendRequest
<1>3. UNCHANGED <<options, reported, fast, call, pager, ems, last_ems, emsAt, now, asked>>
  BY DEF SendRequest, emsVars, clientVars
<1>4. ConnTypeOK'
  BY <1>1, <1>3 DEF ConnInv, ConnTypeOK, FastWith
<1>5. Noted'
  BY <1>3 DEF ConnInv, Noted
<1> QED
  BY <1>1, <1>2, <1>3, <1>4, <1>5, UsersAgree, Assembled

LEMMA TunnelApiKept ==
  ASSUME ConnInv, NEW t \in Tunnels, InvokeTunnelApi(t)
  PROVE  ConnInv'
<1>1. UNCHANGED <<options, server, reported, fast, call, pager, ems, last_ems, emsAt, now, asked>>
  BY DEF InvokeTunnelApi, emsVars, clientVars
<1>2. Right(wire')
  BY UsersAgree, SetTunnelAgrees, SentIsRight DEF InvokeTunnelApi, Tunnelled
<1>3. ConnTypeOK'
  BY <1>1 DEF ConnInv, ConnTypeOK, FastWith
<1>4. Noted'
  BY <1>1 DEF ConnInv, Noted
<1> QED
  BY <1>1, <1>2, <1>3, <1>4, UsersAgree, Assembled

\* The owner changes the connection: a setter takes server to s, as it asks for a.
LEMMA OwnerKept ==
  ASSUME ConnInv, NEW s \in Servers, NEW a \in Wants, Agrees(s, a), s.version = server.version,
         a.timeout = None,
         server' = s, asked' = [asked EXCEPT !.client = a], wire' = None,
         UNCHANGED <<clientVars, call, pager, emsVars, now>>
  PROVE  ConnInv'
<1>1. UNCHANGED <<options, reported, fast, call, pager, ems, last_ems, emsAt, now>>
  BY DEF emsVars, clientVars
<1>2. asked' = [client |-> a, pager |-> asked.pager, ems |-> asked.ems]
  BY DEF ConnInv, ConnTypeOK
<1>3. ConnTypeOK'
  BY <1>1, <1>2 DEF ConnInv, ConnTypeOK, FastWith
<1>4. Noted'
  BY <1>1 DEF ConnInv, Noted
<1> QED
  BY <1>1, <1>2, <1>3, <1>4, UsersAgree, Assembled

LEMMA VserverKept ==
  ASSUME ConnInv, NEW t \in Tunnelled, SetVserver(t)
  PROVE  ConnInv'
<1> DEFINE s == SetTunnel(server, t)
           a == [asked.client EXCEPT !.tunnel = t]
<1>1. server' = s
  BY DEF SetVserver, SetTunnel
<1>2. asked' = [asked EXCEPT !.client = a]
  BY DEF SetVserver, ConnInv, ConnTypeOK
<1>3. s \in Servers /\ a \in Wants /\ Agrees(s, a) /\ s.version = server.version
      /\ a.timeout = None
  BY UsersAgree, SetTunnelAgrees
<1>4. wire' = None /\ UNCHANGED <<clientVars, call, pager, emsVars, now>>
  BY DEF SetVserver
<1> HIDE DEF s, a
<1> QED
  BY <1>1, <1>2, <1>3, <1>4, OwnerKept

LEMMA PortKept ==
  ASSUME ConnInv, NEW p \in Ports, ChangePort(p)
  PROVE  ConnInv'
<1> DEFINE s == SetPort(server, p)
           a == [asked.client EXCEPT !.port = p]
<1>1. server' = s
  BY DEF ChangePort
<1>2. asked' = [asked EXCEPT !.client = a]
  BY DEF ChangePort, ConnInv, ConnTypeOK
<1>3. p \in Nat
  BY ConnAssumption
<1>4. s \in Servers /\ a \in Wants /\ Agrees(s, a) /\ s.version = server.version
      /\ a.timeout = None
  BY <1>3, UsersAgree, SetPortAgrees
<1>5. wire' = None /\ UNCHANGED <<clientVars, call, pager, emsVars, now>>
  BY DEF ChangePort
<1> HIDE DEF s, a
<1> QED
  BY <1>1, <1>2, <1>4, <1>5, OwnerKept

LEMMA LoginKept ==
  ASSUME ConnInv, NEW u \in Logins, ChangeLogin(u)
  PROVE  ConnInv'
<1> DEFINE s == SetLogin(server, u)
           a == [asked.client EXCEPT !.login = u]
<1>1. server' = s
  BY DEF ChangeLogin
<1>2. asked' = [asked EXCEPT !.client = a]
  BY DEF ChangeLogin, ConnInv, ConnTypeOK
<1>3. s \in Servers /\ a \in Wants /\ Agrees(s, a) /\ s.version = server.version
      /\ a.timeout = None
  BY UsersAgree, SetLoginAgrees
<1>4. wire' = None /\ UNCHANGED <<clientVars, call, pager, emsVars, now>>
  BY DEF ChangeLogin
<1> HIDE DEF s, a
<1> QED
  BY <1>1, <1>2, <1>3, <1>4, OwnerKept

\* The copy that a list is read with becomes q, or is dropped.
LEMMA PagerKept ==
  ASSUME ConnInv, NEW q \in Servers, NEW a \in Wants, Agrees(q, a), Right(wire'),
         pager' \in {None, q},
         asked' = [client |-> asked.client, pager |-> IF pager' = None THEN None ELSE a,
                   ems |-> asked.ems],
         UNCHANGED <<options, reported, fast, server, call, ems, last_ems, emsAt, now>>
  PROVE  ConnInv'
<1>1. asked'.client = asked.client /\ asked'.ems = asked.ems
      /\ asked'.pager = (IF pager' = None THEN None ELSE a)
  OBVIOUS
<1>2. asked' \in [client : Wants, pager : Wants \cup {None}, ems : Wants \cup {None}]
  BY DEF ConnInv, ConnTypeOK
<1>3. a # None
  BY NoneAssumption
<1>4. ConnTypeOK'
  BY <1>1, <1>2, <1>3 DEF ConnInv, ConnTypeOK, FastWith
<1>5. Noted'
  BY DEF ConnInv, Noted
<1> QED
  BY <1>1, <1>4, <1>5, UsersAgree, Assembled

\* A list is read with a copy.
LEMMA ApiFirstKept ==
  ASSUME ConnInv, NEW t \in Tunnelled, NEW timeout \in Timeouts, ApiFirst(t, timeout)
  PROVE  ConnInv'
<1> DEFINE s0   == SetTunnel(server, t)
           w0   == [asked.client EXCEPT !.tunnel = t]
           s    == IF timeout > 0 THEN SetTimeout(s0, timeout) ELSE s0
           want == [asked.client EXCEPT !.tunnel = t, !.timeout = IF timeout > 0 THEN timeout ELSE None]
<1>1. timeout \in Nat
  BY ConnAssumption
<1>2. s0 \in Servers /\ w0 \in Wants /\ Agrees(s0, w0) /\ w0.timeout = None
  BY UsersAgree, SetTunnelAgrees
<1>3. want = IF timeout > 0 THEN [w0 EXCEPT !.timeout = timeout] ELSE w0
  BY <1>1, UsersAgree DEF Wants
<1>4. s \in Servers /\ want \in Wants /\ Agrees(s, want)
  <2> HIDE DEF s0, w0, want
  <2>1. CASE timeout > 0
    BY <2>1, <1>1, <1>2, <1>3, SetTimeoutAgrees
  <2>2. CASE ~(timeout > 0)
    BY <2>2, <1>2, <1>3
  <2> QED
    BY <2>1, <2>2
<1>5. /\ wire' = Sent("pager", s, TRUE, want) /\ pager' \in {None, Opened(s)}
      /\ asked' = [asked EXCEPT !.pager = IF pager' = None THEN None ELSE want]
  BY DEF ApiFirst
<1>6. UNCHANGED <<options, reported, fast, server, call, ems, last_ems, emsAt, now>>
  BY DEF ApiFirst, emsVars, clientVars
<1> HIDE DEF s0, w0, s, want
<1>7. Right(wire')
  BY <1>4, <1>5, SentIsRight
<1>8. Opened(s) \in Servers /\ Agrees(Opened(s), want)
  BY <1>4, OpenedAgrees
<1>9. asked' = [client |-> asked.client, pager |-> IF pager' = None THEN None ELSE want, ems |-> asked.ems]
  BY <1>5 DEF ConnInv, ConnTypeOK
<1> QED
  BY <1>4, <1>5, <1>6, <1>7, <1>8, <1>9, PagerKept

LEMMA NextPageKept == ConnInv /\ ApiNextPage => ConnInv'
<1> SUFFICES ASSUME ConnInv, ApiNextPage PROVE ConnInv'
  OBVIOUS
<1>1. /\ wire' = Sent("pager", pager, TRUE, asked.pager) /\ pager' \in {None, Opened(pager)}
      /\ asked' = [asked EXCEPT !.pager = IF pager' = None THEN None ELSE @] /\ pager # None
  BY DEF ApiNextPage
<1>2. UNCHANGED <<options, reported, fast, server, call, ems, last_ems, emsAt, now>>
  BY DEF ApiNextPage, emsVars, clientVars
<1>3. pager \in Servers /\ asked.pager \in Wants /\ Agrees(pager, asked.pager)
  BY <1>1, UsersAgree
<1>4. Right(wire')
  BY <1>1, <1>3, SentIsRight
<1>5. Opened(pager) \in Servers /\ Agrees(Opened(pager), asked.pager)
  BY <1>3, OpenedAgrees
<1>6. asked' = [client |-> asked.client, pager |-> IF pager' = None THEN None ELSE asked.pager,
                ems |-> asked.ems]
  BY <1>1 DEF ConnInv, ConnTypeOK
<1> QED
  BY <1>1, <1>2, <1>3, <1>4, <1>5, <1>6, PagerKept

\* The copy that a message is sent with becomes q while the call is c.
LEMMA EmsKept ==
  ASSUME ConnInv, NEW q \in Servers, NEW a \in Wants, Agrees(q, a),
         NEW c \in {"node", "log"}, call' = c, ems' = q,
         asked' = [client |-> asked.client, pager |-> asked.pager, ems |-> a],
         call # "version" /\ call # "failed", wire' # None => Right(wire'),
         emsAt' \in {emsAt, now},
         UNCHANGED <<options, reported, fast, server, pager, last_ems, now>>
  PROVE  ConnInv'
<1>1. asked'.client = asked.client /\ asked'.pager = asked.pager /\ asked'.ems = a
  OBVIOUS
<1>2. asked' \in [client : Wants, pager : Wants \cup {None}, ems : Wants \cup {None}]
  BY DEF ConnInv, ConnTypeOK
<1>3. a # None /\ q # None
  BY NoneAssumption
<1>4. call \in {"idle", "node", "log"}
  BY DEF ConnInv, ConnTypeOK
<1>5. ConnTypeOK'
  BY <1>1, <1>2, <1>3, <1>4 DEF ConnInv, ConnTypeOK, FastWith
<1>6. Noted'
  BY DEF ConnInv, ConnTypeOK, Noted
<1> QED
  BY <1>1, <1>5, <1>6, UsersAgree, Assembled

\* The attempt to send one ends.
LEMMA EmsEndsKept ==
  ASSUME ConnInv, EmsEnds, call # "version" /\ call # "failed", wire' # None => Right(wire'),
         emsAt' \in {emsAt, now},
         UNCHANGED <<options, reported, fast, server, pager, now>>
  PROVE  ConnInv'
<1>1. call' = "idle" /\ ems' = None /\ last_ems' = now
  BY DEF EmsEnds
<1>2. asked' = [client |-> asked.client, pager |-> asked.pager, ems |-> None]
  BY DEF EmsEnds, ConnInv, ConnTypeOK
<1>3. call \in {"idle", "node", "log"}
  BY DEF ConnInv, ConnTypeOK
<1>4. now \in Nat /\ now # None
  BY ConnAssumption DEF ConnInv, ConnTypeOK
<1>5. ConnTypeOK'
  BY <1>1, <1>2, <1>3, <1>4 DEF ConnInv, ConnTypeOK, FastWith
<1>6. Noted'
  BY <1>1, <1>4 DEF ConnInv, ConnTypeOK, Noted
<1> QED
  BY <1>1, <1>2, <1>5, <1>6, UsersAgree, Assembled

LEMMA ProvideKept ==
  ASSUME ConnInv, NEW t \in Tunnelled, ProvideEms(t)
  PROVE  ConnInv'
<1> DEFINE s    == SetTimeout(server, 25)
           want == [asked.client EXCEPT !.timeout = 25]
           q    == SetTunnel(s, t)
           a    == [want EXCEPT !.tunnel = t]
<1>1. s \in Servers /\ want \in Wants /\ Agrees(s, want)
  BY UsersAgree, SetTimeoutAgrees
<1>2. q \in Servers /\ a \in Wants /\ Agrees(q, a)
  <2> HIDE DEF s, want
  <2> QED
    BY <1>1, SetTunnelAgrees
<1>3. /\ call = "idle" /\ wire' = None
      /\ UNCHANGED <<options, reported, fast, server, pager, emsAt, now>>
  BY DEF ProvideEms, clientVars
<1>4. \/ EmsEnds
      \/ /\ call' \in {"node", "log"} /\ ems' = q /\ UNCHANGED last_ems
         /\ asked' = [asked EXCEPT !.ems = a]
  BY DEF ProvideEms
<1> HIDE DEF s, want, q, a
<1>5. CASE EmsEnds
  BY <1>3, <1>5, EmsEndsKept
<1>6. CASE /\ call' \in {"node", "log"} /\ ems' = q /\ UNCHANGED last_ems
           /\ asked' = [asked EXCEPT !.ems = a]
  <2>1. asked' = [client |-> asked.client, pager |-> asked.pager, ems |-> a]
    BY <1>6 DEF ConnInv, ConnTypeOK
  <2> QED
    BY <1>2, <1>3, <1>6, <2>1, EmsKept
<1> QED
  BY <1>4, <1>5, <1>6

LEMMA NodeKept ==
  ASSUME ConnInv, NEW t \in Tunnelled, EmsNode(t)
  PROVE  ConnInv'
<1>1. /\ call = "node" /\ wire' = Sent("ems", ems, FALSE, asked.ems) /\ emsAt' = now
      /\ UNCHANGED <<options, reported, fast, server, pager, now>>
  BY DEF EmsNode, clientVars
<1>2. ems \in Servers /\ asked.ems \in Wants /\ Agrees(ems, asked.ems)
  BY <1>1, UsersAgree DEF ConnInv, ConnTypeOK
<1>3. Right(wire')
  BY <1>1, <1>2, SentIsRight
<1>4. CASE EmsEnds
  BY <1>1, <1>3, <1>4, EmsEndsKept
<1>5. CASE ~EmsEnds
  <2> DEFINE q == SetTunnel(Opened(ems), t)
             a == [asked.ems EXCEPT !.tunnel = t]
  <2>1. call' = "log" /\ ems' = q /\ UNCHANGED last_ems
    BY <1>5 DEF EmsNode
  <2>2. asked' = [client |-> asked.client, pager |-> asked.pager, ems |-> a]
    BY <1>5 DEF EmsNode, ConnInv, ConnTypeOK
  <2>3. q \in Servers /\ a \in Wants /\ Agrees(q, a)
    BY <1>2, OpenedAgrees, SetTunnelAgrees
  <2> HIDE DEF q, a
  <2> QED
    BY <1>1, <1>3, <2>1, <2>2, <2>3, EmsKept
<1> QED
  BY <1>4, <1>5

LEMMA LogKept == ConnInv /\ EmsLog => ConnInv'
<1> SUFFICES ASSUME ConnInv, EmsLog PROVE ConnInv'
  OBVIOUS
<1>1. /\ call = "log" /\ EmsEnds /\ emsAt' \in {emsAt, now}
      /\ wire' # None => wire' = Sent("ems", ems, TRUE, asked.ems)
      /\ UNCHANGED <<options, reported, fast, server, pager, now>>
  BY DEF EmsLog, clientVars
<1>2. ems \in Servers /\ asked.ems \in Wants /\ Agrees(ems, asked.ems)
  BY <1>1, UsersAgree DEF ConnInv, ConnTypeOK
<1>3. wire' # None => Right(wire')
  BY <1>1, <1>2, SentIsRight
<1> QED
  BY <1>1, <1>3, EmsEndsKept

LEMMA TickKept == ConnInv /\ Tick => ConnInv'
<1> SUFFICES ASSUME ConnInv, Tick PROVE ConnInv'
  OBVIOUS
<1>1. /\ now' = now + 1 /\ wire' = None
      /\ UNCHANGED <<options, reported, fast, server, call, pager, ems, last_ems, emsAt, asked>>
  BY DEF Tick, clientVars, emsVars
<1>2. ConnTypeOK'
  BY <1>1 DEF ConnInv, ConnTypeOK, FastWith
<1>3. Noted'
  BY <1>1 DEF ConnInv, ConnTypeOK, Noted
<1> QED
  BY <1>1, <1>2, <1>3, UsersAgree, Assembled

LEMMA StutterKept == ConnInv /\ UNCHANGED connVars => ConnInv'
<1> SUFFICES ASSUME ConnInv, UNCHANGED connVars PROVE ConnInv'
  OBVIOUS
<1>1. UNCHANGED <<options, reported, fast, server, call, pager, ems, last_ems, emsAt, now,
                  wire, asked>>
  BY DEF connVars, clientVars, emsVars
<1>2. ConnTypeOK'
  BY <1>1 DEF ConnInv, ConnTypeOK, FastWith
<1>3. Noted'
  BY <1>1 DEF ConnInv, Noted
<1> QED
  BY <1>1, <1>2, <1>3, UsersAgree, Assembled DEF ConnInv

LEMMA Step == ConnInv /\ [ConnNext]_connVars => ConnInv'
<1> SUFFICES ASSUME ConnInv, [ConnNext]_connVars PROVE ConnInv'
  OBVIOUS
<1>1. ASSUME NEW v \in Versions, GetVersion(v) PROVE ConnInv'
  BY <1>1, VersionKept
<1>2. ASSUME NEW tunneling \in BOOLEAN, SendRequest(tunneling) PROVE ConnInv'
  BY <1>2, RequestKept
<1>3. ASSUME NEW t \in Tunnels, InvokeTunnelApi(t) PROVE ConnInv'
  BY <1>3, TunnelApiKept
<1>4. ASSUME NEW t \in Tunnelled, SetVserver(t) \/ ProvideEms(t) \/ EmsNode(t) PROVE ConnInv'
  BY <1>4, VserverKept, ProvideKept, NodeKept
<1>5. ASSUME NEW p \in Ports, ChangePort(p) PROVE ConnInv'
  BY <1>5, PortKept
<1>6. ASSUME NEW u \in Logins, ChangeLogin(u) PROVE ConnInv'
  BY <1>6, LoginKept
<1>7. ASSUME NEW t \in Tunnelled, NEW timeout \in Timeouts, ApiFirst(t, timeout) PROVE ConnInv'
  BY <1>7, ApiFirstKept
<1>8. CASE GetVersionFails \/ ApiNextPage \/ EmsLog \/ Tick \/ UNCHANGED connVars
  BY <1>8, VersionFailKept, NextPageKept, LogKept, TickKept, StutterKept
<1> QED
  BY <1>1, <1>2, <1>3, <1>4, <1>5, <1>6, <1>7, <1>8 DEF ConnNext, Tunnelled

\* A new client's connection is as the configuration asks for.
LEMMA Start == ConnInit => ConnInv
<1> SUFFICES ASSUME ConnInit PROVE ConnInv
  OBVIOUS
<1> DEFINE n == NaServer(options)
           a == [port |-> PortWanted(options), login |-> options.login, tunnel |-> None,
                 timeout |-> None]
           s == SetTunnel(n, options.tunnel)
           b == [a EXCEPT !.tunnel = options.tunnel]
<1>1. /\ options \in [family : {"cluster", "7mode"}, transport : Transports,
                      port : Nat \cup {None}, tunnel : Tunnelled, login : Logins]
      /\ options \in Configs
  BY ConnAssumption DEF ConnInit, Tunnelled
<1>2. n \in Servers /\ a \in Wants /\ Agrees(n, a)
  <2> DEFINE b0 == Blank(options)
             d  == SetTransportType(b0, options.transport)
  <2>1. /\ options.transport \in Transports /\ options.login \in Logins
        /\ PortWanted(options) \in Nat /\ options.port \in Nat \cup {None}
    BY <1>1 DEF PortWanted
  <2>2. /\ b0 \in Servers /\ b0.login = options.login
        /\ b0.vfiler = None /\ b0.vserver = None /\ b0.timeout = None
    <3>1. b0 = [transport |-> "http", port |-> 80, login |-> options.login, vfiler |-> None,
                vserver |-> None, version |-> None, timeout |-> None, refresh |-> TRUE,
                opener |-> None]
      BY DEF Blank
    <3> HIDE DEF b0
    <3>2. b0 \in Servers
      BY <2>1, <3>1 DEF Servers, Transports
    <3> QED
      BY <3>1, <3>2
  <2> HIDE DEF b0
  <2>3. /\ d \in Servers /\ d.transport = options.transport /\ d.login = options.login
        /\ d.port = (IF options.transport = "http" THEN 80 ELSE 443)
        /\ d.vfiler = None /\ d.vserver = None /\ d.timeout = None
    BY <2>1, <2>2, TransportKept
  <2>4. n = (IF options.port \in {None, 0} THEN d ELSE SetPort(d, options.port))
    BY DEF NaServer, b0
  <2> HIDE DEF d, n
  <2>5. n \in Servers /\ n.port = PortWanted(options)
    <3>1. CASE options.port \in {None, 0}
      BY <3>1, <2>3, <2>4 DEF PortWanted
    <3>2. CASE ~(options.port \in {None, 0})
      <4>1. options.port \in Nat /\ n = SetPort(d, options.port)
        BY <3>2, <2>1, <2>4
      <4>2. n \in Servers /\ n.port = options.port
        BY <4>1, <2>3, PortSet
      <4> QED
        BY <3>2, <4>2 DEF PortWanted
    <3> QED
      BY <3>1, <3>2
  <2>6. n.transport = options.transport /\ n.login = options.login
        /\ n.vfiler = None /\ n.vserver = None /\ n.timeout = None
    BY <2>1, <2>3, <2>4 DEF SetPort, Servers
  <2>7. a \in Wants
    BY <2>1 DEF Wants, Tunnelled
  <2> QED
    BY <2>5, <2>6, <2>7 DEF Agrees
<1>3. b = [port |-> PortWanted(options), login |-> options.login, tunnel |-> options.tunnel,
           timeout |-> None]
  OBVIOUS
<1>4. /\ asked = [client |-> b, pager |-> None, ems |-> None]
      /\ server = IF options.family = "cluster" THEN SetApiVersion(s, <<1, 15>>) ELSE s
      /\ call = "version" /\ reported = None /\ fast = FALSE
      /\ pager = None /\ ems = None /\ last_ems = None /\ emsAt = None /\ now = 0 /\ wire = None
  BY <1>3 DEF ConnInit
<1> HIDE DEF n, a, b, s
<1>5. s \in Servers /\ b \in Wants /\ Agrees(s, b) /\ b.timeout = None
  BY <1>1, <1>2, SetTunnelAgrees DEF s, b, a
<1>6. server \in Servers /\ Agrees(server, b)
  BY <1>4, <1>5, SetApiVersionAgrees
<1>7. ConnTypeOK
  BY <1>1, <1>4, <1>5, <1>6 DEF ConnTypeOK
<1>8. Noted
  BY <1>4 DEF Noted
<1> QED
  BY <1>4, <1>5, <1>6, <1>7, <1>8 DEF ConnInv

THEOREM ConnInvariant == ConnSpec => []ConnInv
  BY Start, Step, PTL DEF ConnSpec
-----------------------------------------------------------------------------
\* The variables have their types; a copy is there only while it is in use, and a
\* client that was made knows the version and the features of its filer.
THEOREM ConnTypeCorrect == ConnSpec => []ConnTypeOK
<1>1. ConnInv => ConnTypeOK
  BY DEF ConnInv
<1> QED
  BY <1>1, ConnInvariant, PTL

\* Every request, of any number of calls that share the connection in any order, goes
\* to the tunnel and with the timeout that its sender asked for.
THEOREM GoesAsAskedHolds == ConnSpec => []GoesAsAsked
<1>1. ConnInv => GoesAsAsked
  BY DEF ConnInv, Right, GoesAsAsked
<1> QED
  BY <1>1, ConnInvariant, PTL

\* It goes to the address and with the credentials that were set last.
THEOREM AuthIsCurrentHolds == ConnSpec => []AuthIsCurrent
<1>1. ConnInv => AuthIsCurrent
  BY DEF ConnInv, Right, AuthIsCurrent
<1> QED
  BY <1>1, ConnInvariant, PTL

\* Two attempts to send an EMS message are further apart than the limit, for any limit.
THEOREM EmsApartHolds == ConnSpec => EmsApart
<1> DEFINE Apart == call = "idle" /\ call' \in {"node", "log"} /\ emsAt # None
                      => now - emsAt > EmsLimit
<1>1. ConnInv /\ [ConnNext]_connVars => [Apart]_connVars
  <2> SUFFICES ASSUME ConnInv, ConnNext, call = "idle", call' \in {"node", "log"}, emsAt # None
               PROVE  now - emsAt > EmsLimit
    BY DEF Apart
  <2>1. PICK t \in Tunnelled : ProvideEms(t)
    BY DEF ConnNext, Tunnelled, GetVersion, GetVersionFails, SendRequest, InvokeTunnelApi,
           SetVserver, ChangePort, ChangeLogin, ApiFirst, ApiNextPage, EmsNode, EmsLog, Tick
  <2>2. now - last_ems > EmsLimit /\ emsAt <= last_ems
    BY <2>1 DEF ProvideEms, EmsDue, ConnInv, Noted
  <2>3. now \in Nat /\ emsAt \in Nat /\ last_ems \in Nat /\ EmsLimit \in Nat
    BY ConnAssumption DEF ConnInv, ConnTypeOK, Noted
  <2> QED
    BY <2>2, <2>3
<1> QED
  BY <1>1, ConnInvariant, PTL DEF ConnSpec, EmsApart

-----------------------------------------------------------------------------
(* Tunnels.  A copy has the version of the connection it was made of, and   *)
(* that is the one that the filer has reported.                             *)

Limit == IF options.family = "cluster" THEN 15 ELSE 7

Versioned ==
  /\ call = "version" => pager = None /\ ems = None
  /\ pager # None => pager.version = reported /\ ~Refused(pager)
  /\ ems # None => ems.version = reported
  /\ TunnelIsSupported

\* A connection that is not refused, in the code's own way of comparing, is to a filer
\* that is new enough: the test may refuse too much (2.0), and never too little.
LEMMA NotRefused ==
  ASSUME NEW s \in Servers, NEW a \in Wants, Agrees(s, a), TunnelOf(s) # None, ~Refused(s)
  PROVE  s.version # None /\ NotOlder(s.version, Limit)
<1>1. s.version \in (Nat \X Nat) \cup {None}
  BY DEF Servers
<1>2. AtLeast(s.version, Limit)
  <2>1. CASE options.family = "cluster"
    BY <2>1 DEF Agrees, TunnelOf, Refused, Limit
  <2>2. CASE options.family # "cluster"
    BY <2>2 DEF Agrees, TunnelOf, Refused, Limit
  <2> QED
    BY <2>1, <2>2
<1>3. s.version # None /\ s.version[1] \in Nat /\ s.version[1] >= 1 /\ s.version[2] >= Limit
  BY <1>1, <1>2 DEF AtLeast
<1> QED
  BY <1>3 DEF NotOlder

\* So is a request over it.
LEMMA SentIsSupported ==
  ASSUME NEW w, NEW s \in Servers, NEW a \in Wants, NEW want, Agrees(s, a), ~Refused(s),
         NEW tunneling \in BOOLEAN, s.version = reported, UNCHANGED <<options, reported>>,
         wire' = Sent(w, s, tunneling, want)
  PROVE  TunnelIsSupported'
<1>1. wire'.tunnel = (IF tunneling THEN TunnelOf(s) ELSE None)
  BY DEF Sent
<1>2. wire'.tunnel # None => reported # None /\ NotOlder(reported, Limit)
  BY <1>1, NotRefused
<1> QED
  BY <1>2 DEF TunnelIsSupported, Limit, NotOlder

\* What a copy keeps of the connection it was made of.
LEMMA CopyKeepsVersion ==
  ASSUME NEW s \in Servers
  PROVE  /\ \A t \in Tunnelled : SetTunnel(s, t).version = s.version
         /\ \A t \in Nat : SetTimeout(s, t).version = s.version
         /\ Opened(s).version = s.version /\ (Refused(Opened(s)) <=> Refused(s))
BY DEF SetTunnel, SetTimeout, Opened, Refused, AtLeast, Servers

LEMMA VersionedKept ==
  ConnInv /\ ConnInv' /\ Versioned /\ [ConnNext]_connVars => Versioned'
<1> SUFFICES ASSUME ConnInv, ConnInv', Versioned, [ConnNext]_connVars PROVE Versioned'
  OBVIOUS
<1>a. server \in Servers /\ Agrees(server, asked.client) /\ asked.client \in Wants
  BY UsersAgree
<1>b. call \in {"idle", "node", "log"} => server.version = reported /\ reported # None
  BY DEF ConnInv, ConnTypeOK
<1>1. CASE GetVersionFails \/ \E v \in Versions : GetVersion(v)
  <2>1. wire'.tunnel = None
    BY <1>1 DEF GetVersion, GetVersionFails, Sent
  <2>2. pager = None /\ ems = None /\ UNCHANGED <<pager, ems>> /\ call' # "version"
    BY <1>1 DEF GetVersion, GetVersionFails, emsVars, Versioned
  <2> QED
    BY <2>1, <2>2 DEF Versioned, TunnelIsSupported
<1>2. ASSUME NEW tunneling \in BOOLEAN, SendRequest(tunneling) PROVE Versioned'
  <2>1. UNCHANGED <<options, reported, pager, ems, call>> /\ call = "idle"
    BY <1>2 DEF SendRequest, clientVars, emsVars
  <2>2. TunnelIsSupported'
    <3>1. CASE tunneling
      BY <1>2, <1>a, <1>b, <2>1, <3>1, SentIsSupported DEF SendRequest
    <3>2. CASE ~tunneling
      BY <1>2, <3>2 DEF SendRequest, Sent, TunnelIsSupported
    <3> QED
      BY <3>1, <3>2
  <2> QED
    BY <2>1, <2>2 DEF Versioned, Refused
<1>3. ASSUME NEW t \in Tunnels, InvokeTunnelApi(t) PROVE Versioned'
  <2>1. UNCHANGED <<options, reported, pager, ems, call>> /\ call = "idle"
    BY <1>3 DEF InvokeTunnelApi, clientVars, emsVars
  <2> DEFINE s == SetTunnel(server, t)
             a == [asked.client EXCEPT !.tunnel = t]
  <2>2. s \in Servers /\ a \in Wants /\ Agrees(s, a) /\ s.version = server.version
    BY <1>a, SetTunnelAgrees DEF Tunnelled
  <2>3. ~Refused(s) /\ wire' = Sent("copy", s, TRUE, a)
    BY <1>3 DEF InvokeTunnelApi
  <2> HIDE DEF s, a
  <2>4. TunnelIsSupported'
    BY <1>b, <2>1, <2>2, <2>3, SentIsSupported
  <2> QED
    BY <2>1, <2>4 DEF Versioned, Refused
<1>4. CASE \/ \E t \in Tunnelled : SetVserver(t)
           \/ \E p \in Ports : ChangePort(p)
           \/ \E u \in Logins : ChangeLogin(u)
           \/ Tick
  BY <1>4 DEF SetVserver, ChangePort, ChangeLogin, Tick, clientVars, emsVars, Versioned,
     TunnelIsSupported, Refused
<1>5. ASSUME NEW t \in Tunnelled, NEW timeout \in Timeouts, ApiFirst(t, timeout) PROVE Versioned'
  <2>1. UNCHANGED <<options, reported, ems, call>> /\ call = "idle"
    BY <1>5 DEF ApiFirst, clientVars, emsVars
  <2> DEFINE s0   == SetTunnel(server, t)
             a0   == [asked.client EXCEPT !.tunnel = t]
             s    == IF timeout > 0 THEN SetTimeout(s0, timeout) ELSE s0
             a    == IF timeout > 0 THEN [a0 EXCEPT !.timeout = timeout] ELSE a0
             want == [asked.client EXCEPT !.tunnel = t, !.timeout = IF timeout > 0 THEN timeout ELSE None]
  <2>2. s0 \in Servers /\ a0 \in Wants /\ Agrees(s0, a0) /\ s0.version = server.version
    BY <1>a, SetTunnelAgrees
  <2>3. timeout \in Nat
    BY ConnAssumption
  <2>4. s \in Servers /\ a \in Wants /\ Agrees(s, a) /\ s.version = server.version
    <3> HIDE DEF s0, a0
    <3> QED
      BY <2>2, <2>3, SetTimeoutAgrees, CopyKeepsVersion
  <2>5. ~Refused(s) /\ wire' = Sent("pager", s, TRUE, want) /\ pager' \in {None, Opened(s)}
    BY <1>5 DEF ApiFirst
  <2> HIDE DEF s, a, want
  <2>6. TunnelIsSupported'
    BY <1>b, <2>1, <2>4, <2>5, SentIsSupported
  <2>7. Opened(s).version = reported /\ ~Refused(Opened(s))
    BY <1>b, <2>1, <2>4, <2>5, CopyKeepsVersion
  <2>8. pager' # None => pager'.version = reported' /\ ~Refused(pager')
    BY <2>1, <2>5, <2>7
  <2> QED
    BY <2>1, <2>6, <2>8 DEF Versioned, Refused
<1>6. CASE ApiNextPage
  <2>1. /\ UNCHANGED <<options, reported, ems, call>> /\ call = "idle" /\ pager # None
        /\ wire' = Sent("pager", pager, TRUE, asked.pager) /\ pager' \in {None, Opened(pager)}
    BY <1>6 DEF ApiNextPage, clientVars, emsVars
  <2>2. /\ pager \in Servers /\ asked.pager \in Wants /\ Agrees(pager, asked.pager)
        /\ pager.version = reported /\ ~Refused(pager)
    BY <2>1, UsersAgree DEF Versioned
  <2>3. TunnelIsSupported'
    BY <2>1, <2>2, SentIsSupported
  <2>4. Opened(pager).version = reported /\ ~Refused(Opened(pager))
    BY <2>2, CopyKeepsVersion
  <2>5. pager' # None => pager'.version = reported' /\ ~Refused(pager')
    BY <2>1, <2>4
  <2> QED
    BY <2>1, <2>3, <2>5 DEF Versioned, Refused
<1>7. ASSUME NEW t \in Tunnelled, ProvideEms(t) PROVE Versioned'
  <2>1. UNCHANGED <<options, reported, pager>> /\ call = "idle" /\ wire' = None /\ call' # "version"
    BY <1>7 DEF ProvideEms, clientVars, EmsEnds
  <2>2. ems' = None \/ ems' = SetTunnel(SetTimeout(server, 25), t)
    BY <1>7 DEF ProvideEms, EmsEnds
  <2>3. SetTunnel(SetTimeout(server, 25), t).version = server.version
    BY <1>a, SetTimeoutAgrees, CopyKeepsVersion
  <2> QED
    BY <1>b, <2>1, <2>2, <2>3 DEF Versioned, TunnelIsSupported, Refused
<1>8. ASSUME NEW t \in Tunnelled, EmsNode(t) PROVE Versioned'
  <2>1. /\ UNCHANGED <<options, reported, pager>> /\ call = "node" /\ wire'.tunnel = None
        /\ call' # "version" /\ (ems' = None \/ ems' = SetTunnel(Opened(ems), t))
    BY <1>8 DEF EmsNode, clientVars, EmsEnds, Sent
  <2>2. ems # None /\ ems \in Servers /\ Agrees(ems, asked.ems) /\ asked.ems \in Wants
    BY <2>1, UsersAgree DEF ConnInv, ConnTypeOK
  <2>3. SetTunnel(Opened(ems), t).version = ems.version
    BY <2>2, OpenedAgrees, CopyKeepsVersion
  <2> QED
    BY <2>1, <2>2, <2>3 DEF Versioned, TunnelIsSupported, Refused
<1>9. CASE EmsLog
  <2>1. /\ UNCHANGED <<options, reported, pager>> /\ call = "log" /\ ems' = None
        /\ call' # "version"
        /\ wire' = None \/ (~Refused(ems) /\ wire' = Sent("ems", ems, TRUE, asked.ems))
    BY <1>9 DEF EmsLog, clientVars, EmsEnds
  <2>2. ems # None /\ ems \in Servers /\ Agrees(ems, asked.ems) /\ asked.ems \in Wants
    BY <2>1, UsersAgree DEF ConnInv, ConnTypeOK
  <2>3. TunnelIsSupported'
    BY <2>1, <2>2, SentIsSupported DEF Versioned, TunnelIsSupported
  <2> QED
    BY <2>1, <2>3 DEF Versioned, Refused
<1>10. CASE UNCHANGED connVars
  BY <1>10 DEF connVars, clientVars, emsVars, Versioned, TunnelIsSupported, Refused
<1> QED
  BY <1>1, <1>2, <1>3, <1>4, <1>5, <1>6, <1>7, <1>8, <1>9, <1>10 DEF ConnNext, Tunnelled

\* For all versions and all orders of calls, no request goes
\* through a tunnel to a filer whose version is too old for it.
THEOREM TunnelIsSupportedHolds == ConnSpec => []TunnelIsSupported
<1>1. ConnInit => Versioned
  BY DEF ConnInit, Versioned, TunnelIsSupported
<1>2. Versioned => TunnelIsSupported
  BY DEF Versioned
<1> QED
  BY <1>1, <1>2, VersionedKept, ConnInvariant, PTL DEF ConnSpec
===============================================================================
