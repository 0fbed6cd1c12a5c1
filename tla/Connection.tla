------------------------------ MODULE Connection ------------------------------
(***************************************************************************)
(* The connection of a client to the filer (NaServer) and who shares it.   *)
(* A client has one connection.  What needs another tunnel or a timeout    *)
(* works on a copy of it: a request in the name of one vserver, a list     *)
(* that invoke_api reads page by page while its caller does other things,  *)
(* and the EMS message that a driver sends once in an hour.  The owner may *)
(* change login, port and vserver in between.  A request may fail at any   *)
(* time.                                                                   *)
(***************************************************************************)
EXTENDS Integers

CONSTANTS
  Configs,      \* what clients are made with: [family, transport, port, tunnel, login]
  Ports,        \* ports the owner may set
  Logins,       \* user name and password
  Tunnels,      \* names of vservers or vfilers
  Versions,     \* ONTAPI versions a filer may report, <<major, minor>>
  Timeouts,     \* timeouts a caller of invoke_api may pass; 0 for none
  None,         \* an attribute that is None or not there
  EmsLimit,     \* sec_limit, 3559
  MaxTime       \* bound: the clock

Transports == {"http", "https"}

ASSUME ConnAssumption ==
  /\ Configs \subseteq [family : {"cluster", "7mode"}, transport : Transports,
                        port : Nat \cup {None}, tunnel : Tunnels \cup {None}, login : Logins]
  /\ Ports \subseteq Nat \ {0} /\ Versions \subseteq Nat \X Nat /\ Timeouts \subseteq Nat
  /\ None \notin Tunnels \cup Nat \cup (Nat \X Nat)
  /\ EmsLimit \in Nat /\ MaxTime \in Nat

VARIABLES
  options,      \* the configuration of this client
  server,       \* the shared connection
  call,         \* "version" (the client is made), "idle", "node", "log", or "failed"
  reported,     \* the version that the filer reported
  fast,         \* the feature FAST_CLONE_DELETE
  pager,        \* the copy that a list is read with
  ems,          \* the copy that an EMS message is sent with
  last_ems,     \* when the last attempt ended, as the requester remembers it
  now,
  wire,         \* the request that the last step sent, or None
  asked,        \* asked[w]: what the user of the connection, or of a copy, asked for
  emsAt         \* when the last EMS request was sent

clientVars == <<options, reported, fast>>
emsVars    == <<ems, last_ems, emsAt>>
connVars   == <<clientVars, server, call, pager, emsVars, now, wire, asked>>
-----------------------------------------------------------------------------
(* NaServer *)

SetTransportType(s, t) ==
  [s EXCEPT !.transport = t, !.port = IF t = "http" THEN 80 ELSE 443, !.refresh = TRUE]
SetPort(s, p)     == [s EXCEPT !.port = p, !.refresh = TRUE]
SetLogin(s, u)    == [s EXCEPT !.login = u, !.refresh = TRUE]
SetApiVersion(s, v) == [s EXCEPT !.version = v, !.refresh = TRUE]
SetTimeout(s, t)  == [s EXCEPT !.timeout = t]

\* A vserver in cluster mode, a vfiler in 7-mode.
SetTunnel(s, t) ==
  IF options.family = "cluster" THEN [s EXCEPT !.vserver = t] ELSE [s EXCEPT !.vfiler = t]

Blank(o) == [transport |-> "http", port |-> 80, login |-> o.login, vfiler |-> None,
             vserver |-> None, version |-> None, timeout |-> None, refresh |-> TRUE,
             opener |-> None]

NaServer(o) ==
  LET s == SetTransportType(Blank(o), o.transport)
  IN  IF o.port \in {None, 0} THEN s ELSE SetPort(s, o.port)

Url(s) == <<s.transport, s.port>>

\* Mutant: an opener that is there is used.
OpenedOnce(s) ==
  [s EXCEPT !.opener = IF s.opener = None THEN [url |-> Url(s), login |-> s.login] ELSE s.opener]

\* _build_opener, of every request as _refresh_conn is never reset.
Opened(s) ==
  [s EXCEPT !.opener = IF s.opener = None \/ s.refresh THEN [url |-> Url(s), login |-> s.login]
                                                       ELSE s.opener]

\* Mutant: the major number alone decides.
AtLeastMajor(v, minor) == v # None /\ v[1] >= 1

AtLeast(v, minor) == v # None /\ v[1] >= 1 /\ v[2] >= minor

\* _enable_tunnel_request raises ValueError.
Refused(s) == \/ s.vfiler # None /\ ~AtLeast(s.version, 7)
              \/ s.vserver # None /\ ~AtLeast(s.version, 15)

\* Both are put into the attribute vfiler, the vserver last.
TunnelOf(s) == IF s.vserver # None THEN s.vserver ELSE s.vfiler

\* A request that w sends over s; want is what w asked for.
Sent(w, s, tunneling, want) ==
  [by |-> w, url |-> Url(s), auth |-> Opened(s).opener, timeout |-> s.timeout,
   tunnel |-> IF tunneling THEN TunnelOf(s) ELSE None, tunneling |-> tunneling, want |-> want]
-----------------------------------------------------------------------------
(* The client *)

\* "If not specified, Data ONTAP drivers will use 80 for HTTP and 443 for HTTPS"
PortWanted(o) ==
  IF o.port \in {None, 0} THEN (IF o.transport = "http" THEN 80 ELSE 443) ELSE o.port

ConnInit ==
  /\ options \in Configs
  /\ server = LET s == SetTunnel(NaServer(options), options.tunnel)
              IN  IF options.family = "cluster" THEN SetApiVersion(s, <<1, 15>>) ELSE s
  /\ call = "version" /\ reported = None /\ fast = FALSE
  /\ pager = None /\ ems = None /\ last_ems = None /\ emsAt = None /\ now = 0 /\ wire = None
  /\ asked = [client |-> [port |-> PortWanted(options), login |-> options.login,
                          tunnel |-> options.tunnel, timeout |-> None],
              pager |-> None, ems |-> None]

\* FAST_CLONE_DELETE; in 7-mode there are no features.
FastWith(v) == options.family = "cluster" /\ (v[1] > 1 \/ (v[1] = 1 /\ v[2] >= 30))

\* Mutant: the features are set up with the version the first request is sent with.
GetVersionLate(v) ==
  /\ call = "version"
  /\ wire' = Sent("client", server, FALSE, asked.client)
  /\ server' = SetApiVersion(Opened(server), v)
  /\ reported' = v /\ fast' = (options.family = "cluster" /\ FastWith(server.version))
  /\ call' = "idle"
  /\ UNCHANGED <<options, pager, emsVars, now, asked>>

\* get_ontapi_version(cached=False), set_api_version and _init_features.
GetVersion(v) ==
  /\ call = "version"
  /\ wire' = Sent("client", server, FALSE, asked.client)
  /\ server' = SetApiVersion(Opened(server), v)
  /\ reported' = v /\ fast' = FastWith(v)
  /\ call' = "idle"
  /\ UNCHANGED <<options, pager, emsVars, now, asked>>

\* The constructor raises.
GetVersionFails ==
  /\ call = "version"
  /\ wire' = Sent("client", server, FALSE, asked.client)
  /\ server' = Opened(server)
  /\ call' = "failed"
  /\ UNCHANGED <<clientVars, pager, emsVars, now, asked>>

\* send_request; what is answered changes nothing.
SendRequest(tunneling) ==
  /\ call = "idle" /\ ~(tunneling /\ Refused(server))
  /\ wire' = Sent("client", server, tunneling, asked.client)
  /\ server' = Opened(server)
  /\ UNCHANGED <<clientVars, call, pager, emsVars, now, asked>>

\* _invoke_vserver_api, _invoke_vfiler_api: the copy lives for one request.
InvokeTunnelApi(t) ==
  LET s == SetTunnel(server, t)
  IN  /\ call = "idle" /\ ~Refused(s)
      /\ wire' = Sent("copy", s, TRUE, [asked.client EXCEPT !.tunnel = t])
      /\ UNCHANGED <<clientVars, server, call, pager, emsVars, now, asked>>

\* set_vserver of the client, set_port and set_username/set_password of the connection.
SetVserver(t) ==
  /\ call = "idle" /\ options.family = "cluster"
  /\ server' = [server EXCEPT !.vserver = t]
  /\ asked' = [asked EXCEPT !.client.tunnel = t]
  /\ wire' = None /\ UNCHANGED <<clientVars, call, pager, emsVars, now>>
ChangePort(p) ==
  /\ call = "idle"
  /\ server' = SetPort(server, p)
  /\ asked' = [asked EXCEPT !.client.port = p]
  /\ wire' = None /\ UNCHANGED <<clientVars, call, pager, emsVars, now>>
ChangeLogin(u) ==
  /\ call = "idle"
  /\ server' = SetLogin(server, u)
  /\ asked' = [asked EXCEPT !.client.login = u]
  /\ wire' = None /\ UNCHANGED <<clientVars, call, pager, emsVars, now>>
-----------------------------------------------------------------------------
(* invoke_api: a generator, resumed when its caller wants the next page. *)

\* Mutant: the list is read with the shared connection.
ApiFirstUncopied(t, timeout) ==
  LET s == IF timeout > 0 THEN SetTimeout(SetTunnel(server, t), timeout) ELSE SetTunnel(server, t)
      want == [asked.client EXCEPT !.tunnel = t, !.timeout = IF timeout > 0 THEN timeout ELSE None]
  IN  /\ call = "idle" /\ pager = None /\ ~Refused(s)
      /\ wire' = Sent("pager", s, TRUE, want)
      /\ server' = Opened(s) /\ pager' \in {None, server'}
      /\ asked' = [asked EXCEPT !.pager = IF pager' = None THEN None ELSE want]
      /\ UNCHANGED <<clientVars, call, emsVars, now>>

\* The first page; it may be the last, or fail, which ends the generator too.
ApiFirst(t, timeout) ==
  LET s == IF timeout > 0 THEN SetTimeout(SetTunnel(server, t), timeout) ELSE SetTunnel(server, t)
      want == [asked.client EXCEPT !.tunnel = t, !.timeout = IF timeout > 0 THEN timeout ELSE None]
  IN  /\ call = "idle" /\ pager = None /\ ~Refused(s)
      /\ wire' = Sent("pager", s, TRUE, want)
      /\ pager' \in {None, Opened(s)}
      /\ asked' = [asked EXCEPT !.pager = IF pager' = None THEN None ELSE want]
      /\ UNCHANGED <<clientVars, server, call, emsVars, now>>

ApiNextPage ==
  /\ call = "idle" /\ pager # None
  /\ wire' = Sent("pager", pager, TRUE, asked.pager)
  /\ pager' \in {None, Opened(pager)}
  /\ asked' = [asked EXCEPT !.pager = IF pager' = None THEN None ELSE @]
  /\ UNCHANGED <<clientVars, server, call, emsVars, now>>
-----------------------------------------------------------------------------
(* provide_ems *)

EmsDue == last_ems # None => now - last_ems > EmsLimit

\* The except and finally clauses.
EmsEnds ==
  /\ call' = "idle" /\ ems' = None /\ last_ems' = now
  /\ asked' = [asked EXCEPT !.ems = None]

\* In a cluster the message is sent as the requester's vserver t, or with an old
\* version as that of a node that is asked for first; in 7-mode without a vfiler.
ProvideEms(t) ==
  LET s    == SetTimeout(server, 25)
      want == [asked.client EXCEPT !.timeout = 25]
      node == server.version[1] = 1 /\ server.version[2] > 15
  IN  /\ call = "idle" /\ EmsDue
      /\ \/ /\ options.family = "cluster" /\ node /\ t = None
            /\ EmsEnds
         \/ /\ options.family = "cluster" /\ node /\ t # None
            /\ call' = "log" /\ ems' = SetTunnel(s, t)
            /\ asked' = [asked EXCEPT !.ems = [want EXCEPT !.tunnel = t]]
            /\ UNCHANGED last_ems
         \/ /\ options.family = "cluster" /\ ~node /\ t = None
            /\ call' = "node" /\ ems' = SetTunnel(s, None)
            /\ asked' = [asked EXCEPT !.ems = [want EXCEPT !.tunnel = None]]
            /\ UNCHANGED last_ems
         \/ /\ options.family = "7mode" /\ t = None
            /\ call' = "log" /\ ems' = SetTunnel(s, None)
            /\ asked' = [asked EXCEPT !.ems = [want EXCEPT !.tunnel = None]]
            /\ UNCHANGED last_ems
      /\ wire' = None /\ UNCHANGED <<clientVars, server, pager, emsAt, now>>

\* _get_cluster_node: t is the node, or None if there is none or the request failed.
EmsNode(t) ==
  /\ call = "node"
  /\ wire' = Sent("ems", ems, FALSE, asked.ems) /\ emsAt' = now
  /\ \/ t = None /\ EmsEnds
     \/ /\ t # None
        /\ call' = "log" /\ ems' = SetTunnel(Opened(ems), t)
        /\ asked' = [asked EXCEPT !.ems.tunnel = t]
        /\ UNCHANGED last_ems
  /\ UNCHANGED <<clientVars, server, pager, now>>

\* Mutant: the time is noted when the message was sent.
EmsLogNoted ==
  /\ call = "log"
  /\ IF Refused(ems) THEN wire' = None /\ UNCHANGED emsAt
     ELSE wire' = Sent("ems", ems, TRUE, asked.ems) /\ emsAt' = now
  /\ call' = "idle" /\ ems' = None /\ last_ems' \in {last_ems, now}
  /\ asked' = [asked EXCEPT !.ems = None]
  /\ UNCHANGED <<clientVars, server, pager, now>>

\* The message, whether it is answered or fails; a refused one is not sent.
EmsLog ==
  /\ call = "log"
  /\ IF Refused(ems) THEN wire' = None /\ UNCHANGED emsAt
     ELSE wire' = Sent("ems", ems, TRUE, asked.ems) /\ emsAt' = now
  /\ EmsEnds
  /\ UNCHANGED <<clientVars, server, pager, now>>

Tick ==
  /\ now < MaxTime
  /\ now' = now + 1
  /\ wire' = None /\ UNCHANGED <<clientVars, server, call, pager, emsVars, asked>>

ConnNext ==
  \/ \E v \in Versions : GetVersion(v)
  \/ GetVersionFails
  \/ \E tunneling \in BOOLEAN : SendRequest(tunneling)
  \/ \E t \in Tunnels : InvokeTunnelApi(t)
  \/ \E t \in Tunnels \cup {None} : SetVserver(t)
  \/ \E p \in Ports : ChangePort(p)
  \/ \E u \in Logins : ChangeLogin(u)
  \/ \E t \in Tunnels \cup {None}, timeout \in Timeouts : ApiFirst(t, timeout)
  \/ ApiNextPage
  \/ \E t \in Tunnels \cup {None} : ProvideEms(t) \/ EmsNode(t)
  \/ EmsLog
  \/ Tick

ConnSpec == ConnInit /\ [][ConnNext]_connVars
-----------------------------------------------------------------------------
(* Properties *)

Wants == [port : Nat, login : Logins, tunnel : Tunnels \cup {None}, timeout : Nat \cup {None}]

Servers ==
  [transport : Transports, port : Nat, login : Logins, vfiler : Tunnels \cup {None},
   vserver : Tunnels \cup {None}, version : (Nat \X Nat) \cup {None}, timeout : Nat \cup {None},
   refresh : {TRUE}, opener : [url : Transports \X Nat, login : Logins] \cup {None}]

ASSUME NoneAssumption == None \notin Servers /\ None \notin Wants

\* The types of the variables; a copy is kept only while it is in use, and a client
\* that was made knows the version and the features of its filer.
ConnTypeOK ==
  /\ options \in Configs
  /\ server \in Servers
  /\ call \in {"version", "idle", "node", "log", "failed"}
  /\ reported \in Versions \cup {None} /\ fast \in BOOLEAN
  /\ pager \in Servers \cup {None} /\ ems \in Servers \cup {None}
  /\ (ems # None <=> call \in {"node", "log"})
  /\ last_ems \in Nat \cup {None} /\ emsAt \in Nat \cup {None} /\ now \in Nat
  /\ asked \in [client : Wants, pager : Wants \cup {None}, ems : Wants \cup {None}]
  /\ (pager = None <=> asked.pager = None) /\ (ems = None <=> asked.ems = None)
  /\ call \in {"idle", "node", "log"} =>
       server.version = reported /\ reported # None /\ fast = FastWith(reported)

\* A request goes to the vserver or vfiler, and with the timeout, that its sender
\* asked for, however the owner, a list that is being read and an EMS message take
\* turns with the connection.
GoesAsAsked ==
  wire # None =>
    /\ wire.tunnel = (IF wire.tunneling THEN wire.want.tunnel ELSE None)
    /\ wire.timeout = wire.want.timeout

\* It goes to the configured port, or the one set since or the default, and the
\* credentials it is sent with are those for this address.
AuthIsCurrent ==
  wire # None =>
    /\ wire.url = <<options.transport, wire.want.port>>
    /\ wire.auth = [url |-> wire.url, login |-> wire.want.login]

\* Version v of ONTAPI is 1.minor or later.
NotOlder(v, minor) == v[1] > 1 \/ (v[1] = 1 /\ v[2] >= minor)

\* "ontapi version has to be atleast 1.7 to send request to vfiler", and 1.15 to a
\* vserver: whoever sends it, and over whichever copy, a request goes through a tunnel
\* only to a filer that has reported such a version itself.
TunnelIsSupported ==
  wire # None /\ wire.tunnel # None =>
    reported # None /\ NotOlder(reported, IF options.family = "cluster" THEN 15 ELSE 7)

\* A requester does not start an EMS message before the limit has passed since it
\* last sent a request for one, whether that succeeded or not.
EmsApart ==
  [][call = "idle" /\ call' \in {"node", "log"} /\ emsAt # None => now - emsAt > EmsLimit]_connVars
===============================================================================
