# TLA+ specifications of gost_x

`gost_x` is the extension library of the GOST tunnel: services that accept
connections over some thirty transports, handlers that speak proxy protocols on
them, and chains of nodes through which handlers dial out, all of it configured
by a file and changed at run time by a web API. This directory holds TLA+
models of its concurrent core, the TLC configurations that check them, and
machine-checked proofs. `PROJECT.json` is the index: components, runs, the map
from definitions to source lines, hazards and theorems.

Run a configuration with `tlc -config X.cfg M`, where the table under "Runs"
says which module goes with which configuration; check the proofs with
`tlapm XProofs.tla` for each of the eight modules of that name (from seconds to some
twelve minutes for one). Only the standard, community and TLAPS modules are needed.

## The system

A **service** owns a listener and a handler. `service.Serve` calls `Accept` in a
loop and starts one goroutine per connection; the handler authenticates, dials
the target through its **router** (a chain, or directly) and copies bytes both
ways. A **chain group** selects a chain, a chain has **hops**, a hop selects a
**node**; a node has a **dialer** (transport) and a **connector** (protocol).
All named objects live in **registries**, one `sync.Map` per kind, through which
services refer to each other's rule sets; the **API** creates, replaces and
deletes them while traffic flows. Rule sets reload themselves periodically from
files, Redis or HTTP.

| Component | State | Operations | Hard part | Correct when | Model |
|---|---|---|---|---|---|
| connection limiter (`limiter/conn`) | atomic counters, cache of limiter groups by host, generators | `Limiter`, `Allow(±1)`, `Close`, `reload` | no lock over a group; one limiter object serves several accept loops; reload under way | never more open connections than a limit says; slots are given back | `ConnLimiter`, `Quota` |
| API, registries, configuration (`api`, `registry`, `config`) | registry per kind, list in the global configuration, live objects | create, update, delete of 12 kinds | a request is many steps without a lock; parsing may fail half way | registry and list agree; no service serves unreachable; one winner per name | `ConfigAPI` |
| service loop and listeners (`service`, `listener/*`) | socket, accept queue, error channel, close flags | `Serve`, `Accept`, `Close`, `listenLoop`, devices | errors and Close travel through channels; three goroutines per listener | Close ends Serve; the port is free afterwards; nothing queued is forgotten | `Listeners`; `Devices` |
| chains and routes (`chain`, `selector`) | failure markers, round-robin counters | select chain and nodes, connect, mark, reset | selection uses what other dials found out, and is old when used | dead nodes are avoided within a bound; a hop is not silently left out | `ChainRoute` |
| multiplexing dialers (`dialer/*`) | map of sessions by address | `Dial`, `Handshake`, stream open | the map is unlocked between `Dial` and `Handshake` | a live session is shared; a dead one does not stay | `MuxDialer` |
| plain HTTP tunnel (`internal/util/pht`) | token map, pipe, accept queue, receive queue | authorize, push, pull, `Read`, `Write`, `Close` | a byte stream over requests that get lost, cut or time out | both directions in order and without a gap; acknowledged means read | `PHT`, `Stream` |
| handlers (`handler/*`, `internal/net`) | per connection: checks passed, read deadline, target, two copying goroutines | `Handle`, per protocol; `Transport`, `udp.Relay` | error paths, bytes read ahead, deadlines left behind, one goroutine that nobody waits for | one close; answers that fit; no byte lost, made or reordered; everything ends | `Handlers`; `ForwardHTTP` for HTTP through the forward handlers |
| relay tunnels (`handler/relay`) | tunnels, connectors, round robin | bind, connect, clean | connectors die between selection and use; one goroutine per stream answers beside the loop that reads requests | a live connector is found if there is one; answers in order; no stream is left behind | `RelayTunnel`; the rest of the handler in `Handlers`, `RemoteBind` |
| traffic limiter (`limiter/traffic`) | token buckets by service, host and connection, shared with open connections | `In`, `Out`, `reload`; `Read`, `Write`, packets | reload changes buckets in use, cache by cache, without a lock | limits follow the rules in force; nobody waits for ever; bytes keep their order | `TrafficLimiter` |
| rate limiter (`limiter/rate`) | token buckets by host | `Limiter`, `reload`, `Close` | cache and rules replaced while used | as the other rule sets | `RuleSet` |
| rule sets (`admission`, `bypass`, `hosts`, `ingress`, `auth`, `internal/loader`, `internal/matcher`) | rules, sources, reload goroutine | look-ups, `reload`, `Close` | replaced while read, in some key by key | never an answer that no rule set in force gives; Close ends the goroutine | `RuleSet` |
| DNS (`resolver`, `handler/dns`) | a cache of answers with expiry, shared by all look-ups and name servers of a resolver or handler | look up, ask the name servers in turn, store | concurrent look-ups store late; several ways to a time-to-live; errors half way through the servers | an answer fits its question and is no older than it may be kept; every server is asked before a name is given up | `DnsCache` |
| TUN/TAP (`handler/tun`, `handler/tap`, their listeners) | device, socket, routes learned from peers | read device, read socket, keep-alive, open the socket anew | readers of the device outlive their socket; peers move; keep-alives come late | a device that is gone is replaced; packets go to where the peer is | `TunHandler`, with the listener in `Devices` |
| remote binding (`connector/{socks,relay,sshd}`, `handler/socks/v5/mbind.go`, `handler/relay/bind.go`, `handler/sshd`, `listener/rtcp`) | per bind: session, port, peers | `Bind`, `Accept`, listen, open streams | two ends notice a broken connection at different times; the port is still taken when the client comes back | who waits for peers has the port; the service is bound again; nothing is left behind | `RemoteBind` |
| UDP relays (`internal/net/udp`, `handler/*/udp*.go`) | per association | associate, relay both ways | association and control connection end separately | as the handlers | `Handlers` |
| handshakes on the way (`dialer/obfs`, `listener/obfs`, `connector/{relay,ss,sni}`, `handler/{relay,ss}`) | at each end: request or response kept for the first write, what is to be taken off before the first read | `Read`, `Write`, `Close` | reader and writer meet in the handshake; the network cuts anywhere; each end waits for data of its own | data in order from the first item, no trace of the handshake; nobody waits for ever | `LazyConn` |
| plain dialers, other `Connect`s of connectors, codecs, generated code, metrics, logging | none that outlives a call | | | | not modelled |

## Modules

`X.tla` is a component, `XProofs.tla` has its theorems and others' (the table under
"What is proved" says whose); `MC_X.tla` holds the instances TLC uses, where constants
are records or sequences; `Handlers` and `RemoteBind` need none, and `MC_Conns` is for
`PHT` and `LazyConn`, `MC_RelayTunnel` for `RelayTunnel` and `ForwardHTTP`: a variable,
`tunnel` and `tunnels`, says which of the two runs in a behaviour. `Quota` and `Stream`
are abstract specifications, `Devices` is a composition. `Subsequence` has the elements
of a sequence that are in a set (`Keep`), as a recursive function: what `SelectSeq`
computes, in a form that can be proved about. The type invariant of a module is the
first conjunct of the first invariant of its run. Definitions named "A variant with a
fault" are the broken forms of the definition that follows; no specification uses them,
they are there to show that a property notices the difference.

### ConnLimiter

A `connLimiter` keeps generators by rule and a cache from host to a *group* of
`llimiter`s (the most specific one and the global one, smaller limit first).
`heap` is the sequence of all `llimiter`s allocated so far, each with its limit
and its atomic counter; groups are sequences of places in it, so that a
connection keeps the limiters it was admitted by when a reload replaces the
rules. `Accept` is the wrapper's `Accept` up to the look-up (one critical section
in the code), `AllowAdd` and `AllowUndo` are the two atomic additions of
`llimiter.Allow(1)`, `Rollback` the withdrawal by `limiterGroup.Allow`, `Close`
and `Release` the `Allow(-1)` of `serverConn.Close`, limiter by limiter. `Reload`
replaces generators and empties the cache. Parsing of rules is abstracted to its
result, a limit per address, per network, per other address and for all.
`HandlerCloses` is how often a handler closes its connection: once, or twice for
the relay handler when it fails; that it is once elsewhere is `ClosedOnce` of
`Handlers`.

`Quota` is what all this promises to the outside: connections are admitted under
one of the rule sets so far, and under it no host has more than its most specific
rule says, nor all hosts together more than the rule for all. `IsQuota`, in
`MC_ConnLimiter`, is the refinement: a connection that is open is admitted, under
the rule set of its look-up.

### ConfigAPI

`kind` is the kind of object in a behaviour, described by the four things that
the twelve `api/config_*.go` files, their parsers and registry wrappers differ
in. A request (`reqs`) goes through the steps of its handler: look up, close the
old service, parse, `Unregister` in its three steps, `Register`, `go Serve()`,
`OnUpdate` of the list. Each access to shared state is a step of its own, since
no lock spans two of them. `objs` remembers all objects ever made, whether they
are up and serving, and what became of them; `deleted` and `raced` are history
variables. Failures are actions: parsing fails, or fails after the listener was
bound; an address in use refuses the bind. What holds only while requests about
one name do not overlap is stated for names that are not in `raced`.

### ChainRoute

The group's selector, then each hop's selector, choose among the candidates that
the bypass leaves, by `FailFilter`, `BackupFilter` and a strategy; then the nodes
are connected one after the other and markers are set or reset. The time of a
marker is abstracted to whether the last failure is more recent than
`failTimeout`; `Forgive` is the passing of that time. A node that multiplexes
takes the route so far into its transport (`chain.go`), and only what comes
before the first of them belongs to the chain: `InChainPart`. `fails` is a history
variable. `strategy` is the strategy of all selectors in a behaviour; the run has
`random`, which allows any choice among what the filters leave, hence also what
the weighted, FIFO and hash strategies choose, and `round`, whose counter goes up
only when there is a choice (`Lone`).

### MuxDialer

`kind` describes how the twelve dialers differ (see the comment on `Kind`); `slot` is
the map, `sess` all connections ever made with the session on them. A node has a name
and, where it has a resolver or hosts (`mapped`), an address that these make of it.
`Dial` is given the second and `Handshake` the first (`chain/route.go`,
`config/parsing/chain.go`), so `Dial` may look at one entry (`Target`) and `Handshake`
at another (`Home`): that is `Split`, for mtls, mws, ssh and sshd. `Dial*` is one
critical section of `Dial`, `Handshake*` one of `Handshake`; between them other dials
run, the network may break a connection (`Break`), and the session's own goroutine finds
out (`Notice`), before which `IsClosed` says FALSE. `CloseDialed`, `ConnectorFails` and
`TargetFails` are what `chain/route.go` closes. smux, quic, ssh, HTTP/2, HTTP/3 and gRPC
are libraries, modelled as far as the dialers use them: a session opens streams until it
is closed.

### PHT

One connection of the tunnel with both of its halves: the client's `Write` and
its push request, `readLoop` and its pull request, the server's handlers, the
`net.Pipe` between them and the application, and both `Close`s. Blocks of data
are numbers in the order written; base64 and line framing are abstracted to one
line per block, with the empty line of the read timeout kept apart. `Network`
says whether requests and responses may be lost or cut.

`Stream` is a connection as its two ends see it: the client writes block by block
and is told whether each was read, the other end writes without waiting, both
directions are FIFO, and until the client closes, what was written to it arrives.
`IsStream` is the refinement, fairness included; the mapping forgets requests,
queues and the pipe.

### LazyConn

Connections that send their request with the first data and take the answer off what
they read first: obfs-http and obfs-tls (both ends), relay for TCP and UDP, ss, and the
client's end of sni. `kind` is the protocol, with `cnow` and `snow` for the `nodelay` of
client and server. `conn` has both ends: whether `Connect` or the server's handshake is
done (`up`), what waits to be sent with the first data (`wbuf`), whether the answer has
been taken off (`drained`), what was read along with it (`rbuf`). `link` is what is on
its way: items, requests and responses (0), refusals (-1) and the halves of TLS record
headers. `WriteBlock` is a `Write`, with what it puts on the link (`Wire`); the actions
in `Reading` are `Read` with the copying goroutine around it. A read takes any number of
units, which is how TCP cuts. `Take` is what the server does up to `Transport`, for
each protocol. `damaged` is history: what an end wrote met one of the faults listed
below. Fields of requests and of TLS records are left out, and so are chunks that cut a
record on its way to obfs-tls's server, which reads whole records (`record.ReadFrom`).

### Listeners

`Serve` with each of the 28 listeners. `kind` has what tells them apart: who
accepts (the socket, a loop, a server, a remote bind, a device loop), how errors
reach `Accept` and how `Close` does, whether one session yields many streams,
whether sessions outlive `Close`, and the capacity of the queue. An iteration of
`Serve` is one step; the select in `Accept` is a choice among the actions that
are enabled. A nil error without a connection, which the code would dereference,
is the state `crashed`. The handler of tap can end the process: `exited`.

### TunHandler and Devices

`TunHandler` has the loops `handleServer`, `handleClient` (tun) and `handleLoop`
(tap): `Dial` opens a socket and starts the goroutines `dr`, which reads the device,
and `nr`, which reads the socket; `errc` has the error that came first, `Settle` is
the loop's reaction, `Ends` whether it gives up. A goroutine that reads the device
learns of its socket's end only from its next packet: `stale` counts those left
behind, `late` has the routes that goroutines of closed sockets are about to store.
`mode` is server, client, client without keep-alives (`silent`), tap server or tap
client. One peer is modelled, with its address `cur`, the keep-alives (tun) or
frames (tap) under way in `hellos`, in any order, and the handler's entry `route`.
Packets are not objects: `lost` counts those for the peer that a reader took and
could not send.

`Devices` composes it with `Listeners`. `Serve`'s step that takes a device from the
listener is `Start`, the handler's `Return` is `Handled`, for which the listener's
loop waits (`DevWait`) before it creates the next device; `HandlerStep` is a step of
the handler alone. With the other 26 listeners the handler is a free choice.

### Handlers

One connection in each of 32 kinds: handlers, and modes of a handler that take other
paths (http with CONNECT or another method, each with probe resistance by a decoy host
or by a page; forwarding with and without sniffing; socks5 UDP; ...). A kind is a record
of what tells them apart, explained before `Plain`. `Peek`, `RateLimit`, `ReadRequest`,
`Check`, `Dial` and `Reply` are the parts of `Handle`, each with its failures, all of
which go through `Return`, the deferred closes. `Transport` is the pair of copiers, `up`
and `down`, with `errc`; a `udp.Relay` is the same with datagrams that may be dropped.
Items are numbers: the request is 0 and is passed on or consumed; an answer is 0 or -1.
An HTTP request for a target may arrive in `part`, with some of its body missing until
`ClientBody`: passing it on waits for the rest (`BodyAwaited`), and so does http's
deferred `Body.Close`, in the phase `rest`. The phase `page` is that in which probe
resistance gets its page from another server. (With trace-level logging the headers are
dumped as well, which is left out.) What a bufio.Reader took along with the request is
`ReadAhead`. `ender` is history: which end made `Transport` return, and why.

### RemoteBind

A service whose listener binds a port at the far end of a chain: `rtcpListener`
with the `Bind` of socks5 (MBIND), relay or sshd, and the server's handler. `client`
is the listener and where its `Accept` is, `forwards` the bind requests with their
state at the server and whether the client has a listener for them (`ln`), `links`
the connections with both ends, `port` who holds the port, `peers` the connections
to it. For mbind and relay each forward has a connection of its own, upgraded to a
session; ssh shares one. Each end notices a broken connection by itself, after
which `Release` at the server frees the port and `WaitFails` makes the client bind
again. `Close` finds no listener while `Accept` is binding. `Restart` creates the
service again.

### DnsCache

A resolver asks its name servers in turn, each for both types of address; the DNS
handler passes a query on to the server that its hop selects. `setup` is the
configuration: which of the two (`mode`), the time-to-live and the preferred type by
server, and which servers answer over https, where a body may be no DNS message.
`cache` has for each question the answer and the time it is still kept, `looks` the
look-ups. `Hit`, `Miss`, `Stale` and `Drop` are `Cache.Load`, whose deletion of an
old item is a step of its own and goes by the key; `Respond` is the server's answer,
`Receive`, `Garbled` and `Fails` are the ways in which an exchange ends, with
`Store`; `GoOn` goes to the next type or server. A handler that could not parse an
https body stores what there is of it (`Parts`), in a deferred function. A message
is the TTLs of its records, which of them have an address (a CNAME has none, and only
an address ends the search), the question it answers, its id, the server, and its
age; `Age` passes time, only while exchanges are waited for, and in any order
with the answers. What hosts and bypass answer before the cache is asked is in
`RuleSet`. `asked` and `empty` are history.

### TrafficLimiter

One direction of a `trafficLimiter`; `In` and `Out` are the same code over two
sets of caches. `heap` has the limit (and burst) of each `llimiter`; `all`,
`hostLims`, `connLims` are the caches, `gen` and `ranger` the generator of
connection limiters and the table of networks. `reload` goes through its blocks
one action at a time (`ReloadService` to `ReloadRanger`), a look-up through its
accesses (`LookService` to `StoreHost`). `held` is the group a connection found
last, good for one second; `Read`, `Write` and `Packet` wait on it, outside any
lock, and `ReadWaited`, `ReadDrained`, `WriteWaited` are their ends. Tokens and
time are left out: a wait ends some time, with as much as the bursts let pass. A
wait sees the bursts of its group at one moment, which leaves out only waits that
straddle a `Set`. Bytes read are numbers in the order of arrival. `late`, `before`
and `served` are history variables for the exceptions below.

### RelayTunnel

One tunnel: `list` and `turn` are `Tunnel.connectors` and its counter, `sess` the state
of each connector's session, `vis` each visitor's handler and `str` the streams, each
with the goroutine that copies from it. `Bind` is `handleBindTunnel`, `AcceptFails` the
end of `Connector.accept`, `Clean` a tick. `Pick`, `OpenFails` and `Open` are the loop
of `getTunnelConn`, `Open` with what follows up to the start of copying. `NextRequest`
to `CloseAll` are the loop of `handleHTTP`, in which `req.Write` takes two steps, since
it reads the body from the visitor as it goes: `SendOn`, and `SendDone` or, when the
body or the stream breaks off, `WriteBreaks`, after which the node may answer what it
got; `Answer` to `CloseStream` the goroutine it starts. Requests and answers are
numbers; 0 is a response of the handler's own. Of smux the model has what the code
meets: opening fails once the session failed or closed, a write to a stream that the
peer closed succeeds and is lost, a read ends with or without an error. The history
variable `calm` marks look-ups that nothing interfered with, `broken` counts a visitor's
streams that failed.

### ForwardHTTP

The loop over a visitor's HTTP requests in both forward handlers, which resembles the
tunnels' but has a node for each request. `forward` says whether it is the local
handler, whether a hop selects the nodes, and whether the visitor waits for each answer.
`loop` is the loop with its visitor: what was asked of which node and what it was sent,
0 for a response of the handler's own. A request is written in two steps here as well:
`WriteRequest`, then `WriteDone` or `WriteBreaksOff`. `outs` are the connections to
nodes, each with the goroutine that copies from it, `pool` is `connPool`. Its keys are
pointers to nodes: without a hop every request has a node of its own, and so a
connection. Where the hop leads to, and its markers, is in `ChainRoute`.

### RuleSet

Five kinds of rule sets and the rate limiter, which differ in the fields of the
records `Admission` to `RateLimiter`: what an answer is, whether a look-up is one
critical section (`Match`, `Limiter`), looks without the lock whether there are
rules at all (`Check`) or goes key by key with the lock released in between
(`Probe`), whether values of one key add up, and whether names and wildcards are
matched apart. A rule is a key, and its value is the source it comes from: own
rules, file, Redis, HTTP, later ones over earlier ones (`Merge`). `Load` reads
one source, `Swap` is the critical section of `reload`, `Tick` and `Done` the
select of `periodReload`. Patterns and lines are reduced to the keys that match
what is looked up. `force` and `look.seen` are history: the rules of the last
reload, and those in force at some time during the look-up.

Only `Devices` composes two components, since what is hard about devices lies
between listener and handler. The others meet at narrow interfaces (a connection is
closed once; a dial succeeds or fails; an object is up until closed), and each has
the other side of its interface as free choices, which admits everything the other
component does. Where a module assumes more, the other side shows it:
`HandlerCloses = 1` of `ConnLimiter` is `ClosedOnce` of `Handlers`.

## Runs

Each takes from a few seconds to some four minutes with two workers.

| Run | Module, configuration | States | Shows |
|---|---|---|---|
| limiter | MC_ConnLimiter, ConnLimiter | 449 223 | two accept loops share one limiter over a reload: no limiter is exceeded (`OpenWithinLimit`), the limiters, groups and caches together implement limits on hosts (`IsQuota`), and where a single loop runs counters are exact and no slot is lost (`NoSlotLostAlone`) |
| api | MC_ConfigAPI, ConfigAPI | 742 491 | two requests at a time, any of which may fail: requests about other names do no harm to registry, list and services; nothing registered is overwritten, losing services are closed, and no name is left to its default answer |
| routes | MC_ChainRoute, ChainRoute | 4 400 650 | failed attempts on a dead node or chain are bounded (`FailuresBounded`); failures never remove a hop without alternatives from a route (`LoneNodeNeverSkipped`) |
| conns | MC_Conns, Conns | 67 116 | the plain HTTP tunnel, with losses and cuts, is a connection (`IsStream`); there and in 13 kinds of connections that handshake with their first data everything is read in order, from the first item, and nothing else (`DataInOrder`); an idle tunnel keeps being pulled, data arrives, who has spoken is answered, and reading ends when a connection is closed (`GoesOn`) |
| mux_dialers | MC_MuxDialer, MuxDialer | 2 145 424 | a node reached by its name or by what a resolver makes of it: live sessions are shared (`LiveIsShared`), half-made entries have an owner (`PendingHasDialer`), undisturbed dials get through (`QuietDialSucceeds`), but where `Dial` and `Handshake` look at different entries |
| traffic | MC_TrafficLimiter, TrafficLimiter | 4 935 802 | between reloads caches agree with the rules and open connections lag by one change at most (`RulesInForce`), no wait on a limit of nothing, bytes held back keep their order |
| http_loops | MC_RelayTunnel, RelayTunnel | 1 408 542 | an undisturbed look-up finds a live connector (`LiveIsFound`); in tunnels and forward handlers one goroutine per pool entry, answers in order and no more than requests, failures and requests that broke off (`AnswersFitRequests`); streams and connections of visitors that left get closed (`NothingStays`) |
| rule_sets | MC_RuleSet, RuleSet | 78 523 | answers come from complete rule sets in force, also from the rate limiter's cache; Close ends the goroutine |
| listeners | MC_Listeners, Listeners | 127 198 | Serve over every listener, and for tun and tap with their handlers: no crash but by Close (`CrashOnlyByClose`), port free when Serve ends, but for listeners that any error ends (`EndedIsUnbound`); one device at a time, worked on exactly while it is open, and bounded losses (`DevicesSound`); Close and the loss of the socket end Serve, queued connections are served; a device that is gone is given up and replaced (`DeviceReplaced`); a tun server sends to where its peer is and a client with keep-alives gets an association that works (`PeersMeet`) |
| handlers | Handlers, Handlers | 502 150 | one answer at most, nothing before it, and no success without a target but from probe resistance (`AnswersFit`); data in order and without a gap from the first item (`NothingLostOrMade`), what a peer sent before it closed arrives and nothing but the peers cuts a transfer (`EndsFit`), one close (`ClosedOnce`); both copiers and `Handle` end when a peer goes, and a request that is all there is served or refused (`EverythingEnds`) |
| remote_bind | RemoteBind, RemoteBind | 161 773 | a client that waits for peers on a whole connection has the port (`AcceptingIsBound`); after finitely many faults the service is bound for good (`BoundAgain`); peers are brought or cut, and ports given back (`EverythingSettles`) |
| dns | MC_DnsCache, DnsCache | 8 717 338 | an answer from the cache is to the question it is given for, has the id of the query and is not older than it may be kept, plus one exchange (`AnswerIsCurrent`); no name is given up before every server was asked, whatever failed on the way, unless answers without an address are kept for both questions (`EveryServerAsked`) |

### Bounds

* *ConnLimiter*: 3 connections, 2 hosts, 2 loops, 1 reload; the rule sets have
  limits 1 and 2, so that three connections exceed every one of them, in both
  orders of a group (own limit smaller, global limit smaller), and one rule set
  has no rules. `loops` (in `MC_ConnLimiter`) is which of the loops run.
  `MaxReloads` bounds reloads only; `AdmissionSafe` needs no bound.
* *ConfigAPI*: two clients, two names, two addresses, and at most 3 objects ever
  made (`MaxObjs`; room is reserved when a request starts): a create followed by
  two racing updates, or two racing creates and one more request. Requests end on
  their own, so deadlock is not checked.
* *ChainRoute*: a marker's count is kept up to one above the limit, which is exact,
  since the filter only compares it with the limit; the history `fails` up to
  `MaxCount`, above the bound that is checked; round-robin counters modulo
  `Period`, a multiple of all candidate counts. Two dialers suffice for a
  selection that is outdated when used. One chain has a down node with a backup
  and a multiplexing lone node, the other a lone node that is down. Each
  behaviour has one strategy for all selectors.
* *MuxDialer*: 3 dials and 3 connections on a name and one address that it may resolve
  to: a late Handshake, the session that replaced its entry, and one more dial.
  `MaxFailed` bounds `quiet`, above the values the property allows.
* *PHT*: 3 blocks each way; receive queue and backlog of 1, so that both are full
  at times (128 in the code).
* *LazyConn*: 3 items each way, 1 or 2 in a `Write` (1 in a datagram), one in a TLS
  record: a first write that is longer than a record, a second one, and chunks that end
  within a header behind data. 13 kinds: obfs-http, obfs-tls and sni, ss with and
  without nodelay, and relay with each choice of both ends' nodelay, for TCP and UDP.
* *TrafficLimiter*: one connection, whose use (read, write or packets) is chosen
  at the start, 3 reloads among 4 rule sets and 3 bytes: bytes are held back under
  one rule set and returned under another, and a limiter is looked up before,
  during and after a reload. Connections share only limiters, which they do not
  change but by look-ups, so a second one adds states and no kind of step. 7
  limiters cover all that can be in use at once.
* *RelayTunnel*: five setups, one of which is chosen at the start: an HTTP visitor
  with two requests and two connectors, one of which may break (a stream fails,
  the next request gets another); an HTTP visitor beside a CONNECT; two look-ups
  that share the counter; and one look-up among three connectors, any of which
  break, all for TCP or one for UDP. Three connectors are what three attempts can
  reach. `Period` keeps the counter modulo a multiple of all list lengths;
  `MaxStreams` is 2, the stream in use and the one before or beside it.
* *ForwardHTTP*: 2 requests and 2 nodes, so that they go to one node or to two, over a
  connection that lives or has ended; the local handler with a hop, the remote one with
  a hop and a visitor that waits, and one without a hop. With 3 requests the invariant
  held for a waiting visitor, with a hop and without (4.6 million states).
* *RuleSet*: own rules and one source (two give the same result, over 3.1 million
  states), with three or four contents each: none, what matches at once, what
  matches less specifically, what does not match or does not compile. One look-up
  is enough, since look-ups change nothing but the rate limiter's cache, which is
  there from the look-up before. Reloads are not bounded.
* *Listeners and Devices*: queue of 2, at most 2 sessions, 3 connections: the queue
  is full, or one connection is handled, one queued and one more offered. For the
  devices 2 faults (a reader left behind, whose successor fails as well), 2 addresses
  and 1 move: a keep-alive from the old address is under way beside one from the new.
* *Handlers*: one connection, 2 items after the request and 2 from the target: one
  that is read ahead or in a copier, one that follows it. Connections share nothing
  in this code.
* *RemoteBind*: 3 forwards (one that is in use, one that an old connection still
  holds, one whose connection was leaked), 2 peers, 1 fault and 2 lives of the
  service. The same properties held for 1 peer and 2 faults.
* *DnsCache*: 2 look-ups, 2 servers; an answer without a record, a CNAME and its address
  with TTLs 1 and 2, and CNAMEs that lead to none, with TTLs 0 and 2; 2 ticks by default
  and 1 for an exchange, so that an answer gets old while another look-up waits. The six
  setups have a negative ttl, which keeps nothing, 0, which follows the answer, and a
  fixed one, either type preferred, the second server over https or not. Cached ages are
  bounded by what is kept.

### Fairness

A goroutine that can go on does: that is the weak fairness most modules state, for
each goroutine apart. Nothing is assumed of peers, visitors and `Close`, nor that
faults happen. What goes beyond, or needs a reason:

* *PHT*: the client's `readLoop` (`Pull`, `Scan`, `PullDone`), the pull handler's
  start, and `Read`: goroutines that no lock blocks, and a user that reads. The
  application need not write, and the timeout need not fire. `Stream` has weak
  fairness of its `ReadDown`, which the refinement thus implies.
* *LazyConn*: each end's reading goroutine, `Connect` when its response is there, the
  server's handshake when the request is. Nobody has to write or close.
* *Listeners*: the loop once its socket is closed, the server's return, `Accept` for
  each of its select cases, the pause after a temporary error, a pending bind. A
  select that finds several cases ready chooses at random in Go, so none is passed
  over for ever.
* *TunHandler and Devices*: the goroutines of the handler, the return of a handler
  that is done, and the listener's loop. Strong fairness where something is tried
  again and again and may fail each time: opening the socket, the peer's keep-alives
  (`Hello` goes on while the peer has one address; `Hear(cur)`), answering them. The
  deadline after three unanswered keep-alives passes.
* *RelayTunnel, ForwardHTTP*: each stream's and connection's goroutine, which goes on
  when its read or write
  returns; not that a visitor goes on, nor that a session notices that its connection
  broke.
* *RuleSet*: the reload goroutine, since sources answer or time out and the ticker
  ticks, and strong fairness of `Done`: a cancelled context is ready for good, and a
  select that finds the ticker ready as well takes each of them at some time.
* *Handlers*: `Handle` and the two copiers. Neither peers nor the deadline owe
  anything, the rest of a body included, so what must happen follows from what has
  happened; and the other server from which a page comes owes nothing either (`page`).
* *RemoteBind*: client and server goroutines, and both ends' noticing of a broken
  connection, which keep-alives give. Strong fairness of `AcceptStream(p)`: the queue
  of streams is first in, first out, so that other peers do not pass one for ever.

The remaining specifications are safety only.

## What is proved

The theorems hold for every number of connections, requests, dials, listeners and so on,
and every bound, where a run has two or three of each. Each invariant follows the same
argument: a stronger one, named below for each component, holds at the start and is kept
by every action (a lemma for each), and implies the property. The stronger ones of
`ChainRoute`, `DnsCache`, `RelayTunnel` and `ForwardHTTP`, and the part of `ConfigAPI`'s
about the list, are defined with their proofs, the others at the end of the component's
module; these have also been checked with TLC as invariants of the component's run. A
module of proofs holds those of its own component and of the others the table gives;
`SubsequenceProofs` has the lemmas on recursive functions that several of them use.

| Theorem | Says | For every |
|---|---|---|
| `ConnLimiterProofs`: `AdmissionSafe`, `AloneLosesNoSlot`, `ImplementsQuota` | `OpenWithinLimit`, `NoSlotLostAlone`, the refinement `IsQuota` | finite set of connections and services, hosts, rule sets, number of reloads; `HandlerCloses = 1` |
| `ConfigAPIProofs`: `RaceHasOneWinner`, `DefaultInWindow`, `ServingReachable`, `ListMatchesRegistry` | `OneWinner`, `DefaultOnlyInWindow`, `ServingIsReachable`, `ConfigMatchesRegistry` | clients, names, addresses, kinds of object, number of objects |
| `MuxDialerProofs`: `LiveShared`, `PendingOwned`, `QuietSucceeds` | `LiveIsShared`, `PendingHasDialer`, `QuietDialSucceeds` | dials, addresses and the name among them, number of sessions; the dialers' kinds, and any that fits `MuxDialerAssumption` |
| `MuxDialerProofs`, of `ChainRoute`: `ChainFailuresBounded`, `ChainLoneNodeNeverSkipped` | `FailuresBounded`, `LoneNodeNeverSkipped` | finite set of dialers, chains, up to ten hops each, nodes, bypasses, which nodes are down, strategies |
| `MuxDialerProofs`, of `TrafficLimiter`: `RulesAlwaysInForce`, `NobodyBlocked`, `ReadsInOrder` | `RulesInForce`, `NothingBlocked`, `ReadInOrder` | connections and their hosts, rule sets, number of reloads, limiters and bytes |
| `DevicesProofs`: `CrashNeedsClose`, `EndFreesPort`, `DeviceHasOneHandler` | `CrashOnlyByClose`, `EndedIsUnbound`, `DevicesSound` | connections, addresses, queue length, number of sessions, faults and moves; the 28 listeners |
| `DevicesProofs`, of `RemoteBind`: `BindWaitsWhereBound` | `AcceptingIsBound` | forwards, peers, number of faults and lives; mbind, relay and ssh |
| `HandlersProofs`: `AnswersAlwaysFit`, `AlwaysClosedOnce`, `NothingIsLostOrMade`, `EndsAlwaysFit` | `AnswersFit`, `ClosedOnce`, `NothingLostOrMade`, `EndsFit` | number of items each way; the 32 kinds of handlers |
| `RelayTunnelProofs`, of `RelayTunnel` and `ForwardHTTP`: `TunnelLiveIsFound`, `TunnelAnswersFit` | `LiveIsFound`, `AnswersFitRequests` | visitors, up to three connectors, nodes, streams, requests, setups |
| `RuleSetProofs`: `AnswersInForce` | `AnswerInForce` | contents of the sources, and which sources there are; the six kinds |
| `RuleSetProofs`, of `DnsCache`: `DnsAnswersCurrent`, `DnsAsksEveryServer` | `AnswerIsCurrent`, `EveryServerAsked` | look-ups, servers, answers and their TTLs, configurations, default and timeout |
| `RuleSetProofs`, of `PHT` and `LazyConn`: `DataAlwaysInOrder`, `TunnelImplementsStream` | `DataInOrder`; the steps of `IsStream` | amount of data, sizes of blocks, chunks, records and queues; the kinds of connections |

The assumptions are those that the modules name (`ConnLimiterAssumption` and so on),
which TLC evaluates on the instances. They say that bounds are natural numbers and that
configurations have their type. Six say more. `Kinds` of `Listeners` and `Handlers` are
among those defined there, since the proofs use what the records say.
`MuxDialerAssumption`: a dialer with a `Handshake` looks at `IsClosed` in `Dial`, and
only http2's connections stand for the entry itself; all twelve kinds are so.
`ChainRouteAssumption`: dialers are finitely many, a chain has one to ten hops
(`HopIds`), a hop has a node, and `Period` is a multiple of each hop's number of nodes.
`RelayTunnelAssumption`: a tunnel has at most three connectors, as many as a look-up
makes attempts; `LiveIsFound` is about those. Connections and services of `ConnLimiter`
are finite sets, since their holders are counted. `HandlerCloses = 1` is a hypothesis of
the theorems about `ConnLimiter`, for with a second close the statements are false; that
handlers close once, but for relay's failures, is `AlwaysClosedOnce`.

### Along which argument

*ConnLimiter.* An admission looks only at a counter, so the counter must be known to
be at least the number of holders, and a holder may be a connection that is still
being admitted, withdrawn or released. `GroupOK`, `GenOK`, `CacheOK`: groups
name allocated limiters, each once, so a step changes the counter of exactly one
holder. `ConnOK`: what a connection holds, by its program counter. `CountOK`: a
counter is never below its number of holders. `PassedOK`: those that passed a limiter
and still hold it are within its limit. An addition that fits has counter + 1 <= limit,
hence by `CountOK` the holders with it are within the limit, hence `PassedOK`; all
other steps shrink or keep both sides.

For a single loop and for the refinement, `QInv` (in `MC_ConnLimiter`) comes on top.
`OneAsks`: a loop asks for one connection at a time, so that with one loop nobody
else's addition is in the way, an `Allow(-1)` never stops half way, and no counter is
above its holders (`NoneTooMany`). `RulesKept` and `CacheFits`: generators and cache
are those of the rule set in force. `ConnsFit` and `SameLimiters`: the connections
that came under one rule set from one host count in the same group, and all of them
in one limiter for the rule for all; a limit on a limiter is thereby the limit on a
host, which is what `Quota` speaks of. Then each step is an admission or a release of
`Quota`, or stutters.

*ConfigAPI.* What became of an object depends on how far the request that made it has
come (`RequestOK`), no two requests have the same object (`OwnObject`), and a name in
the registry stands for an object registered under it (`RegisteredOK`): so `Register`
finds the place free or refuses. `AloneOK` is what a request that is alone with its
name knows of the registry between its steps, and `RacedOK` that it would be in `raced`
otherwise; with it `ServingOK` is kept also by `Unregister` and `Close`. For the list
(`ListMatchesRegistry`) only the entries of one name matter (`Keep`): an `OnUpdate` leaves
those of the other names as they are.

*MuxDialer.* `SessOK` and `DialOK` tie entries, sessions and dials to their address; where
`Dial` and `Handshake` look at different entries, sessions go with the name and what `Dial`
made is only known to have no session.
`CalmOK` says of a dial nobody disturbs that its entry is in order until it is done,
`QuietOK` that after a failure the address has no entry or one that works: so the
second attempt gets through.

*ChainRoute.* `ChainMarkOK`: the marker of an item knows of the failures since they were
forgiven, up to the limit. `ChainPending` has the dials that selected an item and may still
fail at it; once an item with an alternative is at its limit nobody selects it, so each
failure uses up one of them: `ChainPaid` bounds failures and pending dials together.
`ChainLoneKept`: whom a dial left out of its route had an alternative.

*Listeners and Devices.* `ErrsOK`: an error on its way to `Accept` tells the truth
about the port, `ClosedOK`: what `Close` leaves of it; together they give
`EndedIsUnbound`. `DeviceOK` says where the one device is while the loop waits for
it. `TunHandler`'s invariant is about packets that will be lost: a goroutine that
reads the device and has no socket owes one, and a failure that has happened already
pays for it (`Owed`, `PaidFor`). `DevIInv` joins the two, with the handler at work
exactly when a device is open. Steps of `DevSpec` are steps of `Listeners` or of the
handler, so what holds of each alone is proved once.

*Handlers.* `PhaseOK`, `TimerOK` and `SaidOK` tell by where `Handle` is what was
dialled, answered and started. `UpOK` and `DownOK` count: what a peer got, what the
copier holds and what is next to be read follow each other without a gap. `WhyOK`: a
goroutine that stopped had its reason. Order and completeness follow by arithmetic.

*RemoteBind.* `BoundHasPort`, at most one forward has the port, and
`ListenerIsServed`: a forward with a listener at the client, on a connection that the
server still has, is being served. `OnLink` says that who binds or accepts has a
forward with a connection.

*TrafficLimiter.* `Apart`: every limiter is the service's, a host's or a
connection's, and only one's, look-ups that are about to store and the snapshot
of a reload included, so a `Set` in one loop of `reload` leaves the others alone.
`HostsOK` and `ConnsOK` say how far the reload has come in each cache, `LookOK` what a
look-up that no reload overtook is about to store; `InUseOK` has the limiters that
reads and writes wait for. `ReadOK`: bytes returned, held back and just read are three
consecutive intervals.

*RelayTunnel and ForwardHTTP.* `SeenAt`: what a look-up that nothing interfered with has
tried are the connectors just before the counter (`turn`, modulo the length of the list),
and none of them opens; with three attempts and at most three connectors these are all.
For the answers, what a visitor got, what is still to be copied to it and the request in
hand are counted together (`GotAt`, `PendAt`; for nodes `CountAt`, over the requests that
are open, `OpenReqs`, and the connections about to answer 503, `ErrOuts`), and are in order
because only the stream in a visitor's pool copies to it (`StreamAt`, `PoolAt`).

*PHT and LazyConn.* `DownOK` and `UpOK`: what was read, what is in each queue, buffer and
response and what is being written are consecutive blocks (`Blocks`, `GotUpTo`), unless a
pull failed or the client closed. Each step then is one of `Stream`, or none that can be
seen. Of handshakes `RequestOK` and `ResponseOK` say where the header is: on the link
before everything else, or still in the buffer of who has not spoken (`Unsaid`, `Silent`),
and `InOrder` that what was got, is buffered and under way makes one sequence (`Whole`).

*RuleSet.* The rules are those of the last complete reload (`rules = force`), which
are among those a look-up that is under way has seen. `ProbeOK` is what a look-up that
goes key by key has found out so far, `CacheOK` that the cache of rate limits holds
what the rules in force give.

*DnsCache.* `DnsItemOK` and `DnsReceived`: an answer in the cache, or in the hands of a
look-up, fits its question, and age and time left add up to what it may be kept.
`DnsSearched` says of a look-up under way that each server before its own was asked, or
that both questions were answered without an address from the cache.

### What the proofs found in the models

* `TunHandler`'s type said that at most `MaxFaults + 1` readers are left behind on a
  device; with three faults there can be more. The bound now goes by the faults that
  happened.
* `RemoteBind` counts connections by slots, and dialling in a slot that was used before
  brought a leaked listener of the old connection back to life. What belonged to the
  old connection is now forgotten (`Asked`).
* `NothingLostOrMade` picked the data out of what the client got, and so did not see an
  answer amid the data. It is now about what follows the answer (`Data`).
* `TrafficLimiter` did not say what happens when more than `MaxLims` limiters are in use.
  The steps that make one now wait for room (`Room`), which names that bound.
* `LazyConn` took the first `RecordCap` items of a block for the first record of obfs-tls's
  server also where the block has fewer, a case that the run, with records of one item, does
  not have (`ServerRecords`).

### What stays with TLC

* *Liveness*, under the fairness above, is beyond the prover: `GoesOn`,
  `EverythingEnds`, `BoundAgain`, `PeersMeet` and the others; with it `IsStream`, whose
  abstract specification has fairness; that each of its steps is one of `Stream` or
  none is `TunnelImplementsStream`.

Recursive functions (`Keep`, `LeastTtl`) are within its reach: what such a function's
defining equations give for one argument more is a lemma of `SubsequenceProofs`, whose
induction is an argument about the least number of a set.

## Where comment and code differ

These are read off the definitions named.

1. `api/config_service.go:27` says that the name is unique in the service list.
   Registry and list are changed in separate steps; a delete that has
   unregistered but not yet updated the list lets a create of the name through,
   and the list has the name twice for a while or, with other orders, for good
   (`ConfigMatchesRegistry` is about names whose requests do not overlap).
2. `selector/filter.go:18` calls an object dead when its count is *greater than*
   `MaxFails`; the filter drops it when the count
   *equals* it (`Alive` of `ChainRoute`).
3. `selector/strategy.go:76` promises that FIFO sticks to a node until it fails;
   it goes back to an earlier node as soon as that one's timeout is over (`Apply` with
   `Forgive`).

## What the properties allow because the code does it

These are behaviours of the code that the models have and the properties name as
exceptions, or that no property excludes:

* two accept loops can lose slots: `Allow(-1)` on a group stops at a limiter that
  is above its limit for a moment, and the limiters after it keep the count
  (`NoSlotLostAlone` is therefore about a single loop);
* a relay handler whose target or answer fails closes twice and gives two slots
  back (`ClosedOnce`);
* `Unregister` deletes what was registered after its load, without closing it;
* a service whose handler fails to parse leaves its listener bound; an update
  that fails to parse leaves a closed service registered and listed;
* rule sets that `Register` refuses are not closed and go on reloading;
* a late `Handshake` of ssh and sshd removes the entry of a live session, and so
  does for http2 a target that cannot be reached;
* to a node that has a resolver or hosts, `Dial` stores under the address these make of
  its name and `Handshake` looks under the name (`Split`: mtls, mws, ssh, sshd): no later
  `Dial` finds the session, and the entry that `Dial` made stays for good without one
  (`PendingHasDialer`). With mtls and mws every dial after the first connection then fails
  as unrecognized, while ssh and sshd take the raw connection of the first for theirs
  (`QuietDialSucceeds`, `LiveIsShared`);
* an open connection's own traffic limit follows the rules one change late, since
  `reload` sets the value it found before (`RulesInForce`);
* a traffic look-up that overlaps with a reload can store a limiter with an old
  limit, or one that the reload then sets to 0, on which a `Write` loops for ever;
* with no limiter found, `Read` passes by bytes it held back under an earlier one
  (`ReadInOrder` of `TrafficLimiter` is about services that always have a limit);
* a source that cannot be read counts as empty: its rules are gone until it can be
  read again, also after `Close` has closed Redis under a reload; a user set that
  becomes empty this way admits everybody;
* a look-up of hosts or ingresses during a reload can miss a name that both rule
  sets have, under different keys; an authenticator whose users become none after
  the first step of `Authenticate` refuses a user whom both rule sets admit;
* a bypass wildcard that does not compile ends the process;
* a tunnel look-up fails although a connector is live when other visitors turn the
  round robin meanwhile, or when more than two connectors are dead but listed;
* a request written to a tunnel stream whose far end has just closed is lost
  without an answer, and a stream that fails answers 503 even if no request
  waits (`AnswersInOrder` counts it, and `ForwardedInOrder` for the forward
  handlers); a request whose body breaks off gets a 503, and what the node or the peer
  answers to its first part is copied to the visitor as well (`WriteBreaks`,
  `WriteBreaksOff`; both properties count it); a visitor that does not wait for answers
  gets a 502 for a later request before the answers to earlier ones;
* answers of several nodes reach a visitor of a forward handler in any order, and mixed
  if they are long, unless it waits for each; without a hop every request opens a
  connection, which stays open until its node or the visitor goes; when a node's auther
  refuses, `handler/forward/local` sets a header in a map that was never made, which
  ends the process (`Crash`), while `handler/forward/remote` answers 401;
* listeners whose loop ends on any error (mtls, ssh, sshd, kcp, quic, icmp,
  redirect/udp) end on a temporary one, with the port still bound; so does dtls, of whose
  `Accept` the failed handshake of any client is an error (`fragile` in `EndedIsUnbound`);
* closing an http2, h2 or http3 listener hands `Serve` a nil connection without
  an error; these and pht and h3 do not report the end of their server;
* rtcp and rudp, closed while binding, keep the port and stay in `Accept`;
* tun and tap lose a device whose interface is not found, and one created while
  `Close` arrives is never taken; `Close` of the service leaves a device that is in
  use, and its handler's socket, as they are;
* a tap handler whose device fails ends the process (`exited`);
* a tun client that could not send its first keep-alive sends none and sets no
  deadline: it does not notice an association that goes (`Unheard`);
* readers left behind on a device take one packet each of those that follow, and for
  a tap server's broadcasts any number, whose errors nobody looks at; the buffer of a
  broadcast goes back to the pool while it is sent;
* what a client sends in one segment with its request to http, sni or redirect with
  HTTP is lost: it stays in a bufio.Reader that is dropped (`ReadAhead`);
* http and http2 with probe resistance of type code, web or file answer an
  unauthenticated CONNECT with a page, which may say 200 with no target behind it, and
  http2's decoy with what its host answers (`AnswersFit`);
* http, sni and redirect wait for the rest of a request's body while they pass it on,
  whatever becomes of the target, and http once more before it closes (`rest`): `Handle`
  ends when the client sends it or leaves. A page that another server is to give is waited
  for without a timeout (`page`; `EverythingEnds`);
* ss leaves the deadline for the request in force during the transfer;
* under the http2 listener a handler that returns in silence has answered 200;
* when one direction ends, the other is cut with what is under way in it;
* a redirect or forward handler that sniffs fills a request that is too short up with
  zeros and sends them;
* a socks5 UDP association whose relay has ended stays until its control connection
  does, and the client is not told;
* an ssh bind request above the rate limit is never answered (`Muted`); one that is
  refused closes the connection that others share; a forward that was let go keeps
  its port while the connection lives (`KeptBySsh`), and its last channel waits for
  ever (`Forgotten`); after a temporary error of `Accept` nobody accepts on the port,
  which stays bound (`deaf`);
* an rtcp listener closed while it binds keeps session and port (`Leaked`);
* answers without an address, also those with a CNAME alone, are kept like others, for
  all servers: when one server has answered both questions so, the next ones are not asked
  while they are kept (`empty` in `EveryServerAsked`);
* a record's TTL of 0 counts as none: the answer is kept as long as another record's
  TTL says, or for the default (`Promised`);
* what an https server sent that is not a DNS message is kept by the DNS handler, and
  given to those who ask next (`Garbled`); answers from the cache keep the TTLs they
  came with;
* obfs-tls's client returns the length of a record header for that of the data when a
  chunk ends within a header behind data (`Parse`), which loses data or passes header
  bytes on; the first `Write` of its server ends after one record of 16384 bytes and
  reports that all was written; a sni client's first `Write` sends the ClientHello and
  not what follows it; a relay client for UDP with nodelay takes the first datagram for
  a second response (`damaged` in `ReadInOrder`, all four);
* obfs-tls's client reads nothing before its first `Write`, and neither an error nor
  `Close` wakes it (`Blocked`); over obfs, and relay without nodelay, a target that
  speaks first is not heard until the client has written, and a relay client with
  nodelay is not answered by a server without until the target has sent (`Arrives`);
* a pht client's `Close` does not reach the server, and its `Read` does not learn
  that the server's end is closed.

## Not modelled, and why

* *HTTP/3 reverse proxy* (`handler/http3`): hands each request to the standard
  library's proxy and keeps nothing.
* *Plain BIND of socks5 and socks4, UDP binds of connectors*: one peer, no
  multiplexing; what is hard about binding is in `RemoteBind`.
* *Other `Connect`s of connectors, plain dialers*: one request and one answer, or one
  connection, without state afterwards; steps that succeed or fail elsewhere.
* *Codecs* (SOCKS, shadowsocks, ICMP, KCP framing): formats. What outlives a message, the
  rest of it in a buffer or ICMP's sequence numbers, changes nothing but the form.
* *Metrics, logs, recorders, metadata*: observation and plain data.
* *Generated gRPC code and third-party libraries*: outside; what the code expects of
  smux, quic, ssh and HTTP is in `MuxDialer`, `Listeners`, `RelayTunnel` and
  `RemoteBind`, marked external.

## Plan

1. A session pool as the abstract specification of `MuxDialer`, for nodes that are
   reached by their name.
2. What two overlapping requests about one name can leave of list and registry:
   `ConfigMatchesRegistry` excludes them.
