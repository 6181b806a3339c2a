---------------------------- MODULE RelayTunnel ----------------------------
(***************************************************************************)
(* Reverse tunnels of the relay handler.  Peers bind to a tunnel: each is  *)
(* a connector, a multiplexed session on its connection, in the tunnel's   *)
(* list (handler/relay/tunnel.go).  Visitors come to the entry point, or   *)
(* by a CONNECT through the relay service, and get a stream of the next    *)
(* connector.  An HTTP visitor keeps its stream for further requests; a    *)
(* goroutine per stream copies the answers back (entrypoint.go).  One      *)
(* tunnel is modelled: others have lists and streams of their own.         *)
(***************************************************************************)
EXTENDS Integers, Sequences, FiniteSets, SequencesExt, Subsequence

CONSTANTS
  Connectors,  \* peers that may bind to the tunnel
  Visitors,    \* connections of visitors
  Setups,      \* the networks of the connectors, the uses of the visitors and the
               \* bounds on an HTTP visitor's requests and on sessions that break
  MaxStreams   \* bound on the streams opened

Retry == 3  \* attempts of getTunnelConn

Period == 6 \* the counter is kept modulo this, a multiple of all list lengths

ASSUME RelayTunnelAssumption ==
  /\ Setups \subseteq [net : [Connectors -> {"none", "tcp", "udp"}],
                        use : [Visitors -> {"none", "http", "raw", "connect"}],
                        reqs : Nat, breaks : Nat]
  /\ IsFiniteSet(Connectors) /\ Cardinality(Connectors) <= 3
  /\ MaxStreams \in Nat

Streams == 1..MaxStreams

VARIABLES
  setup,  \* the setup: "none" is for who takes no part; "http" and "raw" use the entry point
  list,   \* Tunnel.connectors
  turn,   \* Tunnel.n
  sess,   \* the session of each connector
  vis,    \* the visitors and their handlers
  str,    \* the streams and the goroutines that copy from them
  calm    \* history: a look-up that nobody has interfered with so far

tunnel == <<setup, list, turn>>
tunnelVars == <<setup, list, turn, sess, vis, str, calm>>

(* A session: not bound yet; up; gone without a sign; failed, so that its
   streams fail; closed, which is all that IsClosed tells. *)
SessState == {"none", "up", "gone", "failed", "closed"}

NoStream == [vis |-> "none", sess |-> "none", far |-> FALSE, near |-> FALSE,
             pc |-> "none", pend |-> <<>>]

NoVisit == [pc |-> "start", network |-> "tcp", tries |-> 0, picked |-> "none",
            cc |-> 0, entry |-> 0, req |-> 0, left |-> FALSE,
            got |-> <<>>, broken |-> 0]

----------------------------------------------------------------------------
(* Connectors. *)

Interfere == calm' = [v \in Visitors |-> FALSE]

AddConnector(c) == list' = Append(list, c)

(* handleBindTunnel: the reply is sent, the connection becomes a session. *)
Bind(c) ==
  /\ sess[c] = "none" /\ setup.net[c] # "none"
  /\ sess' = [sess EXCEPT ![c] = "up"]
  /\ AddConnector(c)
  /\ Interfere
  /\ UNCHANGED <<setup, turn, vis, str>>

(* The peer closes or its connection breaks, with or without a sign. *)
Break(c) ==
  /\ sess[c] = "up"
  /\ Cardinality({d \in Connectors : sess[d] \notin {"none", "up"}}) < setup.breaks
  /\ \E x \in {"gone", "failed"} : sess' = [sess EXCEPT ![c] = x]
  /\ Interfere
  /\ UNCHANGED <<tunnel, vis, str>>

(* The session's own keep-alive finds out and closes it, or a read fails. *)
Notice(c) ==
  /\ sess[c] = "gone"
  /\ \E x \in {"failed", "closed"} : sess' = [sess EXCEPT ![c] = x]
  /\ Interfere
  /\ UNCHANGED <<tunnel, vis, str>>

(* Connector.accept: what peers open is closed, an error closes the session. *)
AcceptFails(c) ==
  /\ sess[c] = "failed"
  /\ sess' = [sess EXCEPT ![c] = "closed"]
  /\ Interfere
  /\ UNCHANGED <<tunnel, vis, str>>

Unclosed == Keep(list, {c \in Connectors : sess[c] # "closed"})

(* Tunnel.clean, every three seconds. *)
Clean ==
  /\ Unclosed # list
  /\ list' = Unclosed
  /\ Interfere
  /\ UNCHANGED <<setup, turn, sess, vis, str>>

----------------------------------------------------------------------------
(* getTunnelConn. *)

Of(network) == Keep(list, {c \in Connectors : (network = "udp") <=> (setup.net[c] = "udp")})

(* An attempt of v to get a connector; after limit attempts there is none. *)
PickBelow(v, limit) ==
  LET cs == Of(vis[v].network)
  IN  /\ vis[v].pc = "get"
      /\ IF cs = <<>> \/ vis[v].tries = limit
         THEN vis' = [vis EXCEPT ![v].pc = "failed"] /\ UNCHANGED <<turn, calm>>
         ELSE /\ vis' = [vis EXCEPT ![v].pc = "open", ![v].picked = cs[(turn % Len(cs)) + 1]]
              /\ turn' = (turn + 1) % Period
              /\ calm' = [w \in Visitors |-> w = v /\ (vis[v].tries = 0 \/ calm[v])]
      /\ UNCHANGED <<setup, list, sess, str>>

(* A variant with a fault: an attempt that fails is the last. *)
PickOnce(v) == PickBelow(v, 1)

(* ConnectorPool.Get: the next connector of the network in turn. *)
Pick(v) == PickBelow(v, Retry)

Opens(c) == sess[c] \in {"up", "gone"}

(* Session.GetConn; what was picked may have failed, then and now. *)
OpenFails(v) ==
  /\ vis[v].pc = "open" /\ ~Opens(vis[v].picked)
  /\ vis' = [vis EXCEPT ![v].pc = "get", ![v].tries = @ + 1, ![v].picked = "none"]
  /\ UNCHANGED <<tunnel, sess, str, calm>>

(***************************************************************************)
(* An HTTP visitor stores the stream and starts its copying; the others    *)
(* copy both ways themselves.  Whether the response header could be sent   *)
(* to the stream is not checked; that the one to the visitor of a CONNECT  *)
(* could not ends the handler, as PipeEnds does.                           *)
(***************************************************************************)
Open(v) ==
  LET http == setup.use[v] = "http"
  IN  /\ vis[v].pc = "open" /\ Opens(vis[v].picked)
      /\ \E s \in Streams :
           /\ str[s].pc = "none" /\ \A r \in 1..(s - 1) : str[r].pc # "none"
           /\ str' = [str EXCEPT ![s] =
                [vis |-> v, sess |-> vis[v].picked, far |-> TRUE, near |-> TRUE,
                 pc |-> IF http THEN "copy" ELSE "pipe", pend |-> <<>>]]
           /\ vis' = [vis EXCEPT ![v] = [@ EXCEPT !.pc = IF http THEN "write" ELSE "pipe",
                          !.picked = "none", !.tries = 0, !.cc = s,
                          !.entry = IF http THEN s ELSE 0]]
      /\ calm' = [calm EXCEPT ![v] = FALSE]
      /\ UNCHANGED <<tunnel, sess>>

----------------------------------------------------------------------------
(* Visitors. *)

(* The visitor's connection is at its end: it is seen at the next access. *)
Leave(v) ==
  /\ ~vis[v].left /\ vis[v].pc \notin {"start", "done"}
  /\ vis' = [vis EXCEPT ![v].left = TRUE]
  /\ UNCHANGED <<tunnel, sess, str, calm>>

(* tunnelHandler.Handle after sniffing, or handleConnectTunnel. *)
Start(v) ==
  /\ vis[v].pc = "start" /\ setup.use[v] # "none"
  /\ \E network \in IF setup.use[v] = "connect" THEN {"tcp", "udp"} ELSE {"tcp"} :
       vis' = [vis EXCEPT ![v].pc = IF setup.use[v] = "http" THEN "read" ELSE "get",
                          ![v].network = network]
  /\ UNCHANGED <<tunnel, sess, str, calm>>

(* A handler that is done: its connection is closed. *)
Gone(x) == [NoVisit EXCEPT !.pc = "done", !.left = TRUE, !.req = x.req, !.got = x.got,
                           !.entry = x.entry, !.broken = x.broken]

(* No route, a private tunnel, a bypass; or getTunnelConn failed. *)
Refuse(v) ==
  /\ setup.use[v] \notin {"none", "http"} /\ vis[v].pc \in {"start", "failed"}
  /\ vis' = [vis EXCEPT ![v] = Gone(@)]
  /\ calm' = [calm EXCEPT ![v] = FALSE]
  /\ UNCHANGED <<tunnel, sess, str>>

Closed(s) == [str EXCEPT ![s].near = FALSE]

Ended(x) == [NoStream EXCEPT !.vis = x.vis, !.sess = x.sess, !.pc = "done"]

(* A read of a stream ends by the peer's close, or by an error. *)
AtEOF(s) == ~str[s].far \/ sess[str[s].sess] = "failed"
AtError(s) == ~str[s].near \/ sess[str[s].sess] \in {"failed", "closed"}

(* Transport: the first direction that ends ends both. *)
PipeEnds(v) ==
  LET s == vis[v].cc
  IN  /\ vis[v].pc = "pipe"
      /\ vis[v].left \/ AtEOF(s) \/ AtError(s)
      /\ str' = [str EXCEPT ![s] = Ended(@)]
      /\ vis' = [vis EXCEPT ![v] = Gone(@)]
      /\ UNCHANGED <<tunnel, sess, calm>>

(* After a response of the handler's own: the loop ends if it cannot be sent. *)
After(x) == IF x.left THEN {"read", "range"} ELSE {"read"}

(* 0 stands for such a response. *)
Reply(x) == IF x.left THEN x ELSE [x EXCEPT !.got = Append(@, 0)]

(* A variant with a fault: a stream for every request. *)
ReadUnpooled(v) ==
  /\ vis[v].pc = "read" /\ vis[v].req < setup.reqs
  /\ vis' = [vis EXCEPT ![v].req = @ + 1, ![v].pc = "get"]
  /\ UNCHANGED <<tunnel, sess, str, calm>>

(* handleHTTP reads a request, whether or not those before are answered, and
   looks for the stream it has already. *)
NextRequest(v) ==
  /\ vis[v].pc = "read" /\ vis[v].req < setup.reqs
  /\ LET e == vis[v].entry
     IN  vis' = [vis EXCEPT ![v].req = @ + 1, ![v].cc = e,
                            ![v].pc = IF e = 0 THEN "get" ELSE "write"]
  /\ UNCHANGED <<tunnel, sess, str, calm>>

(* The host has no tunnel, or a private one. *)
NoRoute(v) ==
  /\ vis[v].pc = "read" /\ vis[v].req < setup.reqs
  /\ \E pc \in After(vis[v]) :
       vis' = [vis EXCEPT ![v] = Reply([@ EXCEPT !.req = vis[v].req + 1, !.pc = pc])]
  /\ UNCHANGED <<tunnel, sess, str, calm>>

(* getTunnelConn failed: 503, which fails in turn when the visitor has left. *)
Unavailable(v) ==
  /\ setup.use[v] = "http" /\ vis[v].pc = "failed"
  /\ \E pc \in After(vis[v]) :
       vis' = [vis EXCEPT ![v] = Reply([@ EXCEPT !.pc = pc, !.cc = 0, !.tries = 0])]
  /\ calm' = [calm EXCEPT ![v] = FALSE]
  /\ UNCHANGED <<tunnel, sess, str>>

(* req.Write, which reads the body from the visitor as it goes: a first part
   arrives, or is lost with the session or at the closed far end. *)
SendOn(v) ==
  LET s == vis[v].cc
  IN  /\ vis[v].pc = "write"
      /\ str[s].near /\ sess[str[s].sess] # "closed"
      /\ str' = IF str[s].far /\ sess[str[s].sess] = "up"
                THEN [str EXCEPT ![s].pend = Append(@, vis[v].req)] ELSE str
      /\ vis' = [vis EXCEPT ![v].pc = "body"]
      /\ UNCHANGED <<tunnel, sess, calm>>

(* All of it is sent. *)
SendDone(v) ==
  /\ vis[v].pc = "body"
  /\ \E pc \in {"read", "ws"} :
       vis' = [vis EXCEPT ![v].pc = pc, ![v].cc = IF pc = "read" THEN 0 ELSE @]
  /\ UNCHANGED <<tunnel, sess, str, calm>>

(* A variant with a fault: the entry of a stream that failed is dropped here. *)
WriteFailsDrops(v) ==
  LET s == vis[v].cc
  IN  /\ vis[v].pc = "write" /\ AtError(s)
      /\ vis' = [vis EXCEPT ![v] = Reply([@ EXCEPT !.pc = "read", !.entry = 0])]
      /\ UNCHANGED <<tunnel, sess, str, calm>>

(* It fails before, in the stream or with the visitor's body: 503, and the stream
   is left in the pool. *)
WriteFails(v) ==
  /\ vis[v].pc = "write"
  /\ \E pc \in After(vis[v]) :
       vis' = [vis EXCEPT ![v] = Reply([@ EXCEPT !.pc = pc, !.cc = 0])]
  /\ UNCHANGED <<tunnel, sess, str, calm>>

(* It fails midway, likewise: what answers the part that was sent is copied too. *)
WriteBreaks(v) ==
  /\ vis[v].pc = "body"
  /\ \E pc \in After(vis[v]) :
       vis' = [vis EXCEPT ![v] = Reply([@ EXCEPT !.pc = pc, !.cc = 0, !.broken = vis[v].broken + 1])]
  /\ UNCHANGED <<tunnel, sess, str, calm>>

(* The end of the loop: no more requests or one that is malformed, what is left
   of a broken body say; the end of a websocket. *)
LoopEnds(v) ==
  /\ \/ vis[v].pc = "read"
     \/ vis[v].pc = "ws" /\ (vis[v].left \/ AtError(vis[v].cc))
  /\ vis' = [vis EXCEPT ![v].pc = "range", ![v].cc = 0]
  /\ UNCHANGED <<tunnel, sess, str, calm>>

(* A variant with a fault: the streams in the pool are left to themselves. *)
CloseNone(v) ==
  /\ vis[v].pc = "range"
  /\ vis' = [vis EXCEPT ![v] = Gone(@)]
  /\ UNCHANGED <<tunnel, sess, str, calm>>

(* The streams in the pool are closed, then the visitor's connection. *)
CloseAll(v) ==
  /\ vis[v].pc = "range"
  /\ str' = IF vis[v].entry = 0 THEN str ELSE Closed(vis[v].entry)
  /\ vis' = [vis EXCEPT ![v] = Gone(@)]
  /\ UNCHANGED <<tunnel, sess, calm>>

----------------------------------------------------------------------------
(* Streams: the far end, and the goroutine that copies its answers. *)

FarClose(s) ==
  /\ str[s].far /\ sess[str[s].sess] = "up"
  /\ str' = [str EXCEPT ![s].far = FALSE, ![s].pend = <<>>]
  /\ UNCHANGED <<tunnel, sess, vis, calm>>

(* An answer arrives; for a visitor that has left it ends the copying. *)
Answer(s) ==
  LET v == str[s].vis
  IN  /\ str[s].pc = "copy" /\ str[s].near /\ str[s].far /\ sess[str[s].sess] = "up"
      /\ str[s].pend # <<>>
      /\ str' = [str EXCEPT ![s].pend = Tail(@), ![s].pc = IF vis[v].left THEN "err" ELSE @]
      /\ vis' = IF vis[v].left THEN vis
                ELSE [vis EXCEPT ![v].got = Append(@, Head(str[s].pend))]
      /\ UNCHANGED <<tunnel, sess, calm>>

(* A variant with a fault: every end of a stream is reported as an error. *)
CopyEndsAlways(s) ==
  /\ str[s].pc = "copy" /\ AtEOF(s)
  /\ str' = [str EXCEPT ![s].pc = "err"]
  /\ UNCHANGED <<tunnel, sess, vis, calm>>

CopyEnds(s) ==
  /\ str[s].pc = "copy" /\ AtEOF(s)
  /\ str' = [str EXCEPT ![s].pc = "delete"]
  /\ UNCHANGED <<tunnel, sess, vis, calm>>

CopyFails(s) ==
  /\ str[s].pc = "copy" /\ AtError(s)
  /\ str' = [str EXCEPT ![s].pc = "err"]
  /\ vis' = [vis EXCEPT ![str[s].vis].broken = @ + 1]
  /\ UNCHANGED <<tunnel, sess, calm>>

(* 503 for an error, whether or not a request waits for an answer. *)
CopyReply(s) ==
  /\ str[s].pc = "err"
  /\ str' = [str EXCEPT ![s].pc = "delete"]
  /\ vis' = [vis EXCEPT ![str[s].vis] = Reply(@)]
  /\ UNCHANGED <<tunnel, sess, calm>>

Delete(s) ==
  /\ str[s].pc = "delete"
  /\ str' = [str EXCEPT ![s].pc = "close"]
  /\ vis' = [vis EXCEPT ![str[s].vis].entry = 0]
  /\ UNCHANGED <<tunnel, sess, calm>>

CloseStream(s) ==
  /\ str[s].pc = "close"
  /\ str' = [str EXCEPT ![s] = Ended(@)]
  /\ UNCHANGED <<tunnel, sess, vis, calm>>

----------------------------------------------------------------------------
TunnelInit ==
  /\ setup \in Setups
  /\ list = <<>> /\ turn = 0
  /\ sess = [c \in Connectors |-> "none"]
  /\ vis = [v \in Visitors |-> NoVisit]
  /\ str = [s \in Streams |-> NoStream]
  /\ calm = [v \in Visitors |-> FALSE]

Peer == \E c \in Connectors : Bind(c) \/ Break(c) \/ Notice(c) \/ AcceptFails(c)

Visit(v) ==
  \/ Leave(v) \/ Start(v) \/ Refuse(v)
  \/ Pick(v) \/ OpenFails(v) \/ Open(v) \/ PipeEnds(v)
  \/ NextRequest(v) \/ NoRoute(v) \/ Unavailable(v)
  \/ SendOn(v) \/ SendDone(v) \/ WriteFails(v) \/ WriteBreaks(v)
  \/ LoopEnds(v) \/ CloseAll(v)

Copy(s) ==
  \/ Answer(s) \/ CopyEnds(s) \/ CopyFails(s) \/ CopyReply(s) \/ Delete(s) \/ CloseStream(s)

TunnelNext ==
  \/ Peer \/ Clean
  \/ \E v \in Visitors : Visit(v)
  \/ \E s \in Streams : Copy(s) \/ FarClose(s)

(* The goroutine of a stream goes on when its read or write returns. *)
TunnelFairness == \A s \in Streams : WF_tunnelVars(Copy(s))

TunnelSpec == TunnelInit /\ [][TunnelNext]_tunnelVars /\ TunnelFairness

----------------------------------------------------------------------------
(* The shape of the state; the list has each connector at most once. *)
TunnelTypeOK ==
  /\ list \in Seq(Connectors) /\ IsInjective(list)
  /\ turn \in 0..(Period - 1)
  /\ sess \in [Connectors -> SessState]
  /\ \A s \in Streams : str[s].pc # "none" => str[s].vis \in Visitors
  /\ \A v \in Visitors : /\ vis[v].cc \in 0..MaxStreams /\ vis[v].entry \in 0..MaxStreams
                         /\ vis[v].req <= setup.reqs /\ vis[v].tries <= Retry

(***************************************************************************)
(* getTunnelConn gives up only when there is no connector that opens a     *)
(* stream, although it picks blindly among dead and live ones: its three   *)
(* attempts reach every one of up to three.  That is so if nothing happens *)
(* to the tunnel meanwhile; another visitor's picks, for one, can turn     *)
(* them all to the same dead connector.                                    *)
(***************************************************************************)
LiveIsFound ==
  /\ TunnelTypeOK
  /\ \A v \in Visitors : vis[v].pc = "failed" /\ calm[v] =>
       \A c \in Connectors : Contains(Of(vis[v].network), c) => ~Opens(c)

(***************************************************************************)
(* An HTTP visitor gets answers in the order of its requests, each once;   *)
(* and, with the 503s, at most one response to each request and, since the *)
(* goroutine of a stream that fails sends one of its own, one more for     *)
(* each stream that failed and for each request that broke off midway,     *)
(* because its body did, say.  What makes it so: as long as the visitor is *)
(* served, a stream that still copies to it is the one in its pool, so no  *)
(* goroutine deletes the entry of another's stream, none is forgotten and  *)
(* no two write to the visitor.                                            *)
(***************************************************************************)
CopiedIsPooled ==
  \A s \in Streams : str[s].pc \in {"copy", "err", "delete"} => vis[str[s].vis].entry = s

AnswersInOrder ==
  /\ CopiedIsPooled
  /\ \A v \in Visitors :
       LET got == vis[v].got
       IN  /\ \A i, j \in 1..Len(got) : i < j /\ got[i] > 0 /\ got[j] > 0 => got[i] < got[j]
           /\ Len(got) <= vis[v].req + vis[v].broken

(* Visitors that are done with have left no stream. *)
StreamsClosed ==
  \A s \in Streams : str[s].near => vis[str[s].vis].pc # "done"
=============================================================================
