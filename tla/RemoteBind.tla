----------------------------- MODULE RemoteBind -----------------------------
(***************************************************************************)
(* Remote port forwarding: a service whose listener binds a port of the    *)
(* server at the far end of a chain (listener/rtcp).  The client asks for  *)
(* the port over a connection of its own, as SOCKS5 MBIND or relay BIND,   *)
(* or over an ssh connection it shares with its other forwards; the server *)
(* listens in strict mode, so a port that an earlier connection still      *)
(* holds is refused, and brings every peer back as a stream.  When the     *)
(* listener fails the service waits a little and calls Accept again.       *)
(*                                                                         *)
(* What can go wrong: connections that break and are noticed late and at   *)
(* one end only, requests the server drops, accepts that fail, and a       *)
(* service that is closed and created again while it binds.                *)
(***************************************************************************)
EXTENDS Naturals, FiniteSets

CONSTANTS Protocols,     \* the protocols, a subset of {"mbind", "relay", "ssh"}
          Forwards,  \* slots for bind requests, also for the links they use
          Peers,     \* the peers that may be connected to the port at once
          MaxBreaks, \* breaks, dropped requests and failed accepts
          MaxLives   \* times the service is created

ASSUME Bounds == /\ Protocols \subseteq {"mbind", "relay", "ssh"}
                 /\ Forwards \subseteq Nat \ {0}
                 /\ MaxBreaks \in Nat /\ MaxLives \in Nat \ {0}

VARIABLES
  protocol,  \* the protocol of this behaviour
  client,    \* the listener of the client's service and where its Accept is
  links,     \* the connections: whether they carry data, which ends are open
  forwards,  \* the bind requests
  port,      \* the forward whose listener holds the server's port, 0: free
  peers,     \* the connections to the port
  breaks     \* failures so far

bindVars == <<protocol, client, links, forwards, port, peers, breaks>>

NoForward == [pc |-> "none", link |-> 0, ln |-> FALSE, deaf |-> FALSE]

NoLink == [net |-> "none", cl |-> FALSE, sv |-> FALSE]

Waiting == {"backlog", "accepted", "opened", "replied"}

\* A peer that is not connected: not yet, not any more, or cut.
Away == [at |-> "away", f |-> 0]

\* The connection that forward f uses.
Link(f) == links[forwards[f].link]

\* The client's listener of forward f still gives streams or waits for them.
Alive(f) == forwards[f].ln /\ Link(f).cl

\* What one end of the connection sends reaches the other.
Carries(l) == links[l].net = "up" /\ links[l].cl /\ links[l].sv

\* The client's next call of Accept works on forward f.
Holding == client.f # 0

BindInit ==
  /\ protocol \in Protocols
  /\ client = [pc |-> "idle", f |-> 0, p |-> 0, closed |-> FALSE, lives |-> 1]
  /\ links = [l \in Forwards |-> NoLink]
  /\ forwards = [f \in Forwards |-> NoForward]
  /\ port = 0
  /\ peers = [p \in Peers |-> Away]
  /\ breaks = 0

\* Connection l with its client's end, or its server's end, closed.
WithoutClient(l) == [links EXCEPT ![l] = IF @.sv THEN [@ EXCEPT !.cl = FALSE] ELSE NoLink]
WithoutServer(l) == [links EXCEPT ![l] = IF @.cl THEN [@ EXCEPT !.sv = FALSE] ELSE NoLink]

\* The server has ended forward f with answer pc, or the client has let go of
\* it: a slot that neither uses is free again.
Ended(f, answer) == [forwards EXCEPT ![f] = IF client.f = f \/ @.ln
                                         THEN [@ EXCEPT !.pc = answer, !.deaf = FALSE] ELSE NoForward]
Dropped(f) == [forwards EXCEPT ![f] = IF @.pc \in {"failed", "ended"} THEN NoForward
                                      ELSE [@ EXCEPT !.ln = FALSE]]

-----------------------------------------------------------------------------
(* The client: rtcpListener.Accept, called again and again by the service. *)

Unused(f) == forwards[f].pc \in {"none", "failed", "ended"} /\ ~Alive(f) /\ client.f # f

Idle(l) == links[l] = NoLink /\ \A f \in Forwards : forwards[f].link = l => Unused(f)

\* The connections a bind can go over: the ssh dialer has one for all.
LinksToUse ==
  LET shared == {l \in Forwards : protocol = "ssh" /\ links[l].cl}
  IN  IF shared # {} THEN shared ELSE {l \in Forwards : Idle(l)}

\* Which free slot is taken makes no difference.
Least(S) == {x \in S : \A y \in S : x <= y}

\* A bind in slot f over connection l.  One that is dialled knows nothing of a
\* forward that used its slot before, if only as a listener nobody closed.
Asked(f, l) ==
  [g \in Forwards |->
     IF g = f THEN [NoForward EXCEPT !.pc = "asked", !.link = l]
     ELSE IF forwards[g].link = l /\ ~links[l].cl THEN NoForward ELSE forwards[g]]

\* Accept of a listener that has none: dial the chain and send the request.
StartBind ==
  /\ client.pc = "idle" /\ ~client.closed /\ ~Holding
  /\ \E f \in Least({g \in Forwards : Unused(g)}), l \in Least(LinksToUse) :
       /\ client' = [client EXCEPT !.pc = "asking", !.f = f]
       /\ links' = IF links[l].cl THEN links
                   ELSE [links EXCEPT ![l] = [net |-> "up", cl |-> TRUE, sv |-> TRUE]]
       /\ forwards' = Asked(f, l)
  /\ UNCHANGED <<protocol, port, peers, breaks>>

Bind ==
  /\ client.pc = "asking" /\ forwards[client.f].pc = "serving" /\ Link(client.f).cl
  /\ client' = [client EXCEPT !.pc = "accept"]
  /\ forwards' = [forwards EXCEPT ![client.f].ln = TRUE]
  /\ UNCHANGED <<protocol, links, port, peers, breaks>>

(* A variant with a fault: the route keeps the connection of a failed bind. *)
BindFailsKeeping ==
  /\ client.pc = "asking" /\ (forwards[client.f].pc = "failed" \/ ~Link(client.f).cl)
  /\ client' = [client EXCEPT !.pc = "idle", !.f = 0]
  /\ forwards' = Dropped(client.f)
  /\ UNCHANGED <<protocol, links, port, peers, breaks>>

\* The answer is no, or never comes: the route closes the connection, which is
\* the one all forwards share when it is ssh.
BindFails ==
  /\ client.pc = "asking" /\ (forwards[client.f].pc = "failed" \/ ~Link(client.f).cl)
  /\ client' = [client EXCEPT !.pc = "idle", !.f = 0]
  /\ links' = WithoutClient(forwards[client.f].link)
  /\ forwards' = Dropped(client.f)
  /\ UNCHANGED <<protocol, port, peers, breaks>>

\* Close of the protocol's listener closes the session; that of ssh only forgets
\* the forward, since the server refuses to cancel it.
CloseSession(f) == links' = IF protocol = "ssh" THEN links ELSE WithoutClient(forwards[f].link)

\* Accept of a listener that has one.
CallAccept ==
  /\ client.pc = "idle" /\ ~client.closed /\ Holding
  /\ client' = [client EXCEPT !.pc = "accept"]
  /\ UNCHANGED <<protocol, links, forwards, port, peers, breaks>>

\* A stream comes: of ssh it is the connection, of the others the peer's
\* address is read from it first.
AcceptStream(p) ==
  /\ client.pc = "accept" /\ Alive(client.f)
  /\ peers[p].f = client.f /\ peers[p].at \in {"opened", "replied"}
  /\ IF protocol = "ssh"
       THEN /\ client' = [client EXCEPT !.pc = "idle"]
            /\ peers' = [peers EXCEPT ![p].at = "served"]
       ELSE /\ client' = [client EXCEPT !.pc = "peer", !.p = p]
            /\ UNCHANGED peers
  /\ UNCHANGED <<protocol, links, forwards, port, breaks>>

PeerReply ==
  /\ client.pc = "peer" /\ Alive(client.f) /\ peers[client.p].at = "replied"
  /\ peers' = [peers EXCEPT ![client.p].at = "served"]
  /\ client' = [client EXCEPT !.pc = "idle", !.p = 0]
  /\ UNCHANGED <<protocol, links, forwards, port, breaks>>

\* Accept fails, or the reading of the address does: the listener is closed
\* and the next Accept binds again.
WaitFails ==
  /\ client.pc \in {"accept", "peer"} /\ ~Alive(client.f)
  /\ CloseSession(client.f)
  /\ forwards' = Dropped(client.f)
  /\ client' = [client EXCEPT !.pc = "idle", !.f = 0, !.p = 0]
  /\ UNCHANGED <<protocol, port, peers, breaks>>

\* rtcpListener.Close: it finds no listener while Accept is still binding one.
Close ==
  /\ ~client.closed
  /\ client' = [client EXCEPT !.closed = TRUE]
  /\ IF Holding /\ client.pc # "asking"
       THEN CloseSession(client.f) /\ forwards' = [forwards EXCEPT ![client.f].ln = FALSE]
       ELSE UNCHANGED <<forwards, links>>
  /\ UNCHANGED <<protocol, port, peers, breaks>>

\* Accept of a closed listener ends the service.
Stop ==
  /\ client.pc = "idle" /\ client.closed
  /\ client' = [client EXCEPT !.pc = "down"]
  /\ UNCHANGED <<protocol, links, forwards, port, peers, breaks>>

\* The same service is created again.
Restart ==
  /\ client.pc = "down" /\ client.lives < MaxLives
  /\ client' = [pc |-> "idle", f |-> 0, p |-> 0, closed |-> FALSE, lives |-> client.lives + 1]
  /\ UNCHANGED <<protocol, links, forwards, port, peers, breaks>>

-----------------------------------------------------------------------------
(* The server. *)

\* A handler that returns closes its connection when that is not shared.
HangUp(f) == links' = IF protocol = "ssh" THEN links ELSE WithoutServer(forwards[f].link)

(* A variant with a fault: a port in use is listened on all the same. *)
ListenShared(f) ==
  /\ forwards[f].pc = "asked" /\ Link(f).sv
  /\ port' = f
  /\ forwards' = [forwards EXCEPT ![f].pc = "bound"]
  /\ UNCHANGED <<protocol, client, links, peers, breaks>>

\* The handler listens in strict mode.  When the port is taken it
\* answers so and returns.
Listen(f) ==
  /\ forwards[f].pc = "asked" /\ Link(f).sv
  /\ IF port = 0
       THEN /\ port' = f
            /\ forwards' = [forwards EXCEPT ![f].pc = "bound"]
            /\ UNCHANGED links
       ELSE /\ forwards' = Ended(f, "failed")
            /\ HangUp(f)
            /\ UNCHANGED port
  /\ UNCHANGED <<protocol, client, peers, breaks>>

Reply(f) ==
  /\ forwards[f].pc = "bound" /\ Link(f).sv
  /\ forwards' = [forwards EXCEPT ![f].pc = "serving"]
  /\ UNCHANGED <<protocol, client, links, port, peers, breaks>>

\* The request is over the rate limit: the handler returns, which says no to
\* the client only by closing a connection of its own.
Refuse(f) ==
  /\ breaks < MaxBreaks /\ breaks' = breaks + 1
  /\ forwards[f].pc = "asked" /\ Link(f).sv
  /\ forwards' = Ended(f, "ended")
  /\ HangUp(f)
  /\ UNCHANGED <<protocol, client, port, peers>>

(* A variant with a fault: nobody watches the session, so that its end shows when a stream for
   a peer cannot be opened. *)
ReleaseOnPeer(f) ==
  /\ forwards[f].pc \in {"asked", "bound", "serving"} /\ ~Link(f).sv
  /\ \E p \in Peers : peers[p].f = f /\ peers[p].at = "accepted"
  /\ forwards' = Ended(f, "ended")
  /\ port' = IF port = f THEN 0 ELSE port
  /\ peers' = [p \in Peers |-> IF peers[p].f = f THEN Away ELSE peers[p]]
  /\ UNCHANGED <<protocol, client, links, breaks>>

\* The connection of the forward has ended: so has the handler, and with its
\* listener the port is free.  Its peers are cut, those in the backlog with it
\* and the others since the streams have ended.
Release(f) ==
  /\ forwards[f].pc \in {"asked", "bound", "serving"} /\ ~Link(f).sv
  /\ forwards' = Ended(f, "ended")
  /\ port' = IF port = f THEN 0 ELSE port
  /\ peers' = [p \in Peers |-> IF peers[p].f = f THEN Away ELSE peers[p]]
  /\ UNCHANGED <<protocol, client, links, breaks>>

ServerAccept(p) ==
  /\ peers[p].at = "backlog"
  /\ forwards[peers[p].f].pc = "serving" /\ ~forwards[peers[p].f].deaf
  /\ peers' = [peers EXCEPT ![p].at = "accepted"]
  /\ UNCHANGED <<protocol, client, links, forwards, port, breaks>>

\* A temporary error of Accept: the relay's service retries it (no step), the
\* loop of MBIND ends the session, that of ssh ends and leaves the port open.
ServerAcceptFails(f) ==
  /\ breaks < MaxBreaks /\ breaks' = breaks + 1
  /\ forwards[f].pc = "serving" /\ Link(f).sv /\ ~forwards[f].deaf
  /\ \/ protocol = "mbind" /\ links' = WithoutServer(forwards[f].link)
                       /\ UNCHANGED forwards
     \/ protocol = "ssh" /\ forwards' = [forwards EXCEPT ![f].deaf = TRUE]
                     /\ UNCHANGED links
  /\ UNCHANGED <<protocol, client, port, peers>>

\* The stream is opened.  The ssh client refuses one it has no listener for,
\* which it has from the answer to its request on.
OpenStream(p) ==
  LET f == peers[p].f IN
  /\ peers[p].at = "accepted" /\ Carries(forwards[f].link)
  /\ peers' = [peers EXCEPT ![p] = IF protocol = "ssh" /\ ~forwards[f].ln THEN Away
                                   ELSE [@ EXCEPT !.at = "opened"]]
  /\ UNCHANGED <<protocol, client, links, forwards, port, breaks>>

\* Its first bytes are the reply with the peer's address.
SendReply(p) ==
  /\ protocol # "ssh" /\ peers[p].at = "opened" /\ Carries(forwards[peers[p].f].link)
  /\ peers' = [peers EXCEPT ![p].at = "replied"]
  /\ UNCHANGED <<protocol, client, links, forwards, port, breaks>>

-----------------------------------------------------------------------------
(* The network and the peers. *)

Cut(l) ==
  /\ breaks < MaxBreaks /\ breaks' = breaks + 1
  /\ Carries(l)
  /\ links' = [links EXCEPT ![l].net = "cut"]
  /\ UNCHANGED <<protocol, client, forwards, port, peers>>

\* Each end finds out by itself: from the other's close, or from its keepalive.
ClientNotices(l) ==
  /\ links[l].cl /\ (links[l].net = "cut" \/ ~links[l].sv)
  /\ links' = WithoutClient(l)
  /\ UNCHANGED <<protocol, client, forwards, port, peers, breaks>>

ServerNotices(l) ==
  /\ links[l].sv /\ (links[l].net = "cut" \/ ~links[l].cl)
  /\ links' = WithoutServer(l)
  /\ UNCHANGED <<protocol, client, forwards, port, peers, breaks>>

Connect(p) ==
  /\ peers[p].at = "away" /\ port # 0
  /\ peers' = [peers EXCEPT ![p] = [at |-> "backlog", f |-> port]]
  /\ UNCHANGED <<protocol, client, links, forwards, port, breaks>>

Leave(p) ==
  /\ peers[p].at = "served"
  /\ peers' = [peers EXCEPT ![p] = Away]
  /\ UNCHANGED <<protocol, client, links, forwards, port, breaks>>

-----------------------------------------------------------------------------
ClientStep == StartBind \/ Bind \/ BindFails \/ CallAccept \/ PeerReply \/ WaitFails \/ Stop

ServerStep(f) == Listen(f) \/ Reply(f) \/ Release(f)

PeerStep(p) == AcceptStream(p) \/ ServerAccept(p) \/ OpenStream(p) \/ SendReply(p)

BindNext ==
  \/ ClientStep \/ Close \/ Restart
  \/ \E f \in Forwards : ServerStep(f) \/ Refuse(f) \/ ServerAcceptFails(f)
  \/ \E l \in Forwards : Cut(l) \/ ClientNotices(l) \/ ServerNotices(l)
  \/ \E p \in Peers : PeerStep(p) \/ Connect(p) \/ Leave(p)

\* The goroutines run, the streams of a session are accepted in turn (its queue
\* is first in, first out), and the keepalives of both ends find a broken
\* connection; nobody has to connect, to leave, to close or to create anything,
\* and no fault has to happen.
BindSpec ==
  /\ BindInit /\ [][BindNext]_bindVars
  /\ WF_bindVars(ClientStep)
  /\ \A f \in Forwards : /\ WF_bindVars(ServerStep(f))
                        /\ WF_bindVars(ClientNotices(f)) /\ WF_bindVars(ServerNotices(f))
  /\ \A p \in Peers : WF_bindVars(PeerStep(p)) /\ SF_bindVars(AcceptStream(p))

-----------------------------------------------------------------------------
BindTypeOK ==
  /\ protocol \in Protocols
  /\ client \in [pc : {"idle", "asking", "accept", "peer", "down"}, f : Forwards \cup {0},
                 p : Peers \cup {0}, closed : BOOLEAN, lives : 1 .. MaxLives]
  /\ links \in [Forwards -> [net : {"none", "up", "cut"}, cl : BOOLEAN, sv : BOOLEAN]]
  /\ forwards \in [Forwards -> [pc : {"none", "asked", "bound", "serving", "failed", "ended"},
                                link : Forwards \cup {0}, ln : BOOLEAN, deaf : BOOLEAN]]
  /\ port \in Forwards \cup {0}
  /\ peers \in [Peers -> [at : {"away", "served"} \cup Waiting,
                          f : Forwards \cup {0}]]
  /\ breaks \in 0 .. MaxBreaks

\* A client that waits for peers on a connection that is whole waits for those
\* of the port: the server has not given the port to another forward, has not
\* stopped listening without ending the session, and never said yes without
\* having it (types included).
AcceptingIsBound ==
  /\ BindTypeOK
  /\ client.pc \in {"accept", "peer"} /\ Alive(client.f) /\ Carries(forwards[client.f].link)
       => port = client.f /\ forwards[client.f].pc = "serving"

\* What AcceptingIsBound rests on: the port is held by the one forward that is
\* bound, and a forward with a listener at the client, over a connection the
\* server still has, is being served; the client has a forward while it binds
\* or accepts, and a forward in use has a connection.
BoundHasPort == \A f \in Forwards : forwards[f].pc \in {"bound", "serving"} <=> port = f

ListenerIsServed ==
  \A f \in Forwards : /\ forwards[f].ln => forwards[f].pc \in {"serving", "ended"}
                      /\ forwards[f].ln /\ Link(f).sv => forwards[f].pc = "serving"

OnLink ==
  /\ client.pc \in {"asking", "accept", "peer"} => Holding
  /\ \A f \in Forwards : forwards[f].pc # "none" => forwards[f].link # 0

BindIInv == BindTypeOK /\ BoundHasPort /\ ListenerIsServed /\ OnLink

\* The service is bound and its peers come through.
Bound == Holding /\ port = client.f /\ Alive(client.f)

\* A request over the ssh connection that was dropped is never answered.
Muted == client.pc = "asking" /\ protocol = "ssh" /\ forwards[client.f].pc = "ended"

\* A listener bound after its service was closed: nobody uses it, and nobody
\* closes it.
Leaked(f) == Alive(f) /\ (client.f # f \/ client.closed)

\* Faults are finite, so in the end the service is bound for good, unless it
\* was closed: the port an old connection held comes free when the server
\* notices, and the client keeps asking.  A dropped ssh request or a listener
\* bound behind the back of Close keeps it from that.
BoundAgain == <>[](client.closed \/ Bound \/ Muted \/ \E f \in Forwards : Leaked(f))

\* The ssh server refuses to cancel a forward, so the port stays bound while
\* the shared connection lives.
KeptBySsh == protocol = "ssh" /\ port # 0 /\ Link(port).sv

\* The ssh client has a peer's channel in its queue and its listener is closed:
\* nothing accepts or refuses the channel any more.
Forgotten(p) == protocol = "ssh" /\ peers[p].at = "opened" /\ ~forwards[peers[p].f].ln

\* Nobody is kept waiting at either end: a peer the server lets in is brought
\* to the client or cut, and a service that has ended gives the port back.
EverythingSettles ==
  /\ \A p \in Peers : peers[p].at \in Waiting ~> \/ peers[p].at \notin Waiting
                                                \/ forwards[peers[p].f].deaf
                                                \/ Leaked(peers[p].f)
                                                \/ Forgotten(p)
  /\ client.pc = "down" ~> \/ port = 0 \/ client.pc # "down" \/ KeptBySsh
                          \/ \E f \in Forwards : Leaked(f)
=============================================================================
