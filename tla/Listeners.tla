----------------------------- MODULE Listeners -----------------------------
(***************************************************************************)
(* The accept side of a service: the loop of service.Serve over the        *)
(* listeners of listener/, each with the goroutines that feed its Accept.  *)
(* A listener accepts connections itself, or has a loop or a server put    *)
(* them in a queue and the error that ended it in a second channel, errs.  *)
(* Close comes from another goroutine, the web API's.                      *)
(***************************************************************************)
EXTENDS Naturals, Sequences, FiniteSets

CONSTANTS
  Conns,    \* connections, streams or devices alive at once
  NoConn,   \* none of them
  Kinds,    \* the listeners looked at
  Backlog,  \* capacity of the queue
  MaxSess   \* bound on the sessions, or requests begun, at once

(***************************************************************************)
(* What tells the listeners apart.  style: who accepts and how Close is    *)
(* told.  direct: Accept is the socket's.  loop: listenLoop accepts, any   *)
(* error ends it and is sent to errs.  server: an HTTP, DNS or gRPC server *)
(* runs, and what it ends with is sent.  closer: likewise, but the error   *)
(* is logged and Close sends its own result.  chan: the error is logged,   *)
(* Close closes a channel.  bind: Accept itself binds a remote port.       *)
(* device: the loop creates one network device after the other.            *)
(* mux: many streams come from one session.  outlives: sessions, or        *)
(* requests begun, go on after Close.  fragile: an error that leaves the   *)
(* port as it is, one client's perhaps, can end the accepting.  mute: the  *)
(* server ends without an error when it is closed.  exits: the handler     *)
(* that goes with it stops the process when it returns.  cap: the          *)
(* capacity of the queue.                                                  *)
(***************************************************************************)
Direct == [style |-> "direct", mux |-> FALSE, outlives |-> FALSE, fragile |-> FALSE,
           mute |-> FALSE, exits |-> FALSE, cap |-> 0]

TCP == Direct
TLS == Direct
ObfsHTTP == Direct
ObfsTLS == Direct
RedirectTCP == Direct
UDP == Direct
FTCP == Direct
RedirectUDP == [Direct EXCEPT !.fragile = TRUE]
DTLS == RedirectUDP

MTLS == [style |-> "loop", mux |-> TRUE, outlives |-> TRUE, fragile |-> TRUE,
         mute |-> FALSE, exits |-> FALSE, cap |-> Backlog]
SSH  == MTLS
SSHD == MTLS
KCP  == [MTLS EXCEPT !.outlives = FALSE]
QUIC == KCP
ICMP == KCP

WS   == [style |-> "server", mux |-> FALSE, outlives |-> TRUE, fragile |-> FALSE,
         mute |-> FALSE, exits |-> FALSE, cap |-> Backlog]
MWS  == [WS EXCEPT !.mux = TRUE]
DNS  == [WS EXCEPT !.mute = TRUE]
GRPC == DNS

HTTP2 == [WS EXCEPT !.style = "closer"]
H2    == HTTP2
HTTP3 == HTTP2
PHTListener == [WS EXCEPT !.style = "chan"]
H3    == PHTListener

RTCP == [Direct EXCEPT !.style = "bind"]
RUDP == RTCP
TUN  == [Direct EXCEPT !.style = "device"]
TAP  == [TUN EXCEPT !.exits = TRUE, !.cap = 1]

ListenerKinds ==
  {TCP, TLS, ObfsHTTP, ObfsTLS, RedirectTCP, RedirectUDP, DTLS, UDP, FTCP,
   MTLS, SSH, SSHD, KCP, QUIC, ICMP, WS, MWS, DNS, GRPC,
   HTTP2, H2, HTTP3, PHTListener, H3, RTCP, RUDP, TUN, TAP}

ASSUME ListenersAssumption ==
  /\ NoConn \notin Conns
  /\ Kinds \subseteq ListenerKinds
  /\ Backlog \in Nat \ {0} /\ MaxSess \in Nat \ {0}

VARIABLES
  kind,    \* the listener in this behaviour
  sock,    \* its port: up, down, or not bound (nil)
  loop,    \* the goroutine that feeds the queue
  sess,    \* sessions, or requests begun, that may bring connections
  queue,   \* cqueue
  errs,    \* errChan, of capacity one
  eof,     \* errChan was closed
  closed,  \* Close was called
  missed,  \* Close came while Accept was binding
  serve,   \* the loop of Serve
  conns,   \* the connections, or the devices
  dev      \* the device that the loop looks after

vars == <<kind, sock, loop, sess, queue, errs, eof, closed, missed, serve, conns, dev>>

Feeds == {"loop", "server", "closer", "chan"}
Style(S) == kind.style \in S

(* A new connection or device; which of those not in use stands for it is all one. *)
Fresh(c) == conns[c] = "none" /\ c = CHOOSE d \in Conns : conns[d] = "none"

----------------------------------------------------------------------------
(* What feeds the queue. *)

(* A client's session, or its request to the server. *)
SessionBegin ==
  /\ Style(Feeds) /\ sock = "up" /\ loop = "run"
  /\ sess < MaxSess
  /\ sess' = sess + 1
  /\ UNCHANGED <<kind, sock, loop, queue, errs, eof, closed, missed, serve, conns, dev>>

SessionEnd ==
  /\ sess > 0
  /\ sess' = sess - 1
  /\ UNCHANGED <<kind, sock, loop, queue, errs, eof, closed, missed, serve, conns, dev>>

(* The send that does not wait: when the queue is full the connection is closed. *)
Enqueue(c) ==
  IF Len(queue) < kind.cap
  THEN queue' = Append(queue, c) /\ conns' = [conns EXCEPT ![c] = "queued"]
  ELSE UNCHANGED <<queue, conns>>

Offer(c) ==
  /\ Style(Feeds) /\ sess > 0
  /\ Fresh(c)
  /\ Enqueue(c)
  /\ sess' = IF kind.mux THEN sess ELSE sess - 1
  /\ UNCHANGED <<kind, sock, loop, errs, eof, closed, missed, serve, dev>>

(* A variant with a fault: the loop sends the error of an outer scope. *)
LoopFailsNil ==
  /\ Style({"loop"}) /\ loop = "run"
  /\ errs' = <<"nil">> /\ eof' = TRUE
  /\ loop' = "done"
  /\ UNCHANGED <<kind, sock, sess, queue, closed, missed, serve, conns, dev>>

(* A variant with a fault: the loop ends and only logs why. *)
LoopFailsSilent ==
  /\ Style({"loop"}) /\ loop = "run"
  /\ loop' = "done"
  /\ UNCHANGED <<kind, sock, sess, queue, errs, eof, closed, missed, serve, conns, dev>>

(* listenLoop: an error of the socket, for good or temporary, ends it. *)
LoopFails ==
  /\ Style({"loop"}) /\ loop = "run"
  /\ errs' = <<IF sock = "down" THEN "err" ELSE "temp">> /\ eof' = TRUE
  /\ loop' = "done"
  /\ UNCHANGED <<kind, sock, sess, queue, closed, missed, serve, conns, dev>>

(* The server gives up when its socket is gone: its error is reported. *)
ServerEnds ==
  /\ Style({"server"}) /\ loop = "run" /\ sock = "down"
  /\ errs' = IF closed /\ kind.mute THEN <<>> ELSE <<"err">>
  /\ eof' = TRUE
  /\ loop' = "done"
  /\ UNCHANGED <<kind, sock, sess, queue, closed, missed, serve, conns, dev>>

(* The same of http2, h2, http3, pht and h3, where it is logged. *)
ServerEndsLogged ==
  /\ Style({"closer", "chan"}) /\ loop = "run" /\ sock = "down"
  /\ loop' = "done"
  /\ UNCHANGED <<kind, sock, sess, queue, errs, eof, closed, missed, serve, conns, dev>>

(* The socket is lost, not by Close. *)
PortFails ==
  /\ sock = "up"
  /\ sock' = "down"
  /\ UNCHANGED <<kind, loop, sess, queue, errs, eof, closed, missed, serve, conns, dev>>

----------------------------------------------------------------------------
(* The devices of tun and tap: create, hand over, wait for its end, again. *)

DevCreate(c) ==
  /\ Style({"device"}) /\ loop = "create"
  /\ Fresh(c)
  /\ conns' = [conns EXCEPT ![c] = "held"]
  /\ dev' = c
  /\ loop' = "send"
  /\ UNCHANGED <<kind, sock, sess, queue, errs, eof, closed, missed, serve>>

(* createTun fails; or the interface is not found, and the device is not closed. *)
DevCreateFails(c) ==
  /\ Style({"device"}) /\ loop = "create"
  /\ Fresh(c)
  /\ conns' \in {conns, [conns EXCEPT ![c] = "lost"]}
  /\ dev' = NoConn
  /\ loop' = "wait"
  /\ UNCHANGED <<kind, sock, sess, queue, errs, eof, closed, missed, serve>>

(* tap: the send to the queue, which waits for room. *)
DevSend ==
  /\ Style({"device"}) /\ loop = "send"
  /\ Len(queue) < kind.cap
  /\ queue' = Append(queue, dev)
  /\ conns' = [conns EXCEPT ![dev] = "queued"]
  /\ loop' = "wait"
  /\ UNCHANGED <<kind, sock, sess, errs, eof, closed, missed, serve, dev>>

(* A variant with a fault: the loop goes on without waiting for the end. *)
DevWaitNot ==
  /\ Style({"device"}) /\ loop = "wait"
  /\ loop' = IF closed THEN "done" ELSE "create"
  /\ UNCHANGED <<kind, sock, sess, queue, errs, eof, closed, missed, serve, conns, dev>>

(* The wait for the device's end or for Close, then the pause; the next device
   is created without another look at Close. *)
DevWait ==
  /\ Style({"device"}) /\ loop = "wait"
  /\ \/ (dev \in Conns => conns[dev] = "none") /\ loop' = "create"
     \/ closed /\ loop' = "done"
  /\ UNCHANGED <<kind, sock, sess, queue, errs, eof, closed, missed, serve, conns, dev>>

----------------------------------------------------------------------------
(* Serve: an iteration of its loop per step, Accept included. *)

(* The connection goes to the handler, or admission refuses it and it is closed. *)
Take(c) == conns' \in {[conns EXCEPT ![c] = "open"], [conns EXCEPT ![c] = "none"]}

AcceptDirect(c) ==
  /\ Style({"direct"}) /\ serve = "accept" /\ sock = "up"
  /\ Fresh(c)
  /\ Take(c)
  /\ UNCHANGED <<kind, sock, loop, sess, queue, errs, eof, closed, missed, serve, dev>>

(* A variant with a fault: every error ends the loop. *)
AcceptTempEnds ==
  /\ Style({"direct"}) /\ serve = "accept" /\ sock = "up"
  /\ serve' = "ended"
  /\ UNCHANGED <<kind, sock, loop, sess, queue, errs, eof, closed, missed, conns, dev>>

(* A temporary error: Serve waits and tries again.  An error can be one client's
   and not temporary: of redirect/udp when a packet cannot be answered, of dtls,
   whose Accept does the handshake, when the client fails it. *)
AcceptTemp ==
  /\ Style({"direct"}) /\ serve = "accept" /\ sock = "up"
  /\ serve' \in IF kind.fragile THEN {"sleep", "ended"} ELSE {"sleep"}
  /\ UNCHANGED <<kind, sock, loop, sess, queue, errs, eof, closed, missed, conns, dev>>

AcceptFails ==
  /\ Style({"direct"}) /\ serve = "accept" /\ sock = "down"
  /\ serve' = "ended"
  /\ UNCHANGED <<kind, sock, loop, sess, queue, errs, eof, closed, missed, conns, dev>>

(* A variant with a fault: the newest of the queue is taken first. *)
AcceptNewest ==
  /\ serve = "accept" /\ queue # <<>>
  /\ Take(queue[Len(queue)])
  /\ queue' = SubSeq(queue, 1, Len(queue) - 1)
  /\ UNCHANGED <<kind, sock, loop, sess, errs, eof, closed, missed, serve, dev>>

AcceptQueued ==
  /\ serve = "accept" /\ queue # <<>>
  /\ Take(Head(queue))
  /\ queue' = Tail(queue)
  /\ UNCHANGED <<kind, sock, loop, sess, errs, eof, closed, missed, serve, dev>>

(* tun: the queue has no room, so the loop's send and Accept meet. *)
AcceptDevice ==
  /\ Style({"device"}) /\ kind.cap = 0
  /\ serve = "accept" /\ loop = "send"
  /\ Take(dev)
  /\ loop' = "wait"
  /\ UNCHANGED <<kind, sock, sess, queue, errs, eof, closed, missed, serve, dev>>

(* An error from errs; for a nil one there is no connection either, and its use
   stops the process. *)
AcceptErr ==
  /\ serve = "accept" /\ errs # <<>>
  /\ errs' = Tail(errs)
  /\ serve' = CASE Head(errs) = "temp" -> "sleep"
                [] Head(errs) = "err"  -> "ended"
                [] Head(errs) = "nil"  -> "crashed"
  /\ UNCHANGED <<kind, sock, loop, sess, queue, eof, closed, missed, conns, dev>>

(* ErrClosed: errChan, or for chan and device the channel closed, is drained. *)
AcceptClosed ==
  /\ serve = "accept"
  /\ (eof /\ errs = <<>>) \/ (Style({"chan", "device"}) /\ closed)
  /\ serve' = "ended"
  /\ UNCHANGED <<kind, sock, loop, sess, queue, errs, eof, closed, missed, conns, dev>>

(* rtcp and rudp: closed or not, bound already or not. *)
AcceptBind ==
  /\ Style({"bind"}) /\ serve = "accept"
  /\ serve' = CASE closed -> "ended"
                [] ~closed /\ sock = "nil" -> "binding"
                [] ~closed /\ sock # "nil" -> "blocked"
  /\ UNCHANGED <<kind, sock, loop, sess, queue, errs, eof, closed, missed, conns, dev>>

(* router.Bind returns, with a listener or with an error, which is temporary. *)
BindDone ==
  /\ serve = "binding"
  /\ \/ sock' = "up" /\ serve' = "blocked"
     \/ sock' = "nil" /\ serve' = "sleep"
  /\ UNCHANGED <<kind, loop, sess, queue, errs, eof, closed, missed, conns, dev>>

BoundAccept(c) ==
  /\ serve = "blocked" /\ sock = "up"
  /\ Fresh(c)
  /\ Take(c)
  /\ serve' = "accept"
  /\ UNCHANGED <<kind, sock, loop, sess, queue, errs, eof, closed, missed, dev>>

(* The bound listener fails, or was closed: it is dropped and bound again. *)
BoundFails ==
  /\ serve = "blocked" /\ sock = "down"
  /\ sock' = "nil"
  /\ serve' = "sleep"
  /\ UNCHANGED <<kind, loop, sess, queue, errs, eof, closed, missed, conns, dev>>

(* The pause after a temporary error is over. *)
Wake ==
  /\ serve = "sleep"
  /\ serve' = "accept"
  /\ UNCHANGED <<kind, sock, loop, sess, queue, errs, eof, closed, missed, conns, dev>>

(* The handler is done: the connection, or the device, is closed; tap's exits. *)
Handled(c) ==
  /\ conns[c] = "open"
  /\ conns' = [conns EXCEPT ![c] = "none"]
  /\ serve' = IF kind.exits THEN "exited" ELSE serve
  /\ UNCHANGED <<kind, sock, loop, sess, queue, errs, eof, closed, missed, dev>>

----------------------------------------------------------------------------
(* Close, from another goroutine, and possibly more than once. *)

CloseSocket ==
  /\ Style({"direct", "loop", "server", "chan"})
  /\ closed' = TRUE
  /\ sock' = "down"
  /\ sess' = IF kind.outlives THEN sess ELSE 0
  /\ UNCHANGED <<kind, loop, queue, errs, eof, missed, serve, conns, dev>>

(* http2, h2 and http3: an error that waits is taken, else the server is closed
   and the result of that sent, nil unless it failed. *)
CloseServer ==
  /\ Style({"closer"})
  /\ closed' = TRUE
  /\ IF errs # <<>> \/ eof
     THEN errs' = <<>> /\ UNCHANGED <<sock, eof>>
     ELSE errs' \in {<<"nil">>, <<"err">>} /\ sock' = "down" /\ eof' = TRUE
  /\ UNCHANGED <<kind, loop, sess, queue, missed, serve, conns, dev>>

CloseBound ==
  /\ Style({"bind"}) /\ ~closed
  /\ closed' = TRUE
  /\ sock' = IF sock = "nil" THEN "nil" ELSE "down"
  /\ missed' = (serve = "binding")
  /\ UNCHANGED <<kind, loop, sess, queue, errs, eof, serve, conns, dev>>

CloseDevice ==
  /\ Style({"device"}) /\ ~closed
  /\ closed' = TRUE
  /\ UNCHANGED <<kind, sock, loop, sess, queue, errs, eof, missed, serve, conns, dev>>

----------------------------------------------------------------------------
Init ==
  /\ kind \in Kinds
  /\ sock = IF kind.style \in {"bind", "device"} THEN "nil" ELSE "up"
  /\ loop = CASE kind.style \in Feeds -> "run"
              [] kind.style = "device" -> "create"
              [] kind.style \in {"direct", "bind"} -> "done"
  /\ sess = 0
  /\ queue = <<>> /\ errs = <<>>
  /\ eof = FALSE /\ closed = FALSE /\ missed = FALSE
  /\ serve = "accept"
  /\ conns = [c \in Conns |-> "none"]
  /\ dev = NoConn

(* A crash or an exit stops the process. *)
Stopped == serve \in {"crashed", "exited"}

Next ==
  /\ ~Stopped
  /\ \/ SessionBegin \/ SessionEnd
     \/ LoopFails \/ ServerEnds \/ ServerEndsLogged \/ PortFails
     \/ DevSend \/ DevWait
     \/ AcceptTemp \/ AcceptFails \/ AcceptQueued \/ AcceptDevice
     \/ AcceptErr \/ AcceptClosed \/ AcceptBind \/ BindDone \/ BoundFails \/ Wake
     \/ CloseSocket \/ CloseServer \/ CloseBound \/ CloseDevice
     \/ \E c \in Conns :
          \/ Offer(c) \/ DevCreate(c) \/ DevCreateFails(c)
          \/ AcceptDirect(c) \/ BoundAccept(c) \/ Handled(c)

Spec == Init /\ [][Next]_vars

(***************************************************************************)
(* Goroutines that can go on do; of the cases of a select that stay ready  *)
(* each is chosen some time; a Bind returns; Accept on a closed socket     *)
(* does.  Nothing is assumed of clients, of handlers or of Close.          *)
(***************************************************************************)
Fairness ==
  /\ WF_vars((LoopFails /\ sock = "down") \/ ServerEnds)
  /\ WF_vars(AcceptQueued) /\ WF_vars(AcceptErr) /\ WF_vars(AcceptClosed)
  /\ WF_vars(AcceptFails \/ AcceptBind \/ BindDone \/ BoundFails \/ Wake)

FairSpec == Spec /\ Fairness

----------------------------------------------------------------------------
(* The shape of the state; the queue and errChan keep to their capacity. *)
TypeOK ==
  /\ kind \in Kinds
  /\ sock \in {"up", "down", "nil"}
  /\ loop \in {"run", "done", "create", "send", "wait"}
  /\ sess \in 0..MaxSess
  /\ queue \in Seq(Conns) /\ Len(queue) <= kind.cap
  /\ errs \in Seq({"temp", "err", "nil"}) /\ Len(errs) <= 1
  /\ eof \in BOOLEAN /\ closed \in BOOLEAN /\ missed \in BOOLEAN
  /\ serve \in {"accept", "binding", "blocked", "sleep", "ended", "crashed", "exited"}
  /\ conns \in [Conns -> {"none", "held", "queued", "open", "lost"}]
  /\ dev \in Conns \cup {NoConn}

(***************************************************************************)
(* Serve never goes on without a connection and without an error, except   *)
(* that closing an http2, h2 or http3 listener makes it (Close sends the   *)
(* nil of server.Close where Accept expects an error).                     *)
(***************************************************************************)
CrashOnlyByClose == serve = "crashed" => kind.style = "closer" /\ closed

(***************************************************************************)
(* When Serve has ended the port is free again, so that the service can be *)
(* started anew: a temporary error does not end it.  Exceptions in the     *)
(* code: the listeners whose loop any error ends keep the port, as do      *)
(* redirect/udp after an error of one packet and dtls after the failed     *)
(* handshake of one client; so do rtcp and rudp when Close came while they *)
(* were binding.                                                           *)
(***************************************************************************)
EndedIsUnbound ==
  /\ TypeOK
  /\ serve = "ended" => sock # "up" \/ kind.fragile \/ missed

(***************************************************************************)
(* tun and tap: the loop never has two devices in circulation at once, as  *)
(* both would have the same name and address; devices that were lost when  *)
(* their interface was not found do not circulate.                         *)
(***************************************************************************)
OneDevice ==
  kind.style = "device" =>
    Cardinality({c \in Conns : conns[c] \in {"held", "queued", "open"}}) <= 1

----------------------------------------------------------------------------
(***************************************************************************)
(* What is inductive.  The safety properties above say what holds when     *)
(* Serve has ended; why it does is in what was true before: what the       *)
(* errors under way mean, what Close leaves of the socket, and where the   *)
(* one device is while the loop waits for it.                              *)
(***************************************************************************)

(* Who binds and who has no port. *)
PortOK ==
  /\ kind.style = "device" => sock = "nil"
  /\ serve \in {"binding", "blocked"} => kind.style = "bind"

(* A closed listener's port is down, or was not up and is not being bound. *)
ClosedOK ==
  /\ missed => kind.style = "bind" /\ closed
  /\ closed /\ kind.style \in {"direct", "loop", "server", "chan"} => sock = "down"
  /\ closed /\ kind.style = "bind" /\ ~missed => sock # "up" /\ serve # "binding"

(* An error in errs, or the end of errs, tells the truth about the port. *)
ErrsOK ==
  /\ errs \in {<<>>, <<"temp">>, <<"err">>, <<"nil">>}
  /\ eof \/ errs # <<>> => kind.style \in Feeds
  /\ eof => sock = "down" \/ kind.fragile
  /\ errs = <<"err">> => sock = "down"
  /\ errs = <<"nil">> => kind.style = "closer" /\ closed

(* The device in circulation is the one the loop waits for. *)
Circulates(c) == conns[c] \in {"held", "queued", "open"}

DeviceOK ==
  kind.style = "device" =>
    /\ \A c \in Conns : Circulates(c) => c = dev /\ loop # "create"
    /\ loop = "send" => dev \in Conns /\ conns[dev] = "held"
    /\ \/ queue = <<>>
       \/ /\ queue = <<dev>> /\ dev \in Conns
          /\ conns[dev] = "queued" /\ loop \in {"wait", "done"}

IInv ==
  /\ TypeOK /\ PortOK /\ ClosedOK /\ ErrsOK /\ DeviceOK
  /\ CrashOnlyByClose /\ EndedIsUnbound

----------------------------------------------------------------------------
(***************************************************************************)
(* Close ends Serve, whatever clients do meanwhile: no goroutine is left   *)
(* in Accept of a closed listener, except when Close missed the binding.   *)
(* A socket that is lost does too, where a loop or a server reports it.    *)
(***************************************************************************)
ServeEnds ==
  /\ closed ~> serve = "ended" \/ Stopped \/ missed
  /\ kind.style \in {"direct", "loop", "server"} /\ sock = "down" ~> serve = "ended"

(* A connection in the queue gets to a handler, in its turn, while Serve runs. *)
QueuedIsServed ==
  \A c \in Conns : conns[c] = "queued" ~>
    conns[c] # "queued" \/ serve = "ended" \/ Stopped
=============================================================================
