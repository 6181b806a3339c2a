------------------------------ MODULE Handlers ------------------------------
(***************************************************************************)
(* One connection in the hands of a handler that connects it to a target:  *)
(* the checks before the dial, the answers, and Transport, two goroutines  *)
(* that copy until the first of them ends.  What tells the handlers apart  *)
(* is in a record each.  The client's bytes are items 0..MaxUp: 0 is its   *)
(* request (for handlers that sniff, the bytes they look at), the target's *)
(* are items 1..MaxDown.  A write does not block.                          *)
(***************************************************************************)
EXTENDS Integers, Sequences, FiniteSets, SequencesExt

CONSTANTS
  Kinds,   \* the handlers of the run, records as below
  MaxUp,   \* bound on what the client sends after its request
  MaxDown  \* bound on what the target sends

(* A handler: "request": it reads a request first; "pass": the request goes
   to the target; "ahead": it is read through a bufio.Reader that is dropped
   afterwards; "pads": too short a request is passed on all the same, filled
   with zeros; "peeks": the first byte is looked at before anything else;
   "probe": who fails the authentication is connected to a decoy, a "host", or
   is sent a "page", which is a status of choice, a file or what another server
   answers, with http2 the decoy too; "drains": after a bad request it reads until the client leaves;
   "rest": a body left unread is read before the connection is closed, see
   ClientRequest; "timer": a read
   deadline is set for the request, and "reset" afterwards or "kept".
   "checks": what is checked, in this order; "says": the failures it answers;
   "ok": when success is answered; "twice": failures after which the
   connection is closed twice; "copies": whether Transport is reached;
   "implicit": an answer nobody gave is sent by the HTTP server, as 200.
   "relay": datagrams go both ways through a udp.Relay, which Handle runs, or
   which runs beside it while Handle watches the connection; "early": success
   is answered before the dial. *)
Plain == [name |-> "plain", request |-> TRUE, pass |-> FALSE, ahead |-> FALSE, pads |-> FALSE,
          peeks |-> FALSE, probe |-> "no", drains |-> FALSE, rest |-> FALSE, timer |-> "none",
          checks |-> <<"bypass">>, says |-> {}, ok |-> "none", twice |-> {},
          copies |-> TRUE, implicit |-> FALSE, relay |-> "no", early |-> FALSE]

HTTPConnect == [Plain EXCEPT !.name = "http connect", !.ahead = TRUE, !.rest = TRUE, !.ok = "now",
                  !.checks = <<"bypass", "auth", "method">>,
                  !.says = {"bypass", "auth", "method", "dial"}]
HTTPForward == [HTTPConnect EXCEPT !.name = "http", !.ok = "none", !.pass = TRUE]
HTTPProbe   == [HTTPForward EXCEPT !.name = "http probe", !.probe = "host"]
HTTPPage    == [HTTPForward EXCEPT !.name = "http page", !.probe = "page"]
HTTPConnectProbe == [HTTPConnect EXCEPT !.name = "http connect probe", !.probe = "host"]
HTTPConnectPage  == [HTTPConnect EXCEPT !.name = "http connect page", !.probe = "page"]
HTTP2       == [HTTPConnect EXCEPT !.name = "http2", !.request = FALSE, !.ahead = FALSE,
                  !.rest = FALSE, !.checks = <<"bypass", "auth">>, !.implicit = TRUE]
HTTP2Page   == [HTTP2 EXCEPT !.name = "http2 page", !.probe = "page"]
HTTP2Other  == [HTTP2 EXCEPT !.name = "http2 not connect", !.ok = "none", !.copies = FALSE]
SOCKS4      == [Plain EXCEPT !.name = "socks4", !.timer = "reset", !.ok = "now",
                  !.checks = <<"auth", "cmd", "bypass">>, !.says = {"auth", "bypass", "dial"}]
SOCKS5      == [SOCKS4 EXCEPT !.name = "socks5", !.says = @ \union {"cmd"}]
AutoDetect  == [SOCKS5 EXCEPT !.name = "auto", !.peeks = TRUE]
SS          == [Plain EXCEPT !.name = "ss", !.timer = "kept", !.drains = TRUE]
SNI         == [Plain EXCEPT !.name = "sni tls", !.pass = TRUE]
SNIHTTP     == [SNI EXCEPT !.name = "sni http", !.ahead = TRUE]
Redirect    == [Plain EXCEPT !.name = "redirect", !.request = FALSE]
RedirectRaw == [Plain EXCEPT !.name = "redirect sniffing", !.pass = TRUE, !.pads = TRUE]
RedirectTLS == [SNI EXCEPT !.name = "redirect tls"]
RedirectWeb == [SNIHTTP EXCEPT !.name = "redirect http"]
RedirectUDP == [Redirect EXCEPT !.name = "redirect udp"]
Forward     == [Plain EXCEPT !.name = "forward", !.request = FALSE, !.checks = <<"target">>]
ForwardRaw  == [RedirectRaw EXCEPT !.name = "forward sniffing", !.checks = <<"target">>]
Remote      == [Forward EXCEPT !.name = "remote forward"]
SSHDirect   == [Plain EXCEPT !.name = "sshd direct", !.request = FALSE]
Relay       == [Plain EXCEPT !.name = "relay", !.timer = "reset", !.ok = "cached",
                  !.checks = <<"version", "auth", "target", "bypass">>,
                  !.says = {"version", "auth", "target", "bypass", "dial"},
                  !.twice = {"target", "dial", "reply"}]
RelayNow     == [Relay EXCEPT !.name = "relay nodelay", !.ok = "now"]
RelayForward == [Relay EXCEPT !.name = "relay forward", !.checks = <<"version", "auth", "target">>,
                  !.says = @ \ {"bypass"}]

(* Of these the target is a UDP socket, bound (a check called "listen") or
   obtained through the router. *)
HTTPUDP   == [HTTPConnect EXCEPT !.name = "http udp", !.relay = "run", !.early = TRUE,
                !.checks = <<"bypass", "auth", "enabled">>, !.says = {"bypass", "auth", "enabled"}]
SOCKS5UDP == [SOCKS5 EXCEPT !.name = "socks5 udp", !.relay = "beside", !.early = TRUE,
                !.checks = <<"auth", "cmd", "enabled", "listen">>,
                !.says = {"auth", "cmd", "enabled", "listen"}]
SOCKS5Tun == [SOCKS5 EXCEPT !.name = "socks5 udp tunnel", !.relay = "run",
                !.checks = <<"auth", "cmd", "enabled">>, !.says = {"auth", "cmd", "enabled"}]
SSUDP     == [Plain EXCEPT !.name = "ss udp", !.relay = "run", !.request = FALSE, !.checks = <<>>]
RelayBindUDP == [RelayNow EXCEPT !.name = "relay bind udp", !.relay = "run",
                !.checks = <<"version", "auth", "enabled">>, !.says = {"version", "auth", "enabled"},
                !.twice = {"dial", "reply"}]

AllKinds == {HTTPConnect, HTTPForward, HTTPProbe, HTTPPage, HTTPConnectProbe, HTTPConnectPage,
             HTTP2, HTTP2Page, HTTP2Other, SOCKS4, SOCKS5, AutoDetect, SS, SNI, SNIHTTP,
             Redirect, RedirectRaw, RedirectTLS, RedirectWeb, RedirectUDP,
             Forward, ForwardRaw, Remote, SSHDirect, Relay, RelayNow, RelayForward,
             HTTPUDP, SOCKS5UDP, SOCKS5Tun, SSUDP, RelayBindUDP}

ASSUME HandlersAssumption ==
  /\ Kinds \subseteq AllKinds
  /\ MaxUp \in Nat /\ MaxDown \in Nat

VARIABLES
  kind,    \* the handler
  pc,      \* where Handle is
  stage,   \* checks passed
  decoy,   \* the target is the decoy of probe resistance
  timer,   \* the read deadline of the connection
  client,  \* the peer: "open"; "half", it has sent its last; "left"
  req,     \* its request
  sent,    \* items it sent after the request
  next,    \* the next item that a Read of the connection returns
  down,    \* history: what reached the client
  closes,  \* history: Close calls on its connection
  target,  \* the other peer: "none" before the dial, "open", "left"
  tsent,   \* items it sent
  tnext,   \* the next item that a Read of its connection returns
  got,     \* history: what reached it
  tclosed, \* its connection was closed by Handle
  copier,  \* the two goroutines of Transport
  errc,    \* the channel they end with
  ender    \* history: whose end Transport returned

clientVars == <<client, req, sent, next, down, closes>>
targetVars == <<target, tsent, tnext, got, tclosed>>
handleVars == <<kind, pc, stage, decoy, timer>>
copyVars   == <<copier, errc, ender>>
vars == <<handleVars, clientVars, targetVars, copyVars>>

Directions == {"up", "down"}

NoCopier == [pc |-> "off", item |-> -1, why |-> ""]

(* In what reaches the peers: the answers, and a request filled with zeros. *)
Ok == 0
No == -1
Padded == -1

Nobody == [dir |-> "none", why |-> ""]
----------------------------------------------------------------------------
(* The two peers. *)

(* Of an HTTP request for a target a "part" can come first, with some of its body
   missing; a CONNECT has none. *)
HasBody == kind.pass /\ kind.ahead

ClientRequest ==
  /\ client = "open" /\ req = "none"
  /\ \E r \in {"good", "bad", "short"} \cup IF HasBody THEN {"part"} ELSE {} : req' = r
  /\ UNCHANGED <<client, sent, next, down, closes, handleVars, targetVars, copyVars>>

ClientBody ==
  /\ client = "open" /\ req = "part"
  /\ req' = "good"
  /\ UNCHANGED <<client, sent, next, down, closes, handleVars, targetVars, copyVars>>

ClientSends ==
  /\ client = "open" /\ req = "good" /\ sent < MaxUp
  /\ sent' = sent + 1
  /\ UNCHANGED <<client, req, next, down, closes, handleVars, targetVars, copyVars>>

(* It closes its side, or goes away altogether. *)
ClientEnds ==
  /\ \/ client = "open" /\ client' = "half"
     \/ client # "left" /\ client' = "left"
  /\ UNCHANGED <<req, sent, next, down, closes, handleVars, targetVars, copyVars>>

TargetSends ==
  /\ target = "open" /\ tsent < MaxDown
  /\ tsent' = tsent + 1
  /\ UNCHANGED <<target, tnext, got, tclosed, handleVars, clientVars, copyVars>>

TargetLeaves ==
  /\ target = "open" /\ kind.relay = "no"
  /\ target' = "left"
  /\ UNCHANGED <<tsent, tnext, got, tclosed, handleVars, clientVars, copyVars>>

TimerExpires ==
  /\ timer = "set"
  /\ timer' = "expired"
  /\ UNCHANGED <<kind, pc, stage, decoy, clientVars, targetVars, copyVars>>
----------------------------------------------------------------------------
(* Handle. *)

Go(to) == pc' = to

ToClient(items) == down' = IF client = "left" THEN down ELSE down \o items

BodyAwaited == req = "part" /\ client = "open"

(* The deferred calls: the target's connection is closed, then in http, by the
   Close of its body, the rest of the request is read, then the client's is closed. *)
CloseBoth(times) ==
  /\ tclosed' = (target # "none")
  /\ IF kind.rest /\ BodyAwaited
     THEN Go("rest") /\ UNCHANGED closes
     ELSE Go("done") /\ closes' = closes + times

ReadRest ==
  /\ pc = "rest" /\ ~BodyAwaited
  /\ Go("done")
  /\ closes' = closes + 1
  /\ UNCHANGED <<kind, stage, decoy, timer, client, req, sent, next, down, targetVars, copyVars>>

(* A variant with a fault: every failure closes once more. *)
ReturnTwice(failure) == CloseBoth(IF failure = "" THEN 1 ELSE 2)

Return(failure) == CloseBoth(IF failure \in kind.twice THEN 2 ELSE 1)

(* Return without an answer: the HTTP/2 server then gives its own. *)
ReturnSilently(failure) ==
  /\ Return(failure)
  /\ IF kind.implicit /\ down = <<>> THEN ToClient(<<Ok>>) ELSE UNCHANGED down

(* A failure is answered or not.  The error of writing the answer to a bypass
   is returned as well. *)
Fail(failure) ==
  /\ IF failure \in kind.says
     THEN /\ ToClient(<<No>>)
          /\ \/ Return(failure)
             \/ failure = "bypass" /\ client = "left" /\ Return("reply")
     ELSE ReturnSilently(failure)
  /\ UNCHANGED <<kind, stage, decoy, timer, client, req, sent, next, target, tsent, tnext, got, copyVars>>

Peek ==
  /\ pc = "peek"
  /\ \/ req # "none" /\ Go("rate") /\ UNCHANGED <<down, closes, tclosed>>
     \/ req = "none" /\ client # "open" /\ ReturnSilently("peek")
  /\ UNCHANGED <<kind, stage, decoy, timer, client, req, sent, next, target, tsent, tnext, got, copyVars>>

(* checkRateLimit, and the deadline for what is read next. *)
RateLimit ==
  /\ pc = "rate"
  /\ \/ Fail("rate")
     \/ /\ Go(IF kind.request THEN "read" ELSE "check")
        /\ timer' = IF kind.timer = "none" THEN "off" ELSE "set"
        /\ UNCHANGED <<kind, stage, decoy, clientVars, targetVars, copyVars>>

(* The request is there; with it a bufio.Reader may have taken some of what
   follows.  What is passed on is put back in front of the connection. *)
ReadAhead == IF kind.ahead THEN 0..sent ELSE {0}

FirstAfter(k) == 1 + k   \* a variant with a fault: nothing is put back

First(k) == IF kind.pass /\ ~kind.ahead THEN 0 ELSE 1 + k

Kept(t) == t             \* a variant with a fault: the deadline stays

Reset(t) == IF kind.timer = "kept" THEN t ELSE "off"

ReadRequest ==
  /\ pc = "read"
  /\ req \in {"good", "part"} \/ (req = "short" /\ kind.pads /\ client # "open")
  /\ Go("check")
  /\ timer' = Reset(timer)
  /\ \E k \in ReadAhead : next' = First(k)
  /\ UNCHANGED <<kind, stage, decoy, client, req, sent, down, closes, targetVars, copyVars>>

(* The request is not one, or does not come, or not in time. *)
NoRequest ==
  /\ pc = "read"
  /\ \/ req = "bad"
     \/ req = "short" /\ ~kind.pads /\ client # "open"
     \/ req = "none" /\ client # "open"
     \/ timer = "expired"
  /\ UNCHANGED <<kind, stage, decoy, timer, client, req, sent, next, target, tsent, tnext, got, copyVars>>

Drain == Go("drain") /\ UNCHANGED <<down, closes, tclosed>>

(* A variant with a fault: all handlers do as ss does. *)
BadRequestDrains == NoRequest /\ Drain

BadRequest == NoRequest /\ IF kind.drains THEN Drain ELSE ReturnSilently("read")

(* io.Copy to nowhere, until the connection ends or its deadline is over. *)
Drained ==
  /\ pc = "drain"
  /\ client # "open" \/ timer = "expired"
  /\ ReturnSilently("read")
  /\ UNCHANGED <<kind, stage, decoy, timer, client, req, sent, next, target, tsent, tnext, got, copyVars>>

Check ==
  /\ pc = "check" /\ stage < Len(kind.checks)
  /\ LET c == kind.checks[stage + 1]
     IN  \/ /\ stage' = stage + 1
            /\ UNCHANGED <<kind, pc, decoy, timer, clientVars, targetVars, copyVars>>
         \/ Fail(c)
         \/ /\ c = "auth" /\ kind.probe # "no"
            /\ Go(IF kind.probe = "host" THEN "dial" ELSE "page") /\ decoy' = TRUE
            /\ UNCHANGED <<kind, stage, timer, clientVars, targetVars, copyVars>>

(* The page, a yes or a no; before, another server has to answer, perhaps. *)
PageComes ==
  /\ pc = "page"
  /\ \E a \in {Ok, No} : ToClient(<<a>>)
  /\ Return("page")
  /\ UNCHANGED <<kind, stage, decoy, timer, client, req, sent, next, target, tsent, tnext, got, copyVars>>

StartTransport ==
  /\ Go("transport")
  /\ copier' = [d \in Directions |-> [NoCopier EXCEPT !.pc = "read"]]

Checked ==
  /\ pc = "check" /\ stage = Len(kind.checks)
  /\ Go(IF kind.early THEN "reply" ELSE "dial")
  /\ UNCHANGED <<kind, stage, decoy, timer, clientVars, targetVars, copyVars>>

Dial ==
  /\ pc = "dial"
  /\ \/ Fail("dial")
     \/ /\ target' = "open"
        /\ IF kind.early THEN StartTransport ELSE Go("reply") /\ UNCHANGED copier
        /\ UNCHANGED <<kind, stage, decoy, timer, clientVars, tsent, tnext, got, tclosed, errc, ender>>

(* Success is answered, or the request sent on; either may fail. *)
GoOn == (IF kind.early THEN Go("dial") /\ UNCHANGED copier ELSE StartTransport)
        /\ UNCHANGED <<closes, tclosed>>

GiveUp(failure) == Return(failure) /\ UNCHANGED copier

SayOk ==
  /\ kind.ok = "now" /\ ~decoy
  /\ GoOn \/ (client = "left" /\ GiveUp("reply"))
  /\ ToClient(<<Ok>>) /\ UNCHANGED <<got, next>>

(* req.Write reads the body as it goes, perhaps more than that, and fails if it
   does not come; with a decoy no failure matters. *)
PassesRequest == HasBody \/ decoy

SendRequestOn ==
  /\ PassesRequest /\ ~BodyAwaited /\ UNCHANGED down
  /\ \/ /\ req # "part" /\ GoOn
        /\ got' = IF target = "left" THEN got ELSE Append(got, 0)
        /\ next' \in next..(sent + 1)
     \/ /\ target = "left" \/ req = "part"
        /\ IF decoy THEN GoOn ELSE GiveUp("request")
        /\ UNCHANGED <<got, next>>

(* Some more of the body comes, but cannot be written. *)
BodyFails ==
  /\ pc = "reply" /\ PassesRequest
  /\ BodyAwaited /\ target = "left"
  /\ IF decoy THEN GoOn ELSE GiveUp("request")
  /\ UNCHANGED <<kind, stage, decoy, timer, client, req, sent, next, down, target, tsent, tnext, got, errc, ender>>

Reply ==
  /\ pc = "reply"
  /\ IF ~kind.copies THEN ReturnSilently("reply") /\ UNCHANGED <<got, next, copier>>
     ELSE \/ SayOk
          \/ SendRequestOn
          \/ kind.ok # "now" /\ ~PassesRequest /\ GoOn /\ UNCHANGED <<down, got, next>>
  /\ UNCHANGED <<kind, stage, decoy, timer, client, req, sent, target, tsent, tnext, errc, ender>>
----------------------------------------------------------------------------
(* Transport and the relays.  Both goroutines read and write until a Read or a
   Write fails; the first to end makes Handle return, which closes both
   connections.  A relay drops datagrams from or to an address that is
   bypassed, and a datagram can fail to be sent at any time. *)

Stop(d, why) == copier' = [copier EXCEPT ![d] = [@ EXCEPT !.pc = "send", !.why = why]]

Take(d, item) == copier' = [copier EXCEPT ![d] = [@ EXCEPT !.pc = "write", !.item = item]]

UpItem == IF next = 0 /\ req = "short" THEN Padded ELSE next

Pending == next <= sent /\ (next = 0 => req # "none")

(* A variant with a fault: the error that comes with the last item drops it. *)
ReadUpLosing ==
  /\ copier["up"].pc = "read"
  /\ \/ Pending /\ (client # "half" \/ next < sent) /\ Take("up", UpItem) /\ next' = next + 1
     \/ (~Pending \/ next = sent) /\ client # "open" /\ Stop("up", "eof") /\ UNCHANGED next
     \/ pc = "done" /\ Stop("up", "closed") /\ UNCHANGED next
  /\ UNCHANGED <<client, req, sent, down, closes, handleVars, targetVars, errc, ender>>

ReadUp ==
  /\ copier["up"].pc = "read"
  /\ \/ pc # "done" /\ Pending /\ Take("up", UpItem) /\ next' = next + 1
     \/ /\ \/ ~Pending /\ client # "open" /\ kind.relay # "beside" /\ Stop("up", "eof")
           \/ client = "left" /\ kind.relay # "beside" /\ Stop("up", "reset")
           \/ timer = "expired" /\ Stop("up", "timeout")
           \/ pc = "done" /\ Stop("up", "closed")
        /\ UNCHANGED next
  /\ UNCHANGED <<client, req, sent, down, closes, handleVars, targetVars, errc, ender>>

ReadDown ==
  /\ copier["down"].pc = "read"
  /\ \/ ~tclosed /\ tnext <= tsent /\ Take("down", tnext) /\ tnext' = tnext + 1
     \/ /\ \/ tnext > tsent /\ target = "left" /\ Stop("down", "eof")
           \/ target = "left" /\ Stop("down", "reset")
           \/ tclosed /\ Stop("down", "closed")
        /\ UNCHANGED tnext
  /\ UNCHANGED <<target, tsent, got, tclosed, handleVars, clientVars, errc, ender>>

Written(d) == copier' = [copier EXCEPT ![d].pc = "read"]

(* A write to a peer that left fails, or not yet. *)
WriteUp ==
  /\ copier["up"].pc = "write"
  /\ \/ ~tclosed /\ target = "open" /\ Written("up") /\ got' = Append(got, copier["up"].item)
     \/ ~tclosed /\ target = "left" /\ (Written("up") \/ Stop("up", "write")) /\ UNCHANGED got
     \/ tclosed /\ Stop("up", "closed") /\ UNCHANGED got
     \/ kind.relay # "no" /\ (Written("up") \/ Stop("up", "write")) /\ UNCHANGED got
  /\ UNCHANGED <<target, tsent, tnext, tclosed, handleVars, clientVars, errc, ender>>

(* relay's tcpConn keeps its answer back until there is data to go with it. *)
Answered == \E i \in DOMAIN down : down[i] <= 0

(* A variant with a fault: the answer goes after the data. *)
WithDataFirst(item) == IF kind.ok = "cached" /\ ~Answered THEN <<item, Ok>> ELSE <<item>>

WithAnswer(item) == IF kind.ok = "cached" /\ ~Answered THEN <<Ok, item>> ELSE <<item>>

WriteDown ==
  /\ copier["down"].pc = "write"
  /\ \/ pc # "done" /\ ToClient(WithAnswer(copier["down"].item)) /\ Written("down")
     \/ pc # "done" /\ client = "left" /\ Stop("down", "write") /\ UNCHANGED down
     \/ pc = "done" /\ Stop("down", "closed") /\ UNCHANGED down
     \/ kind.relay # "no" /\ (Written("down") \/ Stop("down", "write")) /\ UNCHANGED down
  /\ UNCHANGED <<client, req, sent, next, closes, handleVars, targetVars, errc, ender>>

(* The channel has room for one, that of a relay for two. *)
SendWhen(d, room) ==
  /\ copier[d].pc = "send" /\ room
  /\ errc' = Append(errc, d)
  /\ copier' = [copier EXCEPT ![d].pc = "end"]
  /\ UNCHANGED <<handleVars, clientVars, targetVars, ender>>

SendUnbuffered(d) == SendWhen(d, errc = <<>> /\ pc = "transport") \* a variant with a fault

SendEnd(d) == SendWhen(d, Len(errc) < IF kind.relay = "no" THEN 1 ELSE 2)

TransportEnds ==
  /\ pc = "transport" /\ errc # <<>> /\ kind.relay # "beside"
  /\ ender' = [dir |-> Head(errc), why |-> copier[Head(errc)].why]
  /\ errc' = Tail(errc)
  /\ Return("")
  /\ UNCHANGED <<kind, stage, decoy, timer, client, req, sent, next, down, target, tsent, tnext, got, copier>>
(* io.Copy on the connection that controls the association returns. *)
ControlEnds ==
  /\ pc = "transport" /\ kind.relay = "beside" /\ client # "open"
  /\ Return("")
  /\ UNCHANGED <<kind, stage, decoy, timer, client, req, sent, next, down, target, tsent, tnext, got, copyVars>>
----------------------------------------------------------------------------
Init ==
  /\ kind \in Kinds
  /\ pc = IF kind.peeks THEN "peek" ELSE "rate"
  /\ stage = 0 /\ decoy = FALSE /\ timer = "off"
  /\ client = "open" /\ req = (IF kind.request THEN "none" ELSE "good")
  /\ sent = 0 /\ next = 1 /\ down = <<>> /\ closes = 0
  /\ target = "none" /\ tsent = 0 /\ tnext = 1 /\ got = <<>> /\ tclosed = FALSE
  /\ copier = [d \in Directions |-> NoCopier] /\ errc = <<>> /\ ender = Nobody

Handle == Peek \/ RateLimit \/ ReadRequest \/ BadRequest \/ Drained \/ Check \/ Checked
          \/ Dial \/ Reply \/ TransportEnds \/ ControlEnds \/ ReadRest

CopyUp == ReadUp \/ WriteUp \/ SendEnd("up")

CopyDown == ReadDown \/ WriteDown \/ SendEnd("down")

Peers == ClientRequest \/ ClientBody \/ ClientSends \/ ClientEnds \/ TargetSends \/ TargetLeaves
         \/ TimerExpires \/ BodyFails \/ PageComes

Next == Handle \/ CopyUp \/ CopyDown \/ Peers

(* Goroutines that can go on do; the peers, the deadline and the server that a page
   comes from owe nothing. *)
Spec == Init /\ [][Next]_vars /\ WF_vars(Handle) /\ WF_vars(CopyUp) /\ WF_vars(CopyDown)
----------------------------------------------------------------------------
TypeOK ==
  /\ pc \in {"peek", "rate", "read", "drain", "check", "page", "dial", "reply", "transport", "rest", "done"}
  /\ stage \in 0..Len(kind.checks)
  /\ timer \in {"off", "set", "expired"}
  /\ client \in {"open", "half", "left"} /\ req \in {"none", "part", "good", "bad", "short"}
  /\ sent \in 0..MaxUp /\ next \in 0..(MaxUp + 1)
  /\ down \in Seq(No..MaxDown) /\ got \in Seq(Padded..MaxUp)
  /\ closes \in 0..2
  /\ target \in {"none", "open", "left"} /\ tsent \in 0..MaxDown /\ tnext \in 1..(MaxDown + 1)
  /\ Len(errc) <= 2
  /\ \A d \in Directions : copier[d].pc \in {"off", "read", "write", "send", "end"}

(* A client gets one answer at most and nothing before it: from relay too,
   which sends its answer along with the first data, and when the client goes
   away in the middle.  Without a target, a handler says yes only under an
   HTTP/2 server, when it returns in silence and the server sends 200, for the
   associations that are answered before the dial, and to one that has failed
   the authentication and gets a page, which comes with 200 from a file or
   another server, to a CONNECT too.  A decoy answers for itself. *)
AnswersFit ==
  /\ TypeOK
  /\ \A i \in DOMAIN down : down[i] <= 0 => i = 1
  /\ No \in ToSet(down) => Len(down) = 1
  /\ Ok \in ToSet(down) /\ ~kind.implicit /\ ~kind.early =>
       IF decoy THEN kind.probe = "page" ELSE target # "none"
  /\ down # <<>> /\ kind.ok # "none" /\ ~decoy => Answered

(* What the client got after the answer. *)
AfterAnswer(s) == IF s # <<>> /\ s[1] <= 0 THEN Tail(s) ELSE s

Data == AfterAnswer(down)

Ordered(s) == \A i \in 1..(Len(s) - 1) : s[i + 1] > s[i] /\ (kind.relay = "no" => s[i + 1] = s[i] + 1)

(* What the target gets is what the client sent, from the first item on and
   without a gap, whatever was read to find the target; and the other way
   round.  Where the request is read through a bufio.Reader, what came along
   with it is lost; too short a request is passed on filled up; and datagrams
   may be lost, but are not repeated and keep their order. *)
NothingLostOrMade ==
  /\ Ordered(Data)
  /\ kind.relay = "no" /\ Data # <<>> => Data[1] = 1
  /\ ~kind.ahead /\ req # "short" =>
       /\ Ordered(got)
       /\ kind.relay = "no" /\ got # <<>> => got[1] = IF kind.pass THEN 0 ELSE 1

(* The side that makes Transport return by closing has had its last item
   delivered, though the other goroutine is cut off wherever it is. *)
LastWordsArrive ==
  ender.why = "eof" /\ kind.relay = "no" =>
    /\ (ender.dir = "up" /\ target = "open" /\ ~kind.ahead /\ req = "good" /\ (sent > 0 \/ kind.pass)) =>
         got # <<>> /\ Last(got) = sent
    /\ (ender.dir = "down" /\ client # "left" /\ tsent > 0) =>
         down # <<>> /\ Last(down) = tsent

(* Nothing but the peers ends the transfer, not even the deadline for the request,
   which only ss leaves in force. *)
CutOnlyByPeers ==
  /\ ender.why \in {"eof", "reset"} =>
       IF ender.dir = "up" THEN client # "open" ELSE target = "left"
  /\ ender.why = "write" /\ kind.relay = "no" => IF ender.dir = "up" THEN target = "left" ELSE client = "left"
  /\ ender.why = "timeout" => kind.timer = "kept"
  /\ ender.why # "closed"

(* A transfer ends because a peer goes, and what that peer sent before arrives. *)
EndsFit == CutOnlyByPeers /\ LastWordsArrive

(* Handle closes the connection once, on every path, which is what the
   connection limiter counts on; relay closes it twice when the target or its
   answer fails, but never after a transfer. *)
ClosedOnce ==
  /\ closes > 0 <=> pc = "done"
  /\ closes = 2 => kind.twice # {} /\ ender = Nobody

----------------------------------------------------------------------------
(***************************************************************************)
(* What is inductive: where Handle is tells what was dialled, answered and *)
(* started; what reached a peer, what a goroutine holds and what is next   *)
(* to be read follow each other; and why a goroutine stopped was so.       *)
(***************************************************************************)
Whys == {"", "eof", "reset", "timeout", "closed", "write"}

CopierRecord == [pc : {"off", "read", "write", "send", "end"}, item : Int, why : Whys]

CopierOK ==
  /\ copier \in [Directions -> CopierRecord]
  /\ copier["up"].item \in Padded..MaxUp
  /\ copier["down"].pc = "write" => copier["down"].item \in 1..MaxDown

StateOK ==
  /\ TypeOK /\ CopierOK
  /\ kind \in Kinds /\ decoy \in BOOLEAN /\ tclosed \in BOOLEAN
  /\ errc \in Seq(Directions)

Ending == pc \in {"rest", "done"}

Before == pc # "transport" /\ ~Ending

PhaseOK ==
  /\ pc \in {"peek", "rate", "read", "drain", "check", "page", "dial"} => target = "none"
  /\ pc = "reply" => (target = "none" <=> kind.early)
  /\ pc = "transport" => target # "none"
  /\ decoy => kind.probe = "host" \/ (kind.probe = "page" /\ (pc = "page" \/ Ending))
  /\ pc = "page" => decoy /\ kind.probe = "page"
  /\ pc = "rest" => kind.rest /\ HasBody
  /\ pc # "done" => closes = 0
  /\ ~Ending => ender = Nobody /\ ~tclosed
  /\ tclosed => target # "none"
  /\ pc = "done" => closes > 0
  /\ Ending => (tclosed <=> target # "none")
  /\ Before => errc = <<>> /\ \A d \in Directions : copier[d] = NoCopier
  /\ pc = "transport" => \A d \in Directions : copier[d].pc # "off"

(* The deadline of the request does not outlast it, but with ss. *)
TimerOK ==
  pc \notin {"peek", "rate", "read", "drain"} /\ timer # "off"
    => kind.timer = "kept" \/ (copier["up"].pc = "off" /\ Ending)

(* What was answered so far. *)
SaidOK ==
  /\ pc \in {"peek", "rate", "read", "drain", "check", "page", "reply"} => down = <<>>
  /\ pc = "dial" => down = <<>> \/ (kind.early /\ down = <<Ok>>)
  /\ pc = "dial" /\ kind.early /\ kind.ok = "now" => client = "left" \/ down # <<>>
  /\ pc = "transport" /\ kind.ok = "now" /\ ~decoy => client = "left" \/ Answered
  /\ No \in ToSet(down) => Ending /\ copier["down"].pc = "off"

Flight(d) == IF copier[d].pc = "write" THEN 1 ELSE 0

(* The first item for the target. *)
FirstUp == IF kind.pass THEN 0 ELSE 1

(* Its request was read. *)
HasRequest == pc \in {"check", "dial", "reply"} \/ copier["up"].pc # "off"

UpOK ==
  /\ next <= sent + 1
  /\ pc \in {"peek", "rate", "read", "drain"} => next = 1
  /\ ~kind.request => req = "good"
  /\ req = "part" => HasBody
  /\ HasRequest => req # "none"
  /\ ~kind.ahead /\ req # "short" =>
       /\ Before => got = <<>>
       /\ HasRequest => req = "good" /\ next >= FirstUp
       /\ HasRequest /\ Before => next = FirstUp
       /\ copier["up"].pc = "off" => got = <<>>
       /\ copier["up"].pc = "write" => copier["up"].item = next - 1 /\ next > FirstUp
       /\ \A i \in 1..Len(got) : got[i] >= FirstUp /\ got[i] + Flight("up") < next
       /\ \A i \in 1..(Len(got) - 1) : got[i] < got[i + 1]
       /\ kind.relay = "no" => \A i \in 1..Len(got) : got[i] = FirstUp + i - 1
       /\ /\ kind.relay = "no" /\ target = "open"
          /\ copier["up"].pc # "off" /\ copier["up"].why \notin {"write", "closed"}
          => next = FirstUp + Len(got) + Flight("up")

DownOK ==
  /\ tnext <= tsent + 1
  /\ Before => tnext = 1
  /\ copier["down"].pc = "off" => Data = <<>>
  /\ copier["down"].pc = "write" => copier["down"].item = tnext - 1 /\ tnext > 1
  /\ \A i \in 1..Len(Data) : Data[i] >= 1 /\ Data[i] + Flight("down") < tnext
  /\ \A i \in 1..(Len(Data) - 1) : Data[i] < Data[i + 1]
  /\ kind.relay = "no" => \A i \in 1..Len(Data) : Data[i] = i
  /\ /\ kind.relay = "no" /\ client # "left"
     /\ copier["down"].pc # "off" /\ copier["down"].why \notin {"write", "closed"}
     => tnext = 1 + Len(Data) + Flight("down")

(* Why a goroutine stopped. *)
WhyOK ==
  /\ \A d \in Directions : copier[d].pc \in {"off", "read", "write"} <=> copier[d].why = ""
  /\ \A i \in 1..Len(errc) : copier[errc[i]].pc = "end"
  /\ copier["up"].why \in {"eof", "reset"} => client # "open"
  /\ copier["up"].why = "eof" => next > sent
  /\ copier["down"].why \in {"eof", "reset"} => target = "left"
  /\ copier["down"].why = "eof" => tnext > tsent
  /\ copier["up"].why = "write" /\ kind.relay = "no" => target = "left"
  /\ copier["down"].why = "write" /\ kind.relay = "no" => client = "left"
  /\ copier["down"].why # "timeout"
  /\ copier["up"].why = "timeout" => kind.timer = "kept"
  /\ \A d \in Directions : copier[d].why = "closed" => Ending
  /\ ender # Nobody => /\ ender.dir \in Directions /\ ender.why # "closed"
                       /\ copier[ender.dir].pc = "end" /\ ender.why = copier[ender.dir].why

IInv ==
  /\ StateOK /\ PhaseOK /\ TimerOK /\ SaidOK /\ UpOK /\ DownOK /\ WhyOK
  /\ AnswersFit /\ ClosedOnce

----------------------------------------------------------------------------
Over == pc = "done" /\ \A d \in Directions : copier[d].pc \in {"off", "end"}

(* When either peer goes, Handle returns and both goroutines end, the one
   that nobody receives from as well; and when one direction ends, so does the
   other, except that an association of socks5 is left with one direction
   until its client leaves.  A request, good or bad, leads to the transfer or to
   the end, even if the client sends nothing more; but ss waits for it to leave.
   An HTTP request whose body is not all there is waited for, whatever becomes
   of the target, until the client leaves; and who is to get a page waits for
   the server that it comes from, gone or not. *)
EverythingEnds ==
  /\ (client # "open" \/ (target = "left" /\ req # "part")) ~> (Over \/ pc = "page")
  /\ ((\E d \in Directions : copier[d].pc = "end") /\ kind.relay # "beside" /\ req # "part") ~> Over
  /\ req \in {"good", "bad"} ~> (pc \in {"transport", "page", "done"} \/ kind.drains)
=============================================================================
