--------------------------- MODULE HandlersProofs ---------------------------
(***************************************************************************)
(* Proofs about Handlers, for any of the handlers and any number of items  *)
(* that the two peers send.                                                *)
(***************************************************************************)
EXTENDS Handlers, SequenceTheorems, TLAPS

(* What the proofs use of a handler. *)
KindOK(k) ==
  /\ Len(k.checks) \in Nat
  /\ "" \notin k.twice
  /\ k.early => "dial" \notin k.says /\ ~k.implicit /\ ~k.pass /\ k.probe = "no"
  /\ k.probe # "no" => k.ok # "cached"
  /\ k.probe \in {"no", "host", "page"} /\ (k.probe = "host" => k.ahead)
  /\ k.ok # "none" => ~(k.pass /\ k.ahead)
  /\ k.timer # "none" => k.request
  /\ k.pass => k.request
  /\ k.ok \in {"none", "now", "cached"}

Fields == {"name", "request", "pass", "ahead", "pads", "peeks", "probe", "drains", "rest", "timer",
           "checks", "says", "ok", "twice", "copies", "implicit", "relay", "early"}

(* Handlers that others are variants of: with a request of their own, with one
   that is passed on, and without one. *)
Simple(k) ==
  /\ DOMAIN k = Fields
  /\ Len(k.checks) \in Nat /\ k.ok \in {"none", "now", "cached"}
  /\ ~k.early /\ k.probe = "no" /\ ~k.implicit /\ "" \notin k.twice

Asked(k)  == Simple(k) /\ k.request /\ ~k.pass
Passed(k) == Simple(k) /\ k.request /\ k.ok = "none" /\ k.timer = "none"
Untold(k) == Simple(k) /\ ~k.pass /\ k.timer = "none"

LEMMA ClassesOK == \A k : Asked(k) \/ Passed(k) \/ Untold(k) => KindOK(k)
BY DEF Asked, Passed, Untold, Simple, KindOK

LEMMA PlainFields == Asked(Plain) /\ Passed(Plain)
BY DEF Asked, Passed, Simple, Plain, Fields

LEMMA HTTPKinds ==
  /\ KindOK(HTTPConnect) /\ KindOK(HTTPForward) /\ KindOK(HTTPUDP)
  /\ KindOK(HTTPProbe) /\ KindOK(HTTPPage) /\ KindOK(HTTPConnectProbe) /\ KindOK(HTTPConnectPage)
  /\ KindOK(HTTP2) /\ KindOK(HTTP2Page) /\ KindOK(HTTP2Other)
<1>1. Asked(HTTPConnect) /\ HTTPConnect.timer = "none" /\ HTTPConnect.ok = "now" /\ HTTPConnect.ahead
  BY PlainFields DEF HTTPConnect, Asked, Passed, Simple, Fields
<1>2. Passed(HTTPForward) /\ HTTPForward.ahead
  BY <1>1 DEF HTTPForward, Asked, Passed, Simple, Fields
<1>3. KindOK(HTTPProbe) /\ KindOK(HTTPPage)
  BY <1>2 DEF HTTPProbe, HTTPPage, Passed, Simple, Fields, KindOK
<1>7. KindOK(HTTPConnectProbe) /\ KindOK(HTTPConnectPage)
  BY <1>1 DEF HTTPConnectProbe, HTTPConnectPage, Asked, Simple, Fields, KindOK
<1>4. /\ KindOK(HTTP2) /\ HTTP2.timer = "none" /\ ~HTTP2.pass /\ DOMAIN HTTP2 = Fields
      /\ HTTP2.ok = "now" /\ ~HTTP2.early
  BY <1>1 DEF HTTP2, Asked, Simple, Fields, KindOK
<1>5. KindOK(HTTP2Other) /\ KindOK(HTTP2Page)
  BY <1>4 DEF HTTP2Other, HTTP2Page, Fields, KindOK
<1>6. KindOK(HTTPUDP)
  BY <1>1 DEF HTTPUDP, Asked, Simple, Fields, KindOK
<1> QED
  BY <1>1, <1>2, <1>3, <1>4, <1>5, <1>6, <1>7, ClassesOK

LEMMA SocksKinds ==
  /\ KindOK(SOCKS4) /\ KindOK(SOCKS5) /\ KindOK(AutoDetect) /\ KindOK(SS)
  /\ KindOK(SOCKS5UDP) /\ KindOK(SOCKS5Tun) /\ KindOK(SSUDP)
<1>1. Asked(SOCKS4)
  BY PlainFields DEF SOCKS4, Asked, Simple, Fields
<1>2. Asked(SOCKS5)
  BY <1>1 DEF SOCKS5, Asked, Simple, Fields
<1>3. Asked(AutoDetect) /\ Asked(SOCKS5Tun)
  BY <1>2 DEF AutoDetect, SOCKS5Tun, Asked, Simple, Fields
<1>4. Asked(SS) /\ Untold(SSUDP)
  BY PlainFields DEF SS, SSUDP, Asked, Passed, Untold, Simple, Fields
<1>5. KindOK(SOCKS5UDP)
  BY <1>2 DEF SOCKS5UDP, Asked, Simple, Fields, KindOK
<1> QED
  BY <1>1, <1>2, <1>3, <1>4, <1>5, ClassesOK

LEMMA ForwardKinds ==
  /\ KindOK(SNI) /\ KindOK(SNIHTTP) /\ KindOK(Redirect) /\ KindOK(RedirectRaw)
  /\ KindOK(RedirectTLS) /\ KindOK(RedirectWeb) /\ KindOK(RedirectUDP)
  /\ KindOK(Forward) /\ KindOK(ForwardRaw) /\ KindOK(Remote) /\ KindOK(SSHDirect)
<1>1. Passed(SNI) /\ Passed(RedirectRaw)
  BY PlainFields DEF SNI, RedirectRaw, Passed, Simple, Fields
<1>2. Passed(SNIHTTP) /\ Passed(RedirectTLS) /\ Passed(ForwardRaw)
  BY <1>1 DEF SNIHTTP, RedirectTLS, ForwardRaw, Passed, Simple, Fields
<1>3. Passed(RedirectWeb)
  BY <1>2 DEF RedirectWeb, Passed, Simple, Fields
<1>4. Untold(Redirect) /\ Untold(Forward) /\ Untold(SSHDirect)
  BY PlainFields DEF Redirect, Forward, SSHDirect, Asked, Passed, Untold, Simple, Fields
<1>5. Untold(RedirectUDP) /\ Untold(Remote)
  BY <1>4 DEF RedirectUDP, Remote, Untold, Simple, Fields
<1> QED
  BY <1>1, <1>2, <1>3, <1>4, <1>5, ClassesOK

LEMMA RelayKinds ==
  KindOK(Relay) /\ KindOK(RelayNow) /\ KindOK(RelayForward) /\ KindOK(RelayBindUDP)
<1>1. Asked(Relay)
  BY PlainFields DEF Relay, Asked, Simple, Fields
<1>2. Asked(RelayNow) /\ Asked(RelayForward)
  BY <1>1 DEF RelayNow, RelayForward, Asked, Simple, Fields
<1>3. Asked(RelayBindUDP)
  BY <1>2 DEF RelayBindUDP, Asked, Simple, Fields
<1> QED
  BY <1>1, <1>2, <1>3, ClassesOK

LEMMA KindsOK == \A k \in Kinds : KindOK(k)
<1> SUFFICES ASSUME NEW k \in AllKinds PROVE KindOK(k)
  BY HandlersAssumption
<1> QED
  BY HTTPKinds, SocksKinds, ForwardKinds, RelayKinds DEF AllKinds

----------------------------------------------------------------------------
(* The goroutines' records. *)

LEMMA CopierFields ==
  ASSUME CopierOK, NEW d \in Directions
  PROVE  /\ copier[d] \in CopierRecord
         /\ copier[d].pc \in {"off", "read", "write", "send", "end"}
         /\ copier[d].item \in Int /\ copier[d].why \in Whys
BY DEF CopierOK, CopierRecord

(* One of them changes. *)
LEMMA CopierEffect ==
  ASSUME CopierOK, NEW d \in Directions, NEW r \in CopierRecord,
         copier' = [copier EXCEPT ![d] = r],
         d = "up" => r.item \in Padded..MaxUp,
         d = "down" /\ r.pc = "write" => r.item \in 1..MaxDown
  PROVE  /\ CopierOK'
         /\ copier'[d] = r
         /\ \A e \in Directions : e # d => copier'[e] = copier[e]
<1>1. /\ copier' \in [Directions -> CopierRecord]
      /\ copier'[d] = r /\ \A e \in Directions : e # d => copier'[e] = copier[e]
  BY DEF CopierOK
<1>2. CopierOK'
  BY <1>1 DEF CopierOK, Directions
<1> QED
  BY <1>1, <1>2

LEMMA StopEffect ==
  ASSUME CopierOK, NEW d \in Directions, NEW w \in Whys, Stop(d, w)
  PROVE  /\ CopierOK'
         /\ copier'[d].pc = "send" /\ copier'[d].why = w /\ copier'[d].item = copier[d].item
         /\ \A e \in Directions : e # d => copier'[e] = copier[e]
<1> DEFINE r == [copier[d] EXCEPT !.pc = "send", !.why = w]
<1>1. /\ r \in CopierRecord
      /\ r.pc = "send" /\ r.why = w /\ r.item = copier[d].item
  BY CopierFields DEF CopierRecord
<1>2. copier' = [copier EXCEPT ![d] = r]
  BY DEF Stop
<1>3. d = "up" => copier[d].item \in Padded..MaxUp
  BY DEF CopierOK
<1> HIDE DEF r
<1> QED
  BY <1>1, <1>2, <1>3, CopierEffect

LEMMA WrittenEffect ==
  ASSUME CopierOK, NEW d \in Directions, Written(d)
  PROVE  /\ CopierOK'
         /\ copier'[d].pc = "read" /\ copier'[d].why = copier[d].why /\ copier'[d].item = copier[d].item
         /\ \A e \in Directions : e # d => copier'[e] = copier[e]
<1> DEFINE r == [copier[d] EXCEPT !.pc = "read"]
<1>1. /\ r \in CopierRecord
      /\ r.pc = "read" /\ r.why = copier[d].why /\ r.item = copier[d].item
  BY CopierFields DEF CopierRecord
<1>2. copier' = [copier EXCEPT ![d] = r]
  BY DEF Written
<1>3. d = "up" => copier[d].item \in Padded..MaxUp
  BY DEF CopierOK
<1> HIDE DEF r
<1> QED
  BY <1>1, <1>2, <1>3, CopierEffect

LEMMA EndEffect ==
  ASSUME CopierOK, NEW d \in Directions, copier' = [copier EXCEPT ![d].pc = "end"]
  PROVE  /\ CopierOK'
         /\ copier'[d].pc = "end" /\ copier'[d].why = copier[d].why /\ copier'[d].item = copier[d].item
         /\ \A e \in Directions : e # d => copier'[e] = copier[e]
<1> DEFINE r == [copier[d] EXCEPT !.pc = "end"]
<1>1. /\ r \in CopierRecord
      /\ r.pc = "end" /\ r.why = copier[d].why /\ r.item = copier[d].item
  BY CopierFields DEF CopierRecord
<1>2. copier' = [copier EXCEPT ![d] = r]
  BY DEF CopierOK
<1>3. d = "up" => copier[d].item \in Padded..MaxUp
  BY DEF CopierOK
<1> HIDE DEF r
<1> QED
  BY <1>1, <1>2, <1>3, CopierEffect

LEMMA TakeEffect ==
  ASSUME CopierOK, NEW d \in Directions, NEW i \in Int, Take(d, i),
         d = "up" => i \in Padded..MaxUp, d = "down" => i \in 1..MaxDown
  PROVE  /\ CopierOK'
         /\ copier'[d].pc = "write" /\ copier'[d].why = copier[d].why /\ copier'[d].item = i
         /\ \A e \in Directions : e # d => copier'[e] = copier[e]
<1> DEFINE r == [copier[d] EXCEPT !.pc = "write", !.item = i]
<1>1. /\ r \in CopierRecord
      /\ r.pc = "write" /\ r.why = copier[d].why /\ r.item = i
  BY CopierFields DEF CopierRecord
<1>2. copier' = [copier EXCEPT ![d] = r]
  BY DEF Take
<1> HIDE DEF r
<1> QED
  BY <1>1, <1>2, CopierEffect

(* Transport starts with both about to read. *)
LEMMA StartEffect ==
  ASSUME StartTransport
  PROVE  /\ CopierOK' /\ pc' = "transport"
         /\ \A d \in Directions : copier'[d].pc = "read" /\ copier'[d].why = ""
<1> DEFINE r == [NoCopier EXCEPT !.pc = "read"]
<1>1. r.pc = "read" /\ r.item = Padded /\ r.why = ""
  BY DEF NoCopier, Padded
<1>4. NoCopier \in CopierRecord
  BY DEF NoCopier, CopierRecord, Whys
<1>5. r \in CopierRecord
  BY <1>4 DEF CopierRecord
<1>2. copier' = [d \in Directions |-> r] /\ pc' = "transport"
  BY DEF StartTransport, Go
<1> HIDE DEF r
<1>3. Padded \in Padded..MaxUp
  BY HandlersAssumption DEF Padded
<1>6. CopierOK'
  BY <1>1, <1>2, <1>3, <1>5 DEF CopierOK, Directions
<1> QED
  BY <1>1, <1>2, <1>6

----------------------------------------------------------------------------
(* Before the transfer. *)

LEMMA KindIsOK == IInv => KindOK(kind)
BY KindsOK DEF IInv, StateOK

(* An answer and nothing else. *)
LEMMA OneAnswer ==
  ASSUME NEW a \in {No, Ok}, MaxDown \in Nat
  PROVE  /\ <<a>> \in Seq(No..MaxDown) /\ Len(<<a>>) = 1 /\ DOMAIN <<a>> = {1} /\ <<a>>[1] = a
         /\ a <= 0 /\ <<a>> # <<>> /\ ToSet(<<a>>) = {a} /\ AfterAnswer(<<a>>) = <<>>
<1>1. a \in No..MaxDown /\ a <= 0
  BY DEF No, Ok
<1>2. <<a>> \in Seq(No..MaxDown) /\ Len(<<a>>) = 1 /\ <<a>>[1] = a /\ <<a>> # <<>>
  BY <1>1
<1>3. DOMAIN <<a>> = {1}
  OBVIOUS
<1>4. ToSet(<<a>>) = {a}
  BY <1>2, <1>3 DEF ToSet
<1>5. Tail(<<a>>) = <<>>
  OBVIOUS
<1> QED
  BY <1>1, <1>2, <1>3, <1>4, <1>5 DEF AfterAnswer

(***************************************************************************)
(* Handle returns before the transfer, or reads the rest of a body first:  *)
(* it says nothing, or no, or the HTTP/2 server says yes for it, or a page *)
(* does.                                                                   *)
(***************************************************************************)
Closing ==
  \/ pc' = "done" /\ closes' \in {1, 2} /\ (closes' = 2 => kind.twice # {})
  \/ pc' = "rest" /\ closes' = 0 /\ kind.rest /\ HasBody

Refused ==
  /\ Closing
  /\ tclosed' = (target # "none")
  /\ \/ down' = down
     \/ down = <<>> /\ down' = <<No>>
     \/ down = <<>> /\ down' = <<Ok>> /\ (kind.implicit \/ (decoy /\ kind.probe = "page"))
  /\ UNCHANGED <<kind, stage, decoy, timer, client, req, sent, next, target, tsent, tnext, got, copyVars>>

LEMMA NoCopierFields == NoCopier.pc = "off" /\ NoCopier.why = ""
BY DEF NoCopier

LEMMA ReturnCloses ==
  ASSUME IInv, pc # "done", NEW failure, Return(failure)
  PROVE  Closing /\ tclosed' = (target # "none")
<1>1. closes = 0 /\ (BodyAwaited => HasBody)
  BY DEF IInv, PhaseOK, UpOK, BodyAwaited
<1> QED
  BY <1>1 DEF Return, CloseBoth, Go, Closing

LEMMA ReturnRefuses ==
  ASSUME IInv, pc # "done", NEW failure, ReturnSilently(failure),
         UNCHANGED <<kind, stage, decoy, timer, client, req, sent, next, target, tsent, tnext, got,
                     copyVars>>
  PROVE  Refused
<1>1. Closing /\ tclosed' = (target # "none")
  BY ReturnCloses DEF ReturnSilently
<1>2. down' = down \/ (down = <<>> /\ down' = <<Ok>> /\ kind.implicit)
  BY DEF ReturnSilently, ToClient
<1> QED
  BY <1>1, <1>2 DEF Refused

LEMMA FailRefuses ==
  ASSUME IInv, pc # "done", NEW failure, Fail(failure),
         failure \in kind.says => down = <<>>
  PROVE  Refused
<1>2. CASE failure \in kind.says
  <2>1. down' = down \/ (down = <<>> /\ down' = <<No>>)
    BY <1>2 DEF Fail, ToClient
  <2>2. Closing /\ tclosed' = (target # "none")
    BY <1>2, ReturnCloses DEF Fail
  <2> QED
    BY <1>2, <2>1, <2>2 DEF Fail, Refused
<1>3. CASE failure \notin kind.says
  BY <1>3, ReturnRefuses DEF Fail
<1> QED
  BY <1>2, <1>3

LEMMA RefusedOK ==
  ASSUME IInv, Before, Refused
  PROVE  IInv'
<1>1. /\ copier' = copier /\ errc' = errc /\ ender' = ender
      /\ \A d \in Directions : copier[d] = NoCopier
      /\ errc = <<>> /\ ender = Nobody
  BY DEF IInv, PhaseOK, Before, Refused, copyVars
<1>2. copier["up"].pc = "off" /\ copier["down"].pc = "off"
  BY <1>1, NoCopierFields DEF Directions
<1>3. down' \in Seq(No..MaxDown) /\ Data' = <<>>
  <2>1. Data = <<>> /\ down \in Seq(No..MaxDown)
    BY <1>2 DEF IInv, DownOK, StateOK, TypeOK
  <2> QED
    BY <2>1, OneAnswer, HandlersAssumption DEF Data, Refused
<1>4. StateOK'
  <2>1. TypeOK'
    BY <1>1, <1>3 DEF IInv, StateOK, TypeOK, Refused, Closing
  <2>2. CopierOK'
    BY <1>1 DEF IInv, StateOK, CopierOK
  <2>3. tclosed' \in BOOLEAN
    BY DEF Refused
  <2> QED
    BY <1>1, <2>1, <2>2, <2>3 DEF IInv, StateOK, Refused
<1>5. PhaseOK'
  <2>1. /\ pc' \in {"rest", "done"} /\ (pc' = "done" <=> closes' > 0) /\ (pc' # "done" => closes' = 0)
        /\ (pc' = "rest" => kind.rest /\ HasBody)
        /\ target' = target /\ kind' = kind /\ decoy' = decoy
    BY DEF Refused, Closing
  <2>2. tclosed' <=> target' # "none"
    BY DEF Refused
  <2> QED
    BY <2>1, <2>2 DEF IInv, PhaseOK, Before, Ending, HasBody
<1>12. pc' \in {"rest", "done"} /\ Ending' /\ ~Before' /\ ~HasRequest'
  BY <1>1, <1>2 DEF Refused, Closing, Ending, Before, HasRequest
<1>6. TimerOK' /\ SaidOK'
  BY <1>1, <1>2, <1>12 DEF TimerOK, SaidOK
<1>7. UpOK'
  BY <1>1, <1>2, <1>12 DEF IInv, UpOK, FirstUp, Flight, HasBody, Refused
<1>8. DownOK'
  BY <1>1, <1>2, <1>3, <1>12 DEF IInv, DownOK, Flight, Refused
<1>9. WhyOK'
  BY <1>1, <1>2, <1>12 DEF IInv, WhyOK, Refused
<1>10. AnswersFit'
  <2>1. TypeOK'
    BY <1>4 DEF StateOK
  <2>2. CASE down' = down
    BY <2>1, <2>2 DEF IInv, AnswersFit, Answered, Refused
  <2>3. CASE down' = <<No>>
    BY <2>1, <2>3, OneAnswer, HandlersAssumption DEF AnswersFit, Answered, Refused, No, Ok
  <2>4. CASE down' = <<Ok>> /\ (kind.implicit \/ (decoy /\ kind.probe = "page"))
    BY <2>1, <2>4, OneAnswer, HandlersAssumption DEF AnswersFit, Answered, Refused, No, Ok
  <2> QED
    BY <2>2, <2>3, <2>4 DEF Refused
<1>11. ClosedOnce'
  BY <1>1 DEF ClosedOnce, Refused, Closing
<1> QED
  BY <1>4, <1>5, <1>6, <1>7, <1>8, <1>9, <1>10, <1>11 DEF IInv

----------------------------------------------------------------------------
(* What a step leaves alone. *)

LEMMA UpFrame ==
  ASSUME UpOK, kind' = kind, next' = next, got' = got, copier'["up"] = copier["up"],
         HasRequest' => HasRequest, Before' => Before, next <= sent' + 1,
         pc' \in {"peek", "rate", "read", "drain"} => next = 1,
         \/ req' = req
         \/ req = "none" /\ ~HasRequest /\ kind.request /\ (req' = "part" => HasBody)
         \/ req = "part" /\ req' = "good",
         target' = "open" => target = "open"
  PROVE  UpOK'
<1>1. /\ FirstUp' = FirstUp /\ Flight("up")' = Flight("up") /\ (HasBody' <=> HasBody)
      /\ (req = "part" => HasBody) /\ (HasBody => kind.ahead)
  BY DEF FirstUp, Flight, HasBody, UpOK
<1>2. req = "short" => req' = "short"
  OBVIOUS
<1>3. (~kind.ahead /\ req # "short" =>
         /\ Before => got = <<>>
         /\ HasRequest => req = "good" /\ next >= FirstUp
         /\ HasRequest /\ Before => next = FirstUp
         /\ copier["up"].pc = "off" => got = <<>>
         /\ copier["up"].pc = "write" => copier["up"].item = next - 1 /\ next > FirstUp
         /\ \A i \in 1..Len(got) : got[i] >= FirstUp /\ got[i] + Flight("up") < next
         /\ \A i \in 1..(Len(got) - 1) : got[i] < got[i + 1]
         /\ kind.relay = "no" => \A i \in 1..Len(got) : got[i] = FirstUp + i - 1)'
  BY <1>1, <1>2 DEF UpOK
<1>4. (~kind.ahead /\ req # "short" =>
         /\ /\ kind.relay = "no" /\ target = "open"
            /\ copier["up"].pc # "off" /\ copier["up"].why \notin {"write", "closed"}
            => next = FirstUp + Len(got) + Flight("up"))'
  BY <1>1, <1>2 DEF UpOK
<1>5. ((~kind.request => req = "good") /\ (req = "part" => HasBody) /\ (HasRequest => req # "none"))'
  BY <1>1 DEF UpOK
<1> QED
  BY <1>3, <1>4, <1>5 DEF UpOK

LEMMA DownFrame ==
  ASSUME DownOK, kind' = kind, down' = down, tnext' = tnext, copier'["down"] = copier["down"],
         tnext <= tsent' + 1, Before' => Before, client' # "left" => client # "left"
  PROVE  DownOK'
<1>1. Data' = Data /\ Flight("down")' = Flight("down")
  BY DEF Data, Flight
<1> QED
  BY <1>1 DEF DownOK

LEMMA WhyFrame ==
  ASSUME WhyOK, kind' = kind, copier' = copier, errc' = errc, ender' = ender, next' = next,
         tnext' = tnext, Ending => Ending',
         client # "open" => client' # "open" /\ sent' = sent, client = "left" => client' = "left",
         target = "left" => target' = "left" /\ tsent' = tsent
  PROVE  WhyOK'
<1>1. (/\ \A d \in Directions : copier[d].pc \in {"off", "read", "write"} <=> copier[d].why = ""
       /\ \A i \in 1..Len(errc) : copier[errc[i]].pc = "end"
       /\ \A d \in Directions : copier[d].why = "closed" => Ending
       /\ ender # Nobody => /\ ender.dir \in Directions /\ ender.why # "closed"
                            /\ copier[ender.dir].pc = "end"
                            /\ ender.why = copier[ender.dir].why)'
  BY DEF WhyOK
<1>2. (/\ copier["up"].why \in {"eof", "reset"} => client # "open"
       /\ copier["up"].why = "eof" => next > sent
       /\ copier["up"].why = "write" /\ kind.relay = "no" => target = "left"
       /\ copier["up"].why = "timeout" => kind.timer = "kept")'
  BY DEF WhyOK
<1>3. (/\ copier["down"].why \in {"eof", "reset"} => target = "left"
       /\ copier["down"].why = "eof" => tnext > tsent
       /\ copier["down"].why = "write" /\ kind.relay = "no" => client = "left"
       /\ copier["down"].why # "timeout")'
  BY DEF WhyOK
<1> QED
  BY <1>1, <1>2, <1>3 DEF WhyOK

----------------------------------------------------------------------------
(* What the peers do is seen later. *)

PeerMoves ==
  ClientRequest \/ ClientBody \/ ClientSends \/ ClientEnds \/ TargetSends \/ TargetLeaves \/ TimerExpires

LEMMA PeersOK ==
  ASSUME IInv, PeerMoves
  PROVE  IInv'
<1>1. UNCHANGED <<kind, pc, stage, decoy, next, down, closes, tnext, got, tclosed,
                  copier, errc, ender>>
  BY DEF PeerMoves, ClientRequest, ClientBody, ClientSends, ClientEnds, TargetSends, TargetLeaves, TimerExpires,
     handleVars, clientVars, targetVars, copyVars
<1>2. StateOK'
  <2>1. TypeOK'
    BY <1>1, HandlersAssumption DEF IInv, StateOK, TypeOK, PeerMoves, ClientRequest, ClientBody, ClientSends,
       ClientEnds, TargetSends, TargetLeaves, TimerExpires, handleVars, clientVars, targetVars
  <2>2. CopierOK'
    BY <1>1 DEF IInv, StateOK, CopierOK
  <2> QED
    BY <1>1, <2>1, <2>2 DEF IInv, StateOK
<1>3. target' = target \/ (target = "open" /\ target' = "left")
  BY DEF PeerMoves, ClientRequest, ClientBody, ClientSends, ClientEnds, TargetSends, TargetLeaves, TimerExpires,
     clientVars, targetVars
<1>4. client = "left" => client' = "left"
  BY DEF PeerMoves, ClientRequest, ClientBody, ClientSends, ClientEnds, TargetSends, TargetLeaves, TimerExpires,
     clientVars, targetVars
<1>5. client # "open" => client' # "open" /\ sent' = sent
  BY DEF PeerMoves, ClientRequest, ClientBody, ClientSends, ClientEnds, TargetSends, TargetLeaves, TimerExpires,
     clientVars, targetVars
<1>6. target = "left" => tsent' = tsent
  BY DEF PeerMoves, ClientRequest, ClientBody, ClientSends, ClientEnds, TargetSends, TargetLeaves, TimerExpires,
     clientVars, targetVars
<1>7. sent' >= sent /\ tsent' >= tsent
  BY HandlersAssumption DEF IInv, StateOK, TypeOK, PeerMoves, ClientRequest, ClientBody, ClientSends, ClientEnds,
     TargetSends, TargetLeaves, TimerExpires, clientVars, targetVars
<1>8. \/ req' = req
      \/ req = "none" /\ (req' = "part" => HasBody)
      \/ req = "part" /\ req' = "good"
  BY DEF PeerMoves, ClientRequest, ClientBody, ClientSends, ClientEnds, TargetSends, TargetLeaves, TimerExpires,
     clientVars, targetVars
<1>9. timer' = timer \/ (timer = "set" /\ timer' = "expired")
  BY DEF PeerMoves, ClientRequest, ClientBody, ClientSends, ClientEnds, TargetSends, TargetLeaves, TimerExpires,
     handleVars
<1>10. PhaseOK'
  BY <1>1, <1>3 DEF IInv, PhaseOK, Before, Ending, HasBody
<1>11. TimerOK'
  BY <1>1, <1>9 DEF IInv, TimerOK, Ending
<1>12. SaidOK'
  BY <1>1, <1>4 DEF IInv, SaidOK, Answered, Ending
<1>13. UpOK'
  <2>1. (HasRequest' => HasRequest) /\ (Before' => Before)
    BY <1>1 DEF HasRequest, Before, Ending
  <2>2. next <= sent' + 1
    <3>1. next \in Int /\ sent \in Int /\ sent' \in Int
      BY <1>2, HandlersAssumption DEF IInv, StateOK, TypeOK
    <3>2. next <= sent + 1
      BY DEF IInv, UpOK
    <3>3. \A a, b, c \in Int : a <= b + 1 /\ c >= b => a <= c + 1
      OBVIOUS
    <3>4. sent' >= sent
      BY <1>7
    <3> QED
      BY <3>1, <3>2, <3>3, <3>4
  <2>3. req = "none" => kind.request
    BY DEF IInv, UpOK
  <2>4. req = "none" => ~HasRequest
    BY DEF IInv, UpOK
  <2> QED
    BY <1>1, <1>3, <1>8, <2>1, <2>2, <2>3, <2>4, UpFrame DEF IInv, UpOK
<1>14. DownOK'
  <2>1. tnext <= tsent' + 1
    <3>1. tnext \in Int /\ tsent \in Int /\ tsent' \in Int
      BY <1>2, HandlersAssumption DEF IInv, StateOK, TypeOK
    <3>2. tnext <= tsent + 1
      BY DEF IInv, DownOK
    <3>3. \A a, b, c \in Int : a <= b + 1 /\ c >= b => a <= c + 1
      OBVIOUS
    <3>4. tsent' >= tsent
      BY <1>7
    <3> QED
      BY <3>1, <3>2, <3>3, <3>4
  <2> QED
    BY <1>1, <1>4, <2>1, DownFrame DEF IInv, Before, Ending
<1>15. WhyOK'
  BY <1>1, <1>3, <1>4, <1>5, <1>6, <1>8, WhyFrame DEF IInv, Ending
<1>16. AnswersFit' /\ ClosedOnce'
  BY <1>1, <1>2, <1>3 DEF IInv, StateOK, AnswersFit, Answered, ClosedOnce
<1> QED
  BY <1>2, <1>10, <1>11, <1>12, <1>13, <1>14, <1>15, <1>16 DEF IInv

----------------------------------------------------------------------------
(* Handle, up to the transfer. *)

(* A step from one of the phases without a target to another. *)
Early == {"peek", "rate", "read", "drain", "check"}

LEMMA MoveOK ==
  ASSUME IInv, pc \in Early, pc' \in Early,
         pc = "check" => pc' = "check", pc' = "check" => pc = "check" \/ ~kind.request,
         stage' \in 0..Len(kind.checks), timer' \in {"off", "set", "expired"},
         pc' = "check" => timer' = "off" \/ (pc = "check" /\ timer' = timer),
         UNCHANGED <<kind, decoy, client, req, sent, next, down, closes,
                    target, tsent, tnext, got, tclosed, copier, errc, ender>>
  PROVE  IInv'
<1>1. StateOK'
  <2>1. TypeOK'
    BY DEF IInv, StateOK, TypeOK, Early
  <2> QED
    BY <2>1 DEF IInv, StateOK, CopierOK
<1>2. copier["up"].pc = "off"
  BY NoCopierFields DEF IInv, PhaseOK, Before, Ending, Early, Directions
<1>3. PhaseOK'
  BY DEF IInv, PhaseOK, Before, Ending, HasBody, Early
<1>4. TimerOK'
  BY DEF IInv, TimerOK, Ending, Early
<1>5. SaidOK'
  BY DEF IInv, SaidOK, Ending, Early
<1>6. UpOK'
  <2>1. CASE pc = "check" \/ pc' # "check"
    <3>1. (HasRequest' => HasRequest) /\ (Before' => Before)
      BY <1>2, <2>1 DEF HasRequest, Before, Ending, Early
    <3> QED
      BY <2>1, <3>1, UpFrame DEF IInv, UpOK, Early
  <2>2. CASE pc # "check" /\ pc' = "check"
    <3>1. req = "good" /\ next = 1 /\ FirstUp = 1 /\ FirstUp' = 1
      BY <2>2, KindIsOK DEF IInv, UpOK, Early, FirstUp, KindOK
    <3>2. ~kind.ahead => got = <<>>
      BY <3>1 DEF IInv, UpOK, Early, Before, Ending
    <3> QED
      BY <1>2, <2>2, <3>1, <3>2 DEF IInv, UpOK, HasRequest
  <2> QED
    BY <2>1, <2>2
<1>7. DownOK'
  BY DownFrame DEF IInv, DownOK, Before, Ending, Early
<1>8. WhyOK'
  BY WhyFrame DEF IInv, Ending, Early
<1>9. AnswersFit' /\ ClosedOnce'
  BY <1>1 DEF IInv, StateOK, AnswersFit, Answered, ClosedOnce, Early
<1> QED
  BY <1>1, <1>3, <1>4, <1>5, <1>6, <1>7, <1>8, <1>9 DEF IInv

LEMMA PeekOK ==
  ASSUME IInv, Peek
  PROVE  IInv'
<1>1. CASE req = "none" /\ ReturnSilently("peek")
  <2>1. Refused
    BY <1>1, ReturnRefuses DEF Peek
  <2> QED
    BY <2>1, RefusedOK DEF Peek, Before, Ending
<1>2. CASE req # "none" /\ Go("rate") /\ UNCHANGED <<down, closes, tclosed>>
  <2>1. pc = "peek" /\ pc' = "rate"
    BY <1>2 DEF Peek, Go
  <2>2. UNCHANGED <<kind, stage, decoy, timer, client, req, sent, next, down, closes,
                    target, tsent, tnext, got, tclosed, copier, errc, ender>>
    BY <1>2 DEF Peek, copyVars
  <2> QED
    BY <2>1, <2>2, MoveOK DEF IInv, StateOK, TypeOK, Early
<1> QED
  BY <1>1, <1>2 DEF Peek

LEMMA RateLimitOK ==
  ASSUME IInv, RateLimit
  PROVE  IInv'
<1>1. CASE Fail("rate")
  <2>1. down = <<>> /\ pc = "rate"
    BY DEF IInv, SaidOK, RateLimit
  <2>2. Refused
    BY <1>1, <2>1, FailRefuses
  <2> QED
    BY <2>1, <2>2, RefusedOK DEF Before, Ending
<1>2. CASE ~Fail("rate")
  <2>1. /\ pc = "rate" /\ pc' = (IF kind.request THEN "read" ELSE "check")
        /\ timer' = (IF kind.timer = "none" THEN "off" ELSE "set")
        /\ UNCHANGED <<kind, decoy, client, req, sent, next, down, closes, stage,
                       target, tsent, tnext, got, tclosed, copier, errc, ender>>
    BY <1>2 DEF RateLimit, Go, clientVars, targetVars, copyVars
  <2>2. ~kind.request => kind.timer = "none"
    BY KindIsOK DEF KindOK
  <2> QED
    BY <2>1, <2>2, MoveOK DEF IInv, StateOK, TypeOK, Early
<1> QED
  BY <1>1, <1>2

(* What was read with the request is gone, what is passed on is put back. *)
LEMMA ReadRequestOK ==
  ASSUME IInv, ReadRequest
  PROVE  IInv'
<1>1. /\ pc = "read" /\ pc' = "check" /\ timer' = Reset(timer)
      /\ req \in {"good", "part", "short"}
      /\ UNCHANGED <<kind, decoy, client, req, sent, down, closes, stage,
                     target, tsent, tnext, got, tclosed, copier, errc, ender>>
  BY DEF ReadRequest, Go, targetVars, copyVars
<1>2. PICK k \in ReadAhead : next' = First(k)
  BY DEF ReadRequest
<1>3. k \in 0..sent /\ sent \in 0..MaxUp /\ (~kind.ahead => k = 0)
  BY <1>2, HandlersAssumption DEF ReadAhead, IInv, StateOK, TypeOK
<1>4. /\ next' \in 0..(MaxUp + 1) /\ next' <= sent + 1
      /\ ~kind.ahead => next' = FirstUp
  BY <1>2, <1>3, HandlersAssumption DEF First, FirstUp
<1>5. timer' \in {"off", "set", "expired"} /\ (timer' # "off" => kind.timer = "kept")
  BY <1>1 DEF Reset, IInv, StateOK, TypeOK
<1>6. copier["up"].pc = "off" /\ copier["down"].pc = "off"
  BY <1>1, NoCopierFields DEF IInv, PhaseOK, Before, Ending, Directions
<1>7. StateOK'
  <2>1. TypeOK'
    BY <1>1, <1>4, <1>5 DEF IInv, StateOK, TypeOK
  <2> QED
    BY <1>1, <2>1 DEF IInv, StateOK, CopierOK
<1>8. PhaseOK' /\ TimerOK' /\ SaidOK'
  BY <1>1, <1>5 DEF IInv, PhaseOK, Before, Ending, HasBody, TimerOK, SaidOK
<1>9. UpOK'
  <2>1. FirstUp' = FirstUp
    BY <1>1 DEF FirstUp
  <2>2. ~kind.ahead /\ req # "short" => got = <<>>
    BY <1>1 DEF IInv, UpOK, Before, Ending
  <2>3. (~kind.request => req = "good") /\ (req = "part" => HasBody) /\ (HasBody => kind.ahead)
    BY DEF IInv, UpOK, HasBody
  <2> QED
    BY <1>1, <1>4, <1>6, <2>1, <2>2, <2>3 DEF UpOK, FirstUp, HasBody
<1>10. DownOK'
  BY <1>1, DownFrame DEF IInv, DownOK, Before, Ending
<1>11. WhyOK'
  <2>1. copier["up"].why # "eof"
    BY <1>6 DEF IInv, WhyOK, Directions
  <2> QED
    BY <1>1, <2>1 DEF IInv, WhyOK, Ending
<1>12. AnswersFit' /\ ClosedOnce'
  BY <1>1, <1>7 DEF IInv, StateOK, AnswersFit, Answered, ClosedOnce
<1> QED
  BY <1>7, <1>8, <1>9, <1>10, <1>11, <1>12 DEF IInv

LEMMA BadRequestOK ==
  ASSUME IInv, BadRequest \/ Drained
  PROVE  IInv'
<1>1. CASE NoRequest /\ Drain
  <2>1. pc = "read" /\ pc' = "drain"
    BY <1>1 DEF NoRequest, Drain, Go
  <2>2. UNCHANGED <<kind, decoy, client, req, sent, next, down, closes, stage, timer,
                    target, tsent, tnext, got, tclosed, copier, errc, ender>>
    BY <1>1 DEF NoRequest, Drain, copyVars
  <2> QED
    BY <2>1, <2>2, MoveOK DEF IInv, StateOK, TypeOK, Early
<1>2. CASE ~(NoRequest /\ Drain)
  <2>1. pc \in {"read", "drain"} /\ ReturnSilently("read")
    BY <1>2 DEF BadRequest, Drained, NoRequest
  <2>2. UNCHANGED <<kind, stage, decoy, timer, client, req, sent, next, target, tsent, tnext, got,
                    copyVars>>
    BY <1>2 DEF BadRequest, Drained, NoRequest
  <2>3. Refused
    BY <2>1, <2>2, ReturnRefuses
  <2> QED
    BY <2>1, <2>3, RefusedOK DEF Before, Ending
<1> QED
  BY <1>1, <1>2

(* The checks are over. *)
LEMMA ToDialOK ==
  ASSUME IInv, pc = "check", pc' \in {"dial", "page", "reply"}, pc' = "reply" <=> kind.early,
         decoy' \in BOOLEAN, pc' = "page" => decoy',
         decoy' => kind.probe = IF pc' = "page" THEN "page" ELSE "host",
         UNCHANGED <<kind, stage, timer, client, req, sent, next, down, closes,
                     target, tsent, tnext, got, tclosed, copier, errc, ender>>
  PROVE  IInv'
<1>1. StateOK'
  <2>1. TypeOK'
    BY DEF IInv, StateOK, TypeOK
  <2> QED
    BY <2>1 DEF IInv, StateOK, CopierOK
<1>2. PhaseOK'
  BY DEF IInv, PhaseOK, Before, Ending
<1>3. TimerOK' /\ SaidOK'
  BY DEF IInv, TimerOK, SaidOK, Ending
<1>4. UpOK'
  <2>1. HasRequest /\ Before
    BY DEF HasRequest, Before, Ending
  <2> QED
    BY <2>1, UpFrame DEF IInv, UpOK, Before, Ending, HasRequest
<1>5. DownOK'
  BY DownFrame DEF IInv, DownOK, Before, Ending
<1>6. WhyOK'
  BY WhyFrame DEF IInv, Ending
<1>7. AnswersFit' /\ ClosedOnce'
  <2>1. down = <<>>
    BY DEF IInv, SaidOK
  <2>2. ~(No \in ToSet(down)) /\ ~(Ok \in ToSet(down))
    BY <2>1 DEF ToSet
  <2> QED
    BY <1>1, <2>1, <2>2 DEF IInv, StateOK, AnswersFit, ClosedOnce
<1> QED
  BY <1>1, <1>2, <1>3, <1>4, <1>5, <1>6, <1>7 DEF IInv

LEMMA CheckOK ==
  ASSUME IInv, Check
  PROVE  IInv'
<1>1. pc = "check" /\ stage < Len(kind.checks) /\ down = <<>> /\ target = "none"
  BY DEF IInv, SaidOK, PhaseOK, Check
<1> DEFINE c == kind.checks[stage + 1]
<1>2. CASE /\ stage' = stage + 1
           /\ UNCHANGED <<kind, pc, decoy, timer, clientVars, targetVars, copyVars>>
  <2>1. Len(kind.checks) \in Nat /\ stage' \in 0..Len(kind.checks)
    <3>1. Len(kind.checks) \in Nat /\ stage \in 0..Len(kind.checks)
      BY KindIsOK DEF IInv, StateOK, TypeOK, KindOK
    <3>2. stage + 1 \in 0..Len(kind.checks)
      BY <1>1, <3>1
    <3> QED
      BY <1>2, <3>1, <3>2
  <2>2. UNCHANGED <<kind, pc, decoy, timer, client, req, sent, next, down, closes,
                    target, tsent, tnext, got, tclosed, copier, errc, ender>>
    BY <1>2 DEF clientVars, targetVars, copyVars
  <2> QED
    BY <1>1, <2>1, <2>2, MoveOK DEF IInv, StateOK, TypeOK, Early
<1>3. CASE Fail(c)
  <2>1. Refused
    BY <1>1, <1>3, FailRefuses
  <2> QED
    BY <1>1, <2>1, RefusedOK DEF Before, Ending
<1>4. CASE /\ kind.probe # "no"
           /\ Go(IF kind.probe = "host" THEN "dial" ELSE "page") /\ decoy' = TRUE
           /\ UNCHANGED <<kind, stage, timer, clientVars, targetVars, copyVars>>
  <2>1. /\ pc' = (IF kind.probe = "host" THEN "dial" ELSE "page") /\ decoy' = TRUE
        /\ UNCHANGED <<kind, stage, timer, client, req, sent, next, down, closes,
                       target, tsent, tnext, got, tclosed, copier, errc, ender>>
    BY <1>4 DEF Go, clientVars, targetVars, copyVars
  <2>2. kind.probe \in {"host", "page"} /\ ~kind.early
    BY <1>4, KindIsOK DEF KindOK
  <2> QED
    BY <1>1, <2>1, <2>2, ToDialOK
<1> QED
  BY <1>2, <1>3, <1>4 DEF Check

LEMMA PageComesOK ==
  ASSUME IInv, PageComes
  PROVE  IInv'
<1>1. pc = "page" /\ down = <<>> /\ decoy /\ kind.probe = "page"
  BY DEF IInv, SaidOK, PhaseOK, PageComes
<1>2. Closing /\ tclosed' = (target # "none")
  BY <1>1, ReturnCloses DEF PageComes
<1>3. down' = down \/ down' = <<No>> \/ down' = <<Ok>>
  BY <1>1 DEF PageComes, ToClient
<1>4. Refused
  BY <1>1, <1>2, <1>3 DEF PageComes, Refused
<1> QED
  BY <1>1, <1>4, RefusedOK DEF Before, Ending

LEMMA CheckedOK ==
  ASSUME IInv, Checked
  PROVE  IInv'
<1>1. /\ pc = "check" /\ pc' = (IF kind.early THEN "reply" ELSE "dial")
      /\ UNCHANGED <<kind, stage, decoy, timer, client, req, sent, next, down, closes,
                     target, tsent, tnext, got, tclosed, copier, errc, ender>>
  BY DEF Checked, Go, clientVars, targetVars, copyVars
<1>2. decoy => kind.probe = "host"
  BY <1>1 DEF IInv, PhaseOK, Ending
<1> QED
  BY <1>1, <1>2, ToDialOK DEF IInv, PhaseOK, StateOK

(* The transfer starts, with no data on the way. *)
LEMMA StartsOK ==
  ASSUME IInv, pc \in {"dial", "reply"}, StartTransport,
         target' \in {"open", "left"}, target' = "open" => target # "left",
         down' = down \/ (down = <<>> /\ pc = "reply" /\ down' = <<Ok>> /\ target # "none" /\ kind.ok = "now" /\ ~decoy),
         kind.ok = "now" /\ ~decoy => client = "left" \/ down' # <<>>,
         got' \in Seq(Padded..MaxUp), next' \in 0..(MaxUp + 1), next' <= sent + 1,
         ~kind.ahead => got' = got /\ next' = next,
         UNCHANGED <<kind, stage, decoy, timer, client, req, sent, closes,
                     tsent, tnext, tclosed, errc, ender>>
  PROVE  IInv'
<1>1. /\ pc' = "transport" /\ CopierOK'
      /\ \A d \in Directions : copier'[d].pc = "read" /\ copier'[d].why = ""
  BY StartEffect
<1>2. copier["up"].pc = "off" /\ copier["down"].pc = "off"
  BY NoCopierFields DEF IInv, PhaseOK, Before, Ending, Directions
<1>3. down \in Seq(No..MaxDown) /\ Data = <<>>
  BY <1>2 DEF IInv, StateOK, TypeOK, DownOK
<1>4. down' \in Seq(No..MaxDown) /\ Data' = <<>>
  BY <1>3, OneAnswer, HandlersAssumption DEF Data
<1>5. StateOK'
  <2>1. TypeOK'
    BY <1>1, <1>4 DEF IInv, StateOK, TypeOK
  <2> QED
    BY <1>1, <2>1 DEF IInv, StateOK
<1>6. PhaseOK'
  BY <1>1 DEF IInv, PhaseOK, Before, Ending
<1>7. down' = <<>> \/ down' = <<Ok>>
  BY DEF IInv, SaidOK
<1>8. /\ \A i \in DOMAIN down' : i = 1 /\ down'[i] = Ok
      /\ No \notin ToSet(down') /\ (down' # <<>> => 1 \in DOMAIN down')
  <2>1. CASE down' = <<>>
    BY <2>1 DEF ToSet
  <2>2. CASE down' = <<Ok>>
    <3>1. No # Ok
      BY DEF No, Ok
    <3> QED
      BY <2>2, <3>1, OneAnswer, HandlersAssumption
  <2> QED
    BY <1>7, <2>1, <2>2
<1>9. down' # <<>> => Answered'
  BY <1>8 DEF Answered, Ok
<1>10. TimerOK' /\ SaidOK'
  <2>1. TimerOK'
    BY <1>1 DEF IInv, TimerOK, Ending
  <2>2. SaidOK'
    BY <1>1, <1>8, <1>9 DEF SaidOK
  <2> QED
    BY <2>1, <2>2
<1>11. UpOK'
  <2>1. HasRequest /\ HasRequest' /\ Before /\ ~Before'
    BY <1>1 DEF HasRequest, Before, Ending, Directions
  <2>2. FirstUp' = FirstUp /\ Flight("up")' = 0 /\ FirstUp \in {0, 1}
    BY <1>1 DEF FirstUp, Flight, Directions
  <2>3. copier'["up"].pc = "read"
    BY <1>1 DEF Directions
  <2>4. /\ (~kind.request => req = "good") /\ req # "none"
        /\ (req = "part" => HasBody) /\ (HasBody' <=> HasBody)
    BY <2>1 DEF IInv, UpOK, HasBody
  <2>5. ~kind.ahead /\ req # "short" => got' = <<>> /\ req = "good" /\ next = FirstUp
    BY <2>1 DEF IInv, UpOK
  <2>6. FirstUp = FirstUp + Len(<<>>) + 0 /\ \A i \in 1..Len(<<>>) : FALSE
    BY <2>2
  <2>7. \A i \in 1..(Len(<<>>) - 1) : FALSE
    OBVIOUS
  <2>8. CASE ~kind.ahead /\ req # "short"
    <3>1. got' = <<>> /\ req' = "good" /\ next' = FirstUp'
      BY <2>2, <2>5, <2>8
    <3>2. FirstUp' >= FirstUp' /\ FirstUp' = FirstUp' + Len(<<>>) + 0
      BY <2>2
    <3>3. (/\ Before => got = <<>>
           /\ HasRequest => req = "good" /\ next >= FirstUp
           /\ HasRequest /\ Before => next = FirstUp
           /\ copier["up"].pc = "off" => got = <<>>
           /\ copier["up"].pc = "write" => copier["up"].item = next - 1 /\ next > FirstUp)'
      BY <2>1, <2>3, <3>1, <3>2
    <3>4. (/\ \A i \in 1..Len(got) : got[i] >= FirstUp /\ got[i] + Flight("up") < next
           /\ \A i \in 1..(Len(got) - 1) : got[i] < got[i + 1]
           /\ kind.relay = "no" => \A i \in 1..Len(got) : got[i] = FirstUp + i - 1)'
      BY <2>6, <2>7, <3>1
    <3>5. next' = FirstUp' + Len(got') + Flight("up")'
      BY <2>2, <3>1, <3>2
    <3>6. (/\ next <= sent + 1
           /\ pc \in {"peek", "rate", "read", "drain"} => next = 1
           /\ ~kind.request => req = "good"
           /\ req = "part" => HasBody
           /\ HasRequest => req # "none")'
      BY <1>1, <2>4
    <3> QED
      BY <3>3, <3>4, <3>5, <3>6 DEF UpOK
  <2>9. CASE ~(~kind.ahead /\ req # "short")
    BY <1>1, <2>1, <2>4, <2>9 DEF UpOK
  <2> QED
    BY <2>8, <2>9
<1>12. DownOK'
  <2>1. tnext = 1 /\ tnext <= tsent + 1
    BY DEF IInv, DownOK, Before, Ending
  <2>2. ~Before' /\ copier'["down"].pc = "read" /\ Flight("down")' = 0
    BY <1>1 DEF Before, Ending, Flight, Directions
  <2>3. 1 = 1 + Len(<<>>) + 0 /\ \A i \in 1..Len(<<>>) : FALSE
    OBVIOUS
  <2>4. \A i \in 1..(Len(<<>>) - 1) : FALSE
    OBVIOUS
  <2> QED
    BY <1>4, <2>1, <2>2, <2>3, <2>4 DEF DownOK
<1>13. WhyOK'
  <2>1. errc = <<>> /\ ender = Nobody
    BY DEF IInv, PhaseOK, Before, Ending
  <2>2. errc' = <<>> /\ ender' = Nobody /\ \A i \in 1..Len(<<>>) : FALSE
    BY <2>1
  <2>3. /\ copier'["up"].pc = "read" /\ copier'["up"].why = ""
        /\ copier'["down"].pc = "read" /\ copier'["down"].why = ""
    BY <1>1 DEF Directions
  <2> QED
    BY <1>1, <2>2, <2>3 DEF WhyOK
<1>14. AnswersFit'
  <2>1. TypeOK'
    BY <1>5 DEF StateOK
  <2>2. Ok \in ToSet(down') /\ ~kind.implicit /\ ~kind.early => target' # "none" /\ ~decoy
    <3>1. ASSUME down' = down PROVE down = <<>> \/ kind.early
      BY DEF IInv, SaidOK
    <3>2. Ok \in ToSet(down') => down' # <<>>
      BY DEF ToSet
    <3> QED
      BY <3>1, <3>2
  <2> QED
    BY <1>8, <1>9, <2>1, <2>2 DEF AnswersFit
<1>15. ClosedOnce'
  BY <1>1 DEF IInv, PhaseOK, ClosedOnce
<1> QED
  BY <1>5, <1>6, <1>10, <1>11, <1>12, <1>13, <1>14, <1>15 DEF IInv

(* To the dial and from it, when no transfer starts. *)
LEMMA TurnOK ==
  ASSUME IInv,
         \/ pc = "dial" /\ pc' = "reply" /\ ~kind.early /\ target' = "open" /\ down' = down
         \/ /\ pc = "reply" /\ pc' = "dial" /\ kind.early /\ target' = target
            /\ down' = down \/ down' = <<Ok>>
            /\ kind.ok = "now" /\ ~decoy => client = "left" \/ down' # <<>>,
         UNCHANGED <<kind, stage, decoy, timer, client, req, sent, next, closes,
                     tsent, tnext, got, tclosed, copier, errc, ender>>
  PROVE  IInv'
<1>1. copier["down"].pc = "off" /\ Before /\ Before' /\ HasRequest
  BY NoCopierFields DEF IInv, PhaseOK, Before, Ending, HasRequest, Directions
<1>2. down' = <<>> \/ (kind.early /\ down' = <<Ok>>)
  BY DEF IInv, SaidOK
<1>3. down' \in Seq(No..MaxDown) /\ Data' = <<>>
  <2>1. AfterAnswer(<<>>) = <<>>
    BY DEF AfterAnswer
  <2>2. <<>> \in Seq(No..MaxDown)
    OBVIOUS
  <2> QED
    BY <1>2, <2>1, <2>2, OneAnswer, HandlersAssumption DEF Data
<1>4. /\ \A i \in DOMAIN down' : i = 1 /\ down'[i] = Ok
      /\ No \notin ToSet(down') /\ (down' # <<>> => 1 \in DOMAIN down')
  <2>1. CASE down' = <<>>
    BY <2>1 DEF ToSet
  <2>2. CASE down' = <<Ok>>
    <3>1. No # Ok
      BY DEF No, Ok
    <3> QED
      BY <2>2, <3>1, OneAnswer, HandlersAssumption
  <2> QED
    BY <1>2, <2>1, <2>2
<1>5. down' # <<>> => Answered'
  BY <1>4 DEF Answered, Ok
<1>6. StateOK'
  <2>1. TypeOK'
    BY <1>3 DEF IInv, StateOK, TypeOK
  <2> QED
    BY <2>1 DEF IInv, StateOK, CopierOK
<1>7. PhaseOK'
  BY DEF IInv, PhaseOK, Before, Ending
<1>8. TimerOK'
  BY DEF IInv, TimerOK, Ending
<1>9. SaidOK'
  <2>1. kind.early => ~decoy
    BY KindIsOK DEF IInv, PhaseOK, KindOK
  <2> QED
    BY <1>2, <1>4, <2>1 DEF IInv, SaidOK
<1>10. UpOK'
  <2>1. CASE pc = "dial"
    <3>1. (target = "none" /\ got = <<>>) \/ kind.ahead \/ req = "short"
      BY <1>1, <2>1 DEF IInv, PhaseOK, UpOK
    <3>2. copier["up"].pc = "off"
      BY <1>1, NoCopierFields DEF IInv, PhaseOK, Directions
    <3>3. FirstUp' = FirstUp /\ Flight("up")' = Flight("up") /\ HasRequest' /\ (HasBody' <=> HasBody)
      BY <2>1 DEF FirstUp, Flight, HasRequest, HasBody
    <3> QED
      BY <1>1, <2>1, <3>2, <3>3 DEF IInv, UpOK
  <2>2. CASE pc = "reply"
    BY <1>1, <2>2, UpFrame DEF IInv, UpOK
  <2> QED
    BY <2>1, <2>2
<1>11. DownOK'
  <2>1. tnext = 1 /\ tnext <= tsent + 1
    BY <1>1 DEF IInv, DownOK
  <2>2. \A i \in 1..Len(<<>>) : FALSE
    OBVIOUS
  <2>3. \A i \in 1..(Len(<<>>) - 1) : FALSE
    OBVIOUS
  <2> QED
    BY <1>1, <1>3, <2>1, <2>2, <2>3 DEF DownOK
<1>12. WhyOK'
  <2>1. target # "left" /\ ~Ending
    BY DEF IInv, PhaseOK, Ending
  <2> QED
    BY <2>1, WhyFrame DEF IInv
<1>13. AnswersFit'
  <2>1. TypeOK'
    BY <1>6 DEF StateOK
  <2>2. Ok \in ToSet(down') /\ ~kind.implicit /\ ~kind.early => FALSE
    BY <1>2 DEF ToSet
  <2> QED
    BY <1>4, <1>5, <2>1, <2>2 DEF AnswersFit
<1>14. ClosedOnce'
  BY DEF IInv, ClosedOnce
<1> QED
  BY <1>6, <1>7, <1>8, <1>9, <1>10, <1>11, <1>12, <1>13, <1>14 DEF IInv

LEMMA DialOK ==
  ASSUME IInv, Dial
  PROVE  IInv'
<1>1. pc = "dial" /\ target = "none" /\ KindOK(kind)
  BY KindIsOK DEF IInv, PhaseOK, Dial
<1>2. CASE Fail("dial")
  <2>1. "dial" \in kind.says => down = <<>>
    BY <1>1 DEF IInv, SaidOK, KindOK
  <2>2. Refused
    BY <1>1, <1>2, <2>1, FailRefuses
  <2> QED
    BY <1>1, <2>2, RefusedOK DEF Before, Ending
<1>3. CASE ~Fail("dial")
  <2>1. /\ target' = "open"
        /\ IF kind.early THEN StartTransport ELSE pc' = "reply" /\ UNCHANGED copier
        /\ UNCHANGED <<kind, stage, decoy, timer, client, req, sent, next, down, closes,
                       tsent, tnext, got, tclosed, errc, ender>>
    BY <1>3 DEF Dial, Go, clientVars
  <2>2. CASE kind.early
    <3>1. kind.ok = "now" => client = "left" \/ down' # <<>>
      BY <1>1, <2>1, <2>2 DEF IInv, SaidOK
    <3>2. got' \in Seq(Padded..MaxUp) /\ next' \in 0..(MaxUp + 1) /\ next' <= sent + 1
      BY <2>1 DEF IInv, StateOK, TypeOK, UpOK
    <3> QED
      BY <1>1, <2>1, <2>2, <3>1, <3>2, StartsOK
  <2>3. CASE ~kind.early
    BY <1>1, <2>1, <2>3, TurnOK
  <2> QED
    BY <2>2, <2>3
<1> QED
  BY <1>2, <1>3

(* The request is sent on, or success is answered, or neither. *)
LEMMA GoOnOK ==
  ASSUME IInv, pc = "reply", GoOn,
         down' = down \/ (down' = <<Ok>> /\ kind.ok = "now" /\ ~decoy),
         kind.ok = "now" /\ ~decoy => client = "left" \/ down' # <<>>,
         got' \in Seq(Padded..MaxUp), next' \in 0..(MaxUp + 1), next' <= sent + 1,
         ~kind.ahead \/ kind.early => got' = got /\ next' = next,
         UNCHANGED <<kind, stage, decoy, timer, client, req, sent, target, tsent, tnext, errc, ender>>
  PROVE  IInv'
<1>1. /\ down = <<>> /\ (target = "none" <=> kind.early) /\ target \in {"none", "open", "left"}
  BY DEF IInv, PhaseOK, SaidOK, StateOK, TypeOK
<1>2. CASE kind.early
  BY <1>1, <1>2, TurnOK DEF GoOn, Go
<1>3. CASE ~kind.early
  BY <1>1, <1>3, StartsOK DEF GoOn
<1> QED
  BY <1>2, <1>3

LEMMA GiveUpOK ==
  ASSUME IInv, pc = "reply", NEW failure, GiveUp(failure), down' = down,
         UNCHANGED <<kind, stage, decoy, timer, client, req, sent, next, target, tsent, tnext, got,
                     errc, ender>>
  PROVE  IInv'
<1>1. Closing /\ tclosed' = (target # "none")
  BY ReturnCloses DEF GiveUp
<1>2. Refused
  BY <1>1 DEF GiveUp, Refused, copyVars
<1> QED
  BY <1>2, RefusedOK DEF Before, Ending

(* Who passes a request on has no success to answer, or a decoy. *)
LEMMA PassesOK ==
  ASSUME IInv, pc = "reply", PassesRequest
  PROVE  kind.ahead /\ ~kind.early /\ (kind.ok = "now" => decoy)
<1>1. KindOK(kind) /\ (decoy => kind.probe = "host")
  BY KindIsOK DEF IInv, PhaseOK, Ending
<1> QED
  BY <1>1 DEF PassesRequest, HasBody, KindOK

LEMMA ReplyOK ==
  ASSUME IInv, Reply
  PROVE  IInv'
<1>1. /\ pc = "reply" /\ down = <<>>
      /\ got \in Seq(Padded..MaxUp) /\ next \in 0..(MaxUp + 1) /\ sent \in 0..MaxUp /\ next <= sent + 1
      /\ UNCHANGED <<kind, stage, decoy, timer, client, req, sent, target, tsent, tnext, errc, ender>>
  BY DEF IInv, UpOK, SaidOK, StateOK, TypeOK, Reply
<1>4. CASE ~kind.copies
  <2>1. ReturnSilently("reply") /\ UNCHANGED <<got, next, copier>>
    BY <1>4 DEF Reply
  <2>2. Refused
    BY <1>1, <2>1, ReturnRefuses DEF copyVars
  <2> QED
    BY <1>1, <2>2, RefusedOK DEF Before, Ending
<1>5. CASE SayOk
  <2>1. /\ down' = (IF client = "left" THEN <<>> ELSE <<Ok>>) /\ got' = got /\ next' = next
        /\ kind.ok = "now" /\ ~decoy
    BY <1>1, <1>5 DEF SayOk, ToClient
  <2>2. <<Ok>> # <<>>
    OBVIOUS
  <2>3. CASE GoOn
    BY <1>1, <2>1, <2>2, <2>3, GoOnOK
  <2>4. CASE client = "left" /\ GiveUp("reply")
    BY <1>1, <2>1, <2>4, GiveUpOK
  <2> QED
    BY <1>5, <2>3, <2>4 DEF SayOk
<1>6. CASE SendRequestOn
  <2>1. /\ down' = down /\ kind.ahead /\ ~kind.early /\ (kind.ok = "now" => decoy)
    BY <1>1, <1>6, PassesOK DEF SendRequestOn
  <2>2. CASE /\ GoOn
             /\ got' = IF target = "left" THEN got ELSE Append(got, 0)
             /\ next' \in next..(sent + 1)
    <3>1. 0 \in Padded..MaxUp
      BY HandlersAssumption DEF Padded
    <3>2. \A g \in Seq(Padded..MaxUp) : Append(g, 0) \in Seq(Padded..MaxUp)
      BY <3>1
    <3>3. got' \in Seq(Padded..MaxUp)
      BY <1>1, <2>2, <3>2
    <3>4. next' \in 0..(MaxUp + 1) /\ next' <= sent + 1
      BY <1>1, <2>2, HandlersAssumption
    <3> QED
      BY <1>1, <2>1, <2>2, <3>3, <3>4, GoOnOK
  <2>3. CASE GoOn /\ UNCHANGED <<got, next>>
    BY <1>1, <2>1, <2>3, GoOnOK
  <2>4. CASE GiveUp("request") /\ UNCHANGED <<got, next>>
    BY <1>1, <2>1, <2>4, GiveUpOK
  <2> QED
    BY <1>6, <2>2, <2>3, <2>4 DEF SendRequestOn
<1>7. CASE kind.ok # "now" /\ GoOn /\ UNCHANGED <<down, got, next>>
  BY <1>1, <1>7, GoOnOK
<1> QED
  BY <1>4, <1>5, <1>6, <1>7 DEF Reply

LEMMA BodyFailsOK ==
  ASSUME IInv, BodyFails
  PROVE  IInv'
<1>1. /\ pc = "reply" /\ down' = down /\ got' = got /\ next' = next
      /\ UNCHANGED <<kind, stage, decoy, timer, client, req, sent, target, tsent, tnext, errc, ender>>
  BY DEF BodyFails
<1>2. kind.ok = "now" => decoy
  BY <1>1, PassesOK DEF BodyFails
<1>3. got' \in Seq(Padded..MaxUp) /\ next' \in 0..(MaxUp + 1) /\ next' <= sent + 1
  BY <1>1 DEF IInv, UpOK, StateOK, TypeOK
<1>4. CASE GoOn
  BY <1>1, <1>2, <1>3, <1>4, GoOnOK
<1>5. CASE GiveUp("request")
  BY <1>1, <1>5, GiveUpOK
<1> QED
  BY <1>4, <1>5 DEF BodyFails

----------------------------------------------------------------------------
(* The end of the transfer. *)

LEMMA FinishOK ==
  ASSUME IInv, pc = "transport", Closing, closes' <= 1, tclosed' = (target # "none"),
         errc' \in Seq(Directions), Len(errc') <= 2, \A i \in 1..Len(errc') : copier[errc'[i]].pc = "end",
         \/ ender' = ender
         \/ /\ ender'.dir \in Directions /\ copier[ender'.dir].pc = "end"
            /\ ender'.why = copier[ender'.dir].why,
         UNCHANGED <<kind, stage, decoy, timer, client, req, sent, next, down, target, tsent, tnext,
                     got, copier>>
  PROVE  IInv'
<1>1. /\ closes = 0 /\ ender = Nobody /\ target # "none" /\ ~Before /\ ~Before' /\ ~Ending
      /\ pc' \in {"rest", "done"} /\ Ending' /\ (pc' = "rest" => kind.rest /\ HasBody)
  BY DEF IInv, PhaseOK, Before, Closing, Ending
<1>2. closes' = IF pc' = "done" THEN 1 ELSE 0
  BY DEF Closing
<1>3. StateOK'
  <2>1. TypeOK'
    BY <1>1, <1>2 DEF IInv, StateOK, TypeOK
  <2>2. tclosed' \in BOOLEAN
    OBVIOUS
  <2> QED
    BY <2>1, <2>2 DEF IInv, StateOK, CopierOK
<1>4. PhaseOK'
  <2>1. tclosed' <=> target' # "none"
    OBVIOUS
  <2> QED
    BY <1>1, <1>2, <2>1 DEF IInv, PhaseOK, HasBody
<1>5. TimerOK' /\ SaidOK'
  BY <1>1 DEF IInv, TimerOK, SaidOK
<1>6. UpOK'
  <2>1. HasRequest' => HasRequest
    BY <1>1 DEF HasRequest
  <2> QED
    BY <1>1, <2>1, UpFrame DEF IInv, UpOK
<1>7. DownOK'
  BY <1>1, DownFrame DEF IInv, DownOK
<1>8. WhyOK'
  <2>1. (/\ \A d \in Directions : copier[d].pc \in {"off", "read", "write"} <=> copier[d].why = ""
         /\ \A i \in 1..Len(errc) : copier[errc[i]].pc = "end"
         /\ \A d \in Directions : copier[d].why = "closed" => Ending)'
    BY <1>1 DEF IInv, WhyOK
  <2>2. (ender # Nobody => /\ ender.dir \in Directions /\ ender.why # "closed"
                           /\ copier[ender.dir].pc = "end" /\ ender.why = copier[ender.dir].why)'
    BY <1>1 DEF IInv, WhyOK
  <2>3. (/\ copier["up"].why \in {"eof", "reset"} => client # "open"
         /\ copier["up"].why = "eof" => next > sent
         /\ copier["up"].why = "write" /\ kind.relay = "no" => target = "left"
         /\ copier["up"].why = "timeout" => kind.timer = "kept")'
    BY DEF IInv, WhyOK
  <2>4. (/\ copier["down"].why \in {"eof", "reset"} => target = "left"
         /\ copier["down"].why = "eof" => tnext > tsent
         /\ copier["down"].why = "write" /\ kind.relay = "no" => client = "left"
         /\ copier["down"].why # "timeout")'
    BY DEF IInv, WhyOK
  <2> QED
    BY <2>1, <2>2, <2>3, <2>4 DEF WhyOK
<1>9. AnswersFit'
  BY <1>3 DEF IInv, StateOK, AnswersFit, Answered
<1>10. ClosedOnce'
  BY <1>1, <1>2 DEF ClosedOnce
<1> QED
  BY <1>3, <1>4, <1>5, <1>6, <1>7, <1>8, <1>9, <1>10 DEF IInv

LEMMA TransportEndsOK ==
  ASSUME IInv, TransportEnds
  PROVE  IInv'
<1>1. /\ pc = "transport" /\ Closing /\ closes' <= 1 /\ tclosed' = (target # "none")
      /\ UNCHANGED <<kind, stage, decoy, timer, client, req, sent, next, down, target, tsent, tnext,
                     got, copier>>
  <2>1. "" \notin kind.twice /\ closes = 0
    BY KindIsOK DEF KindOK, IInv, PhaseOK, TransportEnds
  <2>2. Return("") /\ pc = "transport"
    BY DEF TransportEnds
  <2>3. CloseBoth(1)
    BY <2>1, <2>2 DEF Return
  <2>4. closes' = 0 \/ closes' = 0 + 1
    BY <2>1, <2>3 DEF CloseBoth, Go
  <2>5. closes' <= 1
    BY <2>4
  <2> QED
    BY <2>2, <2>5, ReturnCloses DEF TransportEnds
<1>2. /\ errc \in Seq(Directions) /\ Len(errc) <= 2 /\ errc # <<>>
      /\ \A i \in 1..Len(errc) : copier[errc[i]].pc = "end"
  BY DEF IInv, StateOK, TypeOK, WhyOK, TransportEnds
<1>3. Len(errc) \in Nat /\ Len(errc) >= 1 /\ errc[1] \in Directions /\ Head(errc) = errc[1]
  BY <1>2
<1>4. ender' = [dir |-> errc[1], why |-> copier[errc[1]].why] /\ errc' = Tail(errc)
  BY <1>3 DEF TransportEnds
<1>5. errc' \in Seq(Directions) /\ Len(errc') = Len(errc) - 1
  BY <1>2, <1>4
<1>6. \A i \in 1..Len(errc') : errc'[i] = errc[i + 1] /\ i + 1 \in 1..Len(errc)
  BY <1>2, <1>3, <1>4, <1>5
<1>7. ender'.dir = errc[1] /\ ender'.why = copier[errc[1]].why
  BY <1>4
<1>8. Len(errc') <= 2
  BY <1>2, <1>3, <1>5
<1> QED
  BY <1>1, <1>2, <1>3, <1>5, <1>6, <1>7, <1>8, FinishOK

LEMMA ControlEndsOK ==
  ASSUME IInv, ControlEnds
  PROVE  IInv'
<1>1. /\ pc = "transport" /\ Closing /\ closes' <= 1 /\ tclosed' = (target # "none")
      /\ UNCHANGED <<kind, stage, decoy, timer, client, req, sent, next, down, target, tsent, tnext,
                     got, copier, errc, ender>>
  <2>1. "" \notin kind.twice /\ closes = 0
    BY KindIsOK DEF KindOK, IInv, PhaseOK, ControlEnds
  <2>2. Return("") /\ pc = "transport"
    BY DEF ControlEnds
  <2>3. CloseBoth(1)
    BY <2>1, <2>2 DEF Return
  <2>4. closes' = 0 \/ closes' = 0 + 1
    BY <2>1, <2>3 DEF CloseBoth, Go
  <2>5. closes' <= 1
    BY <2>4
  <2> QED
    BY <2>2, <2>5, ReturnCloses DEF ControlEnds, copyVars
<1>2. /\ errc \in Seq(Directions) /\ Len(errc) <= 2
      /\ \A i \in 1..Len(errc) : copier[errc[i]].pc = "end"
  BY DEF IInv, StateOK, TypeOK, WhyOK
<1> QED
  BY <1>1, <1>2, FinishOK

(* The rest of the body has come, or the client has left. *)
LEMMA ReadRestOK ==
  ASSUME IInv, ReadRest
  PROVE  IInv'
<1>1. /\ pc = "rest" /\ pc' = "done" /\ closes = 0 /\ closes' = closes + 1
      /\ UNCHANGED <<kind, stage, decoy, timer, client, req, sent, next, down,
                     target, tsent, tnext, got, tclosed, copier, errc, ender>>
  BY DEF IInv, PhaseOK, ReadRest, Go, targetVars, copyVars
<1>2. closes' = 1
  BY <1>1
<1>3. Ending /\ Ending' /\ ~Before /\ ~Before' /\ (HasRequest' => HasRequest)
  BY <1>1 DEF Ending, Before, HasRequest
<1>4. StateOK'
  <2>1. TypeOK'
    BY <1>1, <1>2 DEF IInv, StateOK, TypeOK
  <2> QED
    BY <1>1, <2>1 DEF IInv, StateOK, CopierOK
<1>5. PhaseOK' /\ TimerOK' /\ SaidOK'
  BY <1>1, <1>2, <1>3 DEF IInv, PhaseOK, TimerOK, SaidOK
<1>6. UpOK' /\ DownOK' /\ WhyOK'
  BY <1>1, <1>3, UpFrame, DownFrame, WhyFrame DEF IInv, UpOK, DownOK
<1>7. AnswersFit' /\ ClosedOnce'
  BY <1>1, <1>2, <1>4 DEF IInv, StateOK, AnswersFit, Answered, ClosedOnce
<1> QED
  BY <1>4, <1>5, <1>6, <1>7 DEF IInv

----------------------------------------------------------------------------
(* A step of one of the goroutines. *)

Turn(d) ==
  /\ d \in Directions
  /\ copier[d].pc \in {"read", "write", "send"} /\ copier'[d].pc # "off"
  /\ \A e \in Directions : e # d => copier'[e] = copier[e]
  /\ CopierOK'
  /\ UNCHANGED <<kind, pc, stage, decoy, timer, client, req, sent, closes, target, tsent, tclosed,
                 ender>>

LEMMA TurnFrame ==
  ASSUME IInv, NEW d, Turn(d), next' \in 0..(MaxUp + 1), tnext' \in 1..(MaxDown + 1),
         got' \in Seq(Padded..MaxUp), down' \in Seq(No..MaxDown),
         errc' \in Seq(Directions), Len(errc') <= 2
  PROVE  /\ pc \in {"transport", "rest", "done"} /\ ~Before /\ ~Before'
         /\ StateOK' /\ PhaseOK' /\ TimerOK' /\ ClosedOnce'
<1>1. pc \in {"transport", "rest", "done"}
  BY NoCopierFields DEF IInv, PhaseOK, Before, Ending, Turn
<1>2. StateOK'
  <2>1. \A e \in Directions : copier'[e].pc \in {"off", "read", "write", "send", "end"}
    BY DEF Turn, CopierOK, CopierRecord
  <2>2. TypeOK'
    BY <2>1 DEF IInv, StateOK, TypeOK, Turn
  <2> QED
    BY <2>2 DEF IInv, StateOK, Turn
<1>3. PhaseOK'
  BY <1>1 DEF IInv, PhaseOK, Before, Ending, HasBody, Turn
<1>4. TimerOK'
  BY DEF IInv, TimerOK, Ending, Turn, Directions
<1>5. ClosedOnce'
  BY DEF IInv, ClosedOnce, Turn
<1> QED
  BY <1>1, <1>2, <1>3, <1>4, <1>5 DEF Before, Ending, Turn

LEMMA SaidFrame ==
  ASSUME IInv, NEW d, Turn(d), down' = down, TypeOK'
  PROVE  SaidOK' /\ AnswersFit'
<1>1. No \in ToSet(down) => d = "up"
  BY DEF IInv, SaidOK, Turn, Directions
<1>2. SaidOK'
  BY <1>1 DEF IInv, SaidOK, Answered, Ending, Turn, Directions
<1>3. AnswersFit'
  BY DEF IInv, AnswersFit, Answered, Turn
<1> QED
  BY <1>2, <1>3

(* What must be so when a goroutine stops. *)
Reason(d, w) ==
  /\ w \in Whys \ {""}
  /\ w = "closed" => Ending
  /\ w = "timeout" => d = "up" /\ kind.timer = "kept"
  /\ w \in {"eof", "reset"} => IF d = "up" THEN client # "open" ELSE target = "left"
  /\ w = "eof" => IF d = "up" THEN next > sent ELSE tnext > tsent
  /\ w = "write" /\ kind.relay = "no" => IF d = "up" THEN target = "left" ELSE client = "left"

LEMMA WhyTurn ==
  ASSUME IInv, NEW d, Turn(d), copier[d].pc \in {"read", "write"}, errc' = errc,
         \/ copier'[d].pc \in {"read", "write"} /\ copier'[d].why = copier[d].why
         \/ copier'[d].pc = "send" /\ Reason(d, copier'[d].why) /\ next' = next /\ tnext' = tnext,
         d = "up" => tnext' = tnext, d = "down" => next' = next
  PROVE  WhyOK'
<1>1. copier[d].why = ""
  BY DEF IInv, WhyOK, Turn
<1>2. \A i \in 1..Len(errc) : errc[i] # d /\ errc[i] \in Directions
  <2>1. errc \in Seq(Directions) /\ \A i \in 1..Len(errc) : copier[errc[i]].pc = "end"
    BY DEF IInv, WhyOK, StateOK
  <2>2. \A i \in 1..Len(errc) : errc[i] \in Directions
    BY <2>1
  <2> QED
    BY <2>1, <2>2
<1>3. ender # Nobody => ender.dir # d
  BY DEF IInv, WhyOK
<1>4. (/\ \A e \in Directions : copier[e].pc \in {"off", "read", "write"} <=> copier[e].why = ""
       /\ \A e \in Directions : copier[e].why = "closed" => Ending)'
  BY <1>1 DEF IInv, WhyOK, Turn, Reason, Ending
<1>5. (\A i \in 1..Len(errc) : copier[errc[i]].pc = "end")'
  BY <1>2 DEF IInv, WhyOK, Turn
<1>6. (ender # Nobody => /\ ender.dir \in Directions /\ ender.why # "closed"
                         /\ copier[ender.dir].pc = "end" /\ ender.why = copier[ender.dir].why)'
  BY <1>3 DEF IInv, WhyOK, Turn
<1>7. (/\ copier["up"].why \in {"eof", "reset"} => client # "open"
       /\ copier["up"].why = "eof" => next > sent
       /\ copier["up"].why = "write" /\ kind.relay = "no" => target = "left"
       /\ copier["up"].why = "timeout" => kind.timer = "kept")'
  <2>1. CASE d = "up"
    BY <1>1, <2>1 DEF Turn, Reason
  <2>2. CASE d = "down"
    BY <2>2 DEF IInv, WhyOK, Turn, Directions
  <2> QED
    BY <2>1, <2>2 DEF Turn, Directions
<1>8. (/\ copier["down"].why \in {"eof", "reset"} => target = "left"
       /\ copier["down"].why = "eof" => tnext > tsent
       /\ copier["down"].why = "write" /\ kind.relay = "no" => client = "left"
       /\ copier["down"].why # "timeout")'
  <2>1. CASE d = "down"
    BY <1>1, <2>1 DEF Turn, Reason
  <2>2. CASE d = "up"
    BY <2>2 DEF IInv, WhyOK, Turn, Directions
  <2> QED
    BY <2>1, <2>2 DEF Turn, Directions
<1> QED
  BY <1>4, <1>5, <1>6, <1>7, <1>8 DEF WhyOK

(* One more item at the end of those from f on. *)
LEMMA OneMore ==
  ASSUME NEW s \in Seq(Int), NEW f \in Int, NEW n \in Int, n > f,
         \A i \in 1..Len(s) : s[i] >= f /\ s[i] + 1 < n
  PROVE  /\ Append(s, n - 1) # <<>> /\ Len(Append(s, n - 1)) = Len(s) + 1
         /\ \A i \in 1..Len(Append(s, n - 1)) :
               Append(s, n - 1)[i] >= f /\ Append(s, n - 1)[i] + 0 < n
         /\ (\A i \in 1..(Len(s) - 1) : s[i] < s[i + 1])
            => \A i \in 1..(Len(Append(s, n - 1)) - 1) : Append(s, n - 1)[i] < Append(s, n - 1)[i + 1]
         /\ (n = f + Len(s) + 1 /\ \A i \in 1..Len(s) : s[i] = f + i - 1)
            => \A i \in 1..Len(Append(s, n - 1)) : Append(s, n - 1)[i] = f + i - 1
<1> DEFINE t == Append(s, n - 1)
<1>1. /\ Len(s) \in Nat /\ Len(t) = Len(s) + 1 /\ t # <<>> /\ t[Len(s) + 1] = n - 1
      /\ \A i \in 1..Len(s) : t[i] = s[i] /\ s[i] \in Int
  <2>1. n - 1 \in Int /\ t \in Seq(Int) /\ Len(s) \in Nat
    OBVIOUS
  <2>2. Len(t) = Len(s) + 1 /\ t[Len(s) + 1] = n - 1 /\ \A i \in 1..Len(s) : t[i] = s[i]
    BY <2>1, AppendProperties
  <2>3. t # <<>>
    BY <2>1, <2>2
  <2>4. \A i \in 1..Len(s) : s[i] \in Int
    OBVIOUS
  <2> QED
    BY <2>1, <2>2, <2>3, <2>4
<1> HIDE DEF t
<1>2. \A i \in 1..Len(t) : i = Len(s) + 1 \/ i \in 1..Len(s)
  BY <1>1
<1>3. \A i \in 1..Len(t) : t[i] >= f /\ t[i] + 0 < n
  BY <1>1, <1>2
<1>4. ASSUME \A i \in 1..(Len(s) - 1) : s[i] < s[i + 1], NEW i \in 1..(Len(t) - 1)
      PROVE  t[i] < t[i + 1]
  <2>1. CASE i = Len(s)
    <3>1. i \in 1..Len(s) /\ t[i] = s[i] /\ t[i + 1] = n - 1
      BY <1>1, <2>1
    <3> QED
      BY <3>1, <1>1
  <2>2. CASE i # Len(s)
    <3>1. i \in 1..(Len(s) - 1) /\ i \in 1..Len(s) /\ i + 1 \in 1..Len(s)
      BY <1>1, <2>2
    <3> QED
      BY <1>1, <1>4, <3>1
  <2> QED
    BY <2>1, <2>2
<1>5. ASSUME n = f + Len(s) + 1, \A i \in 1..Len(s) : s[i] = f + i - 1, NEW i \in 1..Len(t)
      PROVE  t[i] = f + i - 1
  <2>1. CASE i = Len(s) + 1
    <3>1. \A a, b \in Int : (a + b + 1) - 1 = a + (b + 1) - 1
      OBVIOUS
    <3> QED
      BY <1>1, <1>5, <2>1, <3>1
  <2>2. CASE i \in 1..Len(s)
    BY <1>1, <1>5, <2>2
  <2> QED
    BY <1>2, <2>1, <2>2
<1> QED
  BY <1>1, <1>3, <1>4, <1>5 DEF t

LEMMA OneLess == \A a, b \in Int : a + 1 < b => a + 0 < b
OBVIOUS

LEMMA HistoriesAreInts ==
  ASSUME IInv
  PROVE  /\ next \in Int /\ tnext \in Int /\ sent \in Int /\ tsent \in Int /\ FirstUp \in {0, 1}
         /\ got \in Seq(Int) /\ down \in Seq(Int) /\ Data \in Seq(Int)
<1>1. /\ next \in Int /\ tnext \in Int /\ sent \in Int /\ tsent \in Int
      /\ got \in Seq(Padded..MaxUp) /\ down \in Seq(No..MaxDown)
  BY HandlersAssumption DEF IInv, StateOK, TypeOK
<1>2. Padded..MaxUp \subseteq Int /\ No..MaxDown \subseteq Int
  BY HandlersAssumption DEF Padded, No
<1>3. got \in Seq(Int) /\ down \in Seq(Int)
  BY <1>1, <1>2, SeqMonotonic
<1>4. down # <<>> => Tail(down) \in Seq(Int)
  BY <1>3, HeadTailProperties
<1> QED
  BY <1>1, <1>3, <1>4 DEF Data, AfterAnswer, FirstUp

(* Nothing is read, and nothing reaches a peer. *)
LEMMA UpStays ==
  ASSUME IInv, Turn("up"), ~Before, ~Before', next' = next, got' = got, copier'["up"].pc # "write",
         \/ copier["up"].pc # "write" /\ copier["up"].why \in {"", copier'["up"].why}
         \/ kind.relay # "no" \/ target # "open" \/ copier'["up"].why \in {"write", "closed"}
  PROVE  UpOK'
<1>1. /\ FirstUp' = FirstUp /\ Flight("up")' = 0 /\ Flight("up") \in {0, 1}
      /\ (copier["up"].pc # "write" => Flight("up") = 0)
      /\ HasRequest /\ HasRequest' /\ copier["up"].pc # "off" /\ copier'["up"].pc # "off"
  BY DEF FirstUp, Flight, HasRequest, Turn
<1>2. next \in Int /\ \A i \in 1..Len(got) : got[i] \in Int
  BY HistoriesAreInts, ElementOfSeq
<1>3. \A a, b \in Int : a + 1 < b => a + 0 < b
  BY OneLess
<1>4. (/\ next <= sent + 1
       /\ pc \in {"peek", "rate", "read", "drain"} => next = 1
       /\ ~kind.request => req = "good"
       /\ req = "part" => HasBody
       /\ HasRequest => req # "none")'
  BY <1>1 DEF IInv, UpOK, HasBody, Turn
<1>5. CASE ~kind.ahead /\ req # "short"
  <2>1. (/\ HasRequest => req = "good" /\ next >= FirstUp
         /\ \A i \in 1..(Len(got) - 1) : got[i] < got[i + 1]
         /\ kind.relay = "no" => \A i \in 1..Len(got) : got[i] = FirstUp + i - 1)'
    BY <1>1, <1>5 DEF IInv, UpOK, Turn
  <2>2. \A i \in 1..Len(got) : got[i] >= FirstUp /\ got[i] + Flight("up") < next
    BY <1>5 DEF IInv, UpOK
  <2>3. \A i \in 1..Len(got) : got[i] >= FirstUp /\ got[i] + 0 < next
    <3>1. CASE Flight("up") = 0
      BY <2>2, <3>1
    <3>2. CASE Flight("up") = 1
      BY <1>2, <1>3, <2>2, <3>2
    <3> QED
      BY <1>1, <3>1, <3>2
  <2>4. (\A i \in 1..Len(got) : got[i] >= FirstUp /\ got[i] + Flight("up") < next)'
    BY <1>1, <2>3
  <2>5. ASSUME kind.relay = "no", target = "open", copier'["up"].why \notin {"write", "closed"}
        PROVE  next = FirstUp + Len(got) + 0
    <3>1. Flight("up") = 0 /\ copier["up"].why \notin {"write", "closed"}
      BY <1>1, <2>5
    <3> QED
      BY <1>1, <1>5, <2>5, <3>1 DEF IInv, UpOK
  <2>6. (/\ kind.relay = "no" /\ target = "open"
         /\ copier["up"].pc # "off" /\ copier["up"].why \notin {"write", "closed"}
         => next = FirstUp + Len(got) + Flight("up"))'
    BY <1>1, <2>5 DEF Turn
  <2> QED
    BY <1>1, <1>4, <2>1, <2>4, <2>6 DEF UpOK
<1>6. CASE ~(~kind.ahead /\ req # "short")
  BY <1>4, <1>6 DEF UpOK, Turn
<1> QED
  BY <1>5, <1>6

LEMMA DownStays ==
  ASSUME IInv, Turn("down"), ~Before, ~Before', tnext' = tnext, down' = down, copier'["down"].pc # "write",
         \/ copier["down"].pc # "write" /\ copier["down"].why \in {"", copier'["down"].why}
         \/ kind.relay # "no" \/ client = "left" \/ copier'["down"].why \in {"write", "closed"}
  PROVE  DownOK'
<1>1. /\ Data' = Data /\ Flight("down")' = 0 /\ Flight("down") \in {0, 1}
      /\ (copier["down"].pc # "write" => Flight("down") = 0)
      /\ copier["down"].pc # "off" /\ copier'["down"].pc # "off"
  BY DEF Data, Flight, Turn
<1>2. tnext \in Int /\ \A i \in 1..Len(Data) : Data[i] \in Int
  BY HistoriesAreInts, ElementOfSeq
<1>3. \A a, b \in Int : a + 1 < b => a + 0 < b
  BY OneLess
<1>4. \A i \in 1..Len(Data) : Data[i] >= 1 /\ Data[i] + 0 < tnext
  <2>1. \A i \in 1..Len(Data) : Data[i] >= 1 /\ Data[i] + Flight("down") < tnext
    BY DEF IInv, DownOK
  <2>2. CASE Flight("down") = 0
    BY <2>1, <2>2
  <2>3. CASE Flight("down") = 1
    BY <1>2, <1>3, <2>1, <2>3
  <2> QED
    BY <1>1, <2>2, <2>3
<1>5. (/\ tnext <= tsent + 1
       /\ \A i \in 1..Len(Data) : Data[i] >= 1 /\ Data[i] + Flight("down") < tnext
       /\ \A i \in 1..(Len(Data) - 1) : Data[i] < Data[i + 1]
       /\ kind.relay = "no" => \A i \in 1..Len(Data) : Data[i] = i)'
  BY <1>1, <1>4 DEF IInv, DownOK, Turn
<1>6. ASSUME kind.relay = "no", client # "left", copier'["down"].why \notin {"write", "closed"}
      PROVE  tnext = 1 + Len(Data) + 0
  <2>1. Flight("down") = 0 /\ copier["down"].why \notin {"write", "closed"}
    BY <1>1, <1>6
  <2> QED
    BY <1>1, <1>6, <2>1 DEF IInv, DownOK
<1>7. (/\ kind.relay = "no" /\ client # "left"
       /\ copier["down"].pc # "off" /\ copier["down"].why \notin {"write", "closed"}
       => tnext = 1 + Len(Data) + Flight("down"))'
  BY <1>1, <1>6 DEF Turn
<1> QED
  BY <1>1, <1>5, <1>7 DEF DownOK

(* A goroutine stops, or writes without anything reaching the peer. *)
LEMMA UpIdleOK ==
  ASSUME IInv, Turn("up"), copier["up"].pc \in {"read", "write"},
         \/ /\ copier'["up"].pc = "send" /\ Reason("up", copier'["up"].why)
            /\ copier["up"].pc = "write" => copier'["up"].why \in {"write", "closed"}
         \/ /\ copier["up"].pc = "write" /\ copier'["up"].pc = "read"
            /\ copier'["up"].why = copier["up"].why
            /\ kind.relay # "no" \/ target # "open",
         UNCHANGED <<next, down, tnext, got, errc>>
  PROVE  IInv'
<1>1. /\ ~Before /\ ~Before' /\ StateOK' /\ PhaseOK' /\ TimerOK' /\ ClosedOnce'
  BY TurnFrame DEF IInv, StateOK, TypeOK
<1>2. SaidOK' /\ AnswersFit'
  BY <1>1, SaidFrame DEF StateOK
<1>3. WhyOK'
  BY WhyTurn
<1>4. copier["up"].why = ""
  BY DEF IInv, WhyOK, Turn
<1>5. UpOK'
  BY <1>1, <1>4, UpStays
<1>6. DownOK'
  BY <1>1, DownFrame DEF IInv, DownOK, Turn, Directions
<1> QED
  BY <1>1, <1>2, <1>3, <1>5, <1>6 DEF IInv

LEMMA DownIdleOK ==
  ASSUME IInv, Turn("down"), copier["down"].pc \in {"read", "write"},
         \/ /\ copier'["down"].pc = "send" /\ Reason("down", copier'["down"].why)
            /\ copier["down"].pc = "write" => copier'["down"].why \in {"write", "closed"}
         \/ /\ copier["down"].pc = "write" /\ copier'["down"].pc = "read"
            /\ copier'["down"].why = copier["down"].why
            /\ kind.relay # "no" \/ client = "left",
         UNCHANGED <<next, down, tnext, got, errc>>
  PROVE  IInv'
<1>1. /\ ~Before /\ ~Before' /\ StateOK' /\ PhaseOK' /\ TimerOK' /\ ClosedOnce'
  BY TurnFrame DEF IInv, StateOK, TypeOK
<1>2. SaidOK' /\ AnswersFit'
  BY <1>1, SaidFrame DEF StateOK
<1>3. WhyOK'
  BY WhyTurn
<1>4. copier["down"].why = ""
  BY DEF IInv, WhyOK, Turn
<1>5. DownOK'
  BY <1>1, <1>4, DownStays
<1>6. UpOK'
  <2>1. copier'["up"] = copier["up"] /\ (HasRequest' => HasRequest)
    BY DEF HasRequest, Turn, Directions
  <2> QED
    BY <1>1, <2>1, UpFrame DEF IInv, UpOK, Turn
<1> QED
  BY <1>1, <1>2, <1>3, <1>5, <1>6 DEF IInv

LEMMA StopOK ==
  ASSUME IInv, NEW d \in Directions, copier[d].pc \in {"read", "write"}, NEW w, Stop(d, w), Reason(d, w),
         copier[d].pc = "write" => w \in {"write", "closed"},
         UNCHANGED <<kind, pc, stage, decoy, timer, client, req, sent, next, down, closes,
                     target, tsent, tnext, got, tclosed, errc, ender>>
  PROVE  IInv'
<1>1. /\ CopierOK' /\ copier'[d].pc = "send" /\ copier'[d].why = w
      /\ \A e \in Directions : e # d => copier'[e] = copier[e]
  BY StopEffect DEF IInv, StateOK, Reason
<1>2. Turn(d)
  BY <1>1 DEF Turn
<1> QED
  BY <1>1, <1>2, UpIdleOK, DownIdleOK DEF Directions

LEMMA SendEndOK ==
  ASSUME IInv, NEW d \in Directions, SendEnd(d)
  PROVE  IInv'
<1>1. /\ copier[d].pc = "send" /\ errc' = Append(errc, d) /\ Len(errc) < 2
      /\ copier' = [copier EXCEPT ![d].pc = "end"]
      /\ UNCHANGED <<kind, pc, stage, decoy, timer, client, req, sent, next, down, closes,
                     target, tsent, tnext, got, tclosed, ender>>
  <2>1. errc \in Seq(Directions)
    BY DEF IInv, StateOK
  <2>2. Len(errc) \in Nat
    BY <2>1
  <2> QED
    BY <2>2 DEF SendEnd, SendWhen, handleVars, clientVars, targetVars
<1>2. /\ CopierOK' /\ copier'[d].pc = "end" /\ copier'[d].why = copier[d].why
      /\ \A e \in Directions : e # d => copier'[e] = copier[e]
  BY <1>1, EndEffect DEF IInv, StateOK
<1>3. Turn(d)
  BY <1>1, <1>2 DEF Turn
<1>4. /\ errc \in Seq(Directions) /\ errc' \in Seq(Directions) /\ Len(errc') = Len(errc) + 1
      /\ \A i \in 1..Len(errc') : (i \in 1..Len(errc) /\ errc'[i] = errc[i]) \/ errc'[i] = d
  <2>1. errc \in Seq(Directions)
    BY DEF IInv, StateOK
  <2>2. /\ errc' \in Seq(Directions) /\ Len(errc') = Len(errc) + 1 /\ Len(errc) \in Nat
        /\ \A i \in 1..Len(errc) : errc'[i] = errc[i]
        /\ errc'[Len(errc) + 1] = d
    BY <1>1, <2>1, AppendProperties, LenProperties
  <2> QED
    BY <2>1, <2>2
<1>5. Len(errc') <= 2
  <2>1. Len(errc) \in Nat
    BY <1>4, LenProperties
  <2> QED
    BY <1>1, <1>4, <2>1
<1>6. /\ ~Before /\ ~Before' /\ StateOK' /\ PhaseOK' /\ TimerOK' /\ ClosedOnce'
  BY <1>1, <1>3, <1>4, <1>5, TurnFrame DEF IInv, StateOK, TypeOK
<1>7. SaidOK' /\ AnswersFit'
  BY <1>1, <1>3, <1>6, SaidFrame DEF StateOK
<1>8. WhyOK'
  <2>1. \A i \in 1..Len(errc) : copier[errc[i]].pc = "end" /\ errc[i] \in Directions
    BY <1>4, ElementOfSeq DEF IInv, WhyOK
  <2>2. (\A i \in 1..Len(errc) : copier[errc[i]].pc = "end")'
    BY <1>1, <1>2, <1>4, <2>1
  <2>3. copier[d].why # ""
    BY <1>1 DEF IInv, WhyOK
  <2>4. \A e \in Directions : copier'[e].why = copier[e].why
    BY <1>2
  <2>5. (/\ \A e \in Directions : copier[e].pc \in {"off", "read", "write"} <=> copier[e].why = ""
         /\ \A e \in Directions : copier[e].why = "closed" => Ending)'
    <3>1. /\ \A e \in Directions : copier[e].pc \in {"off", "read", "write"} <=> copier[e].why = ""
          /\ \A e \in Directions : copier[e].why = "closed" => Ending
      BY DEF IInv, WhyOK
    <3>2. \A e \in Directions : copier'[e].pc \in {"off", "read", "write"} <=> copier'[e].why = ""
      BY <1>2, <2>3, <3>1
    <3>3. \A e \in Directions : copier'[e].why = "closed" => Ending'
      BY <1>1, <2>4, <3>1 DEF Ending
    <3> QED
      BY <3>2, <3>3
  <2>6. (ender # Nobody => /\ ender.dir \in Directions /\ ender.why # "closed"
                           /\ copier[ender.dir].pc = "end" /\ ender.why = copier[ender.dir].why)'
    BY <1>1, <1>2 DEF IInv, WhyOK
  <2>7. (/\ copier["up"].why \in {"eof", "reset"} => client # "open"
         /\ copier["up"].why = "eof" => next > sent
         /\ copier["up"].why = "write" /\ kind.relay = "no" => target = "left"
         /\ copier["up"].why = "timeout" => kind.timer = "kept")'
    BY <1>1, <2>4 DEF IInv, WhyOK, Directions
  <2>8. (/\ copier["down"].why \in {"eof", "reset"} => target = "left"
         /\ copier["down"].why = "eof" => tnext > tsent
         /\ copier["down"].why = "write" /\ kind.relay = "no" => client = "left"
         /\ copier["down"].why # "timeout")'
    BY <1>1, <2>4 DEF IInv, WhyOK, Directions
  <2> QED
    BY <2>2, <2>5, <2>6, <2>7, <2>8 DEF WhyOK
<1>9. UpOK'
  <2>1. CASE d = "up"
    BY <1>1, <1>2, <1>3, <1>6, <2>1, UpStays
  <2>2. CASE d = "down"
    <3>1. copier'["up"] = copier["up"] /\ (HasRequest' => HasRequest)
      BY <1>1, <1>2, <2>2 DEF HasRequest, Directions
    <3> QED
      BY <1>1, <1>6, <3>1, UpFrame DEF IInv, UpOK
  <2> QED
    BY <2>1, <2>2 DEF Directions
<1>10. DownOK'
  <2>1. CASE d = "down"
    BY <1>1, <1>2, <1>3, <1>6, <2>1, DownStays
  <2>2. CASE d = "up"
    BY <1>1, <1>2, <1>6, <2>2, DownFrame DEF IInv, DownOK, Directions
  <2> QED
    BY <2>1, <2>2 DEF Directions
<1> QED
  BY <1>6, <1>7, <1>8, <1>9, <1>10 DEF IInv

(* An item is read. *)
LEMMA TakeUpOK ==
  ASSUME IInv, copier["up"].pc = "read", pc # "done", Pending, Take("up", UpItem), next' = next + 1,
         UNCHANGED <<kind, pc, stage, decoy, timer, client, req, sent, down, closes,
                     target, tsent, tnext, got, tclosed, errc, ender>>
  PROVE  IInv'
<1>1. /\ next \in 0..(MaxUp + 1) /\ sent \in 0..MaxUp /\ next <= sent
      /\ MaxUp \in Nat /\ next \in Int /\ sent \in Int /\ FirstUp \in {0, 1}
  BY HandlersAssumption, HistoriesAreInts DEF IInv, StateOK, TypeOK, Pending
<1>2. next' \in 0..(MaxUp + 1) /\ next' <= sent + 1 /\ next' - 1 = next
  <2>1. \A a, b, c \in Int : 0 <= a /\ a <= b /\ b <= c => a + 1 \in 0..(c + 1) /\ a + 1 <= b + 1 /\ (a + 1) - 1 = a
    OBVIOUS
  <2> QED
    BY <1>1, <2>1
<1>3. UpItem \in Padded..MaxUp /\ (req # "short" => UpItem = next)
  BY <1>1 DEF UpItem, Padded
<1>4. /\ CopierOK' /\ copier'["up"].pc = "write" /\ copier'["up"].why = copier["up"].why
      /\ copier'["up"].item = UpItem
      /\ \A e \in Directions : e # "up" => copier'[e] = copier[e]
  BY <1>3, TakeEffect DEF IInv, StateOK, Directions, Padded
<1>5. Turn("up")
  BY <1>4 DEF Turn, Directions
<1>6. ~Before /\ ~Before' /\ StateOK' /\ PhaseOK' /\ TimerOK' /\ ClosedOnce'
  BY <1>2, <1>5, TurnFrame DEF IInv, StateOK, TypeOK
<1>7. SaidOK' /\ AnswersFit'
  BY <1>5, <1>6, SaidFrame DEF StateOK
<1>8. WhyOK'
  BY <1>4, <1>5, WhyTurn
<1>9. UpOK'
  <2>1. /\ FirstUp' = FirstUp /\ Flight("up")' = 1 /\ Flight("up") = 0
        /\ HasRequest /\ HasRequest' /\ copier'["up"].pc = "write"
    BY <1>4 DEF FirstUp, Flight, HasRequest
  <2>2. (/\ next <= sent + 1
         /\ pc \in {"peek", "rate", "read", "drain"} => next = 1
         /\ ~kind.request => req = "good"
         /\ req = "part" => HasBody
         /\ HasRequest => req # "none")'
    <3>1. pc \notin {"peek", "rate", "read", "drain"}
      BY <1>6 DEF Before, Ending
    <3> QED
      BY <1>2, <2>1, <3>1 DEF IInv, UpOK, HasBody
  <2>3. CASE ~kind.ahead /\ req # "short"
    <3>1. /\ next >= FirstUp /\ req = "good"
          /\ \A i \in 1..Len(got) : got[i] >= FirstUp /\ got[i] + 0 < next
          /\ \A i \in 1..(Len(got) - 1) : got[i] < got[i + 1]
          /\ kind.relay = "no" => \A i \in 1..Len(got) : got[i] = FirstUp + i - 1
      BY <2>1, <2>3 DEF IInv, UpOK
    <3>2. next' >= FirstUp /\ next' > FirstUp
      <4>1. \A a, b \in Int : a >= b => a + 1 >= b /\ a + 1 > b
        OBVIOUS
      <4> QED
        BY <1>1, <3>1, <4>1
    <3>3. \A i \in 1..Len(got) : got[i] >= FirstUp /\ got[i] + 1 < next'
      <4>1. \A a, b \in Int : a + 0 < b => a + 1 < b + 1
        OBVIOUS
      <4>2. \A i \in 1..Len(got) : got[i] \in Int
        BY HistoriesAreInts, ElementOfSeq
      <4> QED
        BY <1>1, <3>1, <4>1, <4>2
    <3>4. ASSUME kind.relay = "no", target = "open", copier["up"].why \notin {"write", "closed"}
          PROVE  next' = FirstUp + Len(got) + 1
      <4>1. next = FirstUp + Len(got) + 0
        BY <2>1, <2>3, <3>4 DEF IInv, UpOK
      <4>2. Len(got) \in Int
        BY HistoriesAreInts, LenProperties
      <4>3. \A a, b, c \in Int : a = b + c + 0 => a + 1 = b + c + 1
        OBVIOUS
      <4> QED
        BY <1>1, <4>1, <4>2, <4>3
    <3>5. (/\ Before => got = <<>>
           /\ HasRequest => req = "good" /\ next >= FirstUp
           /\ HasRequest /\ Before => next = FirstUp
           /\ copier["up"].pc = "off" => got = <<>>
           /\ copier["up"].pc = "write" => copier["up"].item = next - 1 /\ next > FirstUp)'
      BY <1>2, <1>3, <1>4, <1>6, <2>1, <2>3, <3>1, <3>2
    <3>6. (/\ \A i \in 1..Len(got) : got[i] >= FirstUp /\ got[i] + Flight("up") < next
           /\ \A i \in 1..(Len(got) - 1) : got[i] < got[i + 1]
           /\ kind.relay = "no" => \A i \in 1..Len(got) : got[i] = FirstUp + i - 1)'
      BY <2>1, <3>1, <3>3
    <3>7. (/\ kind.relay = "no" /\ target = "open"
           /\ copier["up"].pc # "off" /\ copier["up"].why \notin {"write", "closed"}
           => next = FirstUp + Len(got) + Flight("up"))'
      BY <1>4, <2>1, <3>4
    <3> QED
      BY <2>2, <3>5, <3>6, <3>7 DEF UpOK
  <2>4. CASE ~(~kind.ahead /\ req # "short")
    BY <2>2, <2>4 DEF UpOK
  <2> QED
    BY <2>3, <2>4
<1>10. DownOK'
  BY <1>4, <1>6, DownFrame DEF IInv, DownOK, Directions
<1> QED
  BY <1>6, <1>7, <1>8, <1>9, <1>10 DEF IInv

LEMMA TakeDownOK ==
  ASSUME IInv, copier["down"].pc = "read", tnext <= tsent, Take("down", tnext),
         tnext' = tnext + 1,
         UNCHANGED <<kind, pc, stage, decoy, timer, client, req, sent, next, down, closes,
                     target, tsent, got, tclosed, errc, ender>>
  PROVE  IInv'
<1>1. /\ tnext \in 1..(MaxDown + 1) /\ tsent \in 0..MaxDown
      /\ MaxDown \in Nat /\ tnext \in Int /\ tsent \in Int
  BY HandlersAssumption DEF IInv, StateOK, TypeOK
<1>2. /\ tnext' \in 1..(MaxDown + 1) /\ tnext' <= tsent + 1 /\ tnext' - 1 = tnext
      /\ tnext' > 1 /\ tnext \in 1..MaxDown
  <2>1. \A a, b, c \in Int : 1 <= a /\ a <= b /\ b <= c
           => a + 1 \in 1..(c + 1) /\ a + 1 <= b + 1 /\ (a + 1) - 1 = a /\ a + 1 > 1 /\ a \in 1..c
    OBVIOUS
  <2> QED
    BY <1>1, <2>1
<1>4. /\ CopierOK' /\ copier'["down"].pc = "write" /\ copier'["down"].why = copier["down"].why
      /\ copier'["down"].item = tnext
      /\ \A e \in Directions : e # "down" => copier'[e] = copier[e]
  BY <1>1, <1>2, TakeEffect DEF IInv, StateOK, Directions
<1>5. Turn("down")
  BY <1>4 DEF Turn, Directions
<1>6. ~Before /\ ~Before' /\ StateOK' /\ PhaseOK' /\ TimerOK' /\ ClosedOnce'
  BY <1>2, <1>5, TurnFrame DEF IInv, StateOK, TypeOK
<1>7. SaidOK' /\ AnswersFit'
  BY <1>5, <1>6, SaidFrame DEF StateOK
<1>8. WhyOK'
  BY <1>4, <1>5, WhyTurn
<1>9. DownOK'
  <2>1. /\ Data' = Data /\ Flight("down")' = 1 /\ Flight("down") = 0
    BY <1>4 DEF Data, Flight
  <2>2. /\ \A i \in 1..Len(Data) : Data[i] >= 1 /\ Data[i] + 0 < tnext
        /\ \A i \in 1..(Len(Data) - 1) : Data[i] < Data[i + 1]
        /\ kind.relay = "no" => \A i \in 1..Len(Data) : Data[i] = i
    BY <2>1 DEF IInv, DownOK
  <2>3. \A i \in 1..Len(Data) : Data[i] >= 1 /\ Data[i] + 1 < tnext'
    <3>1. \A a, b \in Int : a + 0 < b => a + 1 < b + 1
      OBVIOUS
    <3>2. \A i \in 1..Len(Data) : Data[i] \in Int
      BY HistoriesAreInts, ElementOfSeq
    <3> QED
      BY <1>1, <2>2, <3>1, <3>2
  <2>4. ASSUME kind.relay = "no", client # "left", copier["down"].why \notin {"write", "closed"}
        PROVE  tnext' = 1 + Len(Data) + 1
    BY <2>1, <2>4 DEF IInv, DownOK
  <2>5. (/\ kind.relay = "no" /\ client # "left"
         /\ copier["down"].pc # "off" /\ copier["down"].why \notin {"write", "closed"}
         => tnext = 1 + Len(Data) + Flight("down"))'
    BY <1>4, <2>1, <2>4
  <2>6. (/\ tnext <= tsent + 1
         /\ Before => tnext = 1
         /\ copier["down"].pc = "off" => Data = <<>>
         /\ copier["down"].pc = "write" => copier["down"].item = tnext - 1 /\ tnext > 1)'
    BY <1>2, <1>4, <1>6
  <2> QED
    BY <2>1, <2>2, <2>3, <2>5, <2>6 DEF DownOK
<1>10. UpOK'
  <2>1. copier'["up"] = copier["up"] /\ (HasRequest' => HasRequest)
    BY <1>4 DEF HasRequest, Directions
  <2> QED
    BY <1>6, <2>1, UpFrame DEF IInv, UpOK
<1> QED
  BY <1>6, <1>7, <1>8, <1>9, <1>10 DEF IInv

LEMMA ReadUpOK ==
  ASSUME IInv, ReadUp
  PROVE  IInv'
<1>1. /\ copier["up"].pc = "read"
      /\ UNCHANGED <<kind, pc, stage, decoy, timer, client, req, sent, down, closes,
                     target, tsent, tnext, got, tclosed, errc, ender>>
  BY DEF ReadUp, handleVars, targetVars
<1>2. ASSUME NEW w, Stop("up", w), Reason("up", w), UNCHANGED next
      PROVE  IInv'
  BY <1>1, <1>2, StopOK DEF Directions
<1>3. CASE pc # "done" /\ Pending /\ Take("up", UpItem) /\ next' = next + 1
  BY <1>1, <1>3, TakeUpOK
<1>4. CASE ~Pending /\ client # "open" /\ Stop("up", "eof") /\ UNCHANGED next
  <2>1. next > sent
    <3>1. next <= sent => (next = 0 => req # "none")
      BY <1>1 DEF IInv, UpOK, HasRequest
    <3>2. ~(next <= sent)
      BY <1>4, <3>1 DEF Pending
    <3> QED
      BY <3>2, HistoriesAreInts
  <2> QED
    BY <1>2, <1>4, <2>1 DEF Reason, Whys
<1>5. CASE client = "left" /\ Stop("up", "reset") /\ UNCHANGED next
  BY <1>2, <1>5 DEF Reason, Whys
<1>6. CASE timer = "expired" /\ Stop("up", "timeout") /\ UNCHANGED next
  <2>1. kind.timer = "kept"
    BY <1>1, <1>6, NoCopierFields DEF IInv, TimerOK, PhaseOK, Before, Ending, Directions
  <2> QED
    BY <1>2, <1>6, <2>1 DEF Reason, Whys
<1>7. CASE pc = "done" /\ Stop("up", "closed") /\ UNCHANGED next
  BY <1>2, <1>7 DEF Reason, Whys, Ending
<1> QED
  BY <1>3, <1>4, <1>5, <1>6, <1>7 DEF ReadUp

LEMMA ReadDownOK ==
  ASSUME IInv, ReadDown
  PROVE  IInv'
<1>1. /\ copier["down"].pc = "read"
      /\ UNCHANGED <<kind, pc, stage, decoy, timer, client, req, sent, next, down, closes,
                     target, tsent, got, tclosed, errc, ender>>
  BY DEF ReadDown, handleVars, clientVars
<1>2. ASSUME NEW w, Stop("down", w), Reason("down", w), UNCHANGED tnext
      PROVE  IInv'
  BY <1>1, <1>2, StopOK DEF Directions
<1>3. CASE tnext <= tsent /\ Take("down", tnext) /\ tnext' = tnext + 1
  BY <1>1, <1>3, TakeDownOK
<1>4. CASE tnext > tsent /\ target = "left" /\ Stop("down", "eof") /\ UNCHANGED tnext
  BY <1>2, <1>4 DEF Reason, Whys
<1>5. CASE target = "left" /\ Stop("down", "reset") /\ UNCHANGED tnext
  BY <1>2, <1>5 DEF Reason, Whys
<1>6. CASE tclosed /\ Stop("down", "closed") /\ UNCHANGED tnext
  <2>1. Ending
    BY <1>6 DEF IInv, PhaseOK
  <2> QED
    BY <1>2, <1>6, <2>1 DEF Reason, Whys
<1> QED
  BY <1>3, <1>4, <1>5, <1>6 DEF ReadDown

(* An item reaches the target. *)
LEMMA DeliverUpOK ==
  ASSUME IInv, copier["up"].pc = "write", target = "open", Written("up"),
         got' = Append(got, copier["up"].item),
         UNCHANGED <<kind, pc, stage, decoy, timer, client, req, sent, next, down, closes,
                     target, tsent, tnext, tclosed, errc, ender>>
  PROVE  IInv'
<1>1. /\ CopierOK' /\ copier'["up"].pc = "read" /\ copier'["up"].why = copier["up"].why
      /\ \A e \in Directions : e # "up" => copier'[e] = copier[e]
  BY WrittenEffect DEF IInv, StateOK, Directions
<1>2. Turn("up")
  BY <1>1 DEF Turn, Directions
<1>3. got' \in Seq(Padded..MaxUp)
  BY AppendProperties DEF IInv, StateOK, TypeOK, CopierOK
<1>4. ~Before /\ ~Before' /\ StateOK' /\ PhaseOK' /\ TimerOK' /\ ClosedOnce'
  BY <1>2, <1>3, TurnFrame DEF IInv, StateOK, TypeOK
<1>5. SaidOK' /\ AnswersFit'
  BY <1>2, <1>4, SaidFrame DEF StateOK
<1>6. WhyOK'
  BY <1>1, <1>2, WhyTurn
<1>7. copier["up"].why = ""
  BY DEF IInv, WhyOK, Directions
<1>8. UpOK'
  <2>1. /\ FirstUp' = FirstUp /\ Flight("up")' = 0 /\ Flight("up") = 1
        /\ HasRequest /\ HasRequest' /\ copier'["up"].pc = "read"
    BY <1>1 DEF FirstUp, Flight, HasRequest
  <2>2. (/\ next <= sent + 1
         /\ pc \in {"peek", "rate", "read", "drain"} => next = 1
         /\ ~kind.request => req = "good"
         /\ req = "part" => HasBody
         /\ HasRequest => req # "none")'
    BY <2>1 DEF IInv, UpOK, HasBody
  <2>3. CASE ~kind.ahead /\ req # "short"
    <3>1. /\ next >= FirstUp /\ req = "good" /\ next > FirstUp
          /\ \A i \in 1..Len(got) : got[i] >= FirstUp /\ got[i] + 1 < next
          /\ \A i \in 1..(Len(got) - 1) : got[i] < got[i + 1]
          /\ kind.relay = "no" => \A i \in 1..Len(got) : got[i] = FirstUp + i - 1
          /\ got' = Append(got, next - 1)
      BY <2>1, <2>3 DEF IInv, UpOK
    <3>2. next \in Int /\ FirstUp \in Int /\ got \in Seq(Int)
      BY HistoriesAreInts
    <3>3. /\ Len(got') = Len(got) + 1
          /\ \A i \in 1..Len(got') : got'[i] >= FirstUp /\ got'[i] + 0 < next
          /\ \A i \in 1..(Len(got') - 1) : got'[i] < got'[i + 1]
          /\ (next = FirstUp + Len(got) + 1 /\ \A i \in 1..Len(got) : got[i] = FirstUp + i - 1)
             => \A i \in 1..Len(got') : got'[i] = FirstUp + i - 1
      <4>1. /\ Len(Append(got, next - 1)) = Len(got) + 1
            /\ \A i \in 1..Len(Append(got, next - 1)) :
                 Append(got, next - 1)[i] >= FirstUp /\ Append(got, next - 1)[i] + 0 < next
            /\ \A i \in 1..(Len(Append(got, next - 1)) - 1) :
                 Append(got, next - 1)[i] < Append(got, next - 1)[i + 1]
            /\ (next = FirstUp + Len(got) + 1 /\ \A i \in 1..Len(got) : got[i] = FirstUp + i - 1)
               => \A i \in 1..Len(Append(got, next - 1)) : Append(got, next - 1)[i] = FirstUp + i - 1
        BY <3>1, <3>2, OneMore
      <4> QED
        BY <3>1, <4>1
    <3>4. kind.relay = "no" => next = FirstUp + Len(got) + 1
      <4>1. kind.relay = "no" => next = FirstUp + Len(got) + Flight("up")
        BY <1>7, <2>3 DEF IInv, UpOK
      <4> QED
        BY <2>1, <4>1
    <3>5. kind.relay = "no" => next = FirstUp + Len(got') + 0
      <4>1. Len(got) \in Int
        BY <3>2, LenProperties
      <4>2. \A a, b \in Int : a + b + 1 = a + (b + 1) + 0
        OBVIOUS
      <4> QED
        BY <3>2, <3>3, <3>4, <4>1, <4>2
    <3>6. (/\ Before => got = <<>>
           /\ HasRequest => req = "good" /\ next >= FirstUp
           /\ HasRequest /\ Before => next = FirstUp
           /\ copier["up"].pc = "off" => got = <<>>
           /\ copier["up"].pc = "write" => copier["up"].item = next - 1 /\ next > FirstUp)'
      BY <1>4, <2>1, <3>1
    <3>7. (/\ \A i \in 1..Len(got) : got[i] >= FirstUp /\ got[i] + Flight("up") < next
           /\ \A i \in 1..(Len(got) - 1) : got[i] < got[i + 1]
           /\ kind.relay = "no" => \A i \in 1..Len(got) : got[i] = FirstUp + i - 1)'
      BY <2>1, <3>1, <3>3, <3>4
    <3>8. (/\ kind.relay = "no" /\ target = "open"
           /\ copier["up"].pc # "off" /\ copier["up"].why \notin {"write", "closed"}
           => next = FirstUp + Len(got) + Flight("up"))'
      BY <2>1, <3>5
    <3> QED
      BY <2>2, <3>6, <3>7, <3>8 DEF UpOK
  <2>4. CASE ~(~kind.ahead /\ req # "short")
    BY <2>2, <2>4 DEF UpOK
  <2> QED
    BY <2>3, <2>4
<1>9. DownOK'
  BY <1>1, <1>4, DownFrame DEF IInv, DownOK, Directions
<1> QED
  BY <1>4, <1>5, <1>6, <1>8, <1>9 DEF IInv

LEMMA WriteUpOK ==
  ASSUME IInv, WriteUp
  PROVE  IInv'
<1>1. /\ copier["up"].pc = "write"
      /\ UNCHANGED <<kind, pc, stage, decoy, timer, client, req, sent, next, down, closes,
                     target, tsent, tnext, tclosed, errc, ender>>
  BY DEF WriteUp, handleVars, clientVars
<1>2. ASSUME Stop("up", "write"), kind.relay = "no" => target = "left", UNCHANGED got
      PROVE  IInv'
  <2>1. Reason("up", "write")
    BY <1>2 DEF Reason, Whys
  <2> QED
    BY <1>1, <1>2, <2>1, StopOK DEF Directions
<1>3. ASSUME Written("up"), kind.relay # "no" \/ target # "open", UNCHANGED got
      PROVE  IInv'
  <2>1. /\ CopierOK' /\ copier'["up"].pc = "read" /\ copier'["up"].why = copier["up"].why
        /\ \A e \in Directions : e # "up" => copier'[e] = copier[e]
    BY <1>3, WrittenEffect DEF IInv, StateOK, Directions
  <2>2. Turn("up")
    BY <1>1, <2>1 DEF Turn, Directions
  <2> QED
    BY <1>1, <1>3, <2>1, <2>2, UpIdleOK
<1>5. ~Ending => ~tclosed
  BY DEF IInv, PhaseOK
<1>6. CASE ~tclosed /\ target = "open" /\ Written("up") /\ got' = Append(got, copier["up"].item)
  BY <1>1, <1>6, DeliverUpOK
<1>7. CASE ~tclosed /\ target = "left" /\ (Written("up") \/ Stop("up", "write")) /\ UNCHANGED got
  BY <1>2, <1>3, <1>7
<1>8. CASE tclosed /\ Stop("up", "closed") /\ UNCHANGED got
  <2>1. Reason("up", "closed")
    BY <1>5, <1>8 DEF Reason, Whys
  <2> QED
    BY <1>1, <1>8, <2>1, StopOK DEF Directions
<1>9. CASE kind.relay # "no" /\ (Written("up") \/ Stop("up", "write")) /\ UNCHANGED got
  BY <1>2, <1>3, <1>9
<1> QED
  BY <1>6, <1>7, <1>8, <1>9 DEF WriteUp

(* The answer goes before the first data or along with it. *)
LEMMA AnswerFirst ==
  ASSUME IInv, pc \in {"transport", "rest"}, copier["down"].pc = "write", client # "left",
         NEW item \in 1..MaxDown,
         down' = down \o WithAnswer(item), kind' = kind
  PROVE  /\ down' \in Seq(No..MaxDown) /\ down' # <<>> /\ Data' = Append(Data, item)
         /\ \A i \in DOMAIN down' : down'[i] <= 0 => i = 1
         /\ No \notin ToSet(down')
         /\ Ok \in ToSet(down') => Ok \in ToSet(down) \/ kind.ok = "cached"
         /\ kind.ok # "none" /\ ~decoy => Answered'
<1>1. item \in Int /\ item >= 1 /\ item \in No..MaxDown /\ Ok \in No..MaxDown
  BY HandlersAssumption DEF No, Ok
<1>2. item # No /\ item # Ok /\ Ok # No /\ Ok <= 0 /\ ~(item <= 0)
  BY <1>1 DEF No, Ok
<1>3. down \in Seq(No..MaxDown) /\ down \in Seq(Int) /\ Len(down) \in Nat /\ DOMAIN down = 1..Len(down)
  BY HistoriesAreInts, LenProperties DEF IInv, StateOK, TypeOK
<1>4. No \notin ToSet(down)
  BY DEF IInv, SaidOK
<1>5. CASE kind.ok = "cached" /\ ~Answered
  <2>1. down = <<>>
    <3>1. ~decoy
      BY <1>5, KindIsOK DEF IInv, PhaseOK, KindOK
    <3> QED
      BY <1>5, <3>1 DEF IInv, AnswersFit
  <2>2. down' = <<Ok, item>>
    <3>1. WithAnswer(item) = <<Ok, item>> /\ <<Ok, item>> \in Seq(No..MaxDown)
      BY <1>1, <1>5 DEF WithAnswer
    <3> QED
      BY <2>1, <3>1, ConcatEmptySeq
  <2>3. /\ <<Ok, item>> \in Seq(No..MaxDown) /\ <<Ok, item>> # <<>>
        /\ DOMAIN <<Ok, item>> = {1, 2} /\ <<Ok, item>>[1] = Ok /\ <<Ok, item>>[2] = item
        /\ Tail(<<Ok, item>>) = <<item>>
    BY <1>1
  <2>4. ToSet(down') = {Ok, item}
    BY <2>2, <2>3 DEF ToSet
  <2>5. Data' = Append(Data, item)
    <3>1. Data = <<>>
      BY <2>1 DEF Data, AfterAnswer
    <3>2. Data' = <<item>>
      BY <1>2, <2>2, <2>3 DEF Data, AfterAnswer
    <3>3. Append(<<>>, item) = <<item>>
      OBVIOUS
    <3> QED
      BY <3>1, <3>2, <3>3
  <2>6. Answered'
    BY <1>2, <2>2, <2>3 DEF Answered
  <2>7. \A i \in DOMAIN down' : down'[i] <= 0 => i = 1
    BY <1>2, <2>2, <2>3
  <2> QED
    BY <1>2, <1>5, <2>2, <2>3, <2>4, <2>5, <2>6, <2>7
<1>6. CASE ~(kind.ok = "cached" /\ ~Answered)
  <2>1. down' = Append(down, item)
    <3>1. WithAnswer(item) = <<item>>
      BY <1>6 DEF WithAnswer
    <3>2. down \o <<item>> = Append(down, item)
      BY <1>1, <1>3, AppendIsConcat
    <3> QED
      BY <3>1, <3>2
  <2>2. /\ down' \in Seq(No..MaxDown) /\ down' # <<>> /\ Len(down') = Len(down) + 1
        /\ \A i \in 1..Len(down) : down'[i] = down[i]
        /\ down'[Len(down) + 1] = item
    BY <1>1, <1>3, <2>1, AppendProperties
  <2>3. DOMAIN down' = 1..(Len(down) + 1)
    BY <2>2, LenProperties
  <2>4. \A i \in DOMAIN down' : (i \in DOMAIN down /\ down'[i] = down[i]) \/ (i = Len(down) + 1 /\ down'[i] = item)
    BY <1>3, <2>2, <2>3
  <2>5. \A i \in DOMAIN down : i \in DOMAIN down'
    BY <1>3, <2>3
  <2>6. ToSet(down') \subseteq ToSet(down) \union {item}
    BY <2>4 DEF ToSet
  <2>7. \A i \in DOMAIN down' : down'[i] <= 0 => i = 1
    BY <1>2, <2>4 DEF IInv, AnswersFit
  <2>8. kind.ok # "none" /\ ~decoy => Answered'
    <3>1. kind.ok # "none" /\ ~decoy => Answered
      <4>1. kind.ok \in {"none", "now", "cached"} /\ (pc = "rest" => kind.ok = "none")
        BY KindIsOK DEF KindOK, IInv, PhaseOK, HasBody
      <4> QED
        BY <1>6, <4>1 DEF IInv, SaidOK
    <3>2. ASSUME Answered PROVE Answered'
      BY <1>3, <2>2, <2>5, <3>2 DEF Answered
    <3> QED
      BY <3>1, <3>2
  <2>9. Data' = Append(Data, item)
    <3>1. CASE down = <<>>
      <4>1. Data = <<>> /\ Append(<<>>, item) = <<item>> /\ down' = <<item>>
        BY <2>1, <3>1 DEF Data, AfterAnswer
      <4>2. ~(down'[1] <= 0)
        BY <1>2, <4>1
      <4> QED
        BY <4>1, <4>2 DEF Data, AfterAnswer
    <3>2. CASE down # <<>>
      <4>1. Len(down) >= 1 /\ down'[1] = down[1]
        BY <1>3, <2>2, <3>2, EmptySeq
      <4>2. Tail(Append(down, item)) = Append(Tail(down), item)
        BY <1>1, <1>3, <3>2
      <4> QED
        BY <2>1, <2>2, <3>2, <4>1, <4>2 DEF Data, AfterAnswer
    <3> QED
      BY <3>1, <3>2
  <2> QED
    BY <1>2, <1>4, <2>2, <2>6, <2>7, <2>8, <2>9
<1> QED
  BY <1>5, <1>6

(* An item reaches the client. *)
LEMMA DeliverDownOK ==
  ASSUME IInv, copier["down"].pc = "write", pc \in {"transport", "rest"}, client # "left", Written("down"),
         down' = down \o WithAnswer(copier["down"].item),
         UNCHANGED <<kind, pc, stage, decoy, timer, client, req, sent, next, closes,
                     target, tsent, tnext, got, tclosed, errc, ender>>
  PROVE  IInv'
<1>1. /\ CopierOK' /\ copier'["down"].pc = "read" /\ copier'["down"].why = copier["down"].why
      /\ \A e \in Directions : e # "down" => copier'[e] = copier[e]
  BY WrittenEffect DEF IInv, StateOK, Directions
<1>2. Turn("down")
  BY <1>1 DEF Turn, Directions
<1> DEFINE item == copier["down"].item
<1>3. item \in 1..MaxDown /\ item = tnext - 1 /\ tnext > 1
  BY DEF IInv, StateOK, CopierOK, DownOK
<1>4. /\ down' \in Seq(No..MaxDown) /\ down' # <<>> /\ Data' = Append(Data, item)
      /\ \A i \in DOMAIN down' : down'[i] <= 0 => i = 1
      /\ No \notin ToSet(down')
      /\ Ok \in ToSet(down') => Ok \in ToSet(down) \/ kind.ok = "cached"
      /\ kind.ok # "none" /\ ~decoy => Answered'
  BY <1>3, AnswerFirst
<1>5. ~Before /\ ~Before' /\ StateOK' /\ PhaseOK' /\ TimerOK' /\ ClosedOnce'
  BY <1>2, <1>4, TurnFrame DEF IInv, StateOK, TypeOK
<1>6. SaidOK'
  BY <1>4 DEF SaidOK
<1>7. AnswersFit'
  <2>1. TypeOK'
    BY <1>5 DEF StateOK
  <2>2. Ok \in ToSet(down') /\ ~kind.implicit /\ ~kind.early =>
          IF decoy THEN kind.probe = "page" ELSE target # "none"
    <3>1. kind.ok = "cached" => ~decoy /\ pc = "transport"
      BY KindIsOK DEF IInv, PhaseOK, KindOK, HasBody
    <3>2. pc = "transport" => target # "none"
      BY DEF IInv, PhaseOK
    <3> QED
      BY <1>4, <3>1, <3>2 DEF IInv, AnswersFit
  <2> QED
    BY <1>4, <2>1, <2>2 DEF AnswersFit
<1>8. WhyOK'
  BY <1>1, <1>2, WhyTurn
<1>9. copier["down"].why = ""
  BY DEF IInv, WhyOK, Directions
<1>10. DownOK'
  <2>1. /\ Flight("down")' = 0 /\ Flight("down") = 1 /\ copier'["down"].pc = "read"
    BY <1>1 DEF Flight
  <2>2. /\ \A i \in 1..Len(Data) : Data[i] >= 1 /\ Data[i] + 1 < tnext
        /\ \A i \in 1..(Len(Data) - 1) : Data[i] < Data[i + 1]
        /\ kind.relay = "no" => \A i \in 1..Len(Data) : Data[i] = i
    BY <2>1 DEF IInv, DownOK
  <2>3. tnext \in Int /\ 1 \in Int /\ Data \in Seq(Int) /\ Len(Data) \in Int
    BY HistoriesAreInts, LenProperties
  <2>4. /\ Len(Append(Data, tnext - 1)) = Len(Data) + 1
        /\ \A i \in 1..Len(Append(Data, tnext - 1)) :
             Append(Data, tnext - 1)[i] >= 1 /\ Append(Data, tnext - 1)[i] + 0 < tnext
        /\ (\A i \in 1..(Len(Data) - 1) : Data[i] < Data[i + 1])
           => \A i \in 1..(Len(Append(Data, tnext - 1)) - 1) :
                Append(Data, tnext - 1)[i] < Append(Data, tnext - 1)[i + 1]
        /\ (tnext = 1 + Len(Data) + 1 /\ \A i \in 1..Len(Data) : Data[i] = 1 + i - 1)
           => \A i \in 1..Len(Append(Data, tnext - 1)) : Append(Data, tnext - 1)[i] = 1 + i - 1
    BY <1>3, <2>2, <2>3, OneMore
  <2>5. \A i \in Int : 1 + i - 1 = i
    OBVIOUS
  <2>6. /\ Len(Data') = Len(Data) + 1
        /\ \A i \in 1..Len(Data') : Data'[i] >= 1 /\ Data'[i] + 0 < tnext
        /\ \A i \in 1..(Len(Data') - 1) : Data'[i] < Data'[i + 1]
    BY <1>3, <1>4, <2>2, <2>4
  <2>7. kind.relay = "no" => tnext = 1 + Len(Data) + 1
    <3>1. kind.relay = "no" => tnext = 1 + Len(Data) + Flight("down")
      BY <1>9 DEF IInv, DownOK
    <3> QED
      BY <2>1, <3>1
  <2>8. kind.relay = "no" => \A i \in 1..Len(Data') : Data'[i] = i
    <3>1. ASSUME kind.relay = "no" PROVE \A i \in 1..Len(Data) : Data[i] = 1 + i - 1
      BY <2>2, <2>5, <3>1
    <3>2. ASSUME kind.relay = "no" PROVE \A i \in 1..Len(Append(Data, tnext - 1)) : Append(Data, tnext - 1)[i] = 1 + i - 1
      BY <2>4, <2>7, <3>1, <3>2
    <3>3. Data' = Append(Data, tnext - 1)
      BY <1>3, <1>4
    <3> QED
      BY <2>5, <3>2, <3>3
  <2>9. kind.relay = "no" => tnext = 1 + Len(Data') + 0
    <3>1. \A a, b \in Int : a + b + 1 = a + (b + 1) + 0
      OBVIOUS
    <3> QED
      BY <2>3, <2>6, <2>7, <3>1
  <2>10. (/\ tnext <= tsent + 1
          /\ Before => tnext = 1
          /\ copier["down"].pc = "off" => Data = <<>>
          /\ copier["down"].pc = "write" => copier["down"].item = tnext - 1 /\ tnext > 1)'
    BY <1>5, <2>1 DEF IInv, DownOK
  <2> QED
    BY <2>1, <2>6, <2>8, <2>9, <2>10 DEF DownOK
<1>11. UpOK'
  <2>1. copier'["up"] = copier["up"] /\ (HasRequest' => HasRequest)
    BY <1>1 DEF HasRequest, Directions
  <2> QED
    BY <1>5, <2>1, UpFrame DEF IInv, UpOK
<1> QED
  BY <1>5, <1>6, <1>7, <1>8, <1>10, <1>11 DEF IInv

LEMMA WriteDownOK ==
  ASSUME IInv, WriteDown
  PROVE  IInv'
<1>1. /\ copier["down"].pc = "write"
      /\ UNCHANGED <<kind, pc, stage, decoy, timer, client, req, sent, next, closes,
                     target, tsent, tnext, got, tclosed, errc, ender>>
  BY DEF WriteDown, handleVars, targetVars
<1>2. ASSUME Stop("down", "write"), kind.relay = "no" => client = "left", UNCHANGED down
      PROVE  IInv'
  <2>1. Reason("down", "write")
    BY <1>2 DEF Reason, Whys
  <2> QED
    BY <1>1, <1>2, <2>1, StopOK DEF Directions
<1>3. ASSUME Written("down"), kind.relay # "no" \/ client = "left", UNCHANGED down
      PROVE  IInv'
  <2>1. /\ CopierOK' /\ copier'["down"].pc = "read" /\ copier'["down"].why = copier["down"].why
        /\ \A e \in Directions : e # "down" => copier'[e] = copier[e]
    BY <1>3, WrittenEffect DEF IInv, StateOK, Directions
  <2>2. Turn("down")
    BY <1>1, <2>1 DEF Turn, Directions
  <2> QED
    BY <1>1, <1>3, <2>1, <2>2, DownIdleOK
<1>4. pc \in {"transport", "rest", "done"}
  BY <1>1, NoCopierFields DEF IInv, PhaseOK, Before, Ending, Directions
<1>5. CASE pc # "done" /\ ToClient(WithAnswer(copier["down"].item)) /\ Written("down")
  <2>1. CASE client = "left"
    BY <1>3, <1>5, <2>1 DEF ToClient
  <2>2. CASE client # "left"
    BY <1>1, <1>4, <1>5, <2>2, DeliverDownOK DEF ToClient
  <2> QED
    BY <2>1, <2>2
<1>6. CASE client = "left" /\ Stop("down", "write") /\ UNCHANGED down
  BY <1>2, <1>6
<1>7. CASE pc = "done" /\ Stop("down", "closed") /\ UNCHANGED down
  <2>1. Reason("down", "closed")
    BY <1>7 DEF Reason, Whys, Ending
  <2> QED
    BY <1>1, <1>7, <2>1, StopOK DEF Directions
<1>8. CASE kind.relay # "no" /\ (Written("down") \/ Stop("down", "write")) /\ UNCHANGED down
  BY <1>2, <1>3, <1>8
<1> QED
  BY <1>5, <1>6, <1>7, <1>8 DEF WriteDown

----------------------------------------------------------------------------
(* All together. *)

LEMMA InitOK == Init => IInv
<1> SUFFICES ASSUME Init PROVE IInv
  OBVIOUS
<1>1. KindOK(kind) /\ kind \in Kinds /\ MaxUp \in Nat /\ MaxDown \in Nat
  BY KindsOK, HandlersAssumption DEF Init
<1>2. NoCopier \in CopierRecord /\ NoCopier.pc = "off" /\ NoCopier.why = "" /\ NoCopier.item = Padded
  BY DEF NoCopier, CopierRecord, Whys, Padded
<1>3. \A d \in Directions : copier[d] = NoCopier
  BY DEF Init
<1>4. copier["up"] = NoCopier /\ copier["down"] = NoCopier
  BY <1>3 DEF Directions
<1>5. CopierOK
  <2>1. Padded \in Padded..MaxUp
    BY <1>1 DEF Padded
  <2> QED
    BY <1>2, <1>4, <2>1 DEF Init, CopierOK
<1>6. /\ down = <<>> /\ got = <<>> /\ errc = <<>> /\ Len(<<>>) = 0
      /\ <<>> \in Seq(No..MaxDown) /\ <<>> \in Seq(Padded..MaxUp) /\ <<>> \in Seq(Directions)
  BY DEF Init
<1>7. Data = <<>> /\ ToSet(down) = {}
  BY <1>6 DEF Data, AfterAnswer, ToSet
<1>8. TypeOK
  <2>1. pc \in {"peek", "rate"} /\ stage = 0 /\ Len(kind.checks) \in Nat
    BY <1>1 DEF Init, KindOK
  <2>2. stage \in 0..Len(kind.checks)
    BY <2>1
  <2>3. timer = "off" /\ client = "open" /\ req \in {"none", "good"} /\ target = "none"
    BY DEF Init
  <2>4. sent = 0 /\ next = 1 /\ closes = 0 /\ tsent = 0 /\ tnext = 1
    BY DEF Init
  <2>5. /\ sent \in 0..MaxUp /\ next \in 0..(MaxUp + 1) /\ closes \in 0..2
        /\ tsent \in 0..MaxDown /\ tnext \in 1..(MaxDown + 1)
    BY <1>1, <2>4
  <2>6. Len(errc) <= 2 /\ down \in Seq(No..MaxDown) /\ got \in Seq(Padded..MaxUp)
    BY <1>6
  <2>7. \A d \in Directions : copier[d].pc \in {"off", "read", "write", "send", "end"}
    BY <1>2, <1>3
  <2> QED
    BY <2>1, <2>2, <2>3, <2>5, <2>6, <2>7 DEF TypeOK
<1>9. StateOK
  BY <1>1, <1>5, <1>6, <1>8 DEF Init, StateOK
<1>10. PhaseOK /\ TimerOK /\ SaidOK /\ ClosedOnce
  BY <1>3, <1>6, <1>7 DEF Init, PhaseOK, TimerOK, SaidOK, ClosedOnce, Before, Ending
<1>11. UpOK
  <2>1. ~HasRequest
    BY <1>2, <1>4 DEF Init, HasRequest
  <2>2. next = 1 /\ sent = 0 /\ (~kind.request => req = "good") /\ req # "part"
    BY DEF Init
  <2>3. /\ \A i \in 1..Len(got) : FALSE
        /\ \A i \in 1..(Len(got) - 1) : FALSE
    <3>1. Len(got) = 0
      BY <1>6
    <3>2. 1..0 = {} /\ 1..(0 - 1) = {}
      OBVIOUS
    <3> QED
      BY <3>1, <3>2
  <2>4. next <= sent + 1 /\ copier["up"].pc = "off"
    <3>1. 1 <= 0 + 1
      OBVIOUS
    <3> QED
      BY <1>2, <1>4, <2>2, <3>1
  <2>5. /\ \A i \in 1..Len(got) : got[i] >= FirstUp /\ got[i] + Flight("up") < next
        /\ \A i \in 1..(Len(got) - 1) : got[i] < got[i + 1]
        /\ kind.relay = "no" => \A i \in 1..Len(got) : got[i] = FirstUp + i - 1
    BY <2>3
  <2> QED
    BY <1>6, <2>1, <2>2, <2>4, <2>5 DEF UpOK
<1>12. DownOK
  <2>1. tnext = 1 /\ tsent = 0
    BY DEF Init
  <2>2. /\ \A i \in 1..Len(Data) : FALSE
        /\ \A i \in 1..(Len(Data) - 1) : FALSE
    <3>1. Len(Data) = 0
      BY <1>6, <1>7
    <3>2. 1..0 = {} /\ 1..(0 - 1) = {}
      OBVIOUS
    <3> QED
      BY <3>1, <3>2
  <2>3. tnext <= tsent + 1 /\ copier["down"].pc = "off"
    <3>1. 1 <= 0 + 1
      OBVIOUS
    <3> QED
      BY <1>2, <1>4, <2>1, <3>1
  <2>4. /\ \A i \in 1..Len(Data) : Data[i] >= 1 /\ Data[i] + Flight("down") < tnext
        /\ \A i \in 1..(Len(Data) - 1) : Data[i] < Data[i + 1]
        /\ kind.relay = "no" => \A i \in 1..Len(Data) : Data[i] = i
    BY <2>2
  <2> QED
    BY <1>7, <2>1, <2>3, <2>4 DEF DownOK
<1>13. WhyOK
  <2>1. ender = Nobody /\ \A i \in 1..Len(errc) : FALSE
    BY <1>6 DEF Init
  <2> QED
    BY <1>2, <1>3, <1>4, <2>1 DEF WhyOK
<1>14. AnswersFit
  BY <1>6, <1>7, <1>8 DEF AnswersFit
<1> QED
  BY <1>9, <1>10, <1>11, <1>12, <1>13, <1>14 DEF IInv

LEMMA StutterOK ==
  ASSUME IInv, UNCHANGED vars
  PROVE  IInv'
<1>1. UNCHANGED <<kind, pc, stage, decoy, timer, client, req, sent, next, down, closes,
                  target, tsent, tnext, got, tclosed, copier, errc, ender>>
  BY DEF vars, handleVars, clientVars, targetVars, copyVars
<1>2. StateOK' /\ PhaseOK' /\ TimerOK' /\ SaidOK'
  BY <1>1 DEF IInv, StateOK, TypeOK, CopierOK, PhaseOK, Before, TimerOK, SaidOK, Answered,
     Ending, HasBody
<1>3. UpOK' /\ DownOK' /\ WhyOK'
  BY <1>1, UpFrame, DownFrame, WhyFrame DEF IInv, UpOK, DownOK, HasRequest, Before, Ending
<1>4. AnswersFit' /\ ClosedOnce'
  BY <1>1, <1>2 DEF IInv, StateOK, AnswersFit, Answered, ClosedOnce
<1> QED
  BY <1>2, <1>3, <1>4 DEF IInv

LEMMA NextOK == IInv /\ [Next]_vars => IInv'
<1> SUFFICES ASSUME IInv, [Next]_vars PROVE IInv'
  OBVIOUS
<1>1. CASE Handle
  BY <1>1, PeekOK, RateLimitOK, ReadRequestOK, BadRequestOK, CheckOK, CheckedOK, DialOK, ReplyOK,
     TransportEndsOK, ControlEndsOK, ReadRestOK DEF Handle
<1>2. CASE CopyUp
  BY <1>2, ReadUpOK, WriteUpOK, SendEndOK DEF CopyUp, Directions
<1>3. CASE CopyDown
  BY <1>3, ReadDownOK, WriteDownOK, SendEndOK DEF CopyDown, Directions
<1>4. CASE Peers
  BY <1>4, PeersOK, BodyFailsOK, PageComesOK DEF Peers, PeerMoves
<1>5. CASE UNCHANGED vars
  BY <1>5, StutterOK
<1> QED
  BY <1>1, <1>2, <1>3, <1>4, <1>5 DEF Next

LEMMA IInvIsInvariant == Spec => []IInv
<1> QED
  BY InitOK, NextOK, PTL DEF Spec

----------------------------------------------------------------------------
(* An answer comes first, once, and says yes only with a target. *)
THEOREM AnswersAlwaysFit == Spec => []AnswersFit
<1>1. IInv => AnswersFit
  BY DEF IInv
<1> QED
  BY <1>1, IInvIsInvariant, PTL

(* Handle closes the connection once, but relay after a failure. *)
THEOREM AlwaysClosedOnce == Spec => []ClosedOnce
<1>1. IInv => ClosedOnce
  BY DEF IInv
<1> QED
  BY <1>1, IInvIsInvariant, PTL

(* Items that go up one by one go up without a gap. *)
LEMMA InOrder ==
  ASSUME NEW s \in Seq(Int), NEW f \in Int,
         \A i \in 1..(Len(s) - 1) : s[i] < s[i + 1],
         kind.relay = "no" => \A i \in 1..Len(s) : s[i] = f + i - 1
  PROVE  Ordered(s) /\ (kind.relay = "no" /\ s # <<>> => s[1] = f)
<1>1. Len(s) \in Nat /\ (s # <<>> => Len(s) >= 1)
  BY LenProperties, EmptySeq
<1>2. \A i \in 1..(Len(s) - 1) : i \in 1..Len(s) /\ i + 1 \in 1..Len(s)
  BY <1>1
<1>3. \A i \in 1..Len(s) : s[i] \in Int
  BY ElementOfSeq
<1>4. \A i \in 1..(Len(s) - 1) : s[i + 1] > s[i]
  BY <1>2, <1>3
<1>5. ASSUME kind.relay = "no", NEW i \in 1..(Len(s) - 1) PROVE s[i + 1] = s[i] + 1
  <2>1. s[i] = f + i - 1 /\ s[i + 1] = f + (i + 1) - 1
    BY <1>2, <1>5
  <2>2. \A a, b \in Int : a + (b + 1) - 1 = (a + b - 1) + 1
    OBVIOUS
  <2> QED
    BY <2>1, <2>2
<1>6. kind.relay = "no" /\ s # <<>> => s[1] = f
  <2>1. f + 1 - 1 = f
    OBVIOUS
  <2> QED
    BY <1>1, <2>1
<1> QED
  BY <1>4, <1>5, <1>6 DEF Ordered

(* What one peer sends reaches the other from the first item on, in order and
   without a gap. *)
THEOREM NothingIsLostOrMade == Spec => []NothingLostOrMade
<1>1. ASSUME IInv PROVE NothingLostOrMade
  <2>1. /\ got \in Seq(Int) /\ Data \in Seq(Int) /\ FirstUp \in Int /\ 1 \in Int
    BY <1>1, HistoriesAreInts
  <2>2. Ordered(Data) /\ (kind.relay = "no" /\ Data # <<>> => Data[1] = 1)
    <3>1. \A i \in 1..(Len(Data) - 1) : Data[i] < Data[i + 1]
      BY <1>1 DEF IInv, DownOK
    <3>2. kind.relay = "no" => \A i \in 1..Len(Data) : Data[i] = i
      BY <1>1 DEF IInv, DownOK
    <3>3. \A i \in Int : 1 + i - 1 = i
      OBVIOUS
    <3>4. kind.relay = "no" => \A i \in 1..Len(Data) : Data[i] = 1 + i - 1
      BY <3>2, <3>3
    <3> QED
      BY <2>1, <3>1, <3>4, InOrder
  <2>3. ASSUME ~kind.ahead, req # "short"
        PROVE  Ordered(got) /\ (kind.relay = "no" /\ got # <<>> => got[1] = FirstUp)
    <3>1. /\ \A i \in 1..(Len(got) - 1) : got[i] < got[i + 1]
          /\ kind.relay = "no" => \A i \in 1..Len(got) : got[i] = FirstUp + i - 1
      BY <1>1, <2>3 DEF IInv, UpOK
    <3> QED
      BY <2>1, <3>1, InOrder
  <2> QED
    BY <2>2, <2>3 DEF NothingLostOrMade, FirstUp
<1> QED
  BY <1>1, IInvIsInvariant, PTL

(* A transfer ends because a peer goes, and what that peer sent before has
   arrived. *)
THEOREM EndsAlwaysFit == Spec => []EndsFit
<1>1. ASSUME IInv PROVE EndsFit
  <2>1. ender # Nobody => /\ ender.dir \in Directions /\ ender.why # "closed"
                          /\ copier[ender.dir].pc = "end" /\ ender.why = copier[ender.dir].why
    BY <1>1 DEF IInv, WhyOK
  <2>2. Nobody.why = ""
    BY DEF Nobody
  <2>3. CASE ender = Nobody
    BY <2>2, <2>3 DEF EndsFit, CutOnlyByPeers, LastWordsArrive
  <2>4. CASE ender # Nobody /\ ender.dir = "up"
    <3>1. /\ ender.why = copier["up"].why /\ copier["up"].pc = "end" /\ ender.why # "closed"
          /\ ender.dir # "down"
      BY <2>1, <2>4
    <3>2. CutOnlyByPeers
      BY <1>1, <2>4, <3>1 DEF IInv, WhyOK, CutOnlyByPeers
    <3>3. ASSUME ender.why = "eof", kind.relay = "no", target = "open", ~kind.ahead, req = "good",
                 sent > 0 \/ kind.pass
          PROVE  got # <<>> /\ Last(got) = sent
      <4>1. /\ next > sent /\ next <= sent + 1 /\ next = FirstUp + Len(got) + Flight("up")
            /\ \A i \in 1..Len(got) : got[i] = FirstUp + i - 1
        BY <1>1, <3>1, <3>3 DEF IInv, WhyOK, UpOK
      <4>2. /\ next \in Int /\ sent \in Nat /\ got \in Seq(Int) /\ Flight("up") = 0
            /\ FirstUp \in {0, 1} /\ (kind.pass => FirstUp = 0)
        BY <1>1, <3>1, HistoriesAreInts, HandlersAssumption DEF Flight, FirstUp, IInv, StateOK, TypeOK
      <4>3. Len(got) \in Nat
        BY <4>2, LenProperties
      <4>4. next = sent + 1 /\ Len(got) = sent + 1 - FirstUp
        BY <4>1, <4>2, <4>3
      <4>5. Len(got) >= 1
        BY <3>3, <4>2, <4>3, <4>4
      <4>6. got # <<>> /\ got[Len(got)] = FirstUp + Len(got) - 1
        BY <4>1, <4>3, <4>5
      <4> QED
        BY <4>2, <4>3, <4>4, <4>6 DEF Last
    <3> QED
      BY <3>1, <3>2, <3>3 DEF EndsFit, LastWordsArrive
  <2>5. CASE ender # Nobody /\ ender.dir = "down"
    <3>1. /\ ender.why = copier["down"].why /\ copier["down"].pc = "end" /\ ender.why # "closed"
          /\ ender.dir # "up"
      BY <2>1, <2>5
    <3>2. CutOnlyByPeers
      BY <1>1, <2>5, <3>1 DEF IInv, WhyOK, CutOnlyByPeers
    <3>3. ASSUME ender.why = "eof", kind.relay = "no", client # "left", tsent > 0
          PROVE  down # <<>> /\ Last(down) = tsent
      <4>1. /\ tnext > tsent /\ tnext <= tsent + 1 /\ tnext = 1 + Len(Data) + Flight("down")
            /\ \A i \in 1..Len(Data) : Data[i] = i
        BY <1>1, <3>1, <3>3 DEF IInv, WhyOK, DownOK
      <4>2. /\ tnext \in Int /\ tsent \in Nat /\ down \in Seq(Int) /\ Data \in Seq(Int)
            /\ Flight("down") = 0
        BY <1>1, <3>1, HistoriesAreInts, HandlersAssumption DEF Flight, IInv, StateOK, TypeOK
      <4>3. Len(Data) \in Nat /\ Len(down) \in Nat
        BY <4>2, LenProperties
      <4>4. Len(Data) = tsent /\ Data[Len(Data)] = tsent
        BY <3>3, <4>1, <4>2, <4>3
      <4>5. CASE Data = down
        BY <3>3, <4>2, <4>3, <4>4, <4>5, EmptySeq DEF Last
      <4>6. CASE down # <<>> /\ Data = Tail(down)
        <5>1. Len(Data) = Len(down) - 1 /\ \A i \in 1..Len(Data) : Data[i] = down[i + 1]
          BY <4>2, <4>6, HeadTailProperties
        <5>2. Len(Data) \in 1..Len(Data) /\ Len(Data) + 1 = Len(down)
          BY <3>3, <4>2, <4>3, <4>4, <5>1
        <5> QED
          BY <4>4, <4>6, <5>1, <5>2 DEF Last
      <4> QED
        BY <4>5, <4>6 DEF Data, AfterAnswer
    <3> QED
      BY <3>1, <3>2, <3>3 DEF EndsFit, LastWordsArrive
  <2> QED
    BY <2>1, <2>3, <2>4, <2>5 DEF Directions
<1> QED
  BY <1>1, IInvIsInvariant, PTL

=============================================================================
