--------------------------- MODULE DevicesProofs ---------------------------
(***************************************************************************)
(* Proofs about Listeners, TunHandler and the two of them together in      *)
(* Devices.  Every step of Devices is one of Listeners or leaves it alone, *)
(* so what is proved of the listeners' specification holds there too.      *)
(***************************************************************************)
EXTENDS Devices, RemoteBind, SequenceTheorems, FiniteSetTheorems, TLAPS

Styles == {"direct", "bind", "device"} \cup Feeds

(* What the proofs use of a listener: its fields have their types, a loop is
   fragile, and what has a port of its own to close has no other exit. *)
KindOK(k) ==
  /\ k.style \in Styles
  /\ k.fragile \in BOOLEAN
  /\ k.cap \in Nat
  /\ k.style = "loop" => k.fragile

LEMMA KindsOK == \A k \in Kinds : KindOK(k)
<1> USE ListenersAssumption DEF KindOK, Styles, Feeds
<1>1. KindOK(Direct) /\ KindOK(RedirectUDP) /\ KindOK(RTCP) /\ KindOK(TUN) /\ KindOK(TAP)
  <2>1. KindOK(Direct) /\ KindOK(RedirectUDP) /\ KindOK(RTCP) /\ KindOK(TUN)
    BY DEF Direct, RedirectUDP, RTCP, TUN
  <2>2. KindOK(TAP)
    BY DEF Direct, TUN, TAP
  <2> QED
    BY <2>1, <2>2
<1>2. KindOK(MTLS) /\ KindOK(KCP)
  BY DEF MTLS, KCP
<1>3. KindOK(WS) /\ KindOK(MWS) /\ KindOK(DNS) /\ KindOK(HTTP2) /\ KindOK(PHTListener)
  BY DEF WS, MWS, DNS, HTTP2, PHTListener
<1> SUFFICES ASSUME NEW k \in ListenerKinds
             PROVE  k \in {Direct, RedirectUDP, RTCP, TUN, TAP, MTLS, KCP,
                           WS, MWS, DNS, HTTP2, PHTListener}
  BY <1>1, <1>2, <1>3
<1> QED
  BY Zenon DEF ListenerKinds, TCP, TLS, ObfsHTTP, ObfsTLS, RedirectTCP, DTLS, UDP, FTCP,
     SSH, SSHD, QUIC, ICMP, GRPC, H2, HTTP3, H3, RUDP

(* The kind of a behaviour is one of them. *)
LEMMA KindIsOK ==
  ASSUME TypeOK
  PROVE  KindOK(kind)
BY KindsOK DEF TypeOK

(* errs holds one error at most. *)
LEMMA ErrsTyped ==
  \A e \in {<<>>, <<"temp">>, <<"err">>, <<"nil">>} :
    e \in Seq({"temp", "err", "nil"}) /\ Len(e) <= 1
<1> TAKE e \in {<<>>, <<"temp">>, <<"err">>, <<"nil">>}
<1>1. CASE e = <<>>
  BY <1>1
<1>2. CASE e = <<"temp">>
  BY <1>2
<1>3. CASE e = <<"err">>
  BY <1>3
<1>4. CASE e = <<"nil">>
  BY <1>4
<1> QED
  BY <1>1, <1>2, <1>3, <1>4, Zenon

LEMMA InitOK == Init => IInv
<1> SUFFICES ASSUME Init PROVE IInv
  OBVIOUS
<1> USE ListenersAssumption
<1>1. KindOK(kind)
  BY KindsOK DEF Init
<1>2. queue \in Seq(Conns) /\ Len(queue) = 0 /\ errs \in Seq({"temp", "err", "nil"}) /\ Len(errs) = 0
  BY DEF Init
<1>3. loop \in {"run", "done", "create"} /\ (kind.style # "device" \/ loop = "create")
  BY <1>1 DEF Init, KindOK, Styles, Feeds
<1>4. TypeOK
  <2>1. conns \in [Conns -> {"none", "held", "queued", "open", "lost"}]
    BY DEF Init
  <2>2. kind \in Kinds /\ sock \in {"up", "down", "nil"} /\ sess \in 0..MaxSess
    BY DEF Init
  <2>3. Len(queue) <= kind.cap /\ Len(errs) <= 1
    BY <1>1, <1>2 DEF KindOK
  <2> QED
    BY <1>2, <1>3, <2>1, <2>2, <2>3 DEF Init, TypeOK
<1>5. PortOK /\ ClosedOK /\ ErrsOK /\ CrashOnlyByClose /\ EndedIsUnbound
  BY <1>4 DEF Init, PortOK, ClosedOK, ErrsOK, CrashOnlyByClose, EndedIsUnbound
<1>6. DeviceOK
  BY <1>3 DEF Init, DeviceOK, Circulates
<1> QED
  BY <1>4, <1>5, <1>6 DEF IInv

(* Sessions come and go without a trace. *)
LEMMA SessionsOK ==
  ASSUME IInv, SessionBegin \/ SessionEnd
  PROVE  IInv'
<1>1. TypeOK'
  BY ListenersAssumption DEF IInv, TypeOK, SessionBegin, SessionEnd
<1> QED
  BY <1>1 DEF IInv, SessionBegin, SessionEnd, PortOK, ClosedOK, ErrsOK, DeviceOK, Circulates,
     CrashOnlyByClose, EndedIsUnbound

LEMMA CloseSocketOK ==
  ASSUME IInv, CloseSocket
  PROVE  IInv'
<1>1. TypeOK'
  BY ListenersAssumption DEF IInv, TypeOK, CloseSocket
<1> QED
  BY <1>1 DEF IInv, CloseSocket, Style, Feeds, PortOK, ClosedOK, ErrsOK, DeviceOK, Circulates,
     CrashOnlyByClose, EndedIsUnbound

(* What ends a loop is in errs, temporary or for good. *)
LEMMA LoopFailsOK ==
  ASSUME IInv, LoopFails
  PROVE  IInv'
<1>1. TypeOK'
  BY KindIsOK, ListenersAssumption DEF IInv, TypeOK, KindOK, Style, LoopFails
<1> QED
  BY <1>1, KindIsOK DEF IInv, KindOK, Style, Feeds, LoopFails,
     PortOK, ClosedOK, ErrsOK, DeviceOK, Circulates,
     CrashOnlyByClose, EndedIsUnbound

(* A server ends only without its socket. *)
LEMMA ServerEndsOK ==
  ASSUME IInv, ServerEnds \/ ServerEndsLogged \/ PortFails
  PROVE  IInv'
<1>1. errs' \in {<<>>, <<"temp">>, <<"err">>, <<"nil">>}
  BY DEF IInv, ErrsOK, ServerEnds, ServerEndsLogged, PortFails
<1>2. TypeOK'
  BY <1>1, ErrsTyped, KindIsOK, ListenersAssumption DEF IInv, TypeOK, KindOK, Style, ServerEnds, ServerEndsLogged, PortFails
<1> QED
  BY <1>1, <1>2, KindIsOK DEF IInv, KindOK, Style, Feeds, ServerEnds, ServerEndsLogged, PortFails,
     PortOK, ClosedOK, ErrsOK, DeviceOK, Circulates,
     CrashOnlyByClose, EndedIsUnbound

(* The new device is the only one: the loop has seen the end of the last. *)
LEMMA DevCreateOK ==
  ASSUME IInv, NEW c \in Conns, DevCreate(c)
  PROVE  IInv'
<1>1. TypeOK'
  BY KindIsOK, ListenersAssumption DEF IInv, TypeOK, KindOK, Style, DevCreate, Fresh
<1>2. conns' = [conns EXCEPT ![c] = "held"] /\ dev' = c /\ loop = "create" /\ loop' = "send"
  BY DEF DevCreate
<1>3. queue' = <<>>
  BY DEF IInv, DeviceOK, Style, DevCreate
<1>4. DeviceOK'
  BY <1>2, <1>3 DEF IInv, TypeOK, DeviceOK, Circulates, DevCreate, Style
<1> QED
  BY <1>1, <1>4 DEF IInv, Style, Feeds, DevCreate,
     PortOK, ClosedOK, ErrsOK, CrashOnlyByClose, EndedIsUnbound

(* A device that was not found is lost and does not circulate. *)
LEMMA DevCreateFailsOK ==
  ASSUME IInv, NEW c \in Conns, DevCreateFails(c)
  PROVE  IInv'
<1>1. TypeOK'
  BY KindIsOK, ListenersAssumption DEF IInv, TypeOK, KindOK, Style, DevCreateFails, Fresh
<1>2. queue' = <<>>
  BY DEF IInv, DeviceOK, Style, DevCreateFails
<1>3. \A d \in Conns : ~Circulates(d)'
  BY DEF IInv, TypeOK, DeviceOK, Circulates, DevCreateFails, Style
<1>4. DeviceOK'
  BY <1>2, <1>3 DEF DeviceOK, DevCreateFails
<1> QED
  BY <1>1, <1>4 DEF IInv, Style, Feeds, DevCreateFails,
     PortOK, ClosedOK, ErrsOK, CrashOnlyByClose, EndedIsUnbound

(* The device goes to the queue. *)
LEMMA DevSendOK ==
  ASSUME IInv, DevSend
  PROVE  IInv'
<1>1. dev \in Conns /\ conns[dev] = "held" /\ queue = <<>> /\ kind.cap \in Nat
  BY KindIsOK DEF IInv, DeviceOK, Style, DevSend, KindOK
<1>2. queue' = <<dev>> /\ Len(queue') = 1 /\ 1 <= kind.cap /\ queue' \in Seq(Conns)
  BY <1>1 DEF DevSend
<1>3. TypeOK'
  BY <1>1, <1>2 DEF IInv, TypeOK, DevSend
<1>4. DeviceOK'
  BY <1>1, <1>2 DEF IInv, TypeOK, DeviceOK, Circulates, DevSend, Style
<1> QED
  BY <1>3, <1>4 DEF IInv, Style, Feeds, DevSend,
     PortOK, ClosedOK, ErrsOK, CrashOnlyByClose, EndedIsUnbound

(* When the loop creates again, the last device has gone. *)
LEMMA DevWaitOK ==
  ASSUME IInv, DevWait
  PROVE  IInv'
<1>1. TypeOK'
  BY KindIsOK, ListenersAssumption DEF IInv, TypeOK, KindOK, Style, DevWait
<1> QED
  BY <1>1, KindIsOK DEF IInv, KindOK, Style, Feeds, DevWait,
     PortOK, ClosedOK, ErrsOK, DeviceOK, Circulates,
     CrashOnlyByClose, EndedIsUnbound

(* A connection comes to the queue. *)
LEMMA OfferOK ==
  ASSUME IInv, NEW c \in Conns, Offer(c)
  PROVE  IInv'
<1>1. queue' \in Seq(Conns) /\ Len(queue') <= kind.cap
  <2>1. queue \in Seq(Conns) /\ Len(queue) <= kind.cap /\ kind.cap \in Nat
    BY KindIsOK DEF IInv, TypeOK, KindOK
  <2>2. CASE Len(queue) < kind.cap
    BY <2>1, <2>2 DEF Offer, Enqueue
  <2>3. CASE ~(Len(queue) < kind.cap)
    BY <2>1, <2>3 DEF Offer, Enqueue
  <2> QED
    BY <2>2, <2>3
<1>2. TypeOK'
  BY <1>1, ListenersAssumption DEF IInv, TypeOK, Style, Offer, Enqueue
<1> QED
  BY <1>2, KindIsOK DEF IInv, KindOK, Style, Feeds, Offer, Enqueue, Fresh,
     PortOK, ClosedOK, ErrsOK, DeviceOK, Circulates,
     CrashOnlyByClose, EndedIsUnbound

(* A connection from a socket goes to the handler. *)
LEMMA AcceptSocketOK ==
  ASSUME IInv, NEW c \in Conns, AcceptDirect(c) \/ BoundAccept(c)
  PROVE  IInv'
<1>1. TypeOK'
  BY KindIsOK, ListenersAssumption DEF IInv, TypeOK, KindOK, Style, AcceptDirect, BoundAccept, Take, Fresh
<1> QED
  BY <1>1, KindIsOK DEF IInv, KindOK, Style, Feeds, AcceptDirect, BoundAccept, Take, Fresh,
     PortOK, ClosedOK, ErrsOK, DeviceOK, Circulates,
     CrashOnlyByClose, EndedIsUnbound

(* An error of the socket, and the pause after one. *)
LEMMA AcceptTempOK ==
  ASSUME IInv, AcceptTemp \/ AcceptFails \/ Wake
  PROVE  IInv'
<1>1. TypeOK'
  BY KindIsOK, ListenersAssumption DEF IInv, TypeOK, KindOK, Style, AcceptTemp, AcceptFails, Wake
<1> QED
  BY <1>1, KindIsOK DEF IInv, KindOK, Style, Feeds, AcceptTemp, AcceptFails, Wake,
     PortOK, ClosedOK, ErrsOK, DeviceOK, Circulates,
     CrashOnlyByClose, EndedIsUnbound

(* The head of the queue goes to the handler. *)
LEMMA AcceptQueuedOK ==
  ASSUME IInv, AcceptQueued
  PROVE  IInv'
<1>1. queue' = Tail(queue) /\ Head(queue) \in Conns
  BY DEF IInv, TypeOK, AcceptQueued
<1>2. TypeOK'
  BY <1>1, KindIsOK DEF IInv, TypeOK, KindOK, AcceptQueued, Take
<1>3. ASSUME kind.style = "device"
      PROVE  Head(queue) = dev /\ queue' = <<>> /\ loop # "create"
  <2>1. queue = <<dev>> /\ loop \in {"wait", "done"}
    BY <1>3 DEF IInv, DeviceOK, AcceptQueued
  <2> QED
    BY <1>1, <2>1
<1>4. DeviceOK'
  BY <1>1, <1>3 DEF IInv, TypeOK, DeviceOK, Circulates, AcceptQueued, Take
<1> QED
  BY <1>2, <1>4 DEF IInv, AcceptQueued, Take,
     PortOK, ClosedOK, ErrsOK, CrashOnlyByClose, EndedIsUnbound

(* The device goes to the handler from the hand of the loop. *)
LEMMA AcceptDeviceOK ==
  ASSUME IInv, AcceptDevice
  PROVE  IInv'
<1>1. dev \in Conns /\ queue = <<>>
  BY DEF IInv, DeviceOK, Style, AcceptDevice
<1>2. TypeOK'
  BY <1>1 DEF IInv, TypeOK, AcceptDevice, Take
<1>3. DeviceOK'
  BY <1>1 DEF IInv, TypeOK, DeviceOK, Circulates, AcceptDevice, Take
<1> QED
  BY <1>2, <1>3 DEF IInv, Style, AcceptDevice, Take,
     PortOK, ClosedOK, ErrsOK, CrashOnlyByClose, EndedIsUnbound

(* An error from errs. *)
LEMMA AcceptErrOK ==
  ASSUME IInv, AcceptErr
  PROVE  IInv'
<1>1. TypeOK'
  BY KindIsOK, ListenersAssumption DEF IInv, TypeOK, KindOK, Style, AcceptErr
<1>2. PortOK' /\ ClosedOK' /\ ErrsOK'
  BY <1>1, KindIsOK DEF IInv, KindOK, Style, Feeds, AcceptErr, PortOK, ClosedOK, ErrsOK
<1>3. DeviceOK'
  BY <1>1, KindIsOK DEF IInv, KindOK, Style, Feeds, AcceptErr, DeviceOK, Circulates
<1>4. CrashOnlyByClose' /\ EndedIsUnbound'
  BY <1>1, KindIsOK DEF IInv, KindOK, Style, Feeds, AcceptErr, PortOK, ClosedOK, ErrsOK,
     CrashOnlyByClose, EndedIsUnbound
<1> QED
  BY <1>1, <1>2, <1>3, <1>4 DEF IInv

(* The end of errs, or of a listener. *)
LEMMA AcceptClosedOK ==
  ASSUME IInv, AcceptClosed
  PROVE  IInv'
<1>1. TypeOK'
  BY KindIsOK, ListenersAssumption DEF IInv, TypeOK, KindOK, Style, AcceptClosed
<1> QED
  BY <1>1, KindIsOK DEF IInv, KindOK, Style, Feeds, AcceptClosed,
     PortOK, ClosedOK, ErrsOK, DeviceOK, Circulates,
     CrashOnlyByClose, EndedIsUnbound

(* Binding, and dropping what was bound. *)
LEMMA BindOK ==
  ASSUME IInv, AcceptBind \/ BindDone \/ BoundFails
  PROVE  IInv'
<1>1. TypeOK'
  BY KindIsOK, ListenersAssumption DEF IInv, TypeOK, KindOK, Style, AcceptBind, BindDone, BoundFails
<1>2. ClosedOK'
  BY DEF IInv, Style, AcceptBind, BindDone, BoundFails, PortOK, ClosedOK
<1>3. ErrsOK' /\ DeviceOK'
  BY KindIsOK DEF IInv, Style, Feeds, AcceptBind, BindDone, BoundFails, PortOK, ErrsOK, DeviceOK,
     Circulates
<1>4. PortOK' /\ CrashOnlyByClose' /\ EndedIsUnbound'
  BY <1>1 DEF IInv, Style, AcceptBind, BindDone, BoundFails, PortOK, ClosedOK, CrashOnlyByClose,
     EndedIsUnbound
<1> QED
  BY <1>1, <1>2, <1>3, <1>4 DEF IInv

(* A connection's, or device's, end. *)
LEMMA HandledOK ==
  ASSUME IInv, NEW c \in Conns, Handled(c)
  PROVE  IInv'
<1>1. TypeOK'
  BY KindIsOK, ListenersAssumption DEF IInv, TypeOK, KindOK, Style, Handled
<1> QED
  BY <1>1, KindIsOK DEF IInv, KindOK, Style, Feeds, Handled,
     PortOK, ClosedOK, ErrsOK, DeviceOK, Circulates,
     CrashOnlyByClose, EndedIsUnbound

(* Close of http2, h2 and http3: what it sends comes with a port that is down. *)
LEMMA CloseServerOK ==
  ASSUME IInv, CloseServer
  PROVE  IInv'
<1>1. errs' \in {<<>>, <<"temp">>, <<"err">>, <<"nil">>}
  BY DEF IInv, ErrsOK, CloseServer
<1>2. TypeOK'
  BY <1>1, ErrsTyped, KindIsOK, ListenersAssumption DEF IInv, TypeOK, KindOK, Style, CloseServer
<1> QED
  BY <1>1, <1>2, KindIsOK DEF IInv, KindOK, Style, Feeds, CloseServer,
     PortOK, ClosedOK, ErrsOK, DeviceOK, Circulates,
     CrashOnlyByClose, EndedIsUnbound

(* Close of rtcp and rudp takes what is bound, or misses what is being bound. *)
LEMMA CloseBoundOK ==
  ASSUME IInv, CloseBound \/ CloseDevice
  PROVE  IInv'
<1>1. TypeOK' /\ (serve = "binding" => missed' \/ CloseDevice)
  BY DEF IInv, TypeOK, CloseBound, CloseDevice
<1>2. sock = "nil" => sock' = "nil"
  BY DEF CloseBound, CloseDevice
<1>3. PortOK' /\ ErrsOK' /\ DeviceOK' /\ CrashOnlyByClose'
  BY <1>2 DEF IInv, Style, Feeds, CloseBound, CloseDevice, PortOK, ErrsOK, DeviceOK, Circulates,
     CrashOnlyByClose
<1>4. ClosedOK'
  <2>1. CASE CloseBound
    <3>1. closed' /\ sock' # "up" /\ kind' = kind /\ kind.style = "bind" /\ serve' = serve
      BY <2>1 DEF CloseBound, Style
    <3>2. ~missed' => serve # "binding"
      BY <2>1 DEF CloseBound
    <3> QED
      BY <3>1, <3>2 DEF ClosedOK
  <2>2. CASE CloseDevice
    BY <2>2 DEF IInv, Style, CloseDevice, ClosedOK
  <2> QED
    BY <2>1, <2>2
<1>5. EndedIsUnbound'
  BY <1>1 DEF IInv, Style, CloseBound, CloseDevice, EndedIsUnbound
<1> QED
  BY <1>1, <1>3, <1>4, <1>5 DEF IInv

LEMMA NextOK ==
  ASSUME IInv, [Next]_vars
  PROVE  IInv'
<1>1. ASSUME UNCHANGED vars PROVE IInv'
  BY <1>1 DEF vars, IInv, TypeOK, PortOK, ClosedOK, ErrsOK, DeviceOK, Circulates,
     CrashOnlyByClose, EndedIsUnbound
<1>2. ASSUME Next PROVE IInv'
  BY <1>2, SessionsOK, LoopFailsOK, ServerEndsOK, DevCreateOK, DevCreateFailsOK,
     DevSendOK, DevWaitOK, OfferOK, AcceptSocketOK, AcceptTempOK, AcceptQueuedOK,
     AcceptDeviceOK, AcceptErrOK, AcceptClosedOK, BindOK, HandledOK, CloseSocketOK,
     CloseServerOK, CloseBoundOK DEF Next
<1> QED
  BY <1>1, <1>2

LEMMA IInvIsInvariant == Spec => []IInv
BY InitOK, NextOK, PTL DEF Spec

(* A step of Devices is a step of the listeners, or leaves them as they are. *)
LEMMA DevicesAreListeners == DevSpec => Spec
<1>1. DevInit => Init
  BY DEF DevInit
<1>2. [DevNext]_devVars => [Next]_vars
  BY DEF DevNext, ServiceStep, HandlerStep, devVars
<1> QED
  BY <1>1, <1>2, PTL DEF DevSpec, Spec

(***************************************************************************)
(* Whatever errors, closes and connections come in whatever order, Serve   *)
(* goes on without a connection and without an error only when the         *)
(* listener is one of http2, h2 and http3 and was closed.                  *)
(***************************************************************************)
THEOREM CrashNeedsClose == DevSpec => []CrashOnlyByClose
<1>1. IInv => CrashOnlyByClose
  BY DEF IInv
<1> QED
  BY <1>1, DevicesAreListeners, IInvIsInvariant, PTL

(***************************************************************************)
(* When Serve has ended, the port is free again, but for the listeners     *)
(* that any error ends and for a Close that missed the binding.            *)
(***************************************************************************)
THEOREM EndFreesPort == DevSpec => []EndedIsUnbound
<1>1. IInv => EndedIsUnbound
  BY DEF IInv
<1> QED
  BY <1>1, DevicesAreListeners, IInvIsInvariant, PTL

----------------------------------------------------------------------------
(* The handlers. *)

(* A handler starts with nobody on the device and ends so. *)
LEMMA StartOK ==
  ASSUME T!IInv, T!Start \/ T!Return
  PROVE  T!IInv'
<1>1. T!AtRest' /\ T!LossBounded'
  BY DevicesAssumption DEF T!IInv, T!TypeOK, T!LossBounded, T!PaidFor, T!Owed, T!AtRest,
     T!Start, T!Return, T!sides, T!Fail, T!Fault, T!Ends, T!IsTap, T!IsServer, T!TapModes
<1>2. T!PaidFor'
  BY DevicesAssumption DEF T!IInv, T!TypeOK, T!LossBounded, T!PaidFor, T!Owed, T!AtRest,
     T!Start, T!Return, T!sides, T!Fail, T!Fault, T!Ends, T!IsTap, T!IsServer, T!TapModes
<1>3. /\ stale' \in Nat /\ stale' <= MaxFaults + faults' /\ faults' \in 0..MaxFaults
      /\ lost' \in 0..(MaxFaults + 1) /\ moves' \in 0..MaxMoves
  BY DevicesAssumption DEF T!IInv, T!TypeOK, T!LossBounded, T!PaidFor, T!Owed, T!AtRest,
     T!Start, T!Return, T!sides, T!Fail, T!Fault, T!Ends, T!IsTap, T!IsServer, T!TapModes
<1>4. T!TypeOK'
  <2>1. CASE T!Start
    BY <1>3, <2>1 DEF T!IInv, T!TypeOK, T!AtRest, T!Start,
       T!sides, T!Fail, T!Fault, T!Ends, T!IsTap, T!IsServer, T!TapModes
  <2>2. CASE T!Return
    BY <1>3, <2>2 DEF T!IInv, T!TypeOK, T!AtRest, T!Return,
       T!sides, T!Fail, T!Fault, T!Ends, T!IsTap, T!IsServer, T!TapModes
  <2> QED
    BY <2>1, <2>2
<1> QED
  BY <1>1, <1>2, <1>4 DEF T!IInv

(* A socket is opened, or not, after a pause. *)
LEMMA DialOK ==
  ASSUME T!IInv, T!Dial \/ T!DialFails \/ T!Resume
  PROVE  T!IInv'
<1>1. T!AtRest' /\ T!LossBounded'
  BY DevicesAssumption DEF T!IInv, T!TypeOK, T!LossBounded, T!PaidFor, T!Owed, T!AtRest,
     T!Dial, T!DialFails, T!Resume, T!sides, T!Fail, T!Fault, T!Ends, T!IsTap, T!IsServer, T!TapModes
<1>2. T!PaidFor'
  BY DevicesAssumption DEF T!IInv, T!TypeOK, T!LossBounded, T!PaidFor, T!Owed, T!AtRest,
     T!Dial, T!DialFails, T!Resume, T!sides, T!Fail, T!Fault, T!Ends, T!IsTap, T!IsServer, T!TapModes
<1>3. /\ stale' \in Nat /\ stale' <= MaxFaults + faults' /\ faults' \in 0..MaxFaults
      /\ lost' \in 0..(MaxFaults + 1) /\ moves' \in 0..MaxMoves
  BY DevicesAssumption DEF T!IInv, T!TypeOK, T!LossBounded, T!PaidFor, T!Owed, T!AtRest,
     T!Dial, T!DialFails, T!Resume, T!sides, T!Fail, T!Fault, T!Ends, T!IsTap, T!IsServer, T!TapModes
<1>4. T!TypeOK'
  <2>1. CASE T!Dial
    BY <1>3, <2>1 DEF T!IInv, T!TypeOK, T!AtRest, T!Dial,
       T!sides, T!Fail, T!Fault, T!Ends, T!IsTap, T!IsServer, T!TapModes
  <2>2. CASE T!DialFails
    BY <1>3, <2>2 DEF T!IInv, T!TypeOK, T!AtRest, T!DialFails,
       T!sides, T!Fail, T!Fault, T!Ends, T!IsTap, T!IsServer, T!TapModes
  <2>3. CASE T!Resume
    BY <1>3, <2>3 DEF T!IInv, T!TypeOK, T!AtRest, T!Resume,
       T!sides, T!Fail, T!Fault, T!Ends, T!IsTap, T!IsServer, T!TapModes
  <2> QED
    BY <2>1, <2>2, <2>3
<1> QED
  BY <1>1, <1>2, <1>4 DEF T!IInv

(* The socket is given up: what its reader may cost has been paid for. *)
LEMMA SettleOK ==
  ASSUME T!IInv, T!Settle
  PROVE  T!IInv'
<1>1. T!AtRest' /\ T!LossBounded'
  BY DevicesAssumption DEF T!IInv, T!TypeOK, T!LossBounded, T!PaidFor, T!Owed, T!AtRest,
     T!Settle, T!sides, T!Fail, T!Fault, T!Ends, T!IsTap, T!IsServer, T!TapModes
<1>2. T!PaidFor'
  BY DevicesAssumption DEF T!IInv, T!TypeOK, T!LossBounded, T!PaidFor, T!Owed, T!AtRest,
     T!Settle, T!sides, T!Fail, T!Fault, T!Ends, T!IsTap, T!IsServer, T!TapModes
<1>3. /\ stale' \in Nat /\ stale' <= MaxFaults + faults' /\ faults' \in 0..MaxFaults
      /\ lost' \in 0..(MaxFaults + 1) /\ moves' \in 0..MaxMoves
  BY DevicesAssumption DEF T!IInv, T!TypeOK, T!LossBounded, T!PaidFor, T!Owed, T!AtRest,
     T!Settle, T!sides, T!Fail, T!Fault, T!Ends, T!IsTap, T!IsServer, T!TapModes
<1>4. T!TypeOK'
  BY <1>3 DEF T!IInv, T!TypeOK, T!AtRest,
     T!Settle, T!sides, T!Fail, T!Fault, T!Ends, T!IsTap, T!IsServer, T!TapModes
<1> QED
  BY <1>1, <1>2, <1>4 DEF T!IInv

(* The device cannot be read, or a packet from it is lost. *)
LEMMA DeviceReadOK ==
  ASSUME T!IInv, T!DeviceFails \/ T!SendFails
  PROVE  T!IInv'
<1>1. T!AtRest' /\ T!LossBounded'
  BY DevicesAssumption DEF T!IInv, T!TypeOK, T!LossBounded, T!PaidFor, T!Owed, T!AtRest,
     T!DeviceFails, T!SendFails, T!sides, T!Fail, T!Fault, T!Ends, T!IsTap, T!IsServer, T!TapModes
<1>2. T!PaidFor'
  BY DevicesAssumption DEF T!IInv, T!TypeOK, T!LossBounded, T!PaidFor, T!Owed, T!AtRest,
     T!DeviceFails, T!SendFails, T!sides, T!Fail, T!Fault, T!Ends, T!IsTap, T!IsServer, T!TapModes
<1>3. /\ stale' \in Nat /\ stale' <= MaxFaults + faults' /\ faults' \in 0..MaxFaults
      /\ lost' \in 0..(MaxFaults + 1) /\ moves' \in 0..MaxMoves
  BY DevicesAssumption DEF T!IInv, T!TypeOK, T!LossBounded, T!PaidFor, T!Owed, T!AtRest,
     T!DeviceFails, T!SendFails, T!sides, T!Fail, T!Fault, T!Ends, T!IsTap, T!IsServer, T!TapModes
<1>4. T!TypeOK'
  <2>1. CASE T!DeviceFails
    BY <1>3, <2>1 DEF T!IInv, T!TypeOK, T!AtRest, T!DeviceFails,
       T!sides, T!Fail, T!Fault, T!Ends, T!IsTap, T!IsServer, T!TapModes
  <2>2. CASE T!SendFails
    BY <1>3, <2>2 DEF T!IInv, T!TypeOK, T!AtRest, T!SendFails,
       T!sides, T!Fail, T!Fault, T!Ends, T!IsTap, T!IsServer, T!TapModes
  <2> QED
    BY <2>1, <2>2
<1> QED
  BY <1>1, <1>2, <1>4 DEF T!IInv

(* The same of a reader that stayed behind. *)
LEMMA StaleOK ==
  ASSUME T!IInv, T!StaleSend \/ T!StaleFails
  PROVE  T!IInv'
<1>1. T!AtRest' /\ T!LossBounded'
  BY DevicesAssumption DEF T!IInv, T!TypeOK, T!LossBounded, T!PaidFor, T!Owed, T!AtRest,
     T!StaleSend, T!StaleFails, T!sides, T!Fail, T!Fault, T!Ends, T!IsTap, T!IsServer, T!TapModes
<1>2. T!PaidFor'
  BY DevicesAssumption DEF T!IInv, T!TypeOK, T!LossBounded, T!PaidFor, T!Owed, T!AtRest,
     T!StaleSend, T!StaleFails, T!sides, T!Fail, T!Fault, T!Ends, T!IsTap, T!IsServer, T!TapModes
<1>3. /\ stale' \in Nat /\ stale' <= MaxFaults + faults' /\ faults' \in 0..MaxFaults
      /\ lost' \in 0..(MaxFaults + 1) /\ moves' \in 0..MaxMoves
  BY DevicesAssumption DEF T!IInv, T!TypeOK, T!LossBounded, T!PaidFor, T!Owed, T!AtRest,
     T!StaleSend, T!StaleFails, T!sides, T!Fail, T!Fault, T!Ends, T!IsTap, T!IsServer, T!TapModes
<1>4. T!TypeOK'
  <2>1. CASE T!StaleSend
    BY <1>3, <2>1 DEF T!IInv, T!TypeOK, T!AtRest, T!StaleSend,
       T!sides, T!Fail, T!Fault, T!Ends, T!IsTap, T!IsServer, T!TapModes
  <2>2. CASE T!StaleFails
    BY <1>3, <2>2 DEF T!IInv, T!TypeOK, T!AtRest, T!StaleFails,
       T!sides, T!Fail, T!Fault, T!Ends, T!IsTap, T!IsServer, T!TapModes
  <2> QED
    BY <2>1, <2>2
<1> QED
  BY <1>1, <1>2, <1>4 DEF T!IInv

(* The socket's reader fails. *)
LEMMA SocketReadOK ==
  ASSUME T!IInv, T!ReceiveFails \/ T!Timeout \/ T!DeliverFails
  PROVE  T!IInv'
<1>1. T!AtRest' /\ T!LossBounded'
  BY DevicesAssumption DEF T!IInv, T!TypeOK, T!LossBounded, T!PaidFor, T!Owed, T!AtRest,
     T!ReceiveFails, T!Timeout, T!DeliverFails, T!sides, T!Fail, T!Fault, T!Ends, T!IsTap, T!IsServer, T!TapModes
<1>2. T!PaidFor'
  BY DevicesAssumption DEF T!IInv, T!TypeOK, T!LossBounded, T!PaidFor, T!Owed, T!AtRest,
     T!ReceiveFails, T!Timeout, T!DeliverFails, T!sides, T!Fail, T!Fault, T!Ends, T!IsTap, T!IsServer, T!TapModes
<1>3. /\ stale' \in Nat /\ stale' <= MaxFaults + faults' /\ faults' \in 0..MaxFaults
      /\ lost' \in 0..(MaxFaults + 1) /\ moves' \in 0..MaxMoves
  BY DevicesAssumption DEF T!IInv, T!TypeOK, T!LossBounded, T!PaidFor, T!Owed, T!AtRest,
     T!ReceiveFails, T!Timeout, T!DeliverFails, T!sides, T!Fail, T!Fault, T!Ends, T!IsTap, T!IsServer, T!TapModes
<1>4. T!TypeOK'
  BY <1>3 DEF T!IInv, T!TypeOK, T!AtRest,
     T!ReceiveFails, T!Timeout, T!DeliverFails, T!sides, T!Fail, T!Fault, T!Ends, T!IsTap, T!IsServer, T!TapModes
<1> QED
  BY <1>1, <1>2, <1>4 DEF T!IInv

(* It answers a keep-alive and stores where that came from. *)
LEMMA AnswerOK ==
  ASSUME T!IInv, T!Answer \/ T!AnswerFails \/ T!Store
  PROVE  T!IInv'
<1>1. T!AtRest' /\ T!LossBounded'
  BY DevicesAssumption DEF T!IInv, T!TypeOK, T!LossBounded, T!PaidFor, T!Owed, T!AtRest,
     T!Answer, T!AnswerFails, T!Store, T!Updated, T!sides, T!Fail, T!Fault, T!Ends, T!IsTap, T!IsServer, T!TapModes
<1>2. T!PaidFor'
  BY DevicesAssumption DEF T!IInv, T!TypeOK, T!LossBounded, T!PaidFor, T!Owed, T!AtRest,
     T!Answer, T!AnswerFails, T!Store, T!Updated, T!sides, T!Fail, T!Fault, T!Ends, T!IsTap, T!IsServer, T!TapModes
<1>3. /\ stale' \in Nat /\ stale' <= MaxFaults + faults' /\ faults' \in 0..MaxFaults
      /\ lost' \in 0..(MaxFaults + 1) /\ moves' \in 0..MaxMoves
  BY DevicesAssumption DEF T!IInv, T!TypeOK, T!LossBounded, T!PaidFor, T!Owed, T!AtRest,
     T!Answer, T!AnswerFails, T!Store, T!Updated, T!sides, T!Fail, T!Fault, T!Ends, T!IsTap, T!IsServer, T!TapModes
<1>4. T!TypeOK'
  BY <1>3 DEF T!IInv, T!TypeOK, T!AtRest,
     T!Answer, T!AnswerFails, T!Store, T!Updated, T!sides, T!Fail, T!Fault, T!Ends, T!IsTap, T!IsServer, T!TapModes
<1> QED
  BY <1>1, <1>2, <1>4 DEF T!IInv

(* Keep-alives are sent, or not, which is a failure. *)
LEMMA GreetOK ==
  ASSUME T!IInv, T!Greet \/ T!GreetFails
  PROVE  T!IInv'
<1>1. T!AtRest' /\ T!LossBounded'
  BY DevicesAssumption DEF T!IInv, T!TypeOK, T!LossBounded, T!PaidFor, T!Owed, T!AtRest,
     T!Greet, T!GreetFails, T!sides, T!Fail, T!Fault, T!Ends, T!IsTap, T!IsServer, T!TapModes
<1>2. T!PaidFor'
  <2>1. CASE T!Greet
    <3>1. T!Owed' => T!Owed
      BY <2>1 DEF T!Greet, T!Owed
    <3> QED
      BY <2>1, <3>1 DEF T!IInv, T!PaidFor, T!Greet
  <2>2. CASE T!GreetFails
    BY <2>2, DevicesAssumption DEF T!IInv, T!TypeOK, T!PaidFor, T!Owed, T!GreetFails, T!Fault
  <2> QED
    BY <2>1, <2>2
<1>3. /\ stale' \in Nat /\ stale' <= MaxFaults + faults' /\ faults' \in 0..MaxFaults
      /\ lost' \in 0..(MaxFaults + 1) /\ moves' \in 0..MaxMoves
  BY DevicesAssumption DEF T!IInv, T!TypeOK, T!LossBounded, T!PaidFor, T!Owed, T!AtRest,
     T!Greet, T!GreetFails, T!sides, T!Fail, T!Fault, T!Ends, T!IsTap, T!IsServer, T!TapModes
<1>4. T!TypeOK'
  <2>1. CASE T!Greet
    BY <1>3, <2>1 DEF T!IInv, T!TypeOK, T!Greet, T!sides
  <2>2. CASE T!GreetFails
    BY <1>3, <2>2 DEF T!IInv, T!TypeOK, T!GreetFails, T!sides, T!Fault
  <2> QED
    BY <2>1, <2>2
<1> QED
  BY <1>1, <1>2, <1>4 DEF T!IInv

(* Failures. *)
LEMMA FaultOK ==
  ASSUME T!IInv, T!SocketFails \/ T!AssociationDies \/ T!DeviceGone \/ T!Hello
  PROVE  T!IInv'
<1>1. T!AtRest' /\ T!LossBounded'
  BY DevicesAssumption DEF T!IInv, T!TypeOK, T!LossBounded, T!PaidFor, T!Owed, T!AtRest,
     T!SocketFails, T!AssociationDies, T!DeviceGone, T!Hello, T!sides, T!Fail, T!Fault, T!Ends, T!IsTap, T!IsServer, T!TapModes
<1>2. T!PaidFor'
  BY DevicesAssumption DEF T!IInv, T!TypeOK, T!LossBounded, T!PaidFor, T!Owed, T!AtRest,
     T!SocketFails, T!AssociationDies, T!DeviceGone, T!Hello, T!sides, T!Fail, T!Fault, T!Ends, T!IsTap, T!IsServer, T!TapModes
<1>3. /\ stale' \in Nat /\ stale' <= MaxFaults + faults' /\ faults' \in 0..MaxFaults
      /\ lost' \in 0..(MaxFaults + 1) /\ moves' \in 0..MaxMoves
  BY DevicesAssumption DEF T!IInv, T!TypeOK, T!LossBounded, T!PaidFor, T!Owed, T!AtRest,
     T!SocketFails, T!AssociationDies, T!DeviceGone, T!Hello, T!sides, T!Fail, T!Fault, T!Ends, T!IsTap, T!IsServer, T!TapModes
<1>4. T!TypeOK'
  <2>1. CASE T!SocketFails
    BY <1>3, <2>1 DEF T!IInv, T!TypeOK, T!AtRest, T!SocketFails,
       T!sides, T!Fail, T!Fault, T!Ends, T!IsTap, T!IsServer, T!TapModes
  <2>2. CASE T!AssociationDies
    BY <1>3, <2>2 DEF T!IInv, T!TypeOK, T!AtRest, T!AssociationDies,
       T!sides, T!Fail, T!Fault, T!Ends, T!IsTap, T!IsServer, T!TapModes
  <2>3. CASE T!DeviceGone
    <3>1. /\ up' = FALSE /\ pc' = pc
          /\ UNCHANGED <<mode, udp, errc, dr, nr, exit, from, ka, timed, late, route, cur, hellos>>
      BY <2>3 DEF T!DeviceGone
    <3>2. pc' \in {"none", "dial", "work", "pause", "done"} /\ up' \in BOOLEAN
      BY <3>1 DEF T!IInv, T!TypeOK
    <3>3. /\ from' \in Addrs \cup {NoAddr} /\ route' \in Addrs \cup {NoAddr} /\ cur' \in Addrs
          /\ late' \in SUBSET Addrs /\ hellos' \in SUBSET Addrs
      BY <3>1 DEF T!IInv, T!TypeOK
    <3>4. /\ mode' \in T!TunModes \cup T!TapModes /\ exit' \in BOOLEAN /\ timed' \in BOOLEAN
          /\ udp' \in {"up", "down", "dead"} /\ errc' \in {"none", "socket", "device"}
          /\ dr' \in {"read", "end"} /\ nr' \in {"read", "answer", "store", "end"}
          /\ ka' \in {"start", "beat", "end"}
      BY <3>1 DEF T!IInv, T!TypeOK
    <3> QED
      BY <1>3, <3>2, <3>3, <3>4, Zenon DEF T!TypeOK
  <2>4. CASE T!Hello
    BY <1>3, <2>4 DEF T!IInv, T!TypeOK, T!AtRest, T!Hello,
       T!sides, T!Fail, T!Fault, T!Ends, T!IsTap, T!IsServer, T!TapModes
  <2> QED
    BY <2>1, <2>2, <2>3, <2>4
<1> QED
  BY <1>1, <1>2, <1>4 DEF T!IInv

(* What comes from the peer. *)
LEMMA PeerOK ==
  ASSUME T!IInv, NEW a \in Addrs, T!Hear(a) \/ T!StoreLate(a) \/ T!HelloLost(a) \/ T!Move(a)
  PROVE  T!IInv'
BY DevicesAssumption DEF T!IInv, T!TypeOK, T!LossBounded, T!PaidFor, T!Owed, T!AtRest,
   T!Hear, T!StoreLate, T!HelloLost, T!Move, T!sides, T!IsServer, T!IsTap, T!Updated

----------------------------------------------------------------------------
(* The two together. *)

LEMMA DevInitOK == DevInit => DevIInv
<1> SUFFICES ASSUME DevInit PROVE DevIInv
  OBVIOUS
<1>1. IInv
  BY InitOK DEF DevInit
<1>2. T!IInv
  <2>1. T!LossBounded /\ T!PaidFor /\ T!AtRest
    BY DevicesAssumption DEF DevInit, T!Init, T!LossBounded, T!PaidFor, T!Owed, T!AtRest
  <2>2. cur \in Addrs
    BY DevicesAssumption, Zenon DEF DevInit, T!Init
  <2>3. stale = 0 /\ lost = 0 /\ faults = 0 /\ moves = 0
    BY DEF DevInit, T!Init
  <2>4. stale <= MaxFaults + faults /\ lost \in 0..(MaxFaults + 1)
    BY <2>3, DevicesAssumption
  <2>5. /\ mode \in T!TunModes \cup T!TapModes /\ pc = "none" /\ nr = "end" /\ ka = "end"
        /\ up \in BOOLEAN /\ exit \in BOOLEAN /\ timed \in BOOLEAN
        /\ udp = "down" /\ errc = "none" /\ dr = "end"
    BY DEF DevInit, T!Init
  <2>6. from = NoAddr /\ route = NoAddr /\ late \in SUBSET Addrs /\ hellos \in SUBSET Addrs
    BY DEF DevInit, T!Init
  <2>7. T!TypeOK
    BY <2>2, <2>3, <2>4, <2>5, <2>6, DevicesAssumption DEF T!TypeOK
  <2> QED
    BY <2>1, <2>7 DEF T!IInv
<1>3. InUse <=> pc # "none"
  BY DEF DevInit, Init, T!Init, InUse
<1> QED
  BY <1>1, <1>2, <1>3 DEF DevIInv

(* Of its own accord the handler neither starts nor returns. *)
LEMMA WorkKeepsUse ==
  ASSUME T!Work
  PROVE  pc' = "none" <=> pc = "none"
<1> USE DEF T!sides
<1>1. CASE T!Dial \/ T!DialFails \/ T!Resume \/ T!Settle
  BY <1>1 DEF T!Dial, T!DialFails, T!Resume, T!Settle
<1>2. CASE T!DeviceFails \/ T!SendFails \/ T!StaleSend \/ T!StaleFails
  BY <1>2 DEF T!DeviceFails, T!SendFails, T!StaleSend, T!StaleFails
<1>3. CASE T!ReceiveFails \/ T!Timeout \/ T!DeliverFails \/ T!Answer \/ T!AnswerFails \/ T!Store
  BY <1>3 DEF T!ReceiveFails, T!Timeout, T!DeliverFails, T!Answer, T!AnswerFails, T!Store
<1>4. CASE T!Greet \/ T!GreetFails \/ T!SocketFails \/ T!AssociationDies \/ T!DeviceGone \/ T!Hello
  BY <1>4 DEF T!Greet, T!GreetFails, T!SocketFails, T!AssociationDies, T!DeviceGone, T!Hello
<1>5. CASE \E a \in Addrs : T!Hear(a) \/ T!StoreLate(a) \/ T!HelloLost(a) \/ T!Move(a)
  BY <1>5 DEF T!Hear, T!StoreLate, T!HelloLost, T!Move
<1> QED
  BY <1>1, <1>2, <1>3, <1>4, <1>5 DEF T!Work

LEMMA WorkOK ==
  ASSUME T!IInv, T!Work
  PROVE  T!IInv'
BY DialOK, SettleOK, DeviceReadOK, StaleOK, SocketReadOK, AnswerOK, GreetOK, FaultOK, PeerOK
   DEF T!Work

LEMMA DevIInvIsInvariant == DevSpec => []DevIInv
<1>1. ASSUME DevIInv, [DevNext]_devVars PROVE DevIInv'
  <2>1. CASE ServiceStep
    <3>1. IInv'
      BY <1>1, <2>1, NextOK DEF ServiceStep, DevIInv
    <3>2. CASE ~InUse /\ InUse'
      <4>1. T!Start
        BY <2>1, <3>2 DEF ServiceStep
      <4>2. pc' # "none"
        BY <4>1 DEF T!Start
      <4>3. T!IInv'
        BY <1>1, <4>1, StartOK DEF DevIInv
      <4> QED
        BY <3>1, <3>2, <4>2, <4>3 DEF DevIInv
    <3>3. CASE InUse /\ ~InUse'
      <4>1. T!Return
        BY <2>1, <3>3 DEF ServiceStep
      <4>2. pc' = "none"
        BY <4>1 DEF T!Return
      <4>3. T!IInv'
        BY <1>1, <4>1, StartOK DEF DevIInv
      <4> QED
        BY <3>1, <3>3, <4>2, <4>3 DEF DevIInv
    <3>4. CASE InUse <=> InUse'
      <4>1. UNCHANGED handlerVars
        BY <2>1, <3>4 DEF ServiceStep
      <4>2. T!IInv' /\ pc' = pc
        BY <1>1, <4>1 DEF DevIInv, handlerVars, T!IInv, T!TypeOK, T!LossBounded, T!PaidFor, T!Owed,
           T!AtRest
      <4> QED
        BY <1>1, <3>1, <3>4, <4>2 DEF DevIInv
    <3> QED
      BY <3>2, <3>3, <3>4
  <2>2. CASE HandlerStep
    <3>1. T!Work /\ UNCHANGED vars
      BY <2>2 DEF HandlerStep
    <3>2. IInv' /\ T!IInv'
      BY <1>1, <3>1, NextOK, WorkOK DEF DevIInv
    <3>3. (InUse' <=> InUse) /\ (pc' = "none" <=> pc = "none")
      BY <3>1, WorkKeepsUse DEF vars, InUse
    <3> QED
      BY <1>1, <3>2, <3>3 DEF DevIInv
  <2>3. CASE UNCHANGED devVars
    <3>1. UNCHANGED vars /\ UNCHANGED handlerVars
      BY <2>3 DEF devVars
    <3>2. IInv'
      BY <1>1, <3>1, NextOK DEF DevIInv
    <3>3. T!IInv' /\ pc' = pc
      BY <1>1, <3>1 DEF DevIInv, handlerVars, T!IInv, T!TypeOK, T!LossBounded, T!PaidFor, T!Owed,
         T!AtRest
    <3>4. InUse' <=> InUse
      BY <3>1 DEF vars, InUse
    <3> QED
      BY <1>1, <3>2, <3>3, <3>4 DEF DevIInv
  <2> QED
    BY <1>1, <2>1, <2>2, <2>3 DEF DevNext
<1> QED
  BY DevInitOK, <1>1, PTL DEF DevSpec

(* Every device in circulation is the loop's, so there is one at most. *)
LEMMA CirculatesOnce == IInv => OneDevice
<1> SUFFICES ASSUME IInv, kind.style = "device"
             PROVE  Cardinality({c \in Conns : conns[c] \in {"held", "queued", "open"}}) <= 1
  BY DEF OneDevice
<1> DEFINE S == {c \in Conns : conns[c] \in {"held", "queued", "open"}}
<1>1. S \subseteq {dev}
  BY DEF IInv, DeviceOK, Circulates
<1>2. IsFiniteSet({dev}) /\ Cardinality({dev}) = 1
  BY FS_Singleton
<1>3. Cardinality(S) <= Cardinality({dev})
  BY <1>1, <1>2, FS_Subset
<1> QED
  BY <1>2, <1>3

(***************************************************************************)
(* The handler works exactly while its device is open, there is one device *)
(* at a time whatever is created, lost and closed, and the readers that    *)
(* stay behind on a device lose no more packets than there were failures.  *)
(***************************************************************************)
THEOREM DeviceHasOneHandler == DevSpec => []DevicesSound
<1>1. DevIInv => DevicesSound
  BY CirculatesOnce DEF DevIInv, DevicesSound, T!IInv
<1> QED
  BY <1>1, DevIInvIsInvariant, PTL

----------------------------------------------------------------------------
(***************************************************************************)
(* Proofs about RemoteBind for any number of forwards, connections and     *)
(* peers, any number of faults and any number of lives of the service.     *)
(***************************************************************************)

BindClientRec == [pc : {"idle", "asking", "accept", "peer", "down"}, f : Forwards \cup {0},
              p : Peers \cup {0}, closed : BOOLEAN, lives : 1 .. MaxLives]

BindLinkRec == [net : {"none", "up", "cut"}, cl : BOOLEAN, sv : BOOLEAN]

BindForwardRec == [pc : {"none", "asked", "bound", "serving", "failed", "ended"},
               link : Forwards \cup {0}, ln : BOOLEAN, deaf : BOOLEAN]

BindPeerRec == [at : {"away", "served"} \cup Waiting, f : Forwards \cup {0}]

(* The parts of the type that a step changes one by one. *)
LEMMA BindTypeParts ==
  BindTypeOK <=> /\ protocol \in Protocols /\ client \in BindClientRec
             /\ links \in [Forwards -> BindLinkRec] /\ forwards \in [Forwards -> BindForwardRec]
             /\ port \in Forwards \cup {0} /\ peers \in [Peers -> BindPeerRec]
             /\ breaks \in 0 .. MaxBreaks
BY DEF BindTypeOK, BindClientRec, BindLinkRec, BindForwardRec, BindPeerRec

LEMMA BindZeroIsNoForward == 0 \notin Forwards /\ \A f \in Forwards : f # 0
BY Bounds

LEMMA BindBlankRecords == NoLink \in BindLinkRec /\ NoForward \in BindForwardRec /\ Away \in BindPeerRec
BY DEF NoLink, BindLinkRec, NoForward, BindForwardRec, Away, BindPeerRec

-----------------------------------------------------------------------------
(* What closing an end of a connection does to the connections. *)

(* A connection that the server has closed is not one it has again. *)
BindShrinks(L) ==
  /\ L \in [Forwards -> BindLinkRec]
  /\ \A l \in Forwards : L[l].sv => links[l].sv

LEMMA BindSameShrinks == BindTypeOK => BindShrinks(links)
BY BindTypeParts DEF BindShrinks

LEMMA BindWithoutClientShrinks ==
  ASSUME BindTypeOK, NEW l
  PROVE  BindShrinks(WithoutClient(l))
<1>1. links \in [Forwards -> BindLinkRec]
  BY BindTypeParts
<1>2. CASE l \notin Forwards
  <2>1. WithoutClient(l) = links
    BY <1>1, <1>2 DEF WithoutClient
  <2> QED BY <2>1, BindSameShrinks
<1>3. CASE l \in Forwards
  <2> DEFINE r == IF links[l].sv THEN [links[l] EXCEPT !.cl = FALSE] ELSE NoLink
  <2>1. r \in BindLinkRec /\ (r.sv => links[l].sv)
    <3>1. links[l] \in BindLinkRec
      BY <1>1, <1>3
    <3>2. CASE links[l].sv
      BY <3>1, <3>2 DEF BindLinkRec
    <3>3. CASE ~links[l].sv
      BY <3>3, BindBlankRecords DEF NoLink
    <3> QED BY <3>2, <3>3
  <2>2. WithoutClient(l) = [links EXCEPT ![l] = r]
    BY DEF WithoutClient
  <2> HIDE DEF r
  <2> QED BY <2>1, <2>2, <1>1, <1>3 DEF BindShrinks
<1> QED BY <1>2, <1>3

LEMMA BindWithoutServerShrinks ==
  ASSUME BindTypeOK, NEW l
  PROVE  BindShrinks(WithoutServer(l))
<1>1. links \in [Forwards -> BindLinkRec]
  BY BindTypeParts
<1>2. CASE l \notin Forwards
  <2>1. WithoutServer(l) = links
    BY <1>1, <1>2 DEF WithoutServer
  <2> QED BY <2>1, BindSameShrinks
<1>3. CASE l \in Forwards
  <2> DEFINE r == IF links[l].cl THEN [links[l] EXCEPT !.sv = FALSE] ELSE NoLink
  <2>1. r \in BindLinkRec /\ (r.sv => links[l].sv)
    <3>1. links[l] \in BindLinkRec
      BY <1>1, <1>3
    <3>2. CASE links[l].cl
      BY <3>1, <3>2 DEF BindLinkRec
    <3>3. CASE ~links[l].cl
      BY <3>3, BindBlankRecords DEF NoLink
    <3> QED BY <3>2, <3>3
  <2>2. WithoutServer(l) = [links EXCEPT ![l] = r]
    BY DEF WithoutServer
  <2> HIDE DEF r
  <2> QED BY <2>1, <2>2, <1>1, <1>3 DEF BindShrinks
<1> QED BY <1>2, <1>3

LEMMA BindCloseSessionShrinks ==
  ASSUME BindTypeOK, NEW f, CloseSession(f)
  PROVE  BindShrinks(links')
BY BindSameShrinks, BindWithoutClientShrinks DEF CloseSession

LEMMA BindHangUpShrinks ==
  ASSUME BindTypeOK, NEW f, HangUp(f)
  PROVE  BindShrinks(links')
BY BindSameShrinks, BindWithoutServerShrinks DEF HangUp

-----------------------------------------------------------------------------
(***************************************************************************)
(* One forward changes, from forwards[f] to r, while no connection comes   *)
(* back: what r has to satisfy.                                            *)
(***************************************************************************)
BindFitsPort(f, r) ==
  /\ r \in BindForwardRec
  /\ r.pc \in {"bound", "serving"} <=> port' = f
  /\ r.ln => r.pc \in {"serving", "ended"}
  /\ r.ln /\ Link(f).sv => r.pc = "serving"
  /\ r.pc # "none" => r.link # 0
  /\ r.pc # "none" \/ r.ln => r.link = forwards[f].link

LEMMA BindOneForward ==
  ASSUME BindIInv, NEW f \in Forwards, NEW r, BindFitsPort(f, r),
         forwards' = [forwards EXCEPT ![f] = r], BindShrinks(links'),
         \A g \in Forwards : g # f => (port' = g <=> port = g)
  PROVE  /\ forwards' \in [Forwards -> BindForwardRec] /\ links' \in [Forwards -> BindLinkRec]
         /\ BoundHasPort' /\ ListenerIsServed'
         /\ \A g \in Forwards : forwards'[g].pc # "none" => forwards'[g].link # 0
<1>1. forwards \in [Forwards -> BindForwardRec] /\ BindTypeOK
  BY BindTypeParts DEF BindIInv
<1>2. \A g \in Forwards : forwards'[g] = IF g = f THEN r ELSE forwards[g]
  BY <1>1
<1>3. /\ r \in BindForwardRec /\ (r.pc \in {"bound", "serving"} <=> port' = f)
      /\ r.ln => r.pc \in {"serving", "ended"}
      /\ r.ln /\ Link(f).sv => r.pc = "serving"
      /\ r.pc # "none" => r.link # 0
      /\ r.pc # "none" \/ r.ln => r.link = forwards[f].link
  BY DEF BindFitsPort
<1>4. forwards' \in [Forwards -> BindForwardRec]
  BY <1>1, <1>3
<1>5. BoundHasPort'
  <2>1. ASSUME NEW g \in Forwards
        PROVE  forwards'[g].pc \in {"bound", "serving"} <=> port' = g
    <3>1. CASE g = f
      BY <3>1, <1>2, <1>3
    <3>2. CASE g # f
      <4>1. forwards[g].pc \in {"bound", "serving"} <=> port = g
        BY DEF BindIInv, BoundHasPort
      <4>2. port' = g <=> port = g
        BY <3>2
      <4>3. forwards'[g] = forwards[g]
        BY <3>2, <1>2
      <4> QED BY <4>1, <4>2, <4>3
    <3> QED BY <3>1, <3>2
  <2> QED BY <2>1 DEF BoundHasPort
<1>6. ListenerIsServed'
  <2>1. ASSUME NEW g \in Forwards
        PROVE  /\ forwards'[g].ln => forwards'[g].pc \in {"serving", "ended"}
               /\ forwards'[g].ln /\ links'[forwards'[g].link].sv => forwards'[g].pc = "serving"
    <3>1. forwards[g].ln => /\ forwards[g].pc \in {"serving", "ended"}
                            /\ forwards[g].link \in Forwards
      <4>1. /\ forwards[g].ln => forwards[g].pc \in {"serving", "ended"}
            /\ forwards[g].pc # "none" => forwards[g].link # 0
        BY DEF BindIInv, ListenerIsServed, OnLink
      <4>2. forwards[g].link \in Forwards \cup {0}
        BY <1>1 DEF BindForwardRec
      <4> QED BY <4>1, <4>2
    <3>2. CASE g = f
      <4>1. forwards'[g] = r
        BY <3>2, <1>2
      <4>2. r.ln => r.link = forwards[f].link /\ r.link \in Forwards
        <5>1. r.link \in Forwards \cup {0}
          BY <1>3 DEF BindForwardRec
        <5> QED BY <5>1, <1>3
      <4>3. r.ln /\ links'[r.link].sv => links[forwards[f].link].sv
        BY <4>2 DEF BindShrinks
      <4> QED BY <4>1, <4>3, <1>3 DEF Link
    <3>3. CASE g # f
      <4>1. forwards'[g] = forwards[g]
        BY <3>3, <1>2
      <4>2. forwards[g].ln /\ links[forwards[g].link].sv => forwards[g].pc = "serving"
        BY DEF BindIInv, ListenerIsServed, Link
      <4>3. forwards[g].ln /\ links'[forwards[g].link].sv => links[forwards[g].link].sv
        BY <3>1 DEF BindShrinks
      <4> QED BY <3>1, <4>1, <4>2, <4>3
    <3> QED BY <3>2, <3>3
  <2> QED BY <2>1 DEF ListenerIsServed, Link
<1>7. ASSUME NEW g \in Forwards, forwards'[g].pc # "none"
      PROVE  forwards'[g].link # 0
  BY <1>2, <1>3, <1>7 DEF BindIInv, OnLink
<1>8. links' \in [Forwards -> BindLinkRec]
  BY DEF BindShrinks
<1> QED BY <1>4, <1>5, <1>6, <1>7, <1>8

(* No forward changes at all. *)
LEMMA BindNoForwardMoves ==
  ASSUME BindIInv, BindShrinks(links'), UNCHANGED <<forwards, port>>
  PROVE  /\ forwards' \in [Forwards -> BindForwardRec] /\ links' \in [Forwards -> BindLinkRec]
         /\ BoundHasPort' /\ ListenerIsServed'
         /\ \A g \in Forwards : forwards'[g].pc # "none" => forwards'[g].link # 0
<1>1. forwards \in [Forwards -> BindForwardRec]
  BY BindTypeParts DEF BindIInv
<1>2. links' \in [Forwards -> BindLinkRec]
  BY DEF BindShrinks
<1>3. BoundHasPort' /\ \A g \in Forwards : forwards'[g].pc # "none" => forwards'[g].link # 0
  BY DEF BindIInv, BoundHasPort, OnLink
<1>4. ListenerIsServed'
  <2>1. ASSUME NEW g \in Forwards, forwards[g].ln, links'[forwards[g].link].sv
        PROVE  forwards[g].pc = "serving"
    <3>1. forwards[g].link \in Forwards
      BY <1>1, <2>1 DEF BindIInv, ListenerIsServed, OnLink, BindForwardRec
    <3>2. links[forwards[g].link].sv
      BY <2>1, <3>1 DEF BindShrinks
    <3> QED BY <2>1, <3>2 DEF BindIInv, ListenerIsServed, Link
  <2> QED BY <2>1 DEF BindIInv, ListenerIsServed, Link
<1> QED BY <1>1, <1>2, <1>3, <1>4

(* The next state satisfies the invariant when its parts do. *)
LEMMA BindAssemble ==
  ASSUME protocol' \in Protocols, client' \in BindClientRec,
         links' \in [Forwards -> BindLinkRec], forwards' \in [Forwards -> BindForwardRec],
         port' \in Forwards \cup {0}, peers' \in [Peers -> BindPeerRec], breaks' \in 0 .. MaxBreaks,
         BoundHasPort', ListenerIsServed',
         client'.pc \in {"asking", "accept", "peer"} => client'.f # 0,
         \A g \in Forwards : forwards'[g].pc # "none" => forwards'[g].link # 0
  PROVE  BindIInv'
BY DEF BindIInv, BindTypeOK, BindClientRec, BindLinkRec, BindForwardRec, BindPeerRec, OnLink, Holding

(* What the invariant says of the client. *)
LEMMA BindClientFacts ==
  ASSUME BindIInv
  PROVE  /\ client \in BindClientRec /\ client.f \in Forwards \cup {0}
         /\ client.pc \in {"asking", "accept", "peer"} => client.f \in Forwards
         /\ forwards \in [Forwards -> BindForwardRec] /\ links \in [Forwards -> BindLinkRec]
         /\ protocol \in Protocols /\ port \in Forwards \cup {0} /\ peers \in [Peers -> BindPeerRec]
         /\ breaks \in 0 .. MaxBreaks /\ BindTypeOK
<1>1. BindTypeOK /\ client \in BindClientRec
  BY BindTypeParts DEF BindIInv
<1>2. client.f \in Forwards \cup {0}
  BY <1>1 DEF BindClientRec
<1>3. client.pc \in {"asking", "accept", "peer"} => client.f # 0
  BY DEF BindIInv, OnLink, Holding
<1> QED BY <1>1, <1>2, <1>3, BindTypeParts

(***************************************************************************)
(* What a forward becomes that the server ends: a slot that the client has *)
(* let go of is free, the others keep their listener.                      *)
(***************************************************************************)
LEMMA BindEndedFits ==
  ASSUME BindIInv, NEW f \in Forwards, NEW answer \in {"failed", "ended"}, port' # f,
         forwards[f].pc # "none", forwards[f].ln => answer = "ended" /\ ~Link(f).sv
  PROVE  \E r : BindFitsPort(f, r) /\ Ended(f, answer) = [forwards EXCEPT ![f] = r]
<1> DEFINE r == IF client.f = f \/ forwards[f].ln
                THEN [forwards[f] EXCEPT !.pc = answer, !.deaf = FALSE] ELSE NoForward
<1>1. Ended(f, answer) = [forwards EXCEPT ![f] = r]
  BY DEF Ended
<1>2. forwards[f] \in BindForwardRec
  BY BindTypeParts DEF BindIInv
<1>3. CASE client.f = f \/ forwards[f].ln
  <2>1. r = [forwards[f] EXCEPT !.pc = answer, !.deaf = FALSE]
    BY <1>3
  <2>2. /\ r \in BindForwardRec /\ r.pc = answer /\ r.ln = forwards[f].ln /\ r.link = forwards[f].link
    BY <2>1, <1>2 DEF BindForwardRec
  <2>3. r.link # 0
    BY <2>2 DEF BindIInv, OnLink
  <2> HIDE DEF r
  <2>4. BindFitsPort(f, r)
    BY <2>2, <2>3 DEF BindFitsPort
  <2> QED BY <2>4, <1>1
<1>4. CASE ~(client.f = f \/ forwards[f].ln)
  <2>1. r = NoForward
    BY <1>4
  <2>2. BindFitsPort(f, NoForward)
    BY BindBlankRecords DEF BindFitsPort, NoForward
  <2> HIDE DEF r
  <2> QED BY <2>1, <2>2, <1>1
<1> QED BY <1>3, <1>4

(* What a forward becomes that the client lets go of. *)
LEMMA BindDroppedFits ==
  ASSUME BindIInv, NEW f \in Forwards, port' = port
  PROVE  \E r : BindFitsPort(f, r) /\ Dropped(f) = [forwards EXCEPT ![f] = r]
<1> DEFINE r == IF forwards[f].pc \in {"failed", "ended"} THEN NoForward
                ELSE [forwards[f] EXCEPT !.ln = FALSE]
<1>1. Dropped(f) = [forwards EXCEPT ![f] = r]
  BY DEF Dropped
<1>2. forwards[f] \in BindForwardRec
  BY BindTypeParts DEF BindIInv
<1>3. forwards[f].pc \in {"bound", "serving"} <=> port' = f
  BY DEF BindIInv, BoundHasPort
<1>4. CASE forwards[f].pc \in {"failed", "ended"}
  <2>1. r = NoForward
    BY <1>4
  <2>2. BindFitsPort(f, NoForward)
    BY BindBlankRecords, <1>3, <1>4 DEF BindFitsPort, NoForward
  <2> HIDE DEF r
  <2> QED BY <2>1, <2>2, <1>1
<1>5. CASE forwards[f].pc \notin {"failed", "ended"}
  <2>1. r = [forwards[f] EXCEPT !.ln = FALSE]
    BY <1>5
  <2>2. /\ r \in BindForwardRec /\ r.pc = forwards[f].pc /\ r.ln = FALSE
        /\ r.link = forwards[f].link
    BY <2>1, <1>2 DEF BindForwardRec
  <2>3. r.pc # "none" => r.link # 0
    BY <2>2 DEF BindIInv, OnLink
  <2> HIDE DEF r
  <2>4. BindFitsPort(f, r)
    BY <2>2, <2>3, <1>3 DEF BindFitsPort
  <2> QED BY <2>4, <1>1
<1> QED BY <1>4, <1>5

-----------------------------------------------------------------------------
(* The client. *)

(***************************************************************************)
(* A new request: its slot holds nothing, and a connection that is dialled *)
(* is nobody's yet.                                                        *)
(***************************************************************************)
LEMMA BindStartBindKeeps ==
  ASSUME BindIInv, StartBind
  PROVE  BindIInv'
<1>1. PICK f \in Forwards, l \in Forwards :
        /\ Unused(f) /\ (links[l].cl \/ Idle(l))
        /\ client' = [client EXCEPT !.pc = "asking", !.f = f]
        /\ links' = IF links[l].cl THEN links
                    ELSE [links EXCEPT ![l] = [net |-> "up", cl |-> TRUE, sv |-> TRUE]]
        /\ forwards' = Asked(f, l)
  <2>1. PICK f \in Least({g \in Forwards : Unused(g)}), l \in Least(LinksToUse) :
          /\ client' = [client EXCEPT !.pc = "asking", !.f = f]
          /\ links' = IF links[l].cl THEN links
                      ELSE [links EXCEPT ![l] = [net |-> "up", cl |-> TRUE, sv |-> TRUE]]
          /\ forwards' = Asked(f, l)
    BY DEF StartBind
  <2>2. f \in Forwards /\ Unused(f)
    BY DEF Least
  <2>3. l \in LinksToUse
    BY DEF Least
  <2>4. l \in Forwards /\ (links[l].cl \/ Idle(l))
    BY <2>3 DEF LinksToUse
  <2> QED BY <2>1, <2>2, <2>4
<1>2. /\ client \in BindClientRec /\ forwards \in [Forwards -> BindForwardRec]
      /\ links \in [Forwards -> BindLinkRec] /\ BindTypeOK
  BY BindClientFacts
<1>3. UNCHANGED <<protocol, port, peers, breaks>>
  BY DEF StartBind
<1>4. f # 0 /\ l # 0
  BY Bounds
<1>5. client' \in BindClientRec /\ client'.f # 0
  BY <1>1, <1>2, <1>4 DEF BindClientRec
<1>6. ASSUME NEW g \in Forwards
      PROVE  /\ forwards'[g] \in BindForwardRec
             /\ forwards'[g].pc # "none" => forwards'[g].link # 0
             /\ forwards'[g].pc \in {"bound", "serving"} <=> port = g
             /\ forwards'[g].ln => /\ forwards'[g] = forwards[g]
                                   /\ links[l].cl \/ forwards[g].link # l
  <2>1. forwards[g] \in BindForwardRec
    BY <1>2
  <2>2. (forwards[g].pc \in {"bound", "serving"} <=> port = g)
        /\ (forwards[g].pc # "none" => forwards[g].link # 0)
    BY DEF BindIInv, BoundHasPort, OnLink
  <2>3. CASE g = f
    <3>1. forwards'[g] = [NoForward EXCEPT !.pc = "asked", !.link = l]
      BY <1>1, <2>3 DEF Asked
    <3>2. /\ forwards'[g].pc = "asked" /\ forwards'[g].link = l /\ forwards'[g].ln = FALSE
          /\ forwards'[g] \in BindForwardRec
      BY <3>1 DEF NoForward, BindForwardRec
    <3>3. port # g
      BY <1>1, <2>2, <2>3 DEF Unused
    <3> QED BY <3>2, <3>3, <1>4
  <2>4. CASE g # f /\ forwards[g].link = l /\ ~links[l].cl
    <3>1. forwards'[g] = NoForward
      BY <1>1, <2>4 DEF Asked
    <3>2. /\ forwards'[g].pc = "none" /\ forwards'[g].ln = FALSE
          /\ forwards'[g] \in BindForwardRec
      BY <3>1, BindBlankRecords DEF NoForward
    <3>3. port # g
      BY <1>1, <2>2, <2>4 DEF Idle, Unused
    <3> QED BY <3>2, <3>3
  <2>5. CASE g # f /\ ~(forwards[g].link = l /\ ~links[l].cl)
    <3>1. forwards'[g] = forwards[g]
      BY <1>1, <2>5 DEF Asked
    <3> QED BY <3>1, <2>1, <2>2, <2>5
  <2> QED BY <2>3, <2>4, <2>5
<1>7. forwards' \in [Forwards -> BindForwardRec]
  BY <1>1, <1>6 DEF Asked
<1>8. links' \in [Forwards -> BindLinkRec]
  <2>1. [net |-> "up", cl |-> TRUE, sv |-> TRUE] \in BindLinkRec
    BY DEF BindLinkRec
  <2> QED BY <2>1, <1>1, <1>2
<1>9. BoundHasPort'
  BY <1>3, <1>6 DEF BoundHasPort
<1>10. ListenerIsServed'
  <2>1. SUFFICES ASSUME NEW g \in Forwards, forwards'[g].ln
                 PROVE  /\ forwards'[g].pc \in {"serving", "ended"}
                        /\ links'[forwards'[g].link].sv => forwards'[g].pc = "serving"
    BY DEF ListenerIsServed, Link
  <2>2. forwards'[g] = forwards[g] /\ (links[l].cl \/ forwards[g].link # l)
    BY <2>1, <1>6
  <2>3. /\ forwards[g].pc \in {"serving", "ended"}
        /\ links[forwards[g].link].sv => forwards[g].pc = "serving"
    BY <2>1, <2>2 DEF BindIInv, ListenerIsServed, Link
  <2>4. links'[forwards[g].link] = links[forwards[g].link]
    BY <2>2, <1>1, <1>2
  <2> QED BY <2>2, <2>3, <2>4
<1> QED BY <1>3, <1>5, <1>6, <1>7, <1>8, <1>9, <1>10, BindClientFacts, BindAssemble

(***************************************************************************)
(* A step in which no forward changes and no connection comes back.        *)
(***************************************************************************)
LEMMA BindQuietKeeps ==
  ASSUME BindIInv, UNCHANGED <<protocol, forwards, port>>, BindShrinks(links'),
         client' \in BindClientRec, client'.pc \in {"asking", "accept", "peer"} => client'.f # 0,
         peers' \in [Peers -> BindPeerRec], breaks' \in 0 .. MaxBreaks
  PROVE  BindIInv'
BY BindNoForwardMoves, BindClientFacts, BindAssemble

(* A step in which forward f changes to r. *)
LEMMA BindForwardKeeps ==
  ASSUME BindIInv, NEW f \in Forwards, NEW r, BindFitsPort(f, r),
         forwards' = [forwards EXCEPT ![f] = r], BindShrinks(links'), UNCHANGED protocol,
         \A g \in Forwards : g # f => (port' = g <=> port = g), port' \in Forwards \cup {0},
         client' \in BindClientRec, client'.pc \in {"asking", "accept", "peer"} => client'.f # 0,
         peers' \in [Peers -> BindPeerRec], breaks' \in 0 .. MaxBreaks
  PROVE  BindIInv'
BY BindOneForward, BindClientFacts, BindAssemble

(* The server has said yes: the client listens on the forward. *)
LEMMA BindOKKeeps ==
  ASSUME BindIInv, Bind
  PROVE  BindIInv'
<1>f. PICK f : f = client.f
  OBVIOUS
<1>1. /\ f \in Forwards /\ forwards[f].pc = "serving" /\ forwards[f] \in BindForwardRec
      /\ client \in BindClientRec /\ BindTypeOK
  BY <1>f, BindClientFacts DEF Bind
<1> DEFINE r == [forwards[f] EXCEPT !.ln = TRUE]
<1>2. forwards' = [forwards EXCEPT ![f] = r]
  BY <1>f, <1>1, BindClientFacts DEF Bind
<1>3. r \in BindForwardRec /\ r.pc = "serving" /\ r.link = forwards[f].link /\ r.link # 0
  <2>1. r \in BindForwardRec /\ r.pc = "serving" /\ r.link = forwards[f].link
    BY <1>1 DEF BindForwardRec
  <2>2. forwards[f].link # 0
    BY <1>1 DEF BindIInv, OnLink
  <2> QED BY <2>1, <2>2
<1> HIDE DEF r
<1>4. port = f
  BY <1>1 DEF BindIInv, BoundHasPort
<1>5. UNCHANGED <<protocol, links, port, peers, breaks>> /\ client' = [client EXCEPT !.pc = "accept"]
  BY DEF Bind
<1>6. BindFitsPort(f, r)
  BY <1>3, <1>4, <1>5 DEF BindFitsPort
<1>7. client' \in BindClientRec /\ client'.f = client.f
  BY <1>1, <1>5 DEF BindClientRec
<1>8. client'.f # 0
  BY <1>f, <1>1, <1>7, Bounds
<1>9. BindShrinks(links')
  BY <1>1, <1>5, BindSameShrinks
<1> QED BY <1>1, <1>2, <1>5, <1>6, <1>7, <1>8, <1>9, BindClientFacts, BindForwardKeeps

LEMMA BindFailsKeeps ==
  ASSUME BindIInv, BindFails
  PROVE  BindIInv'
<1>f. PICK f : f = client.f
  OBVIOUS
<1>1. f \in Forwards /\ client \in BindClientRec /\ BindTypeOK
  BY <1>f, BindClientFacts DEF BindFails
<1>2. /\ UNCHANGED <<protocol, port, peers, breaks>> /\ forwards' = Dropped(f)
      /\ links' = WithoutClient(forwards[f].link)
      /\ client' = [client EXCEPT !.pc = "idle", !.f = 0]
  BY <1>f DEF BindFails
<1>3. PICK r : BindFitsPort(f, r) /\ forwards' = [forwards EXCEPT ![f] = r]
  BY <1>1, <1>2, BindDroppedFits
<1>4. client' \in BindClientRec /\ client'.pc = "idle"
  BY <1>1, <1>2 DEF BindClientRec
<1>5. BindShrinks(links')
  BY <1>1, <1>2, BindWithoutClientShrinks
<1> QED BY <1>1, <1>2, <1>3, <1>4, <1>5, BindClientFacts, BindForwardKeeps

LEMMA BindAcceptFailsKeeps ==
  ASSUME BindIInv, WaitFails
  PROVE  BindIInv'
<1>f. PICK f : f = client.f
  OBVIOUS
<1>1. f \in Forwards /\ client \in BindClientRec /\ BindTypeOK
  BY <1>f, BindClientFacts DEF WaitFails
<1>2. /\ UNCHANGED <<protocol, port, peers, breaks>> /\ forwards' = Dropped(f) /\ CloseSession(f)
      /\ client' = [client EXCEPT !.pc = "idle", !.f = 0, !.p = 0]
  BY <1>f DEF WaitFails
<1>3. PICK r : BindFitsPort(f, r) /\ forwards' = [forwards EXCEPT ![f] = r]
  BY <1>1, <1>2, BindDroppedFits
<1>4. client' \in BindClientRec /\ client'.pc = "idle"
  BY <1>1, <1>2 DEF BindClientRec
<1>5. BindShrinks(links')
  BY <1>1, <1>2, BindCloseSessionShrinks
<1> QED BY <1>1, <1>2, <1>3, <1>4, <1>5, BindClientFacts, BindForwardKeeps

(* Close gives the listener up, if Accept has one. *)
LEMMA BindCloseKeeps ==
  ASSUME BindIInv, Close
  PROVE  BindIInv'
<1>1. client \in BindClientRec /\ BindTypeOK /\ client.f \in Forwards \cup {0}
  BY BindClientFacts
<1>2. UNCHANGED <<protocol, port, peers, breaks>> /\ client' = [client EXCEPT !.closed = TRUE]
  BY DEF Close
<1>3. client' \in BindClientRec /\ client'.pc = client.pc /\ client'.f = client.f
  BY <1>1, <1>2 DEF BindClientRec
<1>4. client'.pc \in {"asking", "accept", "peer"} => client'.f # 0
  BY <1>3 DEF BindIInv, OnLink, Holding
<1>5. CASE Holding /\ client.pc # "asking"
  <2>f. PICK f : f = client.f
    OBVIOUS
  <2>1. f \in Forwards /\ forwards[f] \in BindForwardRec
    BY <2>f, <1>1, <1>5, BindClientFacts DEF Holding
  <2> DEFINE r == [forwards[f] EXCEPT !.ln = FALSE]
  <2>2. forwards' = [forwards EXCEPT ![f] = r] /\ CloseSession(f)
    BY <2>f, <2>1, <1>5, BindClientFacts DEF Close
  <2>3. r \in BindForwardRec /\ r.pc = forwards[f].pc /\ r.ln = FALSE /\ r.link = forwards[f].link
    BY <2>1 DEF BindForwardRec
  <2>4. r.pc # "none" => r.link # 0
    BY <2>1, <2>3 DEF BindIInv, OnLink
  <2>5. r.pc \in {"bound", "serving"} <=> port' = f
    BY <2>1, <2>3, <1>2 DEF BindIInv, BoundHasPort
  <2> HIDE DEF r
  <2>6. BindFitsPort(f, r)
    BY <2>3, <2>4, <2>5 DEF BindFitsPort
  <2>7. BindShrinks(links')
    BY <2>2, <1>1, BindCloseSessionShrinks
  <2> QED BY <2>1, <2>2, <2>6, <2>7, <1>2, <1>3, <1>4, BindClientFacts, BindForwardKeeps
<1>6. CASE ~(Holding /\ client.pc # "asking")
  <2>1. UNCHANGED <<forwards, links>>
    BY <1>6 DEF Close
  <2>2. BindShrinks(links')
    BY <2>1, <1>1, BindSameShrinks
  <2> QED BY <2>1, <2>2, <1>2, <1>3, <1>4, BindClientFacts, BindQuietKeeps
<1> QED BY <1>5, <1>6

(* The client moves on, with the forward it has or without. *)
LEMMA BindClientMovesKeeps ==
  ASSUME BindIInv, CallAccept \/ Stop \/ Restart
  PROVE  BindIInv'
<1>1. client \in BindClientRec /\ BindTypeOK
  BY BindClientFacts
<1>2. UNCHANGED <<protocol, links, forwards, port, peers, breaks>>
  BY DEF CallAccept, Stop, Restart
<1>3. BindShrinks(links')
  BY <1>1, <1>2, BindSameShrinks
<1>4. client' \in BindClientRec /\ (client'.pc \in {"asking", "accept", "peer"} => client'.f # 0)
  <2>1. CASE CallAccept
    <3>1. client' = [client EXCEPT !.pc = "accept"] /\ client.f # 0
      BY <2>1 DEF CallAccept, Holding
    <3> QED BY <3>1, <1>1 DEF BindClientRec
  <2>2. CASE Stop
    <3>1. client' = [client EXCEPT !.pc = "down"]
      BY <2>2 DEF Stop
    <3> QED BY <3>1, <1>1 DEF BindClientRec
  <2>3. CASE Restart
    <3>1. client' = [pc |-> "idle", f |-> 0, p |-> 0, closed |-> FALSE, lives |-> client.lives + 1]
      BY <2>3 DEF Restart
    <3>2. client.lives + 1 \in 1 .. MaxLives
      BY <2>3, <1>1, Bounds DEF Restart, BindClientRec
    <3> QED BY <3>1, <3>2 DEF BindClientRec
  <2> QED BY <2>1, <2>2, <2>3
<1> QED BY <1>2, <1>3, <1>4, BindClientFacts, BindQuietKeeps

(* A stream is taken, and its peer's address read. *)
LEMMA BindAcceptStreamKeeps ==
  ASSUME BindIInv, NEW p \in Peers, AcceptStream(p)
  PROVE  BindIInv'
<1>1. client \in BindClientRec /\ BindTypeOK /\ peers \in [Peers -> BindPeerRec] /\ peers[p] \in BindPeerRec
  BY BindClientFacts
<1>2. UNCHANGED <<protocol, links, forwards, port, breaks>> /\ client.pc = "accept"
  BY DEF AcceptStream
<1>3. client.f # 0
  BY <1>2 DEF BindIInv, OnLink, Holding
<1>4. BindShrinks(links')
  BY <1>1, <1>2, BindSameShrinks
<1>5. /\ client' \in BindClientRec /\ client'.f = client.f
      /\ peers' \in [Peers -> BindPeerRec]
  <2>1. CASE protocol = "ssh"
    <3>1. client' = [client EXCEPT !.pc = "idle"] /\ peers' = [peers EXCEPT ![p].at = "served"]
      BY <2>1 DEF AcceptStream
    <3>2. [peers[p] EXCEPT !.at = "served"] \in BindPeerRec
      BY <1>1 DEF BindPeerRec
    <3> QED BY <3>1, <3>2, <1>1 DEF BindClientRec
  <2>2. CASE protocol # "ssh"
    <3>1. client' = [client EXCEPT !.pc = "peer", !.p = p] /\ peers' = peers
      BY <2>2 DEF AcceptStream
    <3> QED BY <3>1, <1>1 DEF BindClientRec
  <2> QED BY <2>1, <2>2
<1> QED BY <1>2, <1>3, <1>4, <1>5, BindClientFacts, BindQuietKeeps

LEMMA BindPeerReplyKeeps ==
  ASSUME BindIInv, PeerReply
  PROVE  BindIInv'
<1>1. client \in BindClientRec /\ BindTypeOK /\ peers \in [Peers -> BindPeerRec]
  BY BindClientFacts
<1>2. /\ UNCHANGED <<protocol, links, forwards, port, breaks>>
      /\ client' = [client EXCEPT !.pc = "idle", !.p = 0]
      /\ peers' = [peers EXCEPT ![client.p].at = "served"]
  BY DEF PeerReply
<1>3. BindShrinks(links')
  BY <1>1, <1>2, BindSameShrinks
<1>4. client' \in BindClientRec /\ client'.pc = "idle"
  BY <1>1, <1>2 DEF BindClientRec
<1>5. \A q \in Peers : [peers[q] EXCEPT !.at = "served"] \in BindPeerRec
  BY <1>1 DEF BindPeerRec
<1>6. peers' \in [Peers -> BindPeerRec]
  BY <1>1, <1>2, <1>5
<1> QED BY <1>2, <1>3, <1>4, <1>6, BindClientFacts, BindQuietKeeps

-----------------------------------------------------------------------------
(* The server. *)

(* The client is left alone. *)
LEMMA BindSameClient ==
  ASSUME BindIInv, client' = client
  PROVE  client' \in BindClientRec /\ (client'.pc \in {"asking", "accept", "peer"} => client'.f # 0)
BY BindClientFacts DEF BindIInv, OnLink, Holding

(* The port is given to a forward that asks while nobody holds it. *)
LEMMA BindListenKeeps ==
  ASSUME BindIInv, NEW f \in Forwards, Listen(f)
  PROVE  BindIInv'
<1>1. BindTypeOK /\ forwards[f] \in BindForwardRec /\ f # 0 /\ 0 \notin Forwards
  BY BindClientFacts, BindZeroIsNoForward
<1>2. forwards[f].pc = "asked" /\ UNCHANGED <<protocol, client, peers, breaks>>
  BY DEF Listen
<1>3. ~forwards[f].ln /\ port # f
  BY <1>1, <1>2 DEF BindIInv, ListenerIsServed, BoundHasPort, BindForwardRec
<1>4. CASE port = 0
  <2> DEFINE r == [forwards[f] EXCEPT !.pc = "bound"]
  <2>1. port' = f /\ forwards' = [forwards EXCEPT ![f] = r] /\ links' = links
    BY <1>4 DEF Listen
  <2>2. r \in BindForwardRec /\ r.pc = "bound" /\ ~r.ln /\ r.link = forwards[f].link
    BY <1>1, <1>3 DEF BindForwardRec
  <2>3. r.link # 0
    BY <1>2, <2>2 DEF BindIInv, OnLink
  <2> HIDE DEF r
  <2>4. BindFitsPort(f, r)
    BY <2>1, <2>2, <2>3 DEF BindFitsPort
  <2>5. BindShrinks(links')
    BY <2>1, <1>1, BindSameShrinks
  <2>6. \A g \in Forwards : g # f => (port' = g <=> port = g)
    BY <1>1, <1>4, <2>1
  <2> QED BY <1>2, <2>1, <2>4, <2>5, <2>6, BindSameClient, BindClientFacts, BindForwardKeeps
<1>5. CASE port # 0
  <2>1. forwards' = Ended(f, "failed") /\ HangUp(f) /\ port' = port
    BY <1>5 DEF Listen
  <2>2. PICK r : BindFitsPort(f, r) /\ forwards' = [forwards EXCEPT ![f] = r]
    BY <1>2, <1>3, <2>1, BindEndedFits
  <2>3. BindShrinks(links')
    BY <2>1, <1>1, BindHangUpShrinks
  <2> QED BY <1>2, <2>1, <2>2, <2>3, BindSameClient, BindClientFacts, BindForwardKeeps
<1> QED BY <1>4, <1>5

LEMMA BindReplyKeeps ==
  ASSUME BindIInv, NEW f \in Forwards, Reply(f)
  PROVE  BindIInv'
<1>1. BindTypeOK /\ forwards[f] \in BindForwardRec
  BY BindClientFacts
<1> DEFINE r == [forwards[f] EXCEPT !.pc = "serving"]
<1>2. /\ forwards[f].pc = "bound" /\ UNCHANGED <<protocol, client, links, port, peers, breaks>>
      /\ forwards' = [forwards EXCEPT ![f] = r]
  BY DEF Reply
<1>3. r \in BindForwardRec /\ r.pc = "serving" /\ r.link = forwards[f].link
  BY <1>1 DEF BindForwardRec
<1> HIDE DEF r
<1>4. port = f /\ r.link # 0
  BY <1>2, <1>3 DEF BindIInv, BoundHasPort, OnLink
<1>5. BindFitsPort(f, r)
  BY <1>2, <1>3, <1>4 DEF BindFitsPort
<1>6. BindShrinks(links')
  BY <1>1, <1>2, BindSameShrinks
<1> QED BY <1>2, <1>5, <1>6, BindSameClient, BindClientFacts, BindForwardKeeps

LEMMA BindRefuseKeeps ==
  ASSUME BindIInv, NEW f \in Forwards, Refuse(f)
  PROVE  BindIInv'
<1>1. BindTypeOK /\ forwards[f] \in BindForwardRec
  BY BindClientFacts
<1>2. /\ forwards[f].pc = "asked" /\ UNCHANGED <<protocol, client, port, peers>>
      /\ forwards' = Ended(f, "ended") /\ HangUp(f)
  BY DEF Refuse
<1>3. ~forwards[f].ln /\ port # f
  BY <1>1, <1>2 DEF BindIInv, ListenerIsServed, BoundHasPort, BindForwardRec
<1>4. PICK r : BindFitsPort(f, r) /\ forwards' = [forwards EXCEPT ![f] = r]
  BY <1>2, <1>3, BindEndedFits
<1>5. BindShrinks(links')
  BY <1>1, <1>2, BindHangUpShrinks
<1>6. breaks' \in 0 .. MaxBreaks
  BY BindClientFacts, Bounds DEF Refuse
<1> QED BY <1>2, <1>4, <1>5, <1>6, BindSameClient, BindClientFacts, BindForwardKeeps

(* The port comes free with the session of the forward that holds it. *)
LEMMA BindReleaseKeeps ==
  ASSUME BindIInv, NEW f \in Forwards, Release(f)
  PROVE  BindIInv'
<1>1. BindTypeOK /\ forwards[f] \in BindForwardRec /\ f # 0 /\ 0 \notin Forwards
      /\ port \in Forwards \cup {0} /\ peers \in [Peers -> BindPeerRec]
  BY BindClientFacts, BindZeroIsNoForward
<1>2. /\ forwards[f].pc \in {"asked", "bound", "serving"} /\ ~Link(f).sv
      /\ UNCHANGED <<protocol, client, links, breaks>>
      /\ forwards' = Ended(f, "ended") /\ port' = IF port = f THEN 0 ELSE port
      /\ peers' = [p \in Peers |-> IF peers[p].f = f THEN Away ELSE peers[p]]
  BY DEF Release
<1>3. port' # f /\ port' \in Forwards \cup {0} /\ \A g \in Forwards : g # f => (port' = g <=> port = g)
  BY <1>1, <1>2
<1>4. PICK r : BindFitsPort(f, r) /\ forwards' = [forwards EXCEPT ![f] = r]
  BY <1>2, <1>3, BindEndedFits
<1>5. BindShrinks(links')
  BY <1>1, <1>2, BindSameShrinks
<1>6. peers' \in [Peers -> BindPeerRec]
  BY <1>1, <1>2, BindBlankRecords
<1> QED BY <1>2, <1>3, <1>4, <1>5, <1>6, BindSameClient, BindClientFacts, BindForwardKeeps

LEMMA BindServerAcceptFailsKeeps ==
  ASSUME BindIInv, NEW f \in Forwards, ServerAcceptFails(f)
  PROVE  BindIInv'
<1>1. BindTypeOK /\ forwards[f] \in BindForwardRec
  BY BindClientFacts
<1>2. forwards[f].pc = "serving" /\ UNCHANGED <<protocol, client, port, peers>>
  BY DEF ServerAcceptFails
<1>3. breaks' \in 0 .. MaxBreaks
  BY BindClientFacts, Bounds DEF ServerAcceptFails
<1>4. CASE links' = WithoutServer(forwards[f].link) /\ UNCHANGED forwards
  <2>1. BindShrinks(links')
    BY <1>1, <1>4, BindWithoutServerShrinks
  <2> QED BY <1>2, <1>3, <1>4, <2>1, BindSameClient, BindClientFacts, BindQuietKeeps
<1>5. CASE forwards' = [forwards EXCEPT ![f].deaf = TRUE] /\ UNCHANGED links
  <2> DEFINE r == [forwards[f] EXCEPT !.deaf = TRUE]
  <2>1. forwards' = [forwards EXCEPT ![f] = r]
    BY <1>5
  <2>2. r \in BindForwardRec /\ r.pc = "serving" /\ r.link = forwards[f].link
    BY <1>1, <1>2 DEF BindForwardRec
  <2> HIDE DEF r
  <2>3. port = f /\ r.link # 0
    BY <1>2, <2>2 DEF BindIInv, BoundHasPort, OnLink
  <2>4. BindFitsPort(f, r)
    BY <1>2, <2>2, <2>3 DEF BindFitsPort
  <2>5. BindShrinks(links')
    BY <1>1, <1>5, BindSameShrinks
  <2> QED BY <1>2, <1>3, <2>1, <2>4, <2>5, BindSameClient, BindClientFacts, BindForwardKeeps
<1> QED BY <1>4, <1>5 DEF ServerAcceptFails

-----------------------------------------------------------------------------
(* The network and the peers. *)

(* A step that changes one peer only. *)
LEMMA BindPeerMovesKeeps ==
  ASSUME BindIInv, NEW p \in Peers, NEW q \in BindPeerRec, peers' = [peers EXCEPT ![p] = q],
         UNCHANGED <<protocol, client, links, forwards, port, breaks>>
  PROVE  BindIInv'
<1>1. BindTypeOK /\ peers' \in [Peers -> BindPeerRec]
  BY BindClientFacts
<1>2. BindShrinks(links')
  BY <1>1, BindSameShrinks
<1> QED BY <1>1, <1>2, BindSameClient, BindClientFacts, BindQuietKeeps

LEMMA BindPeersKeep ==
  ASSUME BindIInv, NEW p \in Peers,
         ServerAccept(p) \/ OpenStream(p) \/ SendReply(p) \/ Connect(p) \/ Leave(p)
  PROVE  BindIInv'
<1>1. peers[p] \in BindPeerRec /\ port \in Forwards \cup {0}
  BY BindClientFacts
<1>2. \A a \in {"accepted", "opened", "replied"} : [peers[p] EXCEPT !.at = a] \in BindPeerRec
  BY <1>1 DEF BindPeerRec, Waiting
<1>3. CASE ServerAccept(p)
  <2>1. peers' = [peers EXCEPT ![p] = [peers[p] EXCEPT !.at = "accepted"]]
    BY <1>3 DEF ServerAccept
  <2> QED BY <1>2, <1>3, <2>1, BindPeerMovesKeeps DEF ServerAccept
<1>4. CASE OpenStream(p)
  <2> DEFINE q == IF protocol = "ssh" /\ ~forwards[peers[p].f].ln THEN Away
                  ELSE [peers[p] EXCEPT !.at = "opened"]
  <2>1. peers' = [peers EXCEPT ![p] = q]
    BY <1>4 DEF OpenStream
  <2>2. q \in BindPeerRec
    BY <1>2, BindBlankRecords
  <2> HIDE DEF q
  <2> QED BY <1>4, <2>1, <2>2, BindPeerMovesKeeps DEF OpenStream
<1>5. CASE SendReply(p)
  <2>1. peers' = [peers EXCEPT ![p] = [peers[p] EXCEPT !.at = "replied"]]
    BY <1>5 DEF SendReply
  <2> QED BY <1>2, <1>5, <2>1, BindPeerMovesKeeps DEF SendReply
<1>6. CASE Connect(p)
  <2>1. [at |-> "backlog", f |-> port] \in BindPeerRec
    BY <1>1 DEF BindPeerRec, Waiting
  <2> QED BY <1>6, <2>1, BindPeerMovesKeeps DEF Connect
<1>7. CASE Leave(p)
  BY <1>7, BindBlankRecords, BindPeerMovesKeeps DEF Leave
<1> QED BY <1>3, <1>4, <1>5, <1>6, <1>7

(* A connection breaks, or one of its ends finds out. *)
LEMMA BindNetworkKeeps ==
  ASSUME BindIInv, NEW l \in Forwards, Cut(l) \/ ClientNotices(l) \/ ServerNotices(l)
  PROVE  BindIInv'
<1>1. BindTypeOK /\ links \in [Forwards -> BindLinkRec] /\ links[l] \in BindLinkRec
  BY BindClientFacts
<1>2. UNCHANGED <<protocol, client, forwards, port, peers>>
  BY DEF Cut, ClientNotices, ServerNotices
<1>3. breaks' \in 0 .. MaxBreaks
  BY BindClientFacts, Bounds DEF Cut, ClientNotices, ServerNotices
<1>4. BindShrinks(links')
  <2>1. CASE Cut(l)
    <3> DEFINE r == [links[l] EXCEPT !.net = "cut"]
    <3>1. links' = [links EXCEPT ![l] = r]
      BY <2>1 DEF Cut
    <3>2. r \in BindLinkRec /\ r.sv = links[l].sv
      BY <1>1 DEF BindLinkRec
    <3> HIDE DEF r
    <3> QED BY <3>1, <3>2, <1>1 DEF BindShrinks
  <2>2. CASE ClientNotices(l)
    BY <2>2, <1>1, BindWithoutClientShrinks DEF ClientNotices
  <2>3. CASE ServerNotices(l)
    BY <2>3, <1>1, BindWithoutServerShrinks DEF ServerNotices
  <2> QED BY <2>1, <2>2, <2>3
<1> QED BY <1>2, <1>3, <1>4, BindSameClient, BindClientFacts, BindQuietKeeps

-----------------------------------------------------------------------------
(* At first nobody asks for the port. *)
LEMMA BindInitIInv == BindInit => BindIInv
<1> SUFFICES ASSUME BindInit PROVE BindIInv
  OBVIOUS
<1>1. /\ protocol \in Protocols /\ links = [l \in Forwards |-> NoLink]
      /\ client = [pc |-> "idle", f |-> 0, p |-> 0, closed |-> FALSE, lives |-> 1]
      /\ forwards = [f \in Forwards |-> NoForward] /\ port = 0
      /\ peers = [p \in Peers |-> Away] /\ breaks = 0
  BY DEF BindInit
<1>2. 1 \in 1 .. MaxLives /\ 0 \in 0 .. MaxBreaks
  BY Bounds
<1>3. client \in BindClientRec
  BY <1>1, <1>2 DEF BindClientRec
<1>4. BindTypeOK
  BY <1>1, <1>2, <1>3, BindBlankRecords, BindTypeParts
<1>5. BoundHasPort /\ ListenerIsServed /\ OnLink
  BY <1>1, Bounds DEF BoundHasPort, ListenerIsServed, OnLink, NoForward
<1> QED BY <1>4, <1>5 DEF BindIInv

LEMMA BindStutterKeeps ==
  ASSUME BindIInv, UNCHANGED bindVars
  PROVE  BindIInv'
BY DEF BindIInv, bindVars, BindTypeOK, BoundHasPort, ListenerIsServed, OnLink, Holding, Link

LEMMA BindNextKeeps ==
  ASSUME BindIInv, [BindNext]_bindVars
  PROVE  BindIInv'
<1>1. CASE ClientStep
  BY <1>1, BindStartBindKeeps, BindOKKeeps, BindFailsKeeps, BindClientMovesKeeps, BindPeerReplyKeeps,
     BindAcceptFailsKeeps DEF ClientStep
<1>2. CASE Close \/ Restart
  BY <1>2, BindCloseKeeps, BindClientMovesKeeps
<1>3. ASSUME NEW f \in Forwards, ServerStep(f) \/ Refuse(f) \/ ServerAcceptFails(f)
      PROVE  BindIInv'
  BY <1>3, BindListenKeeps, BindReplyKeeps, BindReleaseKeeps, BindRefuseKeeps, BindServerAcceptFailsKeeps
     DEF ServerStep
<1>4. ASSUME NEW l \in Forwards, Cut(l) \/ ClientNotices(l) \/ ServerNotices(l)
      PROVE  BindIInv'
  BY <1>4, BindNetworkKeeps
<1>5. ASSUME NEW p \in Peers, PeerStep(p) \/ Connect(p) \/ Leave(p)
      PROVE  BindIInv'
  BY <1>5, BindAcceptStreamKeeps, BindPeersKeep DEF PeerStep
<1>6. CASE UNCHANGED bindVars
  BY <1>6, BindStutterKeeps
<1> QED BY <1>1, <1>2, <1>3, <1>4, <1>5, <1>6 DEF BindNext

(***************************************************************************)
(* Remote port forwarding (listener/rtcp with the bind handlers): a client *)
(* that waits for peers over a connection that is whole waits for those of *)
(* the port, for any number of forwards, peers, faults and lives of the    *)
(* service, for each of the three protocols.                               *)
(***************************************************************************)
THEOREM BindWaitsWhereBound == BindSpec => []AcceptingIsBound
<1>1. BindIInv /\ [BindNext]_bindVars => BindIInv'
  BY BindNextKeeps
<1>2. BindIInv => AcceptingIsBound
  <2>1. SUFFICES ASSUME BindIInv, client.pc \in {"accept", "peer"}, Alive(client.f),
                        Carries(forwards[client.f].link)
                 PROVE  port = client.f /\ forwards[client.f].pc = "serving"
    BY DEF AcceptingIsBound, BindIInv
  <2>2. client.f \in Forwards
    BY <2>1, BindClientFacts
  <2>3. forwards[client.f].pc = "serving"
    BY <2>1, <2>2 DEF BindIInv, ListenerIsServed, Alive, Carries, Link
  <2> QED BY <2>1, <2>2, <2>3 DEF BindIInv, BoundHasPort
<1> QED BY <1>1, <1>2, BindInitIInv, PTL DEF BindSpec
=============================================================================
