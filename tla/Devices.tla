------------------------------ MODULE Devices ------------------------------
(***************************************************************************)
(* The listeners of Listeners with the tun and tap handlers of TunHandler: *)
(* the device that Serve takes from the listener is the one the handler    *)
(* works on, and the handler's return is what the listener's loop waits    *)
(* for before it creates the next.  Handlers of the other listeners do as  *)
(* they like.                                                              *)
(***************************************************************************)
EXTENDS Listeners

CONSTANTS Addrs, NoAddr, MaxFaults, MaxMoves

ASSUME DevicesAssumption ==
  /\ NoAddr \notin Addrs /\ Addrs # {}
  /\ MaxFaults \in Nat /\ MaxMoves \in Nat

VARIABLES mode, pc, up, exit, udp, errc, dr, nr, from, ka, timed, stale, late, route, cur,
          hellos, moves, faults, lost

T == INSTANCE TunHandler

handlerVars == <<mode, pc, up, exit, udp, errc, dr, nr, from, ka, timed, stale, late, route, cur,
                 hellos, moves, faults, lost>>
devVars == <<vars, handlerVars>>

(* A handler is at work on a device. *)
InUse == kind.style = "device" /\ \E c \in Conns : conns[c] = "open"

(* A step of service and listener: the handler is called, has returned, or is not concerned. *)
ServiceStep ==
  /\ Next
  /\ CASE ~InUse /\ InUse' -> T!Start
       [] InUse /\ ~InUse' -> T!Return
       [] InUse <=> InUse' -> UNCHANGED handlerVars

(* A step of the handler, whose goroutines may outlast it. *)
HandlerStep ==
  /\ T!Work /\ ~Stopped
  /\ UNCHANGED vars

(* tun or tap goes with its own listener. *)
DevInit ==
  /\ Init /\ T!Init
  /\ mode \in IF kind = TUN THEN T!TunModes ELSE T!TapModes
  /\ kind.style # "device" => mode = "tapclient"

DevNext == ServiceStep \/ HandlerStep

(* A handler that is done returns; the listener's loop sees that its device ended. *)
DevSpec ==
  /\ DevInit /\ [][DevNext]_devVars
  /\ Fairness /\ T!Fairness
  /\ WF_vars(\E c \in Conns : Handled(c) /\ pc = "done")
  /\ WF_vars(DevWait)

----------------------------------------------------------------------------
(***************************************************************************)
(* The handler works exactly while its device is open, there is one device *)
(* at a time, and what its readers lose is bounded.                        *)
(***************************************************************************)
DevicesSound ==
  /\ T!TypeOK
  /\ OneDevice
  /\ InUse <=> pc # "none"
  /\ T!LossBounded

(* What is inductive: the listener's part, the handler's, and that they agree. *)
DevIInv == IInv /\ T!IInv /\ (InUse <=> pc # "none")

(***************************************************************************)
(* A device that is gone is given up: handler and readers end, whatever    *)
(* socket they were about to open, and the listener's loop creates another *)
(* unless the service was closed; tap ends the process.                    *)
(***************************************************************************)
DeviceReplaced ==
  InUse /\ ~up ~> (~InUse /\ loop \in {"create", "done"}) \/ serve = "exited"

PeersMeet == T!PeersMeet
=============================================================================
