------------------------------ MODULE MC_Conns ------------------------------
(***************************************************************************)
(* Connections that are made of something else: the plain HTTP tunnel and  *)
(* those with a handshake on the way, one of them in each behaviour.       *)
(***************************************************************************)
EXTENDS PHT, LazyConn

VARIABLE tunnel  \* whether it is the plain HTTP tunnel

Kind(name, cnow, snow, udp) == [name |-> name, cnow |-> cnow, snow |-> snow, udp |-> udp]

SomeKinds ==
  {Kind(name, FALSE, FALSE, FALSE) : name \in {"ohttp", "otls", "sni"}}
    \cup {Kind("ss", cnow, FALSE, FALSE) : cnow \in BOOLEAN}
    \cup {Kind("relay", cnow, snow, udp) : cnow \in BOOLEAN, snow \in BOOLEAN, udp \in BOOLEAN}

ConnsInit ==
  /\ tunnel \in BOOLEAN
  /\ PhtInit /\ LazyInit
  /\ tunnel => kind = Kind("sni", FALSE, FALSE, FALSE)

ConnsNext ==
  /\ \/ tunnel /\ PhtNext /\ UNCHANGED lazyVars
     \/ ~tunnel /\ LazyNext /\ UNCHANGED phtVars
  /\ UNCHANGED tunnel

(* Fairness of PHT and LazyConn, for the one that is there. *)
ConnsFairness ==
  /\ WF_phtVars(tunnel /\ Pull) /\ WF_phtVars(tunnel /\ HandlePull)
  /\ WF_phtVars(tunnel /\ Scan) /\ WF_phtVars(tunnel /\ PullDone) /\ WF_phtVars(tunnel /\ Read)
  /\ WF_lazyVars(~tunnel /\ TakeResponse)
  /\ WF_lazyVars(~tunnel /\ (Take \/ RefuseRequest))
  /\ \A e \in BothEnds : WF_lazyVars(~tunnel /\ Reading(e))

ConnsSpec == ConnsInit /\ [][ConnsNext]_<<phtVars, lazyVars, tunnel>> /\ ConnsFairness

----------------------------------------------------------------------------
(***************************************************************************)
(* Nothing is lost between two ends, nor out of order, nor made up by what *)
(* carries it: Conserved of PHT, ReadInOrder of LazyConn.                  *)
(***************************************************************************)
DataInOrder == Conserved /\ ReadInOrder

(***************************************************************************)
(* Nobody waits for what never comes: the tunnel is pulled again and again *)
(* (AlwaysPulled), and a handshake on the way holds up nobody who has data *)
(* (Arrives of LazyConn).                                                  *)
(***************************************************************************)
GoesOn == AlwaysPulled /\ Arrives
=============================================================================
