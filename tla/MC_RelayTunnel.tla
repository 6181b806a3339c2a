--------------------------- MODULE MC_RelayTunnel ---------------------------
(***************************************************************************)
(* The two handlers with a loop over the HTTP requests of a visitor, the   *)
(* tunnels of relay and forwarding, one of them in each behaviour.         *)
(***************************************************************************)
EXTENDS RelayTunnel, ForwardHTTP

VARIABLE tunnels  \* whether it is the relay handler

Setup(a, b, d, v, w, reqs, breaks) ==
  [net |-> [c \in Connectors |-> CASE c = "a" -> a [] c = "b" -> b [] OTHER -> d],
   use |-> [x \in Visitors |-> IF x = "v" THEN v ELSE w], reqs |-> reqs, breaks |-> breaks]

(* An HTTP visitor alone, with another visitor, and two that look up three
   connectors, one of which may be for UDP and takes part in their turn. *)
SomeSetups ==
  {Setup("tcp", "tcp", "none", "http", "none", 2, 1),
   Setup("tcp", "none", "none", "http", "connect", 1, 1),
   Setup("tcp", "tcp", "none", "raw", "connect", 0, 1),
   Setup("tcp", "tcp", "udp", "connect", "none", 0, 3),
   Setup("tcp", "tcp", "tcp", "raw", "none", 0, 3)}

Way(local, hop, nodes, waits) ==
  [local |-> local, hop |-> hop, nodes |-> nodes, waits |-> waits, reqs |-> 2]

(* Without a hop every request has a node of its own, whatever it is. *)
SomeForwards ==
  {Way(TRUE, TRUE, Nodes, FALSE), Way(FALSE, TRUE, Nodes, TRUE), Way(FALSE, FALSE, {"x"}, FALSE)}

HttpInit ==
  /\ tunnels \in BOOLEAN
  /\ TunnelInit /\ ForwardInit
  /\ IF tunnels THEN forward = Way(FALSE, FALSE, {"x"}, FALSE)
     ELSE setup = Setup("tcp", "tcp", "tcp", "raw", "none", 0, 3)

HttpNext ==
  /\ \/ tunnels /\ TunnelNext /\ UNCHANGED forwardVars
     \/ ~tunnels /\ ForwardNext /\ UNCHANGED tunnelVars
  /\ UNCHANGED tunnels

(* Fairness of RelayTunnel and ForwardHTTP, for the one that is there. *)
HttpFairness ==
  /\ \A s \in Streams : WF_tunnelVars(tunnels /\ Copy(s))
  /\ \A k \in 1..MaxRequests : WF_forwardVars(~tunnels /\ Copied(k))

HttpSpec == HttpInit /\ [][HttpNext]_<<tunnelVars, forwardVars, tunnels>> /\ HttpFairness

----------------------------------------------------------------------------
(***************************************************************************)
(* What a visitor is sent fits its requests, in tunnels (AnswersInOrder)   *)
(* and in forwarding (ForwardedInOrder).                                   *)
(***************************************************************************)
AnswersFitRequests == AnswersInOrder /\ ForwardedInOrder

(***************************************************************************)
(* Nothing that the handler of a visitor opened stays behind when it is    *)
(* done.  What stays would stay for good, as a handler that is done opens  *)
(* nothing: so time and again nothing is left of those done by then.       *)
(***************************************************************************)
NothingStays == []<>(StreamsClosed /\ NodesClosed)
=============================================================================
