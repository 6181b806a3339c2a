----------------------------- MODULE TunHandler -----------------------------
(***************************************************************************)
(* The tun and tap handlers between a network device and a peer.  Handle   *)
(* opens a socket and starts a goroutine that reads the device and one     *)
(* that reads the socket; on the first error of either it closes the       *)
(* socket, pauses and opens another, on the same device.  The goroutine    *)
(* that reads the device knows nothing of that until its next packet.  A   *)
(* tun server learns the peer's address from keep-alives, a tap server     *)
(* from every frame, and the table of routes is the handler's: it stays    *)
(* when the device goes.                                                   *)
(***************************************************************************)
EXTENDS Naturals, FiniteSets

CONSTANTS
  Addrs,     \* the peer's addresses
  NoAddr,    \* none of them
  MaxFaults, \* bound on failures of socket, device, association, keep-alive, and
             \* on the readers left when a tap client tries a device that is gone
  MaxMoves   \* bound on changes of the peer's address

(***************************************************************************)
(* server, client: of tun; silent: a tun client without keep-alives.  A    *)
(* tap client sends frames and nothing else.                               *)
(***************************************************************************)
TunModes == {"server", "client", "silent"}
TapModes == {"tapserver", "tapclient"}

VARIABLES
  mode,    \* the handler in this behaviour
  pc,      \* the loop of Handle
  up,      \* the device works
  exit,    \* tap: h.exit holds a token
  udp,    \* the socket: up, down, or dead (an association that went silently)
  errc,    \* the error that arrived first in errc
  dr,      \* the goroutine that reads the device for this socket
  nr,      \* the goroutine that reads the socket
  from,    \* where the keep-alive it handles is from
  ka,      \* client: the goroutine that sends keep-alives
  timed,   \* client: the socket has a read deadline
  stale,   \* goroutines that read the device for sockets closed since
  late,    \* addresses that goroutines of closed sockets are about to store
  route,   \* the entry of the peer in h.routes
  cur,     \* the peer's address
  hellos,  \* addresses that keep-alives, or frames, under way are from
  moves,   \* how often it changed
  faults,  \* failures so far
  lost     \* packets for the peer read from the device and lost, broadcasts apart

sides == <<exit, from, ka, timed, stale, late, route, cur, hellos, moves, faults, lost>>
vars == <<mode, pc, up, udp, errc, dr, nr, sides>>

IsTap == mode \in TapModes
IsServer == mode \in {"server", "tapserver"}

(* Sends to errc, of which the loop takes the first. *)
Fail(e) == errc' = IF errc = "none" THEN e ELSE errc

Fault == faults < MaxFaults /\ faults' = faults + 1

----------------------------------------------------------------------------
(* The loop of handleServer, handleClient and tap's handleLoop. *)

(* The listener's device comes to Handle; a tap client that cannot resolve its
   peer returns at once. *)
Start ==
  /\ pc = "none"
  /\ pc' \in IF mode = "tapclient" THEN {"dial", "done"} ELSE {"dial"}
  /\ up' = TRUE
  /\ UNCHANGED <<mode, udp, errc, dr, nr, sides>>

Dial ==
  /\ pc = "dial"
  /\ pc' = "work" /\ udp' = "up" /\ errc' = "none"
  /\ dr' = "read" /\ nr' = "read"
  /\ ka' = IF mode \in {"client", "silent"} THEN "start" ELSE "end"
  /\ timed' = FALSE
  /\ UNCHANGED <<mode, up, exit, from, stale, late, route, cur, hellos, moves, faults, lost>>

DialFails ==
  /\ pc = "dial"
  /\ pc' = IF exit THEN "done" ELSE "pause"
  /\ UNCHANGED <<mode, up, udp, errc, dr, nr, sides>>

Resume ==
  /\ pc = "pause"
  /\ pc' = "dial"
  /\ UNCHANGED <<mode, up, udp, errc, dr, nr, sides>>

(* A variant with a fault: any error of tun is met with another socket. *)
EndsNever == IsTap /\ exit

(* The error that ends tun's loop is the device's; tap's looks for h.exit. *)
Ends == IF IsTap THEN exit ELSE errc = "device"

(* An error: the socket is closed, which ends the goroutine that reads it, after
   the route it may be about to store; the device's reader stays. *)
Settle ==
  /\ pc = "work" /\ errc # "none"
  /\ pc' = IF Ends THEN "done" ELSE "pause"
  /\ udp' = "down" /\ dr' = "end" /\ nr' = "end" /\ ka' = "end"
  /\ errc' = "none" /\ timed' = FALSE /\ from' = NoAddr
  /\ stale' = IF dr = "read" THEN stale + 1 ELSE stale
  /\ late' = IF nr = "store" THEN late \cup {from} ELSE late
  /\ UNCHANGED <<mode, up, exit, route, cur, hellos, moves, faults, lost>>

(* Handle returns and closes the device, whose readers end; tap stops the process. *)
Return ==
  /\ pc = "done"
  /\ pc' = "none" /\ stale' = 0
  /\ UNCHANGED <<mode, up, udp, errc, dr, nr, exit, from, ka, timed, late, route, cur, hellos,
                 moves, faults, lost>>

----------------------------------------------------------------------------
(* The goroutine that reads the device. *)

(* The packet has a receiver: a client's always, a server's once it has a route. *)
Routed == IsServer => route # NoAddr

(* Reading fails: the device is gone. *)
DeviceFails ==
  /\ dr = "read" /\ ~up
  /\ dr' = "end" /\ Fail("device")
  /\ exit' = IsTap
  /\ UNCHANGED <<mode, pc, up, udp, nr, from, ka, timed, stale, late, route, cur, hellos, moves,
                 faults, lost>>

(* A packet for the peer, and the socket does not take it. *)
SendFails ==
  /\ dr = "read" /\ up /\ Routed /\ udp = "down"
  /\ dr' = "end" /\ Fail("socket")
  /\ lost' = lost + 1
  /\ UNCHANGED <<mode, pc, up, udp, nr, exit, from, ka, timed, stale, late, route, cur, hellos,
                 moves, faults>>

(* A variant with a fault: the goroutine goes on when a send fails. *)
StaleSendOn ==
  /\ stale > 0 /\ up /\ Routed /\ lost <= MaxFaults
  /\ lost' = lost + 1
  /\ UNCHANGED <<mode, pc, up, udp, errc, dr, nr, exit, from, ka, timed, stale, late, route, cur,
                 hellos, moves, faults>>

(* A goroutine of a closed socket gets the packet instead: it fails and ends.  A tap
   server's broadcast leaves it as it is, since another goroutine sends those. *)
StaleSend ==
  /\ stale > 0 /\ up /\ Routed /\ lost <= MaxFaults
  /\ lost' = lost + 1 /\ stale' = stale - 1
  /\ UNCHANGED <<mode, pc, up, udp, errc, dr, nr, exit, from, ka, timed, late, route, cur, hellos,
                 moves, faults>>

StaleFails ==
  /\ stale > 0 /\ ~up
  /\ stale' = stale - 1
  /\ exit' = IsTap
  /\ UNCHANGED <<mode, pc, up, udp, errc, dr, nr, from, ka, timed, late, route, cur, hellos, moves,
                 faults, lost>>

----------------------------------------------------------------------------
(* The goroutine that reads the socket. *)

(* Reading fails. *)
ReceiveFails ==
  /\ nr = "read" /\ udp = "down"
  /\ nr' = "end" /\ Fail("socket")
  /\ UNCHANGED <<mode, pc, up, udp, dr, sides>>

(* Three periods have passed without an answer to a keep-alive. *)
Timeout ==
  /\ nr = "read" /\ timed /\ (udp = "dead" \/ ka = "end")
  /\ nr' = "end" /\ Fail("socket")
  /\ UNCHANGED <<mode, pc, up, udp, dr, sides>>

(* A packet from the peer, and the device does not take it; a tap client takes
   that for an error like any other. *)
DeliverFails ==
  /\ nr = "read" /\ udp = "up" /\ ~up /\ stale < MaxFaults
  /\ nr' = "end"
  /\ Fail(IF IsTap THEN "socket" ELSE "device")
  /\ exit' = (exit \/ mode = "tapserver")
  /\ UNCHANGED <<mode, pc, up, udp, dr, from, ka, timed, stale, late, route, cur, hellos, moves,
                 faults, lost>>

(* A keep-alive that passes the checks; tap learns from any frame, unasked. *)
Hear(a) ==
  /\ IsServer /\ nr = "read" /\ udp = "up"
  /\ a \in hellos
  /\ hellos' = hellos \ {a} /\ from' = a
  /\ nr' = IF IsTap THEN "store" ELSE "answer"
  /\ UNCHANGED <<mode, pc, up, udp, errc, dr, exit, ka, timed, stale, late, route, cur, moves,
                 faults, lost>>

(* The answer is sent before the route is stored, and if that fails it is not. *)
Answer ==
  /\ nr = "answer" /\ udp = "up"
  /\ nr' = "store"
  /\ UNCHANGED <<mode, pc, up, udp, errc, dr, sides>>

AnswerFails ==
  /\ nr = "answer"
  /\ nr' = "read" /\ from' = NoAddr
  /\ UNCHANGED <<mode, pc, up, udp, errc, dr, exit, ka, timed, stale, late, route, cur, hellos,
                 moves, faults, lost>>

(* A variant with a fault: LoadOrStore alone, which keeps the first address. *)
KeptFirst(a) == IF route = NoAddr THEN a ELSE route

(* updateRoute. *)
Updated(a) == a

Store ==
  /\ nr = "store"
  /\ nr' = "read" /\ route' = Updated(from) /\ from' = NoAddr
  /\ UNCHANGED <<mode, pc, up, udp, errc, dr, exit, ka, timed, stale, late, cur, hellos, moves,
                 faults, lost>>

(* The same of a goroutine whose socket was closed meanwhile. *)
StoreLate(a) ==
  /\ a \in late
  /\ late' = late \ {a} /\ route' = Updated(a)
  /\ UNCHANGED <<mode, pc, up, udp, errc, dr, nr, exit, from, ka, timed, stale, cur, hellos, moves,
                 faults, lost>>

----------------------------------------------------------------------------
(* The goroutine of a tun client that sends keep-alives. *)

(* The first one is sent; with keep-alives the read deadline is set after it. *)
Greet ==
  /\ ka = "start"
  /\ ka' = IF mode = "client" THEN "beat" ELSE "end"
  /\ timed' = (mode = "client")
  /\ UNCHANGED <<mode, pc, up, udp, errc, dr, nr, exit, from, stale, late, route, cur, hellos, moves,
                 faults, lost>>

(* It, or a later one, cannot be sent: the goroutine ends, without a word. *)
GreetFails ==
  /\ ka \in {"start", "beat"} /\ Fault
  /\ ka' = "end"
  /\ UNCHANGED <<mode, pc, up, udp, errc, dr, nr, exit, from, timed, stale, late, route, cur, hellos,
                 moves, lost>>

----------------------------------------------------------------------------
(* The peer, the network and the device. *)

SocketFails ==
  /\ pc = "work" /\ udp = "up" /\ Fault
  /\ udp' = "down"
  /\ UNCHANGED <<mode, pc, up, errc, dr, nr, exit, from, ka, timed, stale, late, route, cur, hellos,
                 moves, lost>>

(* What the client's socket goes through forgets it: nothing comes back any more. *)
AssociationDies ==
  /\ ~IsServer /\ pc = "work" /\ udp = "up" /\ Fault
  /\ udp' = "dead"
  /\ UNCHANGED <<mode, pc, up, errc, dr, nr, exit, from, ka, timed, stale, late, route, cur, hellos,
                 moves, lost>>

DeviceGone ==
  /\ pc \in {"dial", "work", "pause"} /\ up /\ Fault
  /\ up' = FALSE
  /\ UNCHANGED <<mode, pc, udp, errc, dr, nr, exit, from, ka, timed, stale, late, route, cur, hellos,
                 moves, lost>>

Hello ==
  /\ IsServer /\ pc # "none"
  /\ hellos' = hellos \cup {cur}
  /\ UNCHANGED <<mode, pc, up, udp, errc, dr, nr, exit, from, ka, timed, stale, late, route, cur,
                 moves, faults, lost>>

HelloLost(a) ==
  /\ a \in hellos
  /\ hellos' = hellos \ {a}
  /\ UNCHANGED <<mode, pc, up, udp, errc, dr, nr, exit, from, ka, timed, stale, late, route, cur,
                 moves, faults, lost>>

Move(a) ==
  /\ IsServer /\ pc # "none" /\ a # cur
  /\ moves < MaxMoves /\ moves' = moves + 1
  /\ cur' = a
  /\ UNCHANGED <<mode, pc, up, udp, errc, dr, nr, exit, from, ka, timed, stale, late, route, hellos,
                 faults, lost>>

----------------------------------------------------------------------------
Init ==
  /\ mode \in TunModes \cup TapModes
  /\ pc = "none" /\ up = FALSE /\ exit = FALSE
  /\ udp = "down" /\ errc = "none" /\ dr = "end" /\ nr = "end"
  /\ from = NoAddr /\ ka = "end" /\ timed = FALSE
  /\ stale = 0 /\ late = {} /\ route = NoAddr
  /\ cur = (CHOOSE a \in Addrs : TRUE) /\ hellos = {} /\ moves = 0
  /\ faults = 0 /\ lost = 0

(* What happens between Start and Return. *)
Work ==
  \/ Dial \/ DialFails \/ Resume \/ Settle
  \/ DeviceFails \/ SendFails \/ StaleSend \/ StaleFails
  \/ ReceiveFails \/ Timeout \/ DeliverFails \/ Answer \/ AnswerFails \/ Store
  \/ Greet \/ GreetFails
  \/ SocketFails \/ AssociationDies \/ DeviceGone \/ Hello
  \/ \E a \in Addrs : Hear(a) \/ StoreLate(a) \/ HelloLost(a) \/ Move(a)

(***************************************************************************)
(* Goroutines that can go on do, deadlines pass, the peer goes on sending, *)
(* and of the many attempts to dial, to get a keep-alive of the peer       *)
(* through and to answer it some succeed.                                  *)
(***************************************************************************)
Fairness ==
  /\ WF_vars(Resume \/ Settle) /\ SF_vars(Dial)
  /\ WF_vars(DeviceFails)
  /\ WF_vars(ReceiveFails \/ Timeout \/ Answer \/ AnswerFails \/ Store) /\ SF_vars(Answer)
  /\ WF_vars(\E a \in Addrs : StoreLate(a))
  /\ WF_vars(Greet)
  /\ WF_vars(Hello) /\ SF_vars(Hear(cur))

----------------------------------------------------------------------------
TypeOK ==
  /\ mode \in TunModes \cup TapModes
  /\ pc \in {"none", "dial", "work", "pause", "done"}
  /\ up \in BOOLEAN /\ exit \in BOOLEAN /\ timed \in BOOLEAN
  /\ udp \in {"up", "down", "dead"}
  /\ errc \in {"none", "socket", "device"}
  /\ dr \in {"read", "end"} /\ nr \in {"read", "answer", "store", "end"}
  /\ ka \in {"start", "beat", "end"}
  /\ from \in Addrs \cup {NoAddr} /\ route \in Addrs \cup {NoAddr} /\ cur \in Addrs
  /\ late \in SUBSET Addrs /\ hellos \in SUBSET Addrs
  /\ faults \in 0..MaxFaults /\ moves \in 0..MaxMoves /\ lost \in 0..(MaxFaults + 1)
  /\ stale \in Nat /\ stale <= MaxFaults + faults

(***************************************************************************)
(* The goroutines that stay behind on the device take packets of those     *)
(* that come after them, but each only one: no more packets for the peer   *)
(* are lost than failures happened.  A tap server's broadcasts are not     *)
(* counted: such a goroutine does not learn that they failed.              *)
(***************************************************************************)
LossBounded ==
  lost <= faults /\ (up => lost + stale <= faults)

----------------------------------------------------------------------------
(***************************************************************************)
(* Why it is: the reader of a socket that has failed already, or is about  *)
(* to be given up, may cost a packet once the socket is replaced; the      *)
(* failure that pays for it has happened.                                  *)
(***************************************************************************)
Owed == dr = "read" /\ (udp # "up" \/ errc # "none" \/ (timed /\ ka = "end"))

PaidFor ==
  /\ up => lost + stale <= faults
  /\ up /\ Owed => lost + stale < faults
  /\ Owed => stale < MaxFaults + faults

(* Outside its work the handler has no reader, and without a device none is left. *)
AtRest ==
  /\ pc # "work" => dr = "end"
  /\ pc = "none" => stale = 0
  /\ nr \in {"answer", "store"} => from \in Addrs

IInv == TypeOK /\ LossBounded /\ PaidFor /\ AtRest

----------------------------------------------------------------------------
(* A client that could not send its first keep-alive sends none and waits without
   a deadline: as long as its socket takes packets, nothing makes it try again. *)
Unheard == ka = "end" /\ ~timed

(***************************************************************************)
(* Peers that move, sockets and associations that fail, and keep-alives    *)
(* that come late or out of order: in the end a server sends to where its  *)
(* peer is, and a client with keep-alives has an association that works.   *)
(***************************************************************************)
PeersMeet ==
  <>[](pc = "work" =>
         /\ IsServer => route = cur
         /\ mode = "client" => (udp = "up" /\ ka = "beat") \/ Unheard)
=============================================================================
