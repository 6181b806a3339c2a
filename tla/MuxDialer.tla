----------------------------- MODULE MuxDialer -----------------------------
(***************************************************************************)
(* The dialers that multiplex (dialer/mtls, mws, ssh, sshd, kcp, quic,     *)
(* icmp, http2, http2/h2, grpc, http3, pht): each keeps one session, or    *)
(* one client, per address in a map and opens the streams of all dials to  *)
(* that address on it.  The map is locked inside Dial and inside           *)
(* Handshake, but not between them, and the route that called them closes  *)
(* connections on its own when it fails (chain/route.go).  Dial is given   *)
(* the address that the node's resolver or hosts make of its name, and     *)
(* Handshake the name itself, so the two may look at different entries.    *)
(***************************************************************************)
EXTENDS Naturals, Sequences, FiniteSets

CONSTANTS
  Dials,    \* dials in progress, or streams in use, at once
  Addrs,    \* the addresses of the node: its name, and what that may resolve to
  Name,     \* the one in its configuration
  Kinds,    \* the dialers looked at
  MaxSess,  \* bound on the number of connections ever made
  MaxFailed  \* bound on the count of failures kept

(***************************************************************************)
(* What tells the dialers apart.  shakes: Dial only connects, Handshake    *)
(* makes the session.  checks: Dial looks at IsClosed, for which an entry  *)
(* without a session is closed (pendingDead) or not.  foreignDrops: a      *)
(* Handshake with a connection that is not the entry's removes the entry.  *)
(* onError: what a stream that cannot be opened does to the entry.         *)
(* renews: the entry is a client that connects again by itself.            *)
(* connIs: what the connection handed out is, and hence what its Close     *)
(* closes: a stream, the session itself, or the entry in the map.          *)
(***************************************************************************)
Kind == [shakes: BOOLEAN, checks: BOOLEAN, pendingDead: BOOLEAN,
         foreignDrops: BOOLEAN, onError: {"drop", "keep"}, renews: BOOLEAN,
         connIs: {"stream", "session", "entry"}]

Smux == [shakes |-> TRUE, checks |-> TRUE, pendingDead |-> TRUE,
         foreignDrops |-> FALSE, onError |-> "drop", renews |-> FALSE,
         connIs |-> "stream"]

MTLS == Smux
MWS  == Smux
SSH  == [Smux EXCEPT !.pendingDead = FALSE, !.foreignDrops = TRUE, !.onError = "keep"]
SSHD == [SSH EXCEPT !.connIs = "session"]
KCP  == [Smux EXCEPT !.shakes = FALSE]
QUIC == [KCP EXCEPT !.checks = FALSE]
ICMP == QUIC
GRPC == [QUIC EXCEPT !.onError = "keep", !.renews = TRUE]
H2   == GRPC
HTTP3 == GRPC
PHTDialer == GRPC
HTTP2 == [GRPC EXCEPT !.connIs = "entry"]

(* All that have a Handshake look at IsClosed, and only http2's connection, which
   has none, is the entry. *)
ASSUME MuxDialerAssumption ==
  /\ Kinds \subseteq Kind
  /\ \A k \in Kinds : k.shakes => k.checks /\ k.connIs # "entry"
  /\ Name \in Addrs
  /\ MaxSess \in Nat /\ MaxFailed \in Nat

VARIABLES
  kind,    \* the dialer in this behaviour
  mapped,  \* its node has a resolver or hosts
  sess,    \* every connection made, and the session on it
  slot,    \* the map: the session of an address, 0 if none
  dials,   \* the dials
  quiet    \* by address: calm dials that failed, since one succeeded or something broke

vars == <<kind, mapped, sess, slot, dials, quiet>>

(* made: a session was negotiated.  up: the connection works.  seen: the
   session knows that it is closed, and IsClosed says so. *)
NewSess(a, made) == [addr |-> a, made |-> made, up |-> TRUE, seen |-> FALSE]

(* The address that Dial may be given, and the entry that is its session's. *)
Target(a) == mapped \/ a = Name

Home(a) == IF kind.shakes THEN Name ELSE a

(* Dial and Handshake look at different entries. *)
Split == mapped /\ kind.shakes

NoDial == [pc |-> "idle", addr |-> "none", conn |-> 0, calm |-> FALSE]

Busy == {"shake", "connect", "failing"}

Live(i) == sess[i].made /\ sess[i].up

Unseen(a) == \E i \in 1..Len(sess) : sess[i].addr = a /\ ~sess[i].up /\ ~sess[i].seen

(***************************************************************************)
(* A dial is calm while no other dial to its address is in progress, the   *)
(* network does nothing wrong and every session that broke is known to     *)
(* have.  quiet counts the calm dials that fail one after the other.       *)
(***************************************************************************)
Calm(d, a) == /\ \A e \in Dials \ {d} : dials[e].addr = a => dials[e].pc \notin Busy
              /\ ~Unseen(a)

Disturb(a) == [e \in Dials |-> IF dials[e].addr = a THEN [dials[e] EXCEPT !.calm = FALSE]
                               ELSE dials[e]]

Failed(a, calm) ==
  quiet' = [quiet EXCEPT ![a] = IF ~calm THEN 0
                                ELSE IF @ < MaxFailed THEN @ + 1 ELSE @]

----------------------------------------------------------------------------
(* The entry holds a session.  What Handshake makes it stores under the name. *)
Holds(a) == sess[slot[a]].made /\ Home(a) = a

(* session.IsClosed, of the entry *)
IsClosed(a) == IF Holds(a) THEN sess[slot[a]].seen ELSE kind.pendingDead

(* A variant with a fault: the entry is used without looking at it. *)
UsableUnchecked(a) == slot[a] # 0

(* The entry that Dial goes on with, unless it finds it closed. *)
Usable(a) == slot[a] # 0 /\ ~(kind.checks /\ IsClosed(a))

(* The network, or the peer, fails the dial: not a calm one then. *)
DialError(d, a) ==
  /\ dials[d].pc = "idle" /\ Target(a)
  /\ ~Usable(a)
  /\ slot' = [slot EXCEPT ![a] = 0]
  /\ dials' = Disturb(a)
  /\ UNCHANGED <<kind, mapped, sess, quiet>>

(* Dial makes a connection, and with it the session if there is no Handshake. *)
DialNew(d, a) ==
  /\ dials[d].pc = "idle" /\ Target(a)
  /\ ~Usable(a)
  /\ Len(sess) < MaxSess
  /\ sess' = Append(sess, NewSess(a, ~kind.shakes))
  /\ slot' = [slot EXCEPT ![a] = Len(sess) + 1]
  /\ dials' = [Disturb(a) EXCEPT ![d] =
                 [pc |-> IF kind.shakes THEN "shake" ELSE "connect", addr |-> a,
                  conn |-> Len(sess) + 1, calm |-> Calm(d, a)]]
  /\ UNCHANGED <<kind, mapped, quiet>>

(* Dial returns the connection of the entry, for Handshake to work on. *)
DialShared(d, a) ==
  /\ dials[d].pc = "idle" /\ Target(a)
  /\ kind.shakes /\ Usable(a)
  /\ dials' = [Disturb(a) EXCEPT ![d] =
                 [pc |-> "shake", addr |-> a, conn |-> slot[a], calm |-> Calm(d, a)]]
  /\ UNCHANGED <<kind, mapped, sess, slot, quiet>>

(***************************************************************************)
(* Dial opens a stream on the entry's session.  A session that is known to *)
(* be closed refuses, and is dropped; a client connects again.             *)
(***************************************************************************)
DialStream(d, a) ==
  LET i == slot[a]
      opens == kind.renews \/ ~sess[i].seen
  IN  /\ dials[d].pc = "idle" /\ Target(a)
      /\ ~kind.shakes /\ Usable(a)
      /\ sess' = IF kind.renews THEN [sess EXCEPT ![i] = NewSess(a, TRUE)] ELSE sess
      /\ slot' = IF opens THEN slot ELSE [slot EXCEPT ![a] = 0]
      /\ dials' = IF opens
                  THEN [Disturb(a) EXCEPT ![d] =
                          [pc |-> "connect", addr |-> a, conn |-> i, calm |-> Calm(d, a)]]
                  ELSE Disturb(a)
      /\ IF opens THEN UNCHANGED quiet ELSE Failed(a, Calm(d, a))
      /\ UNCHANGED <<kind, mapped>>

(* The client cannot connect again: the entry is kept all the same. *)
RenewError(d, a) ==
  /\ dials[d].pc = "idle" /\ Target(a)
  /\ kind.renews /\ slot[a] # 0
  /\ dials' = Disturb(a)
  /\ UNCHANGED <<kind, mapped, sess, slot, quiet>>

----------------------------------------------------------------------------
(* Close of a connection; the session on it notices later. *)
Kill(i) == [sess EXCEPT ![i].up = FALSE]

(* A variant with a fault: the entry of the others is removed, as by ssh. *)
HandshakeForeignDrops(d) ==
  LET x == dials[d]
  IN  /\ x.pc = "shake"
      /\ slot[Name] \notin {0, x.conn}
      /\ sess' = Kill(x.conn)
      /\ slot' = [slot EXCEPT ![Name] = 0]
      /\ dials' = [dials EXCEPT ![d].pc = "failing"]
      /\ UNCHANGED <<kind, mapped, quiet>>

(* "unrecognized connection": the entry was replaced since Dial, or it is the
   session of a connection that was dialed at another address. *)
HandshakeForeign(d) ==
  LET x == dials[d]
  IN  /\ x.pc = "shake"
      /\ slot[Name] \notin {0, x.conn}
      /\ sess' = Kill(x.conn)
      /\ slot' = IF kind.foreignDrops THEN [slot EXCEPT ![Name] = 0] ELSE slot
      /\ dials' = [dials EXCEPT ![d].pc = "failing"]
      /\ UNCHANGED <<kind, mapped, quiet>>

Initiates(x) == slot[Name] = 0 \/ (slot[Name] = x.conn /\ ~sess[x.conn].made)

(* initSession, on a connection that works and has no session yet. *)
HandshakeInit(d) ==
  LET x == dials[d]
  IN  /\ x.pc = "shake"
      /\ Initiates(x)
      /\ sess[x.conn].up /\ ~sess[x.conn].made
      /\ sess' = [sess EXCEPT ![x.conn].made = TRUE]
      /\ slot' = [slot EXCEPT ![Name] = x.conn]
      /\ dials' = [dials EXCEPT ![d].pc = "connect"]
      /\ UNCHANGED <<kind, mapped, quiet>>

(* A variant with a fault: the entry without a session stays in the map. *)
InitFailsKeepingEntry(d) ==
  LET x == dials[d]
  IN  /\ x.pc = "shake"
      /\ Initiates(x)
      /\ sess' = Kill(x.conn)
      /\ dials' = [dials EXCEPT ![d].pc = "failing",
                     ![d].calm = @ /\ ~(sess[x.conn].up /\ ~sess[x.conn].made)]
      /\ UNCHANGED <<kind, mapped, slot, quiet>>

(* initSession fails, as it must on a connection in use or broken. *)
HandshakeInitFails(d) ==
  LET x == dials[d]
  IN  /\ x.pc = "shake"
      /\ Initiates(x)
      /\ sess' = Kill(x.conn)
      /\ slot' = [slot EXCEPT ![Name] = 0]
      /\ dials' = [dials EXCEPT ![d].pc = "failing",
                     ![d].calm = @ /\ ~(sess[x.conn].up /\ ~sess[x.conn].made)]
      /\ UNCHANGED <<kind, mapped, quiet>>

(***************************************************************************)
(* A stream is opened on the session that is there.  One that is known to  *)
(* be closed is removed; one that is broken may not show it yet, and ssh   *)
(* keeps the entry when the peer refuses.                                  *)
(***************************************************************************)
HandshakeStream(d) ==
  LET x == dials[d]
  IN  /\ x.pc = "shake"
      /\ slot[Name] = x.conn /\ sess[x.conn].made
      /\ \/ /\ ~sess[x.conn].seen
            /\ dials' = [dials EXCEPT ![d].pc = "connect"]
            /\ UNCHANGED slot
         \/ /\ sess[x.conn].seen
            /\ slot' = [slot EXCEPT ![Name] = 0]
            /\ dials' = [dials EXCEPT ![d].pc = "failing"]
         \/ /\ kind.onError = "keep" /\ kind.connIs = "stream"
            /\ dials' = [dials EXCEPT ![d].pc = "failing", ![d].calm = FALSE]
            /\ UNCHANGED slot
      /\ UNCHANGED <<kind, mapped, sess, quiet>>

----------------------------------------------------------------------------
(* route.connect after a failed Handshake: it closes what Dial returned,
   which is the connection of the session, shared or not. *)
CloseDialed(d) ==
  LET x == dials[d]
  IN  /\ x.pc = "failing"
      /\ sess' = Kill(x.conn)
      /\ dials' = [dials EXCEPT ![d] = NoDial]
      /\ Failed(x.addr, x.calm)
      /\ UNCHANGED <<kind, mapped, slot>>

(* The connector's own handshake on the new stream fails. *)
ConnectorFails(d) ==
  LET x == dials[d]
  IN  /\ x.pc = "connect"
      /\ dials' = IF kind.shakes THEN [dials EXCEPT ![d].pc = "failing", ![d].calm = FALSE]
                  ELSE [dials EXCEPT ![d] = NoDial]
      /\ slot' = IF kind.connIs = "entry" THEN [slot EXCEPT ![x.addr] = 0] ELSE slot
      /\ UNCHANGED <<kind, mapped, sess, quiet>>

Succeed(d) ==
  LET x == dials[d]
  IN  /\ x.pc = "connect"
      /\ dials' = [dials EXCEPT ![d].pc = "open", ![d].calm = FALSE]
      /\ quiet' = [quiet EXCEPT ![x.addr] = 0]
      /\ UNCHANGED <<kind, mapped, sess, slot>>

(* route.Dial: the node cannot reach the target, so what Handshake returned is
   closed: a stream, or for sshd the session, or for http2 the entry. *)
TargetFails(d) ==
  LET x == dials[d]
  IN  /\ x.pc = "open"
      /\ sess' = IF kind.connIs = "session" THEN Kill(x.conn) ELSE sess
      /\ slot' = IF kind.connIs = "entry" THEN [slot EXCEPT ![x.addr] = 0] ELSE slot
      /\ dials' = IF kind.connIs = "session" THEN [Disturb(x.addr) EXCEPT ![d] = NoDial]
                  ELSE [dials EXCEPT ![d] = NoDial]
      /\ quiet' = [quiet EXCEPT ![x.addr] = 0]
      /\ UNCHANGED <<kind, mapped>>

(* The stream's user is done with it. *)
Close(d) ==
  /\ dials[d].pc = "open"
  /\ dials' = [dials EXCEPT ![d] = NoDial]
  /\ UNCHANGED <<kind, mapped, sess, slot, quiet>>

----------------------------------------------------------------------------
(* The network breaks a connection, and the session on it finds out. *)
Break(i) ==
  /\ sess[i].up
  /\ sess' = Kill(i)
  /\ dials' = Disturb(sess[i].addr)
  /\ quiet' = [quiet EXCEPT ![sess[i].addr] = 0]
  /\ UNCHANGED <<kind, mapped, slot>>

Notice(i) ==
  /\ ~sess[i].up /\ ~sess[i].seen
  /\ sess' = [sess EXCEPT ![i].seen = TRUE]
  /\ UNCHANGED <<kind, mapped, slot, dials, quiet>>

Init ==
  /\ kind \in Kinds /\ mapped \in BOOLEAN
  /\ sess = <<>>
  /\ slot = [a \in Addrs |-> 0]
  /\ dials = [d \in Dials |-> NoDial]
  /\ quiet = [a \in Addrs |-> 0]

Next ==
  \/ \E d \in Dials, a \in Addrs :
       \/ DialError(d, a) \/ DialNew(d, a) \/ DialShared(d, a)
       \/ DialStream(d, a) \/ RenewError(d, a)
  \/ \E d \in Dials :
       \/ HandshakeForeign(d) \/ HandshakeInit(d) \/ HandshakeInitFails(d)
       \/ HandshakeStream(d)
       \/ CloseDialed(d) \/ ConnectorFails(d) \/ Succeed(d)
       \/ TargetFails(d) \/ Close(d)
  \/ \E i \in 1..Len(sess) : Break(i) \/ Notice(i)

Spec == Init /\ [][Next]_vars

----------------------------------------------------------------------------
SessRecord == [addr: Addrs, made: BOOLEAN, up: BOOLEAN, seen: BOOLEAN]

DialRecord == [pc: Busy \cup {"idle", "open"}, addr: Addrs \cup {"none"},
               conn: Nat, calm: BOOLEAN]

(* The shape of the map, the sessions and the dials. *)
TypeOK ==
  /\ kind \in Kinds /\ mapped \in BOOLEAN
  /\ sess \in Seq(SessRecord)
  /\ slot \in [Addrs -> 0..Len(sess)]
  /\ dials \in [Dials -> DialRecord]
  /\ \A d \in Dials : dials[d].conn <= Len(sess)
  /\ quiet \in [Addrs -> 0..MaxFailed]

(***************************************************************************)
(* A session that works is never lost sight of: it is the entry that       *)
(* Handshake looks at, so that no second one is made beside it, and the    *)
(* entry that Dial looks at, so that every later dial shares it.  Dial     *)
(* does not with a Handshake on a node that has a resolver or hosts.  ssh  *)
(* and sshd have neither, a Handshake that comes late removes the entry of *)
(* the others; nor has http2, where a target that cannot be reached does.  *)
(***************************************************************************)
LiveIsShared ==
  /\ TypeOK
  /\ ~kind.foreignDrops /\ kind.connIs # "entry" =>
       \A i \in 1..Len(sess) : Live(i) =>
         /\ slot[Home(sess[i].addr)] = i
         /\ ~Split => slot[sess[i].addr] = i

(***************************************************************************)
(* An entry without a session is somebody's who is still about to make it: *)
(* no dial that went wrong leaves one behind for the others to stumble on. *)
(* What a Dial to a resolved address left is nobody's, for the session     *)
(* goes under the name.                                                    *)
(***************************************************************************)
PendingHasDialer ==
  \A a \in Addrs : slot[a] # 0 /\ ~sess[slot[a]].made =>
    \/ \E d \in Dials : dials[d].pc = "shake" /\ dials[d].conn = slot[a]
    \/ Split /\ a # Name

(***************************************************************************)
(* Whatever broke before, a dial that nobody and nothing disturbs gets     *)
(* through: at once where Dial looks at IsClosed, and at the latest with   *)
(* the second attempt where it does not.  With a Handshake on a node that  *)
(* has a resolver or hosts none may ever get through again.                *)
(***************************************************************************)
QuietDialSucceeds ==
  ~Split => \A a \in Addrs : quiet[a] <= IF kind.checks THEN 0 ELSE 1

----------------------------------------------------------------------------
(* What makes these inductive. *)

(* The entry of an address is a session to it, the name if there is nothing to
   resolve it; only Handshake makes them late. *)
SessOK ==
  /\ \A a \in Addrs : slot[a] # 0 => Split \/ sess[slot[a]].addr = a
  /\ \A i \in 1..Len(sess) : /\ sess[i].seen => ~sess[i].up
                             /\ ~kind.shakes => sess[i].made
                             /\ mapped \/ sess[i].addr = Name

DialOK ==
  \A d \in Dials : dials[d].pc # "idle" =>
    /\ dials[d].conn # 0 /\ dials[d].addr \in Addrs
    /\ Split \/ sess[dials[d].conn].addr = dials[d].addr
    /\ dials[d].pc \in {"shake", "failing"} => kind.shakes

(* A calm dial is alone at its address, and what it works on is in order. *)
CalmAt(d) ==
  /\ dials[d].pc # "failing"
  /\ dials[d].pc \in Busy => \A e \in Dials \ {d} :
       dials[e].addr = dials[d].addr => dials[e].pc \notin Busy
  /\ dials[d].pc = "shake" =>
       /\ slot[dials[d].addr] = dials[d].conn
       /\ sess[dials[d].conn].up

CalmOK == ~Split => \A d \in Dials : dials[d].calm => CalmAt(d)

(* After a failure the next attempt makes a session, or finds one that works. *)
QuietOK ==
  ~Split => \A a \in Addrs : quiet[a] # 0 =>
    /\ ~kind.checks /\ quiet[a] = 1
    /\ slot[a] # 0 => sess[slot[a]].up

IInv ==
  /\ LiveIsShared /\ PendingHasDialer
  /\ SessOK /\ DialOK /\ CalmOK /\ QuietOK
=============================================================================
