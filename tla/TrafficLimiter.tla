--------------------------- MODULE TrafficLimiter ---------------------------
(***************************************************************************)
(* The traffic limiter (limiter/traffic) and the connections that use it   *)
(* (limiter/traffic/wrapper).  One object keeps a limiter for the service  *)
(* ("$"), one per client host and one per connection ("$$"), in caches of  *)
(* their own; a reload goes through the caches one after the other and     *)
(* sets, adds or removes limiters, while connections look theirs up and    *)
(* keep what they found for a second.  Nothing but the table of networks   *)
(* is locked.  Input and output are two instances of the same code.        *)
(***************************************************************************)
EXTENDS Integers, Sequences, FiniteSets

CONSTANTS
  Conns,       \* client connections
  HostOf,      \* the host of each
  Rules,       \* the rule sets a reload may find
  MaxReloads,  \* bound on the number of reloads
  MaxData,     \* how many bytes come in on a connection
  MaxLims      \* limiters in use at once

Hosts == {HostOf[c] : c \in Conns}

NotListed == -1   \* the rules have no line for this address

(***************************************************************************)
(* A parsed rule set: the limits of "$" and "$$", of an address with a     *)
(* line of its own, and of the first network that contains an address.     *)
(* 0: no limit in this direction.                                          *)
(***************************************************************************)
Rule == [all: Nat, conn: Nat, ip: [Hosts -> Nat \cup {NotListed}], cidr: [Hosts -> Nat]]

ASSUME TrafficLimiterAssumption ==
  /\ Rules \subseteq Rule
  /\ MaxReloads \in Nat /\ MaxData \in Nat /\ MaxLims \in Nat

Lims == 1..MaxLims

VARIABLES
  rules,     \* the rule set loaded last
  heap,      \* the limit, and burst, of every limiter
  all,       \* the limiter of the service, 0 if none
  hostLims,  \* the limiters of hosts, 0 if not cached
  connLims,  \* the limiters of connections, 0 if not cached
  gen,       \* the limit that a new connection's limiter gets
  ranger,    \* the networks' limits
  rl,        \* the reload in progress
  look,      \* by connection: the look-up in progress
  held,      \* by connection: the group found last, if not older than 1s
  io,        \* by connection: the Read or Write in progress
  late,      \* limiters stored by a look-up that overlapped with a reload
  before,    \* gen before it changed last
  served     \* whether every rule set so far had a limit for the service

caches == <<all, hostLims, connLims>>
tables == <<rules, gen, ranger>>
history == <<late, before, served>>
trafficVars == <<tables, heap, caches, rl, look, held, io, history>>

NoGroup == {0}      \* the group must be looked up

NoLook == [pc |-> "idle", grp |-> {}, new |-> 0, late |-> FALSE]

NoReload == [pc |-> "idle", old |-> 0, n |-> 0, todo |-> {}, snap |-> [h \in Hosts |-> 0]]

(* The limiters that something still refers to. *)
Used == {all} \cup {hostLims[h] : h \in Hosts} \cup {rl.snap[h] : h \in Hosts}
          \cup UNION {{connLims[c], look[c].new} \cup look[c].grp \cup held[c] \cup io[c].grp
                         : c \in Conns}

(* NewLimiter, while there is room for one. *)
Fresh == CHOOSE l \in Lims : l \notin Used

Room == \E l \in Lims : l \notin Used

Set(l, n) == [heap EXCEPT ![l] = n]

----------------------------------------------------------------------------
(***************************************************************************)
(* reload, from load to the service's limiter: set in place if there is    *)
(* one, else added; removed when the rules have none.  A loader that fails *)
(* leaves its lines out of the rule set.                                   *)
(***************************************************************************)
(* A reload overtakes the look-ups that have read something already. *)
Overtake == look' = [c \in Conns |-> [look[c] EXCEPT !.late = look[c].pc # "idle"]]

ReloadService(r) ==
  /\ rl.pc = "idle" /\ rl.n < MaxReloads
  /\ all = 0 /\ r.all # 0 => Room
  /\ rules' = r
  /\ IF r.all = 0 THEN all' = 0 /\ heap' = heap
     ELSE IF all # 0 THEN all' = all /\ heap' = Set(all, r.all)
     ELSE all' = Fresh /\ heap' = Set(Fresh, r.all)
  /\ rl' = [rl EXCEPT !.pc = "gen", !.n = rl.n + 1]
  /\ served' = (served /\ r.all > 0)
  /\ Overtake
  /\ UNCHANGED <<hostLims, connLims, gen, ranger, held, io, late, before>>

(* The generator of connection limiters is replaced, and the old kept aside. *)
ReloadGenerator ==
  /\ rl.pc = "gen"
  /\ gen' = rules.conn
  /\ rl' = [rl EXCEPT !.pc = "conns", !.old = gen]
  /\ before' = IF gen = rules.conn THEN before ELSE gen
  /\ Overtake
  /\ UNCHANGED <<rules, ranger, heap, caches, held, io, late, served>>

(* A variant with a fault: the limiters of open connections are left alone. *)
LeaveConns ==
  /\ rl.pc = "conns"
  /\ connLims' = IF rules.conn = 0 THEN [c \in Conns |-> 0] ELSE connLims
  /\ rl' = [rl EXCEPT !.pc = "snap"]
  /\ Overtake
  /\ UNCHANGED <<tables, heap, all, hostLims, held, io, late, before, served>>

(* A variant with a fault: they are set without a look at the new rule. *)
SetConnsAlways ==
  /\ rl.pc = "conns"
  /\ LET cached == {connLims[c] : c \in Conns} \ {0}
     IN  heap' = [l \in Lims |-> IF l \in cached THEN rules.conn ELSE heap[l]]
  /\ rl' = [rl EXCEPT !.pc = "snap"]
  /\ Overtake
  /\ UNCHANGED <<tables, caches, held, io, late, before, served>>

(***************************************************************************)
(* The limiters of open connections: dropped when there is no such rule    *)
(* any more; when the rule has changed, set to what it was before.         *)
(***************************************************************************)
ReloadConns ==
  LET cached == {connLims[c] : c \in Conns} \ {0}
      change == rules.conn > 0 /\ rl.old # rules.conn
  IN  /\ rl.pc = "conns"
      /\ connLims' = IF rules.conn = 0 THEN [c \in Conns |-> 0] ELSE connLims
      /\ heap' = [l \in Lims |-> IF change /\ l \in cached THEN rl.old ELSE heap[l]]
      /\ late' = IF change /\ rl.old > 0 THEN late \ cached ELSE late
      /\ rl' = [rl EXCEPT !.pc = "snap"]
      /\ Overtake
      /\ UNCHANGED <<tables, all, hostLims, held, io, before, served>>

(* The snapshot of the host limiters. *)
ReloadSnapshot ==
  /\ rl.pc = "snap"
  /\ rl' = [rl EXCEPT !.pc = "hosts", !.todo = Hosts, !.snap = hostLims]
  /\ Overtake
  /\ UNCHANGED <<tables, heap, caches, held, io, history>>

(***************************************************************************)
(* A host with a line of its own: its limiter is set, removed or added.    *)
(* Such hosts come before the rest, in any order.                          *)
(***************************************************************************)
ReloadListed(h) ==
  LET n == rules.ip[h]
      l == hostLims[h]
  IN  /\ rl.pc = "hosts" /\ h \in rl.todo
      /\ n # NotListed
      /\ l = 0 /\ n > 0 => Room
      /\ IF l # 0 /\ n = 0 THEN hostLims' = [hostLims EXCEPT ![h] = 0] /\ heap' = heap
         ELSE IF l # 0 THEN heap' = Set(l, n) /\ hostLims' = hostLims
         ELSE IF n > 0 THEN heap' = Set(Fresh, n) /\ hostLims' = [hostLims EXCEPT ![h] = Fresh]
         ELSE UNCHANGED <<heap, hostLims>>
      /\ late' = late \ (IF l # 0 \/ n <= 0 THEN {l} ELSE {Fresh})
      /\ rl' = [rl EXCEPT !.todo = @ \ {h},
                          !.snap[h] = IF l # 0 THEN 0 ELSE @]
      /\ Overtake
      /\ UNCHANGED <<tables, all, connLims, held, io, before, served>>

(* A variant with a fault: a host that no rule covers keeps its limiter. *)
KeepUnlisted(h) ==
  LET n == rules.cidr[h]
      l == rl.snap[h]
  IN  /\ rl.pc = "hosts" /\ h \in rl.todo
      /\ \A k \in rl.todo : rules.ip[k] = NotListed
      /\ heap' = IF l # 0 /\ n > 0 THEN Set(l, n) ELSE heap
      /\ late' = late \ {l}
      /\ rl' = [rl EXCEPT !.todo = @ \ {h}, !.snap[h] = 0]
      /\ Overtake
      /\ UNCHANGED <<tables, all, hostLims, connLims, held, io, before, served>>

(***************************************************************************)
(* A host of the snapshot without a line of its own: its limiter follows   *)
(* the network it is in, and is removed if there is none.                  *)
(***************************************************************************)
ReloadUnlisted(h) ==
  LET n == rules.cidr[h]
      l == rl.snap[h]
  IN  /\ rl.pc = "hosts" /\ h \in rl.todo
      /\ \A k \in rl.todo : rules.ip[k] = NotListed
      /\ heap' = IF l # 0 /\ n > 0 THEN Set(l, n) ELSE heap
      /\ hostLims' = IF l # 0 /\ n = 0 THEN [hostLims EXCEPT ![h] = 0] ELSE hostLims
      /\ late' = late \ {l}
      /\ rl' = [rl EXCEPT !.todo = @ \ {h}, !.snap[h] = 0]
      /\ Overtake
      /\ UNCHANGED <<tables, all, connLims, held, io, before, served>>

(* The new table of networks, under the lock. *)
ReloadRanger ==
  /\ rl.pc = "hosts" /\ rl.todo = {}
  /\ ranger' = rules.cidr
  /\ rl' = [NoReload EXCEPT !.n = rl.n]
  /\ Overtake
  /\ UNCHANGED <<rules, gen, heap, caches, held, io, history>>

----------------------------------------------------------------------------
(***************************************************************************)
(* In and Out.  Each access to a cache, the generators or the networks is  *)
(* a step.                                                                 *)
(***************************************************************************)
Goto(c, pc, grp, new) ==
  look' = [look EXCEPT ![c] = [pc |-> pc, grp |-> grp, new |-> new, late |-> @.late]]

Found(c, grp) ==
  /\ look' = [look EXCEPT ![c] = NoLook]
  /\ held' = [held EXCEPT ![c] = grp]

(* NewTrafficLimiter has loaded the first rule set before anyone looks up. *)
Ready == rl.n > 1 \/ (rl.n = 1 /\ rl.pc = "idle")

LookService(c) ==
  /\ Ready
  /\ io[c].pc = "idle" /\ held[c] = NoGroup /\ look[c].pc = "idle"
  /\ look' = [look EXCEPT ![c] = [NoLook EXCEPT !.pc = "conn", !.grp = {all} \ {0}]]
  /\ UNCHANGED <<tables, heap, caches, rl, held, io, history>>

(* The connection's limiter is stored again, for another 15 seconds. *)
LookConn(c) ==
  LET l == connLims[c]
  IN  /\ look[c].pc = "conn"
      /\ look' = [look EXCEPT ![c] = [pc |-> IF l = 0 THEN "gen" ELSE "store",
                    grp |-> @.grp \cup ({l} \ {0}), new |-> l, late |-> FALSE]]
  /\ UNCHANGED <<tables, heap, caches, rl, held, io, history>>

LookGenerator(c) ==
  /\ look[c].pc = "gen"
  /\ gen # 0 => Room
  /\ IF gen = 0 THEN Goto(c, "host", look[c].grp, 0) /\ UNCHANGED <<heap, late>>
     ELSE /\ heap' = Set(Fresh, gen)
          /\ late' = late \ {Fresh}
          /\ look' = [look EXCEPT ![c] =
               [pc |-> "store", grp |-> @.grp \cup {Fresh}, new |-> Fresh, late |-> FALSE]]
  /\ UNCHANGED <<tables, caches, rl, held, io, before, served>>

StoreConn(c) ==
  /\ look[c].pc = "store"
  /\ connLims' = [connLims EXCEPT ![c] = look[c].new]
  /\ late' = IF connLims[c] # look[c].new /\ (look[c].late \/ rl.pc # "idle")
             THEN late \cup {look[c].new} ELSE late
  /\ Goto(c, "host", look[c].grp, 0)
  /\ UNCHANGED <<tables, heap, all, hostLims, rl, held, io, before, served>>

LookHost(c) ==
  /\ look[c].pc = "host"
  /\ IF hostLims[HostOf[c]] # 0
     THEN Found(c, look[c].grp \cup {hostLims[HostOf[c]]})
     ELSE /\ look' = [look EXCEPT ![c].pc = "ranger", ![c].late = FALSE]
          /\ UNCHANGED held
  /\ UNCHANGED <<tables, heap, caches, rl, io, history>>

LookRanger(c) ==
  LET n == ranger[HostOf[c]]
  IN  /\ look[c].pc = "ranger"
      /\ n # 0 => Room
      /\ IF n = 0 THEN Found(c, look[c].grp) /\ UNCHANGED <<heap, late>>
         ELSE /\ heap' = Set(Fresh, n)
              /\ late' = late \ {Fresh}
              /\ Goto(c, "keep", look[c].grp \cup {Fresh}, Fresh)
              /\ UNCHANGED held
      /\ UNCHANGED <<tables, caches, rl, io, before, served>>

StoreHost(c) ==
  /\ look[c].pc = "keep"
  /\ hostLims' = [hostLims EXCEPT ![HostOf[c]] = look[c].new]
  /\ late' = IF look[c].late \/ rl.pc # "idle" THEN late \cup {look[c].new} ELSE late
  /\ Found(c, look[c].grp)
  /\ UNCHANGED <<tables, heap, all, connLims, rl, io, before, served>>

(* A second has passed since the look-up. *)
GroupExpires(c) ==
  /\ held[c] # NoGroup
  /\ held' = [held EXCEPT ![c] = NoGroup]
  /\ UNCHANGED <<tables, heap, caches, rl, look, io, history>>

(* No look-up for 15 seconds: the connection's limiter leaves the cache. *)
ConnExpires(c) ==
  /\ connLims[c] # 0 /\ held[c] = NoGroup /\ look[c].pc \in {"idle", "conn"}
  /\ connLims' = [connLims EXCEPT ![c] = 0]
  /\ UNCHANGED <<tables, heap, all, hostLims, rl, look, held, io, history>>

----------------------------------------------------------------------------
(***************************************************************************)
(* limiterGroup.Wait: how much of n may pass, when the tokens are there.   *)
(***************************************************************************)
Wait(grp, n) ==
  CHOOSE k \in 0..n : /\ \A l \in grp : k <= heap[l]
                      /\ k = n \/ \E l \in grp : k = heap[l]

Bytes(from, k) == [i \in 1..k |-> from + i - 1]

Min(a, b) == IF a < b THEN a ELSE b

(* A variant with a fault: what was held back is overtaken by what comes in. *)
ReadSocketFirst(c, k) ==
  LET x == io[c]
  IN  /\ io[c].use = "read" /\ x.pc = "idle"
      /\ held[c] # NoGroup /\ x.next + k - 1 <= MaxData
      /\ io' = [io EXCEPT ![c].pc = "wait", ![c].grp = held[c],
                  ![c].buf = Bytes(x.next, k), ![c].next = x.next + k]
      /\ UNCHANGED <<tables, heap, caches, rl, look, held, history>>

(***************************************************************************)
(* serverConn.Read of up to k bytes.  Without a limiter it reads from the  *)
(* connection.  With one, what was held back before comes first.           *)
(***************************************************************************)
Read(c, k) ==
  LET x == io[c]
      b == Bytes(x.next, k)
  IN  /\ io[c].use = "read" /\ x.pc = "idle"
      /\ held[c] # NoGroup
      /\ \/ /\ held[c] = {} /\ x.next + k - 1 <= MaxData
            /\ io' = [io EXCEPT ![c].got = @ \o b, ![c].next = x.next + k]
         \/ /\ held[c] # {} /\ x.rbuf = <<>> /\ x.next + k - 1 <= MaxData
            /\ io' = [io EXCEPT ![c].pc = "wait", ![c].grp = held[c], ![c].buf = b,
                        ![c].next = x.next + k]
         \/ /\ held[c] # {} /\ x.rbuf # <<>>
            /\ io' = [io EXCEPT ![c].pc = "drain", ![c].grp = held[c],
                        ![c].n = Min(k, Len(x.rbuf))]
      /\ UNCHANGED <<tables, heap, caches, rl, look, held, history>>

(* What the limiters do not let pass is held back. *)
ReadWaited(c) ==
  LET x == io[c]
      n == Wait(x.grp, Len(x.buf))
  IN  /\ x.pc = "wait"
      /\ io' = [io EXCEPT ![c] = [x EXCEPT !.pc = "idle", !.grp = {}, !.buf = <<>>,
                  !.got = @ \o SubSeq(x.buf, 1, n),
                  !.rbuf = @ \o SubSeq(x.buf, n + 1, Len(x.buf))]]
      /\ UNCHANGED <<tables, heap, caches, rl, look, held, history>>

ReadDrained(c) ==
  LET x == io[c]
      n == Wait(x.grp, x.n)
  IN  /\ x.pc = "drain"
      /\ io' = [io EXCEPT ![c] = [x EXCEPT !.pc = "idle", !.grp = {}, !.n = 0,
                  !.got = @ \o SubSeq(x.rbuf, 1, n),
                  !.rbuf = SubSeq(x.rbuf, n + 1, Len(x.rbuf))]]
      /\ UNCHANGED <<tables, heap, caches, rl, look, held, history>>

(* serverConn.Write of k bytes, in pieces that the limiters let pass. *)
Write(c, k) ==
  /\ io[c].use = "write" /\ io[c].pc = "idle"
  /\ held[c] # NoGroup
  /\ io' = IF held[c] = {} THEN io
           ELSE [io EXCEPT ![c].pc = "write", ![c].grp = held[c], ![c].n = k]
  /\ UNCHANGED <<tables, heap, caches, rl, look, held, history>>

(* One piece is written; an error of the connection ends the Write. *)
WriteWaited(c) ==
  LET x == io[c]
  IN  /\ x.pc = "write"
      /\ \E n \in {x.n - Wait(x.grp, x.n), 0} :
           io' = [io EXCEPT ![c].n = n, ![c].pc = IF n = 0 THEN "idle" ELSE "write",
                            ![c].grp = IF n = 0 THEN {} ELSE @]
      /\ UNCHANGED <<tables, heap, caches, rl, look, held, history>>

(* A packet of k bytes passes if no burst of its group is smaller. *)
Passes(c, k) == held[c] = {} \/ Wait(held[c], k) = k

(* A packet is passed on, or too large and discarded. *)
Packet(c, k) ==
  /\ io[c].use = "packet" /\ io[c].pc = "idle"
  /\ held[c] # NoGroup /\ io[c].next <= MaxData
  /\ io' = [io EXCEPT ![c].next = @ + 1,
                      ![c].got = IF Passes(c, k) THEN Append(@, io[c].next) ELSE @]
  /\ UNCHANGED <<tables, heap, caches, rl, look, held, history>>

----------------------------------------------------------------------------
(* A connection of bytes that is read or written, or one of packets. *)
NoIO(use) == [use |-> use, pc |-> "idle", grp |-> {}, buf |-> <<>>, rbuf |-> <<>>,
              n |-> 0, next |-> 1, got |-> <<>>]

NoRules == [all |-> 0, conn |-> 0, ip |-> [h \in Hosts |-> NotListed],
            cidr |-> [h \in Hosts |-> 0]]

(* NewTrafficLimiter, before its own first reload. *)
TrafficInit ==
  /\ rules = NoRules
  /\ heap = [l \in Lims |-> 0]
  /\ all = 0
  /\ hostLims = [h \in Hosts |-> 0]
  /\ connLims = [c \in Conns |-> 0]
  /\ gen = 0 /\ ranger = NoRules.cidr
  /\ rl = NoReload
  /\ look = [c \in Conns |-> NoLook]
  /\ held = [c \in Conns |-> NoGroup]
  /\ io \in [Conns -> {NoIO(u) : u \in {"read", "write", "packet"}}]
  /\ late = {} /\ before = 0 /\ served = TRUE

Reload ==
  \/ \E r \in Rules : ReloadService(r)
  \/ ReloadGenerator \/ ReloadConns \/ ReloadSnapshot
  \/ \E h \in Hosts : ReloadListed(h) \/ ReloadUnlisted(h)
  \/ ReloadRanger

LookUp(c) ==
  \/ LookService(c) \/ LookConn(c) \/ LookGenerator(c) \/ StoreConn(c)
  \/ LookHost(c) \/ LookRanger(c) \/ StoreHost(c)
  \/ GroupExpires(c) \/ ConnExpires(c)

TrafficNext ==
  \/ Reload
  \/ \E c \in Conns : LookUp(c)
  \/ \E c \in Conns, k \in 1..MaxData : Read(c, k) \/ Write(c, k) \/ Packet(c, k)
  \/ \E c \in Conns : ReadWaited(c) \/ ReadDrained(c) \/ WriteWaited(c)

TrafficSpec == TrafficInit /\ [][TrafficNext]_trafficVars

----------------------------------------------------------------------------
(* The shape of the state: caches name limiters, groups are sets of them. *)
LookRecord ==
  [pc: {"idle", "conn", "gen", "store", "host", "ranger", "keep"}, grp: SUBSET Lims,
   new: 0..MaxLims, late: BOOLEAN]

ReloadRecord ==
  [pc: {"idle", "gen", "conns", "snap", "hosts"}, old: Nat, n: Nat, todo: SUBSET Hosts,
   snap: [Hosts -> 0..MaxLims]]

IORecord ==
  [use: {"read", "write", "packet"}, pc: {"idle", "wait", "drain", "write"},
   grp: SUBSET Lims, buf: Seq(Nat), rbuf: Seq(Nat), n: Nat, next: Nat, got: Seq(Nat)]

TrafficTypeOK ==
  /\ rules \in Rule /\ gen \in Nat /\ ranger \in [Hosts -> Nat]
  /\ heap \in [Lims -> Nat]
  /\ all \in 0..MaxLims
  /\ hostLims \in [Hosts -> 0..MaxLims] /\ connLims \in [Conns -> 0..MaxLims]
  /\ rl \in ReloadRecord /\ look \in [Conns -> LookRecord]
  /\ held \in [Conns -> (SUBSET Lims) \cup {NoGroup}] /\ io \in [Conns -> IORecord]
  /\ late \subseteq Lims /\ before \in Nat /\ served \in BOOLEAN

Effective(h) == IF rules.ip[h] > 0 THEN rules.ip[h] ELSE rules.cidr[h]

(* What the rules say of the service's limiter, and of a host's. *)
ServiceOK == IF rules.all = 0 THEN all = 0 ELSE all # 0 /\ heap[all] = rules.all

HostOK(h) == IF hostLims[h] = 0 THEN rules.ip[h] <= 0
             ELSE hostLims[h] \in late \/ heap[hostLims[h]] = Effective(h)

(***************************************************************************)
(* Between two reloads the caches say what the rules say, whatever         *)
(* sequence of rule sets came before: the limiter of the service, and of   *)
(* each host the limit of its own line or else that of its network.  An    *)
(* open connection's own limiter follows one change late, it has the limit *)
(* in force or the one before it, never an older one.  The exception is a  *)
(* limiter stored by a look-up that overlapped with a reload: it may have  *)
(* an old limit until the next reload.                                     *)
(***************************************************************************)
RulesInForce ==
  /\ TrafficTypeOK
  /\ rl.pc = "idle" =>
       /\ ServiceOK /\ \A h \in Hosts : HostOK(h)
       /\ \A c \in Conns : connLims[c] \in {0} \cup late \/ heap[connLims[c]] \in {gen, before}

(***************************************************************************)
(* No limiter in use lets nothing pass, on which a Write would go round    *)
(* for ever; again but for one whose look-up overlapped with a reload,     *)
(* which may set it to the 0 of a rule that was not there before.          *)
(***************************************************************************)
NothingBlocked ==
  \A c \in Conns : \A l \in io[c].grp \ late : heap[l] > 0

(***************************************************************************)
(* Bytes that Read held back, because the limit let only some of what it   *)
(* had read pass, are returned before any that came later, however the     *)
(* limits change and whenever they are looked up.  That is so as long as   *)
(* the service has a limit at all: without a limiter Read passes by them.  *)
(***************************************************************************)
ReadInOrder ==
  served => \A c \in Conns : io[c].use = "read" =>
              \A i \in 1..Len(io[c].got) : io[c].got[i] = i

----------------------------------------------------------------------------
(***************************************************************************)
(* What every state satisfies, by which the three above are preserved.     *)
(***************************************************************************)
(* The limiters of connections, and of a host, with those being stored. *)
OfConns == {connLims[c] : c \in Conns} \cup {look[c].new : c \in {d \in Conns : look[d].pc = "store"}}

OfHost(h) ==
  {hostLims[h], rl.snap[h]}
    \cup {look[c].new : c \in {d \in Conns : look[d].pc = "keep" /\ HostOf[d] = h}}

(* A limiter is the service's, a host's or some connection's, and only one's. *)
Apart ==
  /\ all # 0 => all \notin OfConns
  /\ \A h \in Hosts : /\ all # 0 => all \notin OfHost(h)
                      /\ OfHost(h) \cap OfConns \subseteq {0}
                      /\ \A g \in Hosts \ {h} : OfHost(g) \cap OfHost(h) \subseteq {0}

(* Hosts that the reload has been to follow the new rules; those it will go to
   have the limiter of the snapshot, or one stored since. *)
HostsOK ==
  /\ rl.pc = "idle" => ranger = rules.cidr
  /\ \A h \in Hosts :
       /\ rl.pc = "idle" \/ (rl.pc = "hosts" /\ h \notin rl.todo) => HostOK(h)
       /\ rl.pc = "hosts" /\ h \in rl.todo => hostLims[h] \in {rl.snap[h]} \cup late
       /\ \A l \in OfHost(h) \ {0} : heap[l] > 0

(* Between the generator's change and that of the connections these may be two
   changes late. *)
ConnsOK ==
  /\ rl.pc \in {"idle", "gen"} \/ gen = rules.conn
  /\ rl.pc = "conns" => IF rl.old = gen THEN TRUE ELSE before = rl.old
  /\ \A c \in Conns :
       /\ rl.pc # "conns" \/ rl.old = gen =>
            connLims[c] \in {0} \cup late \/ heap[connLims[c]] \in {gen, before}
       /\ (IF rl.pc = "conns" THEN rl.old ELSE gen) = 0 => connLims[c] \in {0} \cup late

(* What a look-up that no reload has overtaken is about to store. *)
LookOK(c) ==
  LET x == look[c]
  IN  /\ x.pc \in {"store", "keep"} <=> x.new # 0
      /\ x.pc = "store" /\ ~x.late => connLims[c] = x.new \/ (gen > 0 /\ heap[x.new] = gen)
      /\ x.pc \in {"ranger", "keep"} /\ ~x.late /\ rl.pc = "idle" => rules.ip[HostOf[c]] <= 0
      /\ x.pc = "keep" /\ ~x.late => heap[x.new] = ranger[HostOf[c]]

InUseOK == \A l \in Used \ {0} : heap[l] > 0 \/ l \in late

(* A service that has always had a limit: no look-up comes back without one. *)
ServedOK ==
  served => /\ rl.n > 0 => rules.all > 0
            /\ \A c \in Conns : /\ look[c].pc # "idle" => rl.n > 0 /\ look[c].grp # {}
                                /\ held[c] # {}

InRow(s, from) == \A i \in 1..Len(s) : s[i] = from + i - 1

(* What was returned, what is held back and what has just come in follow on
   each other. *)
ReadOK(c) ==
  LET x == io[c]
  IN  /\ x.pc \in {"wait", "drain"} => x.use = "read"
      /\ x.pc = "drain" => x.n <= Len(x.rbuf)
      /\ served /\ x.use = "read" =>
           /\ IF x.pc = "wait" THEN x.rbuf = <<>> ELSE x.buf = <<>>
           /\ InRow(x.got, 1)
           /\ InRow(x.rbuf, Len(x.got) + 1)
           /\ InRow(x.buf, Len(x.got) + Len(x.rbuf) + 1)
           /\ x.next = Len(x.got) + Len(x.rbuf) + Len(x.buf) + 1

TrafficIInv ==
  /\ TrafficTypeOK /\ Apart /\ ServiceOK /\ HostsOK /\ ConnsOK /\ InUseOK /\ ServedOK
  /\ \A c \in Conns : LookOK(c) /\ ReadOK(c)
=============================================================================
