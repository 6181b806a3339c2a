---------------------------- MODULE ConnLimiter ----------------------------
(***************************************************************************)
(* The connection limiter: limiter/conn (the rule set, its cache of        *)
(* limiters and the counters) and limiter/conn/wrapper (the listener that  *)
(* asks for admission and the connection that gives its slot back).        *)
(*                                                                         *)
(* One limiter object is shared by every service that names it, so several *)
(* accept loops and every connection handler work on its counters at once. *)
(* The counters are plain atomics: Allow(1) adds first and takes back what *)
(* it added when the sum is above the limit, and a group of limiters is    *)
(* asked one after the other.  Each atomic addition is a step here.        *)
(***************************************************************************)
EXTENDS Integers, Sequences, FiniteSets

CONSTANTS
  Services,       \* accept loops that share the limiter
  Conns,          \* connections (each may be reused once it is closed)
  NHosts,         \* client addresses are the hosts 1..NHosts
  Configs,        \* the rule sets a reload may find
  HandlerCloses,  \* how often a handler closes the connection it was given
  MaxReloads      \* bound on the number of reloads

Hosts == 1..NHosts

(***************************************************************************)
(* A parsed rule set: a limit for single addresses, the limit of the first *)
(* network that contains an address, the limit of every other address      *)
(* ("$$") and the limit of all together ("$").  0: no such rule.           *)
(***************************************************************************)
Config == [ip: [Hosts -> Nat], cidr: [Hosts -> Nat], perIP: Nat, global: Nat]

ASSUME ConnLimiterAssumption ==
  /\ NHosts \in Nat
  /\ Configs \subseteq Config
  /\ HandlerCloses \in {1, 2}
  /\ MaxReloads \in Nat
  /\ IsFiniteSet(Conns)
  /\ IsFiniteSet(Services) /\ "none" \notin Services

VARIABLES
  heap,    \* every llimiter allocated so far: its limit and its counter
  gen,     \* ipLimits and cidrLimits: generators of limiters
  limits,  \* the cache: the group of limiters of a host, by host
  conns,   \* the connections
  cfg,     \* the rule set loaded last
  epoch    \* how many reloads have happened

vars == <<heap, gen, limits, conns, cfg, epoch>>

NoGroup == <<0>>        \* the cache has no entry for the host

NewLimiter(n) == [limit |-> n, current |-> 0]

Idle == [pc |-> "idle", svc |-> "none", host |-> 0, grp |-> <<>>,
         lo |-> 1, hi |-> 0, closes |-> 0, epoch |-> 0]

----------------------------------------------------------------------------
(***************************************************************************)
(* reload: the single generators ("$" and an address of its own) own one   *)
(* limiter from now on, the others make one per host on demand.  The       *)
(* objects of a reload are appended as a block, one place per host and one *)
(* for "$"; a place whose rule is absent is never referred to.             *)
(***************************************************************************)
Singles(c) ==
  [k \in 1..(NHosts + 1) |->
     NewLimiter(IF k <= NHosts THEN c.ip[k] ELSE c.global)]

Generators(c, base) ==
  [ip     |-> [h \in Hosts |-> IF c.ip[h] > 0 THEN base + h ELSE 0],
   cidr   |-> c.cidr,
   perIP  |-> c.perIP,
   global |-> IF c.global > 0 THEN base + NHosts + 1 ELSE 0]

(* A variant with a fault: the cache of groups outlives the reload. *)
ReloadKeepingCache ==
  /\ epoch < MaxReloads
  /\ \E c \in Configs :
       /\ cfg' = c
       /\ heap' = heap \o Singles(c)
       /\ gen' = Generators(c, Len(heap))
  /\ epoch' = epoch + 1
  /\ UNCHANGED <<limits, conns>>

Reload ==
  /\ epoch < MaxReloads
  /\ \E c \in Configs :
       /\ cfg' = c
       /\ heap' = heap \o Singles(c)
       /\ gen' = Generators(c, Len(heap))
  /\ limits' = [h \in Hosts |-> NoGroup]
  /\ epoch' = epoch + 1
  /\ UNCHANGED conns

(***************************************************************************)
(* Limiter(key), under the mutex: the cached group, or a group made of the *)
(* most specific limiter and the global one, the smaller limit first.      *)
(***************************************************************************)
OwnLimit(h) == IF gen.cidr[h] > 0 THEN gen.cidr[h] ELSE gen.perIP

HeapFor(h) ==
  IF limits[h] = NoGroup /\ gen.ip[h] = 0 /\ OwnLimit(h) > 0
  THEN Append(heap, NewLimiter(OwnLimit(h)))
  ELSE heap

OwnLimiter(h) ==
  IF gen.ip[h] # 0 THEN gen.ip[h]
  ELSE IF OwnLimit(h) > 0 THEN Len(heap) + 1 ELSE 0

LimiterGroup(h) ==
  LET own == OwnLimiter(h)
      all == gen.global
  IN  CASE own = 0 /\ all = 0 -> <<>>
        [] own = 0 /\ all # 0 -> <<all>>
        [] own # 0 /\ all = 0 -> <<own>>
        [] OTHER -> IF heap[all].limit < HeapFor(h)[own].limit
                    THEN <<all, own>> ELSE <<own, all>>

Limiter(h) == IF limits[h] = NoGroup THEN LimiterGroup(h) ELSE limits[h]

----------------------------------------------------------------------------
(***************************************************************************)
(* A connection counts in the limiters grp[lo] .. grp[hi] of its group.    *)
(***************************************************************************)
Asking == {"add", "undo", "roll"}

Slots(x) == {x.grp[k] : k \in x.lo .. x.hi}

Held(c) == Slots(conns[c])

Bump(l, n) == [heap EXCEPT ![l].current = @ + n]

(* A variant with a fault: the counter is compared before the addition. *)
OverBefore(l, n) == heap[l].current > heap[l].limit

Over(l, n) == heap[l].current + n > heap[l].limit

(***************************************************************************)
(* listener.Accept: look the limiter up and, when there is one, ask it.    *)
(* Without a limiter the connection is passed on unwrapped and nothing     *)
(* more of it is seen here.  One accept loop admits one at a time.         *)
(***************************************************************************)
Accept(s, c, h) ==
  /\ conns[c].pc = "idle"
  /\ \A d \in Conns : conns[d].pc \in Asking => conns[d].svc # s
  /\ heap' = HeapFor(h)
  /\ limits' = [limits EXCEPT ![h] = Limiter(h)]
  /\ conns' = IF Limiter(h) = <<>> THEN conns
              ELSE [conns EXCEPT ![c] =
                      [pc |-> "add", svc |-> s, host |-> h, grp |-> Limiter(h),
                       lo |-> 1, hi |-> 0, closes |-> 0, epoch |-> epoch]]
  /\ UNCHANGED <<gen, cfg, epoch>>

(***************************************************************************)
(* limiterGroup.Allow(1), one limiter: add, and see whether it fits.       *)
(***************************************************************************)
AllowAdd(c) ==
  LET x == conns[c]
      l == x.grp[x.hi + 1]
  IN  /\ x.pc = "add"
      /\ heap' = Bump(l, 1)
      /\ conns' = [conns EXCEPT
           ![c].hi = x.hi + 1,
           ![c].pc = IF Over(l, 1) THEN "undo"
                     ELSE IF x.hi + 1 = Len(x.grp) THEN "open" ELSE "add"]
      /\ UNCHANGED <<gen, limits, cfg, epoch>>

(* A variant with a fault: nothing is given back before the refusing one. *)
UndoOnly(c) ==
  /\ conns[c].pc = "undo"
  /\ heap' = Bump(conns[c].grp[conns[c].hi], -1)
  /\ conns' = [conns EXCEPT ![c] = Idle]
  /\ UNCHANGED <<gen, limits, cfg, epoch>>

(* llimiter.Allow takes back what it added above the limit. *)
AllowUndo(c) ==
  LET x == conns[c]
  IN  /\ x.pc = "undo"
      /\ heap' = Bump(x.grp[x.hi], -1)
      /\ conns' = [conns EXCEPT ![c] =
           IF x.hi = 1 THEN Idle
           ELSE [x EXCEPT !.hi = x.hi - 1, !.pc = "roll"]]
      /\ UNCHANGED <<gen, limits, cfg, epoch>>

(***************************************************************************)
(* limiterGroup.Allow gives the limiters before the refusing one back; the *)
(* refused connection is then closed by the listener.                      *)
(***************************************************************************)
Rollback(c) ==
  LET x == conns[c]
  IN  /\ x.pc = "roll"
      /\ heap' = Bump(x.grp[x.lo], -1)
      /\ conns' = [conns EXCEPT ![c] =
           IF x.lo = x.hi THEN Idle ELSE [x EXCEPT !.lo = x.lo + 1]]
      /\ UNCHANGED <<gen, limits, cfg, epoch>>

(***************************************************************************)
(* serverConn.Close: Allow(-1) on the group.  A handler that closes twice  *)
(* (the relay handler, whenever it fails) comes here twice.                *)
(***************************************************************************)
Close(c) ==
  /\ conns[c].pc \in {"open", "again"}
  /\ conns' = [conns EXCEPT ![c].pc = "release", ![c].lo = 1,
                            ![c].closes = conns[c].closes + 1]
  /\ UNCHANGED <<heap, gen, limits, cfg, epoch>>

(***************************************************************************)
(* One limiter of Allow(-1).  A counter that is still above its limit, as  *)
(* it is while other loops have added and not yet taken back, makes Allow  *)
(* report FALSE, and the group stops there.                                *)
(***************************************************************************)
Closed(x) == IF x.closes < HandlerCloses
             THEN [x EXCEPT !.pc = "again", !.lo = x.hi + 1] ELSE Idle

Release(c) ==
  LET x == conns[c]
  IN  /\ x.pc = "release"
      /\ heap' = Bump(x.grp[x.lo], -1)
      /\ conns' = [conns EXCEPT ![c] =
           IF Over(x.grp[x.lo], -1) \/ x.lo = x.hi
           THEN Closed(x) ELSE [x EXCEPT !.lo = x.lo + 1]]
      /\ UNCHANGED <<gen, limits, cfg, epoch>>

----------------------------------------------------------------------------
(* NewConnLimiter loads the first rule set before anyone can use it. *)
Init ==
  /\ cfg \in Configs
  /\ heap = Singles(cfg)
  /\ gen = Generators(cfg, 0)
  /\ limits = [h \in Hosts |-> NoGroup]
  /\ conns = [c \in Conns |-> Idle]
  /\ epoch = 0

Next ==
  \/ Reload
  \/ \E s \in Services, c \in Conns, h \in Hosts : Accept(s, c, h)
  \/ \E c \in Conns : AllowAdd(c)
  \/ \E c \in Conns : AllowUndo(c)
  \/ \E c \in Conns : Rollback(c)
  \/ \E c \in Conns : Close(c)
  \/ \E c \in Conns : Release(c)

Spec == Init /\ [][Next]_vars

----------------------------------------------------------------------------
PC == {"idle", "add", "undo", "roll", "open", "release", "again"}

(* The shape of the state: counters, generators, cache and connections. *)
TypeOK ==
  /\ heap \in Seq([limit: Nat, current: Int])
  /\ gen \in [ip: [Hosts -> Nat], cidr: [Hosts -> Nat], perIP: Nat, global: Nat]
  /\ limits \in [Hosts -> Seq(Nat)]
  /\ conns \in [Conns -> [pc: PC, svc: Services \cup {"none"}, host: Nat,
                          grp: Seq(Nat), lo: Nat, hi: Nat, closes: Nat, epoch: Nat]]
  /\ cfg \in Configs
  /\ epoch \in 0..MaxReloads

Open(l) == {c \in Conns : conns[c].pc = "open" /\ l \in Held(c)}

(***************************************************************************)
(* No limiter ever has more admitted connections than its limit, however   *)
(* the additions and withdrawals of accept loops and handlers interleave.  *)
(***************************************************************************)
OpenWithinLimit ==
  \A l \in 1..Len(heap) : Cardinality(Open(l)) <= heap[l].limit

(***************************************************************************)
(* With one accept loop no slot is ever lost: a counter is exactly the     *)
(* number of connections that hold it, so a limiter everyone has left      *)
(* admits its full number again.                                           *)
(***************************************************************************)
Holders(l) == {c \in Conns : l \in Held(c)}

NoSlotLost ==
  \A l \in 1..Len(heap) : heap[l].current = Cardinality(Holders(l))

----------------------------------------------------------------------------
(***************************************************************************)
(* The inductive invariant behind OpenWithinLimit, for handlers that close *)
(* once.  A group names allocated limiters, each once; a connection holds  *)
(* the limiters its program counter says; a counter is never below the     *)
(* number of its holders (it may be above: see NoSlotLost); and those who  *)
(* passed a limiter, and hold it still, are within its limit.              *)
(***************************************************************************)
GroupOK(g) ==
  /\ \A k \in 1..Len(g) : g[k] \in 1..Len(heap)
  /\ \A j, k \in 1..Len(g) : g[j] = g[k] => j = k

GenOK ==
  /\ gen.global \in 0..Len(heap)
  /\ \A h \in Hosts : /\ gen.ip[h] \in 0..Len(heap)
                      /\ gen.ip[h] # 0 => gen.ip[h] # gen.global

CacheOK == \A h \in Hosts : limits[h] = NoGroup \/ GroupOK(limits[h])

ConnOK(x) ==
  /\ GroupOK(x.grp)
  /\ x.pc = "idle" => x.lo = 1 /\ x.hi = 0
  /\ x.pc = "add" => x.lo = 1 /\ x.hi < Len(x.grp)
  /\ x.pc = "undo" => x.lo = 1 /\ x.hi \in 1..Len(x.grp)
  /\ x.pc = "roll" => x.lo \in 1..x.hi /\ x.hi <= Len(x.grp)
  /\ x.pc = "open" => x.lo = 1 /\ x.hi = Len(x.grp) /\ x.hi > 0
  /\ x.pc = "release" => x.lo \in 1..x.hi /\ x.hi = Len(x.grp) /\ x.closes > 0
  /\ x.pc # "again"

CountOK == \A l \in 1..Len(heap) : heap[l].current >= Cardinality(Holders(l))

Passing(x) == IF x.pc = "undo" THEN {x.grp[k] : k \in 1..(x.hi - 1)} ELSE Slots(x)

Passed(l) == {c \in Conns : l \in Passing(conns[c])}

PassedOK == \A l \in 1..Len(heap) : Cardinality(Passed(l)) <= heap[l].limit

IInv ==
  /\ TypeOK
  /\ GenOK
  /\ CacheOK
  /\ \A c \in Conns : ConnOK(conns[c])
  /\ CountOK
  /\ PassedOK
=============================================================================
