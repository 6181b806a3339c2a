-------------------------- MODULE MC_ConnLimiter --------------------------
(* Instances of ConnLimiter for TLC. *)
EXTENDS ConnLimiter, TLC

(* Host 1 has a rule of its own, host 2 is inside a network; then a rule
   set with one slot for every host and one for all; then none at all. *)
Single   == [ip |-> <<1, 0>>, cidr |-> <<0, 2>>, perIP |-> 0, global |-> 2]
EveryOne == [ip |-> <<0, 0>>, cidr |-> <<0, 0>>, perIP |-> 2, global |-> 1]
NoRules  == [ip |-> <<0, 0>>, cidr |-> <<0, 0>>, perIP |-> 0, global |-> 0]

MCConfigs == {Single, EveryOne, NoRules}

VARIABLES
  loops, \* the services that are started: the others accept nothing
  past   \* history: the rule sets so far

Started == {s \in SUBSET Services : s # {}}

MCInit == Init /\ loops \in Started /\ past = <<cfg>>

MCNext ==
  /\ Next
  /\ \A c \in Conns : conns'[c].svc \in loops \cup {"none"}
  /\ past' = IF epoch' = epoch THEN past ELSE Append(past, cfg')
  /\ UNCHANGED loops

MCSpec == MCInit /\ [][MCNext]_<<vars, loops, past>>

(***************************************************************************)
(* The limiters, their groups, the cache and the additions and withdrawals *)
(* of all loops implement limits on hosts: who is admitted, under the      *)
(* rules in force or, after a reload meanwhile, those it came under, fits. *)
(***************************************************************************)
Limits == INSTANCE Quota WITH
            rules <- past,
            admitted <- [c \in Conns |->
                           IF conns[c].pc = "open"
                           THEN [host |-> conns[c].host, under |-> conns[c].epoch + 1]
                           ELSE [host |-> 0, under |-> 0]]

IsQuota == Limits!QuotaSpec

(* With a single accept loop no refusal, release or reload ever loses a slot:
   every counter is the number of connections that hold it.  With several
   loops Allow(-1) can stop half way through a group. *)
NoSlotLostAlone ==
  /\ TypeOK
  /\ Cardinality(loops) = 1 => NoSlotLost

----------------------------------------------------------------------------
(***************************************************************************)
(* What the two rest on, beside the invariant of ConnLimiter: an accept    *)
(* loop asks for one connection at a time; with one loop no counter is     *)
(* above the number of its holders; the generators and the cache hold what *)
(* the rule set in force says; and the connections that came under one     *)
(* rule set count in the same limiters, from one host in the same group.   *)
(***************************************************************************)
OneAsks ==
  /\ \A c \in Conns : conns[c].pc \in Asking => conns[c].svc \in loops
  /\ \A c, d \in Conns : /\ conns[c].pc \in Asking /\ conns[d].pc \in Asking
                        /\ conns[c].svc = conns[d].svc
                        => c = d

NoneAbove == \A l \in 1..Len(heap) : heap[l].current <= Cardinality(Holders(l))

NoneTooMany == Cardinality(loops) = 1 => NoneAbove

Members(g) == {g[k] : k \in 1..Len(g)}

OwnFits(g, r, h) ==
  Limits!LimitOf(r, h) > 0 => \E l \in Members(g) : heap[l].limit = Limits!LimitOf(r, h)

RulesKept ==
  /\ past \in Seq(Configs) /\ Len(past) = epoch + 1 /\ past[epoch + 1] = cfg
  /\ gen.cidr = cfg.cidr /\ gen.perIP = cfg.perIP
  /\ \A h \in Hosts : IF cfg.ip[h] > 0 THEN gen.ip[h] # 0 /\ heap[gen.ip[h]].limit = cfg.ip[h]
                     ELSE gen.ip[h] = 0
  /\ IF cfg.global > 0 THEN gen.global # 0 /\ heap[gen.global].limit = cfg.global
     ELSE gen.global = 0

CacheFits ==
  \A h \in Hosts : limits[h] # NoGroup =>
    /\ OwnFits(limits[h], cfg, h)
    /\ cfg.global > 0 => gen.global \in Members(limits[h])

InUse(c) == conns[c].pc # "idle"

ConnsFit ==
  \A c \in Conns : InUse(c) =>
    /\ conns[c].host \in Hosts /\ conns[c].epoch \in 0..epoch /\ conns[c].grp # NoGroup
    /\ conns[c].epoch = epoch => limits[conns[c].host] = conns[c].grp
    /\ OwnFits(conns[c].grp, past[conns[c].epoch + 1], conns[c].host)

SameLimiters ==
  /\ \A c, d \in Conns : /\ InUse(c) /\ InUse(d) /\ conns[c].epoch = conns[d].epoch
                        /\ conns[c].host = conns[d].host
                        => conns[c].grp = conns[d].grp
  /\ \A n \in 1..Len(past) : past[n].global > 0 =>
       \E l \in 1..Len(heap) :
         /\ heap[l].limit = past[n].global
         /\ \A c \in Conns : InUse(c) /\ conns[c].epoch + 1 = n => l \in Members(conns[c].grp)
         /\ n = Len(past) => l = gen.global

QInv ==
  /\ loops \in SUBSET Services
  /\ OneAsks /\ NoneTooMany /\ RulesKept /\ CacheFits /\ ConnsFit /\ SameLimiters

Symmetry == Permutations(Conns) \cup Permutations(Services)
=============================================================================
