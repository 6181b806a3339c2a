----------------------------- MODULE ChainRoute -----------------------------
(***************************************************************************)
(* Forwarding chains: a chain group picks a chain, each hop of the chain   *)
(* picks a node (chain/chain.go, chain/hop.go, selector/), and the route   *)
(* is then connected node by node (chain/route.go).  Failures are counted  *)
(* by markers on nodes and chains, and selectors keep away from what has   *)
(* failed too often, so a dial works with what other dials found out, some *)
(* of it after this dial has selected its nodes.                           *)
(***************************************************************************)
EXTENDS Naturals, Sequences, FiniteSets, Subsequence

CONSTANTS
  Dialers,   \* dials in progress at once
  Group,     \* the chains of the group, in order
  HopsOf,    \* by chain, its hops in order; a hop is a sequence of nodes
  Targets,     \* target addresses
  HopBypass, \* by address, the hops <<chain, i>> whose bypass contains it
  NodeBypass,\* by address, the nodes whose bypass contains it
  Backup,    \* nodes and chains with the backup flag
  Mux,       \* nodes whose transport multiplexes
  Down,      \* nodes that cannot be connected
  Solid,     \* nodes that always can; any other node may fail or not
  Strategies,\* the strategies of the run: "round", "fifo", "random", "hash"
  Hash,      \* by dialer, the hash of its client (for "hash")
  MaxFails,  \* the selector's maxFails, 0 if not configured
  Period,    \* round-robin counters are kept modulo Period
  MaxCount   \* bound on the numbers of failures kept in fails

Chains == {Group[i] : i \in 1..Len(Group)}

NodesIn(hop) == {hop[i] : i \in 1..Len(hop)}

HopIds == {x \in Chains \X (1..10) : x[2] <= Len(HopsOf[x[1]])}

Nodes == UNION {NodesIn(HopsOf[h[1]][h[2]]) : h \in HopIds}

Items == Nodes \cup Chains

Selectors == HopIds \cup {<<"group", 0>>}

None == "none"

ASSUME ChainRouteAssumption ==
  /\ IsFiniteSet(Dialers) /\ Hash \in [Dialers -> Nat]
  /\ Group \in Seq(Chains) /\ HopsOf \in [Chains -> Seq(Seq(Nodes))]
  /\ None \notin Chains /\ Nodes \cap Chains = {} /\ Down \subseteq Nodes
  /\ \A c \in Chains : Len(HopsOf[c]) \in 1..10
  /\ \A h \in HopIds : Len(HopsOf[h[1]][h[2]]) > 0 /\ Period % Len(HopsOf[h[1]][h[2]]) = 0
  /\ Period \in Nat \ {0}
  /\ Strategies \subseteq {"round", "fifo", "random", "hash"}
  /\ MaxFails \in Nat /\ MaxCount \in Nat

VARIABLES
  mark,    \* the failure markers: count, and whether the last is recent
  rr,      \* the round-robin counters, by selector
  routed,   \* the dials
  fails,   \* how often an item failed since its failures were last forgotten
  strategy \* the strategy of all selectors

chainVars == <<mark, rr, routed, fails, strategy>>

IdleDial == [pc |-> "idle", addr |-> None, chain |-> None, route |-> <<>>, k |-> 0]

----------------------------------------------------------------------------
(***************************************************************************)
(* FailFilter.  maxFails 0 means 1; a lone item is never filtered; a       *)
(* marker whose last failure is older than failTimeout is forgiven.        *)
(***************************************************************************)
Limit == IF MaxFails = 0 THEN 1 ELSE MaxFails

(* A variant with a fault: one failure more is tolerated. *)
AliveOneMore(x) == mark[x].count <= Limit \/ ~mark[x].recent

Alive(x) == mark[x].count < Limit \/ ~mark[x].recent

(* A variant with a fault: a lone item is filtered like any other. *)
FilterLoneToo(xs) == Keep(xs, {x \in Items : Alive(x)})

FailFilter(xs) == IF Len(xs) <= 1 THEN xs ELSE Keep(xs, {x \in Items : Alive(x)})

(* BackupFilter: backups only when nothing else is left. *)
BackupFilter(xs) ==
  LET main == Keep(xs, Items \ Backup)
  IN  IF Len(xs) <= 1 \/ main = <<>> THEN xs ELSE main

(* defaultSelector.Select: what may be selected, nothing if all is filtered. *)
Filtered(xs) == BackupFilter(FailFilter(xs))

Apply(xs, sel, d) ==
  CASE strategy = "round"  -> {xs[(rr[sel] % Len(xs)) + 1]}
    [] strategy = "fifo"   -> {xs[1]}
    [] strategy = "hash"   -> {xs[(Hash[d] % Len(xs)) + 1]}
    [] strategy = "random" -> {xs[i] : i \in 1..Len(xs)}

Select(xs, sel, d) == IF Filtered(xs) = <<>> THEN {} ELSE Apply(Filtered(xs), sel, d)

(* The counter makes no difference to the selector of a lone node. *)
Lone(sel) == sel \in HopIds /\ Len(HopsOf[sel[1]][sel[2]]) = 1

Counted(sel, xs) ==
  IF strategy = "round" /\ Filtered(xs) # <<>> /\ ~Lone(sel)
  THEN [rr EXCEPT ![sel] = (@ + 1) % Period] ELSE rr

----------------------------------------------------------------------------
(***************************************************************************)
(* chainGroup.Route: the group's selector picks the chain.  With no chain  *)
(* left there is no route, and the router connects directly.               *)
(***************************************************************************)
PickChain(d, a) ==
  LET sel == <<"group", 0>>
      choice == Select(Group, sel, d)
  IN  /\ routed[d].pc = "idle"
      /\ \/ /\ choice = {}
            /\ routed' = [routed EXCEPT ![d] = [IdleDial EXCEPT !.pc = "direct", !.addr = a]]
         \/ \E c \in choice :
              /\ routed' = [routed EXCEPT ![d] =
                             [IdleDial EXCEPT !.pc = "select", !.addr = a, !.chain = c]]
      /\ rr' = Counted(sel, Group)
      /\ UNCHANGED <<mark, fails, strategy>>

(***************************************************************************)
(* chainHop.Select: nothing when the hop bypasses the address, else the    *)
(* nodes that do not bypass it.                                            *)
(***************************************************************************)
Candidates(hop, a) ==
  IF hop \in HopBypass[a] THEN <<>>
  ELSE Keep(HopsOf[hop[1]][hop[2]], Nodes \ NodeBypass[a])

(***************************************************************************)
(* Chain.Route, one hop.  A hop that yields no node ends the route where   *)
(* it stands; an empty route connects directly.                            *)
(***************************************************************************)
SelectNode(d) ==
  LET x == routed[d]
      i == Len(x.route) + 1
      hop == <<x.chain, i>>
      cands == Candidates(hop, x.addr)
      choice == IF cands = <<>> THEN {} ELSE Select(cands, hop, d)
  IN  /\ x.pc = "select"
      /\ \/ /\ choice = {}
            /\ routed' = [routed EXCEPT ![d].pc = IF x.route = <<>> THEN "direct" ELSE "dial"]
         \/ \E n \in choice :
              /\ routed' = [routed EXCEPT ![d].route = Append(x.route, n),
                             ![d].pc = IF i = Len(HopsOf[x.chain]) THEN "dial" ELSE "select"]
      /\ rr' = IF cands = <<>> THEN rr ELSE Counted(hop, cands)
      /\ UNCHANGED <<mark, fails, strategy>>

(***************************************************************************)
(* Whose failures are counted in fails: a node that is down and not alone  *)
(* in its hop, and a chain that is broken while there is another one.      *)
(***************************************************************************)
HasAlternative(n) ==
  \A h \in HopIds : n \in NodesIn(HopsOf[h[1]][h[2]]) =>
    \A a \in Targets : Len(Candidates(h, a)) # 1

Broken(c) ==
  /\ Len(Group) > 1
  /\ \A i \in 1..Len(HopsOf[c]) : NodesIn(HopsOf[c][i]) \cap Mux = {}
  /\ \E i \in 1..Len(HopsOf[c]) : NodesIn(HopsOf[c][i]) \subseteq Down /\ Len(HopsOf[c][i]) = 1

Tracked == {n \in Down : HasAlternative(n)} \cup {c \in Chains : Broken(c)}

----------------------------------------------------------------------------
(***************************************************************************)
(* A node that multiplexes starts a new route and carries the one before   *)
(* it in its transport; only the first part belongs to the chain.  Parts   *)
(* are connected from the innermost one outwards, those under a session    *)
(* that is in use already not at all.                                      *)
(***************************************************************************)
MuxAt(r) == {i \in 1..Len(r) : r[i] \in Mux}

InChainPart(r, k) == \A i \in MuxAt(r) : k < i

EndsChainPart(r, k) == InChainPart(r, k) /\ (k = Len(r) \/ k + 1 \in MuxAt(r))

StartConnect(d) ==
  LET x == routed[d]
  IN  /\ x.pc = "dial"
      /\ \E s \in {1} \cup MuxAt(x.route) :
           routed' = [routed EXCEPT ![d].pc = "node", ![d].k = s]
      /\ UNCHANGED <<mark, rr, fails, strategy>>

(* A marker's count is kept up to one above the limit: more makes no difference. *)
Capped(n, max) == IF n > max THEN max ELSE n

Marked(S) ==
  [y \in Items |-> IF y \in S
                   THEN [count |-> Capped(mark[y].count + 1, Limit + 1), recent |-> TRUE]
                   ELSE mark[y]]

(* Nobody looks at the time of a marker whose count is 0. *)
ResetMarks(S) == [y \in Items |-> IF y \in S THEN [count |-> 0, recent |-> FALSE] ELSE mark[y]]

Blame(S) ==
  /\ mark' = Marked(S)
  /\ fails' = [y \in Items |-> IF y \in S \cap Tracked THEN Capped(fails[y] + 1, MaxCount)
                              ELSE fails[y]]

(* route.connect, one node: resolved, connected through the node before it
   and handshaken. *)
ConnectNode(d) ==
  LET x == routed[d]
      done == {x.route[x.k]} \cup
              (IF EndsChainPart(x.route, x.k) THEN {x.chain} ELSE {})
  IN  /\ x.pc = "node"
      /\ x.route[x.k] \notin Down
      /\ mark' = ResetMarks(done)
      /\ fails' = [y \in Items |-> IF y \in done THEN 0 ELSE fails[y]]
      /\ routed' = [routed EXCEPT ![d].pc = IF x.k = Len(x.route) THEN "target" ELSE "node",
                     ![d].k = IF x.k = Len(x.route) THEN x.k ELSE x.k + 1]
      /\ UNCHANGED <<rr, strategy>>

(***************************************************************************)
(* route.connect fails at a node: what is connected so far is closed, the  *)
(* node is marked, and so is each multiplexing node that was to be reached *)
(* through it, and the chain if it was the chain's part of the route.      *)
(***************************************************************************)
ToBlame(x) ==
  {x.route[x.k]}
    \cup {x.route[i] : i \in {j \in MuxAt(x.route) : j > x.k}}
    \cup (IF InChainPart(x.route, x.k) THEN {x.chain} ELSE {})

ConnectFails(d) ==
  /\ routed[d].pc = "node"
  /\ routed[d].route[routed[d].k] \notin Solid
  /\ Blame(ToBlame(routed[d]))
  /\ routed' = [routed EXCEPT ![d] = IdleDial]
  /\ UNCHANGED <<rr, strategy>>

(* route.Dial asks the last node for the target; a failure blames nobody. *)
ConnectTarget(d) ==
  /\ routed[d].pc = "target"
  /\ \/ routed' = [routed EXCEPT ![d].pc = "open"]
     \/ routed' = [routed EXCEPT ![d] = IdleDial]
  /\ UNCHANGED <<mark, rr, fails, strategy>>

(* The user of the connection, routed or direct, is done with it. *)
Hangup(d) ==
  /\ routed[d].pc \in {"open", "direct"}
  /\ routed' = [routed EXCEPT ![d] = IdleDial]
  /\ UNCHANGED <<mark, rr, fails, strategy>>

(* failTimeout has passed since the last failure of x. *)
Forgive(x) ==
  /\ mark[x].recent
  /\ mark' = [mark EXCEPT ![x].recent = FALSE]
  /\ fails' = [fails EXCEPT ![x] = 0]
  /\ UNCHANGED <<rr, routed, strategy>>

----------------------------------------------------------------------------
ChainInit ==
  /\ mark = [x \in Items |-> [count |-> 0, recent |-> FALSE]]
  /\ rr = [s \in Selectors |-> 0]
  /\ routed = [d \in Dialers |-> IdleDial]
  /\ fails = [x \in Items |-> 0]
  /\ strategy \in Strategies

ChainNext ==
  \/ \E d \in Dialers, a \in Targets : PickChain(d, a)
  \/ \E d \in Dialers : \/ SelectNode(d)
                        \/ StartConnect(d)
                        \/ ConnectNode(d)
                        \/ ConnectFails(d)
                        \/ ConnectTarget(d)
                        \/ Hangup(d)
  \/ \E x \in Items : Forgive(x)

ChainSpec == ChainInit /\ [][ChainNext]_chainVars

----------------------------------------------------------------------------
(* The shape of the state; a route has a node of each hop, in order. *)
ChainTypeOK ==
  /\ mark \in [Items -> [count: 0..(Limit + 1), recent: BOOLEAN]]
  /\ rr \in [Selectors -> 0..Period]
  /\ \A d \in Dialers :
       LET x == routed[d]
       IN  /\ x.pc \in {"idle", "select", "dial", "node", "target", "open", "direct"}
           /\ x.addr \in Targets \cup {None} /\ x.chain \in Chains \cup {None}
           /\ \A i \in 1..Len(x.route) : x.route[i] \in NodesIn(HopsOf[x.chain][i])
           /\ x.k \in 0..Len(x.route)
  /\ fails \in [Items -> 0..MaxCount]

Routed(x) == x.pc \in {"dial", "node", "target", "open"}

(***************************************************************************)
(* Failures never make a dial leave the chain where a hop, or the group,   *)
(* has no alternative: a route that ends before the chain does, or a       *)
(* direct connection, comes from a bypass or from a hop of several nodes.  *)
(***************************************************************************)
LoneNodeNeverSkipped ==
  \A d \in Dialers :
    LET x == routed[d]
        next == <<x.chain, Len(x.route) + 1>>
    IN  /\ x.pc = "direct" /\ x.chain = None => Len(Group) # 1
        /\ \/ Routed(x) /\ Len(x.route) < Len(HopsOf[x.chain])
           \/ x.pc = "direct" /\ x.chain # None
           => Len(Candidates(next, x.addr)) # 1

(***************************************************************************)
(* Failover.  Between two moments at which its failures are forgiven, a    *)
(* node that is down, or a chain with a lone node that is down, costs at   *)
(* most the configured number of failed dials and those that had selected  *)
(* it before the last of them was marked.  Chains whose first node         *)
(* multiplexes are not included: nobody marks them.                        *)
(***************************************************************************)
FailuresBounded ==
  /\ ChainTypeOK
  /\ \A x \in Tracked : fails[x] <= Limit - 1 + Cardinality(Dialers)
=============================================================================
