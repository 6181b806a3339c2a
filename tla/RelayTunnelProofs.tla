------------------------- MODULE RelayTunnelProofs -------------------------
(***************************************************************************)
(* Proofs about RelayTunnel and ForwardHTTP, and the two together, for any *)
(* number of visitors, streams, nodes and requests, and the connectors of  *)
(* the model's assumption: up to three, so that three attempts can reach   *)
(* each of them.                                                           *)
(***************************************************************************)
EXTENDS MC_RelayTunnel, SubsequenceProofs, FiniteSetTheorems, SequenceTheorems, TLAPS

(***************************************************************************)
(* RelayTunnel.                                                            *)
(***************************************************************************)

(* The records of visitors and of streams. *)
Visits ==
  [pc : {"start", "get", "open", "failed", "pipe", "read", "write", "body", "ws", "range", "done"},
   network : {"tcp", "udp"}, tries : 0..Retry, picked : Connectors \cup {"none"},
   cc : 0..MaxStreams, entry : 0..MaxStreams, req : Nat, left : BOOLEAN,
   got : Seq(Nat), broken : Nat]

StreamRecs ==
  [vis : Visitors \cup {"none"}, sess : Connectors \cup {"none"}, far : BOOLEAN, near : BOOLEAN,
   pc : {"none", "pipe", "copy", "err", "delete", "close", "done"}, pend : Seq(Nat)]

TunnelShape ==
  /\ setup \in Setups
  /\ list \in Seq(Connectors) /\ IsInjective(list)
  /\ turn \in 0..(Period - 1)
  /\ sess \in [Connectors -> SessState]
  /\ vis \in [Visitors -> Visits]
  /\ str \in [Streams -> StreamRecs]
  /\ calm \in [Visitors -> BOOLEAN]

(* What is bound is no longer unbound: Bind adds no connector twice. *)
ListBound == \A i \in 1..Len(list) : sess[list[i]] # "none"

Http(v) == setup.use[v] = "http"

(* A visitor's use, its stream and its bounds. *)
VisitAt(v) ==
  /\ vis[v].pc \in IF Http(v)
                   THEN {"start", "read", "get", "open", "failed", "write", "body", "ws", "range", "done"}
                   ELSE {"start", "get", "open", "failed", "pipe", "done"}
  /\ vis[v].req <= setup.reqs
  /\ vis[v].pc = "open" => vis[v].picked \in Connectors /\ vis[v].tries < Retry
  /\ vis[v].pc = "start" => vis[v].entry = 0
  /\ vis[v].pc \in {"write", "body", "ws", "pipe"} => vis[v].cc # 0 
  /\ vis[v].cc # 0 => str[vis[v].cc].vis = v /\ str[vis[v].cc].pc # "none"
  /\ vis[v].entry # 0 => str[vis[v].entry].vis = v /\ str[vis[v].entry].pc # "none"
  /\ Http(v) /\ vis[v].pc \in {"get", "open", "failed"} => vis[v].entry = 0
  /\ ~Http(v) => vis[v].entry = 0 /\ vis[v].got = <<>>

(* A stream is some visitor's; one that is copied is an HTTP visitor's and in its pool. *)
StreamAt(s) ==
  /\ str[s].pc # "none" => str[s].vis \in Visitors /\ str[s].sess \in Connectors
  /\ str[s].pc = "none" => ~str[s].far
  /\ str[s].pc \in {"copy", "err", "delete"} => Http(str[s].vis) /\ vis[str[s].vis].entry = s

(* A request is not yet passed on. *)
InHand(v) == Http(v) /\ vis[v].pc \in {"get", "open", "failed", "write"}

(* The answers that v has are in order, and before those that are to come. *)
GotAt(v) ==
  LET got == vis[v].got
  IN  /\ \A i \in 1..Len(got) : got[i] <= vis[v].req /\ (InHand(v) /\ got[i] > 0 => got[i] < vis[v].req)
      /\ \A i, j \in 1..Len(got) : i < j /\ got[i] > 0 /\ got[j] > 0 => got[i] < got[j]
      /\ Len(got) + (IF InHand(v) THEN 1 ELSE 0) <= vis[v].req + vis[v].broken
      /\ InHand(v) => vis[v].req >= 1

PendAt(s) ==
  LET v == str[s].vis
      got == vis[v].got
      pend == str[s].pend
      due == IF InHand(v) THEN 1 ELSE 0
  IN  /\ str[s].pc = "copy" =>
           /\ \A k \in 1..Len(pend) : pend[k] \in 1..vis[v].req /\ (InHand(v) => pend[k] < vis[v].req)
           /\ \A j, k \in 1..Len(pend) : j < k => pend[j] < pend[k]
           /\ \A i \in 1..Len(got), k \in 1..Len(pend) : got[i] < pend[k]
           /\ Len(got) + Len(pend) + due <= vis[v].req + vis[v].broken
      /\ str[s].pc = "err" => Len(got) + 1 + due <= vis[v].req + vis[v].broken

(* What v's look-up has seen: k picks before the turn. *)
Nth(cs, i) == cs[(i % Len(cs)) + 1]

SeenAt(v) ==
  LET cs == Of(vis[v].network)
  IN  calm[v] =>
        \/ /\ vis[v].pc = "open" /\ cs # <<>>
           /\ vis[v].picked = Nth(cs, turn + 5)
           /\ \A k \in 1..vis[v].tries : ~Opens(Nth(cs, turn + 5 - k))
        \/ /\ vis[v].pc = "get" /\ cs # <<>> /\ vis[v].tries >= 1
           /\ \A k \in 1..vis[v].tries : ~Opens(Nth(cs, turn + 6 - k))
        \/ /\ vis[v].pc = "failed"
           /\ \A i \in 1..Len(cs) : ~Opens(cs[i])

TunnelInv ==
  /\ TunnelShape /\ ListBound
  /\ \A v \in Visitors : VisitAt(v) /\ GotAt(v) /\ SeenAt(v)
  /\ \A s \in Streams : StreamAt(s) /\ PendAt(s)

LEMMA SetupRecord ==
  ASSUME RelayTunnelAssumption, TunnelShape
  PROVE  /\ setup.reqs \in Nat /\ \A v \in Visitors : setup.use[v] \in {"none", "http", "raw", "connect"}
         /\ \A c \in Connectors : setup.net[c] \in {"none", "tcp", "udp"}
  BY DEF RelayTunnelAssumption, TunnelShape

LEMMA VisitKept ==
  ASSUME NEW v \in Visitors, TunnelShape, VisitAt(v), setup' = setup, vis'[v] = vis[v],
         \A s \in Streams : str[s].pc # "none" => str'[s].vis = str[s].vis /\ str'[s].pc # "none"
  PROVE  VisitAt(v)'
<1>1. vis[v] \in Visits
  BY DEF TunnelShape
<1>2. vis[v].cc \in 0..MaxStreams /\ vis[v].entry \in 0..MaxStreams
  BY <1>1 DEF Visits
<1> QED BY <1>2 DEF VisitAt, Http, Streams

LEMMA GotKept ==
  ASSUME NEW v \in Visitors, GotAt(v), setup' = setup, vis'[v] = vis[v]
  PROVE  GotAt(v)'
  BY DEF GotAt, InHand, Http

LEMMA SeenKept ==
  ASSUME NEW v \in Visitors, SeenAt(v), setup' = setup, vis'[v] = vis[v],
         ~calm'[v] \/ (calm'[v] = calm[v] /\ turn' = turn /\ list' = list /\ sess' = sess)
  PROVE  SeenAt(v)'
<1>1. CASE ~calm'[v]
  BY <1>1 DEF SeenAt
<1>2. CASE calm'[v] = calm[v] /\ turn' = turn /\ list' = list /\ sess' = sess
  <2>1. vis'[v].network = vis[v].network /\ Of(vis[v].network)' = Of(vis[v].network)
    BY <1>2 DEF Of
  <2>2. \A c : Opens(c)' = Opens(c)
    BY <1>2 DEF Opens
  <2> QED BY <1>2, <2>1, <2>2 DEF SeenAt, Nth, Of, Opens
<1> QED BY <1>1, <1>2

LEMMA StreamKept ==
  ASSUME NEW s \in Streams, StreamAt(s), PendAt(s), setup' = setup, str'[s] = str[s],
         str[s].pc # "none" => vis'[str[s].vis] = vis[str[s].vis]
  PROVE  StreamAt(s)' /\ PendAt(s)'
<1>1. PICK v : v = str[s].vis
  OBVIOUS
<1>2. StreamAt(s)'
  BY <1>1 DEF StreamAt, Http
<1>3. PendAt(s)'
  BY <1>1 DEF PendAt, InHand, Http
<1> QED BY <1>2, <1>3
(* What an action of v does to its answers: one more of the handler's own at
   most, as long as the requests leave room for it. *)
Grows(v) ==
  /\ vis'[v].got \in {vis[v].got, Append(vis[v].got, 0)}
  /\ vis'[v].req >= vis[v].req
  /\ InHand(v)' => vis'[v].req > vis[v].req \/ InHand(v)

Fits(v) ==
  /\ Grows(v)
  /\ Len(vis'[v].got) + (IF InHand(v)' THEN 1 ELSE 0) + vis[v].req + vis[v].broken
       <= Len(vis[v].got) + (IF InHand(v) THEN 1 ELSE 0) + vis'[v].req + vis'[v].broken

(* Answers that are those before, or one more of the handler's own. *)
LEMMA MoreGot ==
  ASSUME NEW g \in Seq(Nat), NEW h, h \in {g, Append(g, 0)}
  PROVE  /\ h \in Seq(Nat) /\ Len(h) \in {Len(g), Len(g) + 1} /\ Len(g) \in Nat
         /\ \A i \in 1..Len(h) : (i \in 1..Len(g) /\ h[i] = g[i]) \/ h[i] = 0
<1>1. Len(g) \in Nat
  OBVIOUS
<1>2. CASE h = g
  BY <1>1, <1>2
<1>3. CASE h = Append(g, 0)
  <2> DEFINE n == Len(g)
  <2>1. /\ h \in Seq(Nat) /\ Len(h) = n + 1 /\ h[n + 1] = 0
        /\ \A i \in 1..n : h[i] = g[i]
    BY <1>3, AppendProperties
  <2>2. n \in Nat
    BY <1>1
  <2> HIDE DEF n
  <2>3. \A i \in 1..(n + 1) : i \in 1..n \/ i = n + 1
    BY <2>2
  <2> QED BY <2>1, <2>2, <2>3 DEF n
<1> QED BY <1>2, <1>3

LEMMA VisitTypes ==
  ASSUME NEW x \in Visits
  PROVE  x.got \in Seq(Nat) /\ Len(x.got) \in Nat /\ x.req \in Nat /\ x.broken \in Nat
<1>1. x.got \in Seq(Nat) /\ x.req \in Nat /\ x.broken \in Nat
  BY DEF Visits
<1> QED BY <1>1

LEMMA GotGrows ==
  ASSUME NEW v \in Visitors, TunnelShape, TunnelShape', GotAt(v), Grows(v),
         Len(vis'[v].got) + (IF InHand(v)' THEN 1 ELSE 0) <= vis'[v].req + vis'[v].broken
  PROVE  GotAt(v)'
<1> DEFINE got == vis[v].got
           got1 == vis'[v].got
           n == Len(got)
           req == vis[v].req
           req1 == vis'[v].req
<1>1. vis[v] \in Visits /\ vis'[v] \in Visits
  BY DEF TunnelShape
<1>2. /\ got \in Seq(Nat) /\ got1 \in Seq(Nat) /\ n \in Nat /\ req \in Nat /\ req1 \in Nat
      /\ vis[v].broken \in Nat /\ vis'[v].broken \in Nat
  BY <1>1, VisitTypes
<1>3. got1 \in {got, Append(got, 0)}
  BY DEF Grows
<1>4. \A i \in 1..n : got[i] \in Nat
  <2> HIDE DEF got
  <2> QED BY <1>2
<1>5. /\ Len(got1) \in {n, n + 1}
      /\ \A i \in 1..Len(got1) : (i \in 1..n /\ got1[i] = got[i]) \/ got1[i] = 0
  <2> HIDE DEF got, got1
  <2> QED BY <1>2, <1>3, MoreGot
<1>6. Len(got1) \in Nat /\ \A i \in 1..Len(got1) : (i \in 1..n /\ got1[i] = got[i]) \/ got1[i] = 0
  <2> HIDE DEF n
  <2> QED BY <1>2, <1>5
<1>7. \A i \in 1..Len(got1) : got1[i] <= req1 /\ (InHand(v)' /\ got1[i] > 0 => got1[i] < req1)
  <2>1. \A i \in 1..n : got[i] <= req /\ (InHand(v) /\ got[i] > 0 => got[i] < req)
    BY DEF GotAt
  <2>2. req1 >= req /\ (InHand(v)' => req1 > req \/ InHand(v))
    BY DEF Grows
  <2> HIDE DEF n, got, got1, req, req1
  <2> SUFFICES ASSUME NEW i \in 1..Len(got1)
               PROVE  got1[i] <= req1 /\ (InHand(v)' /\ got1[i] > 0 => got1[i] < req1)
    OBVIOUS
  <2>3. CASE got1[i] = 0
    BY <1>2, <2>3
  <2>4. CASE i \in 1..n /\ got1[i] = got[i]
    BY <1>2, <1>4, <2>1, <2>2, <2>4
  <2> QED BY <1>6, <2>3, <2>4
<1>8. \A i, j \in 1..Len(got1) : i < j /\ got1[i] > 0 /\ got1[j] > 0 => got1[i] < got1[j]
  <2>1. \A i, j \in 1..n : i < j /\ got[i] > 0 /\ got[j] > 0 => got[i] < got[j]
    BY DEF GotAt
  <2>2. SUFFICES ASSUME NEW i \in 1..Len(got1), NEW j \in 1..Len(got1), i < j, got1[i] > 0, got1[j] > 0
                 PROVE  got1[i] < got1[j]
    OBVIOUS
  <2>3. i \in 1..n /\ j \in 1..n /\ got1[i] = got[i] /\ got1[j] = got[j]
    BY <1>6, <2>2
  <2> HIDE DEF n, got, got1
  <2> QED BY <2>1, <2>2, <2>3
<1>9. InHand(v)' => req1 >= 1
  <2>1. req1 >= req /\ (InHand(v)' => req1 > req \/ InHand(v)) /\ (InHand(v) => req >= 1)
    BY DEF Grows, GotAt
  <2> HIDE DEF req, req1
  <2> QED BY <1>2, <2>1
<1> QED BY <1>7, <1>8, <1>9 DEF GotAt

LEMMA GotFits ==
  ASSUME NEW v \in Visitors, TunnelShape, TunnelShape', GotAt(v), Fits(v)
  PROVE  GotAt(v)'
<1> DEFINE got == vis[v].got
           got1 == vis'[v].got
           n == Len(got)
           req == vis[v].req
           req1 == vis'[v].req
<1>1. vis[v] \in Visits /\ vis'[v] \in Visits
  BY DEF TunnelShape
<1>2. /\ got \in Seq(Nat) /\ got1 \in Seq(Nat) /\ n \in Nat /\ req \in Nat /\ req1 \in Nat
      /\ vis[v].broken \in Nat /\ vis'[v].broken \in Nat
  BY <1>1, VisitTypes
<1>9. Len(got1) + (IF InHand(v)' THEN 1 ELSE 0) <= req1 + vis'[v].broken
  <2> DEFINE d == IF InHand(v) THEN 1 ELSE 0
             d1 == IF InHand(v)' THEN 1 ELSE 0
             b == vis[v].broken
             b1 == vis'[v].broken
             m == Len(got1)
  <2>1. n + d <= req + b
    BY DEF GotAt
  <2>2. m + d1 + req + b <= n + d + req1 + b1
    BY DEF Fits
  <2>3. /\ d \in Nat /\ d1 \in Nat /\ b \in Nat /\ b1 \in Nat /\ m \in Nat
        /\ n \in Nat /\ req \in Nat /\ req1 \in Nat
    BY <1>2
  <2> HIDE DEF n, req, req1, d, d1, b, b1, m
  <2>4. m + d1 <= req1 + b1
    BY <2>1, <2>2, <2>3
  <2> QED BY <2>4 DEF m, d1, b1
<1> QED BY <1>9, GotGrows DEF Fits

LEMMA PendFits ==
  ASSUME NEW v \in Visitors, NEW s \in Streams, str[s].vis = v, str'[s].vis = v,
         str'[s].pc = str[s].pc, str'[s].pend = str[s].pend,
         TunnelShape, TunnelShape', PendAt(s), Fits(v)
  PROVE  PendAt(s)'
<1> DEFINE got == vis[v].got
           got1 == vis'[v].got
           pend == str[s].pend
           n == Len(got)
           m == Len(got1)
           p == Len(pend)
           req == vis[v].req
           req1 == vis'[v].req
           b == vis[v].broken
           b1 == vis'[v].broken
           d == IF InHand(v) THEN 1 ELSE 0
           d1 == IF InHand(v)' THEN 1 ELSE 0
<1>1. vis[v] \in Visits /\ vis'[v] \in Visits /\ str[s] \in StreamRecs
  BY DEF TunnelShape
<1>2. got \in Seq(Nat) /\ got1 \in Seq(Nat) /\ pend \in Seq(Nat)
  BY <1>1 DEF Visits, StreamRecs
<1>0. /\ n \in Nat /\ m \in Nat /\ p \in Nat /\ req \in Nat /\ req1 \in Nat /\ b \in Nat /\ b1 \in Nat
      /\ d \in Nat /\ d1 \in Nat
  <2>1. req \in Nat /\ req1 \in Nat /\ b \in Nat /\ b1 \in Nat
    BY <1>1 DEF Visits
  <2>2. n \in Nat /\ m \in Nat /\ p \in Nat
    BY <1>2
  <2>3. d \in Nat /\ d1 \in Nat
    OBVIOUS
  <2> QED BY <2>1, <2>2, <2>3
<1>3. /\ m + d1 + req + b <= n + d + req1 + b1
      /\ req1 >= req /\ (InHand(v)' => req1 > req \/ InHand(v))
  BY DEF Fits, Grows
<1>4. got1 \in {got, Append(got, 0)}
  BY DEF Fits, Grows
<1>5. \A i \in 1..m : (i \in 1..n /\ got1[i] = got[i]) \/ got1[i] = 0
  <2>1. /\ Len(Append(got, 0)) = n + 1 /\ Append(got, 0)[n + 1] = 0
        /\ \A i \in 1..n : Append(got, 0)[i] = got[i]
    BY <1>2, AppendProperties
  <2> DEFINE more == Append(got, 0)
  <2>2. got1 = got \/ got1 = more
    BY <1>4
  <2> HIDE DEF more
  <2>3. CASE got1 = got
    BY <2>3
  <2>4. CASE got1 = more
    <3>1. m = n + 1 /\ got1[n + 1] = 0 /\ \A i \in 1..n : got1[i] = got[i]
      BY <2>1, <2>4 DEF more
    <3> HIDE DEF n, m, got, got1
    <3> QED BY <1>0, <3>1
  <2> QED BY <2>2, <2>3, <2>4
<1>6. ASSUME str[s].pc = "copy"
      PROVE  /\ \A k \in 1..p : pend[k] \in 1..req1 /\ (InHand(v)' => pend[k] < req1)
             /\ \A j, k \in 1..p : j < k => pend[j] < pend[k]
             /\ \A i \in 1..m, k \in 1..p : got1[i] < pend[k]
             /\ m + p + d1 <= req1 + b1
  <2>1. /\ \A k \in 1..p : pend[k] \in 1..req /\ (InHand(v) => pend[k] < req)
        /\ \A j, k \in 1..p : j < k => pend[j] < pend[k]
        /\ \A i \in 1..n, k \in 1..p : got[i] < pend[k]
        /\ n + p + d <= req + b
    BY <1>6 DEF PendAt
  <2> HIDE DEF n, m, p, req, req1, b, b1, d, d1, got, got1, pend
  <2>2. m + p + d1 <= req1 + b1
    BY <1>0, <1>3, <2>1
  <2>3. ASSUME NEW i \in 1..m, NEW k \in 1..p PROVE got1[i] < pend[k]
    BY <1>0, <1>5, <2>1
  <2>4. ASSUME NEW k \in 1..p PROVE pend[k] \in 1..req1 /\ (InHand(v)' => pend[k] < req1)
    <3>1. pend[k] \in 1..req /\ (InHand(v) => pend[k] < req)
      BY <2>1
    <3>2. pend[k] \in 1..req1
      BY <1>0, <1>3, <3>1
    <3>3. ASSUME InHand(v)' PROVE pend[k] < req1
      BY <1>0, <1>3, <3>1, <3>3
    <3> QED BY <3>2, <3>3
  <2> QED BY <2>1, <2>2, <2>3, <2>4
<1>7. ASSUME str[s].pc = "err" PROVE m + 1 + d1 <= req1 + b1
  <2>1. n + 1 + d <= req + b
    BY <1>7 DEF PendAt
  <2> HIDE DEF n, m, p, req, req1, b, b1, d, d1, got, got1, pend
  <2> QED BY <1>0, <1>3, <2>1
<1> QED BY <1>6, <1>7 DEF PendAt

(* The others, when v or its streams do something. *)
LEMMA OthersKept ==
  ASSUME TunnelInv, NEW v \in Visitors, setup' = setup, list' = list, sess' = sess,
         \A w \in Visitors : w # v =>
           vis'[w] = vis[w] /\ (~calm'[w] \/ (calm'[w] = calm[w] /\ turn' = turn)),
         \A s \in Streams : str[s].pc # "none" => str'[s].vis = str[s].vis /\ str'[s].pc # "none"
  PROVE  /\ ListBound'
         /\ \A w \in Visitors : w # v => VisitAt(w)' /\ GotAt(w)' /\ SeenAt(w)'
         /\ \A s \in Streams : str'[s] = str[s] /\ str[s].vis # v => StreamAt(s)' /\ PendAt(s)'
<1>1. ListBound'
  BY DEF TunnelInv, ListBound
<1>2. ASSUME NEW w \in Visitors, w # v PROVE VisitAt(w)' /\ GotAt(w)' /\ SeenAt(w)'
  <2>1. TunnelShape /\ VisitAt(w) /\ GotAt(w) /\ SeenAt(w)
    BY DEF TunnelInv
  <2>2. vis'[w] = vis[w] /\ (~calm'[w] \/ (calm'[w] = calm[w] /\ turn' = turn))
    BY <1>2
  <2>3. VisitAt(w)'
    BY <2>1, <2>2, VisitKept
  <2>4. GotAt(w)'
    BY <2>1, <2>2, GotKept
  <2>5. SeenAt(w)'
    BY <2>1, <2>2, SeenKept
  <2> QED BY <2>3, <2>4, <2>5
<1>3. ASSUME NEW s \in Streams, str'[s] = str[s], str[s].vis # v PROVE StreamAt(s)' /\ PendAt(s)'
  <2>1. StreamAt(s) /\ PendAt(s)
    BY DEF TunnelInv
  <2>2. str[s].pc # "none" => vis'[str[s].vis] = vis[str[s].vis]
    BY <1>3, <2>1 DEF StreamAt
  <2> QED BY <1>3, <2>1, <2>2, StreamKept
<1> QED BY <1>1, <1>2, <1>3

(* An action of v that touches no stream. *)
LEMMA VisitMoves ==
  ASSUME TunnelInv, TunnelShape', NEW v \in Visitors,
         setup' = setup, list' = list, sess' = sess, str' = str,
         \A w \in Visitors : w # v =>
           vis'[w] = vis[w] /\ (~calm'[w] \/ (calm'[w] = calm[w] /\ turn' = turn)),
         VisitAt(v)', SeenAt(v)', Fits(v), vis'[v].entry = vis[v].entry
  PROVE  TunnelInv'
<1>1. /\ ListBound'
      /\ \A w \in Visitors : w # v => VisitAt(w)' /\ GotAt(w)' /\ SeenAt(w)'
      /\ \A s \in Streams : str'[s] = str[s] /\ str[s].vis # v => StreamAt(s)' /\ PendAt(s)'
  BY OthersKept
<1>2. GotAt(v)'
  BY GotFits DEF TunnelInv
<1>3. ASSUME NEW s \in Streams, str[s].vis = v PROVE StreamAt(s)' /\ PendAt(s)'
  <2>1. PendAt(s)'
    BY <1>3, PendFits DEF TunnelInv
  <2>2. StreamAt(s)
    BY DEF TunnelInv
  <2> QED BY <1>3, <2>1, <2>2 DEF StreamAt, Http
<1> QED BY <1>1, <1>2, <1>3 DEF TunnelInv

(* The turns of three attempts, whatever the length, meet every place. *)
LEMMA TurnsMod ==
  ASSUME NEW n \in 1..3, NEW t \in 0..5
  PROVE  /\ ((t + 1) % 6) \in 0..5
         /\ (((t + 1) % 6) + 5) % n = t % n
         /\ \A k \in 1..3 : (((t + 1) % 6) + 5 - k) % n = (t + 6 - k) % n
         /\ \A i \in 1..n : \E k \in 1..3 : ((t + 6 - k) % n) + 1 = i
         /\ \A j \in 0..11 : (j % n) + 1 \in 1..n
<1>1. t \in {0, 1, 2, 3, 4, 5}
  OBVIOUS
<1>2. CASE n = 1
  BY <1>1, <1>2
<1>3. CASE n = 2
  BY <1>1, <1>3
<1>4. CASE n = 3
  BY <1>1, <1>4
<1> QED BY <1>2, <1>3, <1>4

LEMMA ShortList ==
  ASSUME RelayTunnelAssumption, list \in Seq(Connectors), IsInjective(list)
  PROVE  Len(list) <= 3
<1>1. Len(list) \in Nat /\ DOMAIN list = 1..Len(list) /\ list \in [1..Len(list) -> Connectors]
  OBVIOUS
<1>2. IsFiniteSet(1..Len(list)) /\ Cardinality(1..Len(list)) = Len(list)
  <2>1. /\ IsFiniteSet(1..Len(list))
        /\ Cardinality(1..Len(list)) = IF 1 > Len(list) THEN 0 ELSE Len(list) - 1 + 1
    <3>1. 1 \in Int /\ Len(list) \in Int
      BY <1>1
    <3> QED BY <3>1, FS_Interval, Zenon
  <2> QED BY <1>1, <2>1
<1>3. IsFiniteSet(Connectors) /\ Cardinality(Connectors) \in Nat /\ Cardinality(Connectors) <= 3
  BY FS_CardinalityType DEF RelayTunnelAssumption
<1>4. SUFFICES ASSUME Cardinality(Connectors) < Cardinality(1..Len(list)) PROVE FALSE
  BY <1>1, <1>2, <1>3
<1>5. \E x, y \in 1..Len(list) : x # y /\ list[x] = list[y]
  BY <1>1, <1>2, <1>3, <1>4, FS_PigeonHole
<1> QED BY <1>1, <1>5 DEF IsInjective

LEMMA OfList ==
  ASSUME RelayTunnelAssumption, list \in Seq(Connectors), IsInjective(list), NEW m
  PROVE  /\ Of(m) \in Seq(Connectors) /\ Len(Of(m)) \in 0..3
         /\ \A k \in 1..Len(Of(m)) : \E i \in 1..Len(list) : Of(m)[k] = list[i]
<1> DEFINE S == {c \in Connectors : (m = "udp") <=> (setup.net[c] = "udp")}
<1>1. Of(m) = Keep(list, S)
  BY DEF Of
<1> HIDE DEF S
<1>2. /\ Keep(list, S) \in Seq(Connectors) /\ Len(Keep(list, S)) <= Len(list)
      /\ \A k \in 1..Len(Keep(list, S)) : \E j \in 1..Len(list) : list[j] = Keep(list, S)[k]
  BY KeepElements
<1>3. Len(list) <= 3
  BY ShortList
<1> DEFINE kept == Keep(list, S)
<1>4. kept \in Seq(Connectors) /\ Len(kept) <= Len(list) /\ Len(kept) \in Nat /\ Len(list) \in Nat
  BY <1>2
<1>5. Len(kept) \in 0..3
  <2> DEFINE a == Len(kept)
             b == Len(list)
  <2>1. a \in Nat /\ b \in Nat /\ a <= b /\ b <= 3
    BY <1>3, <1>4
  <2> HIDE DEF a, b
  <2>2. a \in 0..3
    BY <2>1
  <2> QED BY <2>2 DEF a
<1> QED BY <1>1, <1>2, <1>5 DEF kept


(* Pick, and a pick that fails, keep what is known of the picks before. *)
LEMMA PickSeen ==
  ASSUME RelayTunnelAssumption, TunnelInv, NEW v \in Visitors, Pick(v)
  PROVE  SeenAt(v)'
<1>0. PICK m : m = vis[v].network
  OBVIOUS
<1> DEFINE cs == Of(m)
           n == Len(cs)
           tries == vis[v].tries
<1>1. /\ vis[v] \in Visits /\ turn \in 0..5 /\ m \in {"tcp", "udp"} /\ tries \in 0..3
      /\ vis \in [Visitors -> Visits] /\ calm \in [Visitors -> BOOLEAN]
  BY <1>0 DEF TunnelInv, TunnelShape, Visits, Retry, Period
<1>2. cs \in Seq(Connectors) /\ n \in 0..3
  BY OfList DEF TunnelInv, TunnelShape
<1>3. vis[v].pc = "get" /\ UNCHANGED <<setup, list, sess, str>>
  BY <1>0 DEF Pick, PickBelow
<1>4. \A w : Of(w)' = Of(w)
  BY <1>3 DEF Of
<1>5. \A c : Opens(c)' <=> Opens(c)
  BY <1>3 DEF Opens
<1>6. SeenAt(v)
  BY DEF TunnelInv
<1>7. CASE cs = <<>> \/ tries = 3
  <2>1. vis' = [vis EXCEPT ![v].pc = "failed"] /\ UNCHANGED <<turn, calm>>
    BY <1>0, <1>7 DEF Pick, PickBelow, Retry
  <2>2. vis'[v].pc = "failed" /\ vis'[v].network = m
    BY <1>0, <1>1, <2>1 DEF Visits
  <2>3. ASSUME calm[v], NEW i \in 1..n PROVE ~Opens(cs[i])
    <3>1. cs # <<>> /\ \A k \in 1..tries : ~Opens(Nth(cs, turn + 6 - k))
      BY <1>0, <1>3, <1>6, <2>3 DEF SeenAt, Nth
    <3>2. tries = 3 /\ n \in 1..3
      BY <1>2, <1>7, <3>1
    <3>3. PICK k \in 1..3 : ((turn + 6 - k) % n) + 1 = i
      BY <1>1, <3>2, <2>3, TurnsMod
    <3> QED BY <3>1, <3>2, <3>3 DEF Nth
  <2> QED BY <1>4, <1>5, <2>1, <2>2, <2>3 DEF SeenAt, Nth
<1>8. CASE ~(cs = <<>> \/ tries = 3)
  <2>1. /\ vis' = [vis EXCEPT ![v].pc = "open", ![v].picked = cs[(turn % n) + 1]]
        /\ turn' = (turn + 1) % 6
        /\ calm' = [w \in Visitors |-> w = v /\ (tries = 0 \/ calm[v])]
    BY <1>0, <1>8 DEF Pick, PickBelow, Retry, Period
  <2>2. /\ vis'[v].pc = "open" /\ vis'[v].network = m /\ vis'[v].tries = tries
        /\ vis'[v].picked = cs[(turn % n) + 1]
    BY <1>0, <1>1, <2>1 DEF Visits
  <2>3. n \in 1..3
    BY <1>2, <1>8
  <2>4. /\ (turn' + 5) % n = turn % n
        /\ \A k \in 1..3 : (turn' + 5 - k) % n = (turn + 6 - k) % n
    BY <1>1, <2>1, <2>3, TurnsMod
  <2>5. vis'[v].picked = Nth(cs, turn' + 5)
    BY <2>2, <2>4 DEF Nth
  <2>6. ASSUME calm'[v], NEW k \in 1..tries PROVE ~Opens(Nth(cs, turn' + 5 - k))
    <3>1. calm[v]
      BY <1>1, <2>1, <2>6
    <3>2. \A j \in 1..tries : ~Opens(Nth(cs, turn + 6 - j))
      BY <1>0, <1>3, <1>6, <3>1 DEF SeenAt, Nth
    <3>3. k \in 1..3
      BY <1>1
    <3> QED BY <2>4, <3>2, <3>3 DEF Nth
  <2>7. Of(m)' = cs
    BY <1>4 DEF Of
  <2> QED BY <1>4, <1>5, <1>8, <2>2, <2>5, <2>6, <2>7 DEF SeenAt, Nth
<1> QED BY <1>7, <1>8

LEMMA OpenFailsSeen ==
  ASSUME RelayTunnelAssumption, TunnelInv, NEW v \in Visitors, OpenFails(v)
  PROVE  SeenAt(v)'
<1>0. PICK m : m = vis[v].network
  OBVIOUS
<1> DEFINE cs == Of(m)
           tries == vis[v].tries
<1>1. /\ vis[v] \in Visits /\ turn \in 0..5 /\ tries \in 0..3
      /\ vis \in [Visitors -> Visits]
  BY <1>0 DEF TunnelInv, TunnelShape, Visits, Retry, Period
<1>2. /\ vis[v].pc = "open" /\ ~Opens(vis[v].picked) /\ UNCHANGED <<tunnel, sess, str, calm>>
      /\ vis' = [vis EXCEPT ![v].pc = "get", ![v].tries = @ + 1, ![v].picked = "none"]
  BY DEF OpenFails
<1>3. vis'[v].pc = "get" /\ vis'[v].network = m /\ vis'[v].tries = tries + 1
  BY <1>0, <1>1, <1>2 DEF Visits
<1>4. Of(m)' = cs /\ \A c : Opens(c)' <=> Opens(c)
  BY <1>2 DEF Of, Opens, tunnel
<1>5. ASSUME calm[v]
      PROVE  /\ cs # <<>> /\ vis[v].picked = Nth(cs, turn + 5)
             /\ \A k \in 1..tries : ~Opens(Nth(cs, turn + 5 - k))
  BY <1>0, <1>2, <1>5 DEF TunnelInv, SeenAt
<1>6. ASSUME calm[v], NEW k \in 1..(tries + 1) PROVE ~Opens(Nth(cs, turn + 6 - k))
  <2>1. CASE k = 1
    <3>1. turn + 6 - k = turn + 5
      BY <1>1, <2>1
    <3> QED BY <1>2, <1>5, <1>6, <3>1
  <2>2. CASE k # 1
    <3>1. PICK j \in 1..tries : turn + 6 - k = turn + 5 - j
      <4>1. k - 1 \in 1..tries /\ turn + 6 - k = turn + 5 - (k - 1)
        BY <1>1, <2>2
      <4> QED BY <4>1
    <3> QED BY <1>5, <1>6, <3>1
  <2> QED BY <2>1, <2>2
<1>7. tries + 1 >= 1 /\ turn' = turn /\ calm' = calm
  BY <1>1, <1>2 DEF tunnel
<1> QED BY <1>3, <1>4, <1>5, <1>6, <1>7 DEF SeenAt, Nth

LEMMA SeenSame ==
  ASSUME NEW v \in Visitors, SeenAt(v), UNCHANGED <<setup, list, sess, turn>>,
         ~calm'[v] \/ (/\ calm'[v] = calm[v]
                       /\ vis'[v].pc = vis[v].pc /\ vis'[v].network = vis[v].network
                       /\ vis'[v].tries = vis[v].tries /\ vis'[v].picked = vis[v].picked)
  PROVE  SeenAt(v)'
<1>1. CASE ~calm'[v]
  BY <1>1 DEF SeenAt
<1>2. CASE calm'[v]
  <2>1. PICK m : m = vis[v].network
    OBVIOUS
  <2>2. /\ calm[v] /\ vis'[v].pc = vis[v].pc /\ vis'[v].network = m
        /\ vis'[v].tries = vis[v].tries /\ vis'[v].picked = vis[v].picked
    BY <1>2, <2>1
  <2>3. Of(m)' = Of(m) /\ \A c : Opens(c)' <=> Opens(c)
    BY DEF Of, Opens
  <2> QED BY <2>1, <2>2, <2>3 DEF SeenAt, Nth
<1> QED BY <1>1, <1>2

(* What is known of a visitor before it acts. *)
VisitFacts(v) ==
  /\ vis \in [Visitors -> Visits] /\ calm \in [Visitors -> BOOLEAN] /\ vis[v] \in Visits
  /\ vis[v].tries \in 0..3 /\ vis[v].cc \in 0..MaxStreams
  /\ vis[v].entry \in 0..MaxStreams /\ vis[v].req \in Nat /\ vis[v].left \in BOOLEAN
  /\ vis[v].got \in Seq(Nat) /\ Append(vis[v].got, 0) \in Seq(Nat)
  /\ Len(vis[v].got) \in Nat /\ Len(Append(vis[v].got, 0)) = Len(vis[v].got) + 1
  /\ vis[v].broken \in Nat /\ setup.reqs \in Nat /\ MaxStreams \in Nat
  /\ VisitAt(v) /\ SeenAt(v) /\ TunnelShape

LEMMA VisitKnown ==
  ASSUME RelayTunnelAssumption, TunnelInv, NEW v \in Visitors
  PROVE  VisitFacts(v)
<1>1. TunnelShape /\ VisitAt(v) /\ SeenAt(v)
  BY DEF TunnelInv
<1>2. /\ vis \in [Visitors -> Visits] /\ calm \in [Visitors -> BOOLEAN] /\ vis[v] \in Visits
      /\ setup.reqs \in Nat /\ MaxStreams \in Nat
  BY <1>1, SetupRecord DEF TunnelShape, RelayTunnelAssumption
<1>3. /\ vis[v].tries \in 0..3 /\ vis[v].cc \in 0..MaxStreams
      /\ vis[v].entry \in 0..MaxStreams /\ vis[v].req \in Nat /\ vis[v].left \in BOOLEAN
      /\ vis[v].got \in Seq(Nat) /\ vis[v].broken \in Nat
  BY <1>2 DEF Visits, Retry
<1>4. /\ Append(vis[v].got, 0) \in Seq(Nat) /\ Len(vis[v].got) \in Nat
      /\ Len(Append(vis[v].got, 0)) = Len(vis[v].got) + 1
  BY <1>3
<1> QED BY <1>1, <1>2, <1>3, <1>4 DEF VisitFacts

(* The ways in which an action leaves room for the answers that are due. *)
LEMMA FitsIf ==
  ASSUME NEW v \in Visitors, VisitFacts(v), vis'[v].broken = vis[v].broken,
         \/ vis'[v].got = vis[v].got /\ vis'[v].req = vis[v].req /\ (InHand(v)' => InHand(v))
         \/ vis'[v].got = vis[v].got /\ vis'[v].req = vis[v].req + 1
         \/ /\ vis'[v].got \in {vis[v].got, Append(vis[v].got, 0)} /\ ~InHand(v)'
            /\ \/ vis'[v].req = vis[v].req /\ InHand(v)
               \/ vis'[v].req = vis[v].req + 1
  PROVE  Fits(v)
<1> DEFINE d == IF InHand(v) THEN 1 ELSE 0
           d1 == IF InHand(v)' THEN 1 ELSE 0
           n == Len(vis[v].got)
           m == Len(vis'[v].got)
           r == vis[v].req
           r1 == vis'[v].req
           b == vis[v].broken
<1>1. n \in Nat /\ r \in Nat /\ b \in Nat /\ Len(Append(vis[v].got, 0)) = n + 1
  BY DEF VisitFacts
<1>2. vis'[v].got \in {vis[v].got, Append(vis[v].got, 0)}
  OBVIOUS
<1>3. /\ d \in {0, 1} /\ d1 \in {0, 1} /\ (d = 1 => InHand(v)) /\ (d1 = 1 => InHand(v)')
      /\ (InHand(v) => d = 1) /\ (InHand(v)' => d1 = 1)
  OBVIOUS
<1>4. m \in {n, n + 1} /\ (vis'[v].got = vis[v].got => m = n)
  BY <1>1, <1>2
<1>5. m + d1 + r + b <= n + d + r1 + b
  <2>1. \/ m = n /\ r1 = r /\ (d1 = 1 => d = 1)
        \/ m = n /\ r1 = r + 1
        \/ d1 = 0 /\ r1 = r /\ d = 1
        \/ d1 = 0 /\ r1 = r + 1
    BY <1>3, <1>4
  <2> HIDE DEF d, d1, n, m, r, r1, b
  <2> QED BY <1>1, <1>3, <1>4, <2>1
<1>6. r1 >= r /\ (InHand(v)' => r1 > r \/ InHand(v))
  BY <1>1
<1> QED BY <1>2, <1>5, <1>6 DEF Fits, Grows

LEMMA ReplyFields ==
  ASSUME NEW x \in Visits
  PROVE  /\ Reply(x) \in Visits
         /\ Reply(x).got = IF x.left THEN x.got ELSE Append(x.got, 0)
         /\ Reply(x).pc = x.pc /\ Reply(x).network = x.network /\ Reply(x).tries = x.tries
         /\ Reply(x).picked = x.picked /\ Reply(x).cc = x.cc /\ Reply(x).entry = x.entry
         /\ Reply(x).req = x.req /\ Reply(x).left = x.left /\ Reply(x).broken = x.broken
<1>1. x.got \in Seq(Nat) /\ Append(x.got, 0) \in Seq(Nat)
  BY DEF Visits
<1> DEFINE z == [x EXCEPT !.got = Append(x.got, 0)]
<1>2. /\ z \in Visits /\ z.got = Append(x.got, 0)
      /\ z.pc = x.pc /\ z.network = x.network /\ z.tries = x.tries
      /\ z.picked = x.picked /\ z.cc = x.cc /\ z.entry = x.entry
      /\ z.req = x.req /\ z.left = x.left /\ z.broken = x.broken
  BY <1>1 DEF Visits
<1>3. Reply(x) = IF x.left THEN x ELSE z
  BY DEF Reply
<1> HIDE DEF z
<1> QED BY <1>2, <1>3

LEMMA LeaveKeeps ==
  ASSUME RelayTunnelAssumption, TunnelInv, NEW v \in Visitors, Leave(v)
  PROVE  TunnelInv'
<1>0. VisitFacts(v)
  BY VisitKnown
<1> USE DEF VisitFacts
<1>1. /\ TRUE
      /\ UNCHANGED <<setup, list, sess, str, turn>> /\ calm' = calm
  BY DEF Leave, tunnel
<1>3. PICK x : /\ vis' = [vis EXCEPT ![v] = x] /\ x \in Visits
               /\ x.pc = vis[v].pc
               /\ x.network = vis[v].network
               /\ x.tries = vis[v].tries
               /\ x.picked = vis[v].picked
               /\ x.cc = vis[v].cc
               /\ x.entry = vis[v].entry
               /\ x.req = vis[v].req
               /\ x.left = TRUE
               /\ x.got = vis[v].got
               /\ x.broken = vis[v].broken
  <2> DEFINE y == [vis[v] EXCEPT !.left = TRUE]
  <2>1. vis' = [vis EXCEPT ![v] = y]
    BY DEF Leave
  <2>2. vis[v] \in Visits /\ (TRUE) \in BOOLEAN
    BY <1>0, <1>1 DEF VisitAt, Http, Retry
  <2>3. y \in Visits
    BY <2>2 DEF Visits
  <2>4. /\ y.pc = vis[v].pc
        /\ y.network = vis[v].network
        /\ y.tries = vis[v].tries
        /\ y.picked = vis[v].picked
        /\ y.cc = vis[v].cc
        /\ y.entry = vis[v].entry
        /\ y.req = vis[v].req
        /\ y.left = TRUE
        /\ y.got = vis[v].got
        /\ y.broken = vis[v].broken
    BY <2>2 DEF Visits
  <2> HIDE DEF y
  <2> QED BY <2>1, <2>3, <2>4
<1>4. vis'[v] = x /\ \A w \in Visitors : w # v => vis'[w] = vis[w]
  BY <1>0, <1>3
<1>5. TunnelShape'
  BY <1>0, <1>1, <1>3 DEF TunnelShape
<1>6. VisitAt(v)'
  BY <1>0, <1>1, <1>3, <1>4 DEF VisitAt, Http
<1>7. SeenAt(v)'
  BY <1>0, <1>1, <1>3, <1>4, SeenSame DEF SeenAt
<1>8. Fits(v)
  <2>1. vis'[v].broken = vis[v].broken /\ vis'[v].req = vis[v].req
    BY <1>3, <1>4
  <2>2. vis'[v].got = vis[v].got
    BY <1>3, <1>4
  <2>3. InHand(v)' => InHand(v)
    BY <1>0, <1>1, <1>3, <1>4 DEF InHand, Http, VisitAt
  <2> QED BY <1>0, <2>1, <2>2, <2>3, FitsIf
<1> QED BY <1>0, <1>1, <1>3, <1>4, <1>5, <1>6, <1>7, <1>8, VisitMoves

LEMMA NextRequestKeeps ==
  ASSUME RelayTunnelAssumption, TunnelInv, NEW v \in Visitors, NextRequest(v)
  PROVE  TunnelInv'
<1>0. VisitFacts(v)
  BY VisitKnown
<1> USE DEF VisitFacts
<1>1. /\ vis[v].pc = "read" /\ vis[v].req < setup.reqs
      /\ UNCHANGED <<setup, list, sess, str, turn>> /\ calm' = calm
  BY DEF NextRequest, tunnel
<1>3. PICK x : /\ vis' = [vis EXCEPT ![v] = x] /\ x \in Visits
               /\ x.pc = IF vis[v].entry = 0 THEN "get" ELSE "write"
               /\ x.network = vis[v].network
               /\ x.tries = vis[v].tries
               /\ x.picked = vis[v].picked
               /\ x.cc = vis[v].entry
               /\ x.entry = vis[v].entry
               /\ x.req = vis[v].req + 1
               /\ x.left = vis[v].left
               /\ x.got = vis[v].got
               /\ x.broken = vis[v].broken
  <2> DEFINE q == IF vis[v].entry = 0 THEN "get" ELSE "write"
             y == [vis[v] EXCEPT !.req = vis[v].req + 1, !.cc = vis[v].entry, !.pc = q]
  <2>1. vis' = [vis EXCEPT ![v] = y]
    BY DEF NextRequest
  <2>2. /\ vis[v] \in Visits
        /\ (vis[v].req + 1) \in Nat
        /\ vis[v].entry \in 0..MaxStreams
        /\ q \in {"start", "get", "open", "failed", "pipe", "read", "write", "body", "ws", "range", "done"}
    BY <1>0, <1>1 DEF VisitAt, Http, Retry
  <2> HIDE DEF q
  <2>3. y \in Visits
    BY <2>2 DEF Visits
  <2>4. /\ y.pc = q
        /\ y.network = vis[v].network
        /\ y.tries = vis[v].tries
        /\ y.picked = vis[v].picked
        /\ y.cc = vis[v].entry
        /\ y.entry = vis[v].entry
        /\ y.req = vis[v].req + 1
        /\ y.left = vis[v].left
        /\ y.got = vis[v].got
        /\ y.broken = vis[v].broken
    BY <2>2 DEF Visits
  <2> HIDE DEF y
  <2> QED BY <2>1, <2>3, <2>4 DEF q
<1>4. vis'[v] = x /\ \A w \in Visitors : w # v => vis'[w] = vis[w]
  BY <1>0, <1>3
<1>5. TunnelShape'
  BY <1>0, <1>1, <1>3 DEF TunnelShape
<1>6. VisitAt(v)'
  <2>1. vis'[v].req <= setup.reqs
    BY <1>0, <1>1, <1>3, <1>4
  <2>2. VisitAt(v)
    BY <1>0
  <2> HIDE DEF VisitFacts
  <2> QED BY <1>1, <1>3, <1>4, <2>1, <2>2 DEF VisitAt, Http
<1>7. SeenAt(v)'
  BY <1>0, <1>1, <1>3, <1>4, SeenSame DEF SeenAt
<1>8. Fits(v)
  <2>1. vis'[v].broken = vis[v].broken /\ vis'[v].req = vis[v].req + 1
    BY <1>3, <1>4
  <2>2. vis'[v].got = vis[v].got
    BY <1>3, <1>4
  <2>3. TRUE
    BY <1>0, <1>1, <1>3, <1>4 DEF InHand, Http, VisitAt
  <2> QED BY <1>0, <2>1, <2>2, <2>3, FitsIf
<1> QED BY <1>0, <1>1, <1>3, <1>4, <1>5, <1>6, <1>7, <1>8, VisitMoves

LEMMA LoopEndsKeeps ==
  ASSUME RelayTunnelAssumption, TunnelInv, NEW v \in Visitors, LoopEnds(v)
  PROVE  TunnelInv'
<1>0. VisitFacts(v)
  BY VisitKnown
<1> USE DEF VisitFacts
<1>1. /\ vis[v].pc \in {"read", "ws"}
      /\ UNCHANGED <<setup, list, sess, str, turn>> /\ calm' = calm
  BY DEF LoopEnds, tunnel
<1>3. PICK x : /\ vis' = [vis EXCEPT ![v] = x] /\ x \in Visits
               /\ x.pc = "range"
               /\ x.network = vis[v].network
               /\ x.tries = vis[v].tries
               /\ x.picked = vis[v].picked
               /\ x.cc = 0
               /\ x.entry = vis[v].entry
               /\ x.req = vis[v].req
               /\ x.left = vis[v].left
               /\ x.got = vis[v].got
               /\ x.broken = vis[v].broken
  <2> DEFINE y == [vis[v] EXCEPT !.pc = "range", !.cc = 0]
  <2>1. vis' = [vis EXCEPT ![v] = y]
    BY DEF LoopEnds
  <2>2. /\ vis[v] \in Visits
        /\ "range" \in {"start", "get", "open", "failed", "pipe", "read", "write", "body", "ws", "range", "done"}
        /\ 0 \in 0..MaxStreams
    BY <1>0, <1>1 DEF VisitAt, Http, Retry
  <2>3. y \in Visits
    BY <2>2 DEF Visits
  <2>4. /\ y.pc = "range"
        /\ y.network = vis[v].network
        /\ y.tries = vis[v].tries
        /\ y.picked = vis[v].picked
        /\ y.cc = 0
        /\ y.entry = vis[v].entry
        /\ y.req = vis[v].req
        /\ y.left = vis[v].left
        /\ y.got = vis[v].got
        /\ y.broken = vis[v].broken
    BY <2>2 DEF Visits
  <2> HIDE DEF y
  <2> QED BY <2>1, <2>3, <2>4
<1>4. vis'[v] = x /\ \A w \in Visitors : w # v => vis'[w] = vis[w]
  BY <1>0, <1>3
<1>5. TunnelShape'
  BY <1>0, <1>1, <1>3 DEF TunnelShape
<1>6. VisitAt(v)'
  BY <1>0, <1>1, <1>3, <1>4 DEF VisitAt, Http
<1>7. SeenAt(v)'
  BY <1>0, <1>1, <1>3, <1>4, SeenSame DEF SeenAt
<1>8. Fits(v)
  <2>1. vis'[v].broken = vis[v].broken /\ vis'[v].req = vis[v].req
    BY <1>3, <1>4
  <2>2. vis'[v].got = vis[v].got
    BY <1>3, <1>4
  <2>3. InHand(v)' => InHand(v)
    BY <1>0, <1>1, <1>3, <1>4 DEF InHand, Http, VisitAt
  <2> QED BY <1>0, <2>1, <2>2, <2>3, FitsIf
<1> QED BY <1>0, <1>1, <1>3, <1>4, <1>5, <1>6, <1>7, <1>8, VisitMoves

LEMMA StartKeeps ==
  ASSUME RelayTunnelAssumption, TunnelInv, NEW v \in Visitors, Start(v)
  PROVE  TunnelInv'
<1>0. VisitFacts(v)
  BY VisitKnown
<1> USE DEF VisitFacts
<1>1. /\ vis[v].pc = "start"
      /\ UNCHANGED <<setup, list, sess, str, turn>> /\ calm' = calm
  BY DEF Start, tunnel
<1>2. PICK m \in {"tcp", "udp"} :
        vis' = [vis EXCEPT ![v] =
                  [vis[v] EXCEPT !.pc = IF setup.use[v] = "http" THEN "read" ELSE "get", !.network = m]]
  BY Zenon DEF Start
<1>3. PICK x : /\ vis' = [vis EXCEPT ![v] = x] /\ x \in Visits
               /\ x.pc = IF setup.use[v] = "http" THEN "read" ELSE "get"
               /\ x.network = m
               /\ x.tries = vis[v].tries
               /\ x.picked = vis[v].picked
               /\ x.cc = vis[v].cc
               /\ x.entry = vis[v].entry
               /\ x.req = vis[v].req
               /\ x.left = vis[v].left
               /\ x.got = vis[v].got
               /\ x.broken = vis[v].broken
  <2> DEFINE q == IF setup.use[v] = "http" THEN "read" ELSE "get"
             y == [vis[v] EXCEPT !.pc = q, !.network = m]
  <2>1. vis' = [vis EXCEPT ![v] = y]
    BY <1>2
  <2>2. /\ vis[v] \in Visits
        /\ q \in {"start", "get", "open", "failed", "pipe", "read", "write", "body", "ws", "range", "done"}
        /\ m \in {"tcp", "udp"}
    BY <1>2, <1>0, <1>1 DEF VisitAt, Http, Retry
  <2> HIDE DEF q
  <2>3. y \in Visits
    BY <2>2 DEF Visits
  <2>4. /\ y.pc = q
        /\ y.network = m
        /\ y.tries = vis[v].tries
        /\ y.picked = vis[v].picked
        /\ y.cc = vis[v].cc
        /\ y.entry = vis[v].entry
        /\ y.req = vis[v].req
        /\ y.left = vis[v].left
        /\ y.got = vis[v].got
        /\ y.broken = vis[v].broken
    BY <2>2 DEF Visits
  <2> HIDE DEF y
  <2> QED BY <2>1, <2>3, <2>4 DEF q
<1>4. vis'[v] = x /\ \A w \in Visitors : w # v => vis'[w] = vis[w]
  BY <1>0, <1>3
<1>5. TunnelShape'
  BY <1>0, <1>1, <1>3 DEF TunnelShape
<1>6. VisitAt(v)'
  BY <1>2, <1>0, <1>1, <1>3, <1>4 DEF VisitAt, Http
<1>7. SeenAt(v)'
  BY <1>0, <1>1, <1>3, <1>4, SeenSame DEF SeenAt
<1>8. Fits(v)
  <2>1. vis'[v].broken = vis[v].broken /\ vis'[v].req = vis[v].req
    BY <1>3, <1>4
  <2>2. vis'[v].got = vis[v].got
    BY <1>3, <1>4
  <2>3. InHand(v)' => InHand(v)
    BY <1>2, <1>0, <1>1, <1>3, <1>4 DEF InHand, Http, VisitAt
  <2> QED BY <1>0, <2>1, <2>2, <2>3, FitsIf
<1> QED BY <1>0, <1>1, <1>3, <1>4, <1>5, <1>6, <1>7, <1>8, VisitMoves

LEMMA RefuseKeeps ==
  ASSUME RelayTunnelAssumption, TunnelInv, NEW v \in Visitors, Refuse(v)
  PROVE  TunnelInv'
<1>0. VisitFacts(v)
  BY VisitKnown
<1> USE DEF VisitFacts
<1>1. /\ ~Http(v)
      /\ UNCHANGED <<setup, list, sess, str, turn>> /\ calm' = [calm EXCEPT ![v] = FALSE]
  BY DEF Refuse, tunnel, Http
<1>3. PICK x : /\ vis' = [vis EXCEPT ![v] = x] /\ x \in Visits
               /\ x.pc = "done"
               /\ x.network = "tcp"
               /\ x.tries = 0
               /\ x.picked = "none"
               /\ x.cc = 0
               /\ x.entry = vis[v].entry
               /\ x.req = vis[v].req
               /\ x.left = TRUE
               /\ x.got = vis[v].got
               /\ x.broken = vis[v].broken
  <2> DEFINE y == Gone(vis[v])
  <2>1. vis' = [vis EXCEPT ![v] = y]
    BY DEF Refuse, Http
  <2>2. /\ vis[v] \in Visits
        /\ "done" \in {"start", "get", "open", "failed", "pipe", "read", "write", "body", "ws", "range", "done"}
        /\ TRUE \in BOOLEAN
        /\ "tcp" \in {"tcp", "udp"}
        /\ 0 \in 0..Retry
        /\ "none" \in Connectors \cup {"none"}
        /\ 0 \in 0..MaxStreams
    BY <1>0, <1>1 DEF VisitAt, Http, Retry
  <2>3. y \in Visits
    BY <2>2 DEF Visits, Gone, NoVisit
  <2>4. /\ y.pc = "done"
        /\ y.network = "tcp"
        /\ y.tries = 0
        /\ y.picked = "none"
        /\ y.cc = 0
        /\ y.entry = vis[v].entry
        /\ y.req = vis[v].req
        /\ y.left = TRUE
        /\ y.got = vis[v].got
        /\ y.broken = vis[v].broken
    BY <2>2 DEF Visits, Gone, NoVisit
  <2> HIDE DEF y
  <2> QED BY <2>1, <2>3, <2>4
<1>4. vis'[v] = x /\ \A w \in Visitors : w # v => vis'[w] = vis[w]
  BY <1>0, <1>3
<1>5. TunnelShape'
  BY <1>0, <1>1, <1>3 DEF TunnelShape
<1>6. VisitAt(v)'
  BY <1>0, <1>1, <1>3, <1>4 DEF VisitAt, Http
<1>7. SeenAt(v)'
  BY <1>0, <1>1, <1>3, <1>4, SeenSame DEF SeenAt
<1>8. Fits(v)
  <2>1. vis'[v].broken = vis[v].broken /\ vis'[v].req = vis[v].req
    BY <1>3, <1>4
  <2>2. vis'[v].got = vis[v].got
    BY <1>3, <1>4
  <2>3. InHand(v)' => InHand(v)
    BY <1>0, <1>1, <1>3, <1>4 DEF InHand, Http, VisitAt
  <2> QED BY <1>0, <2>1, <2>2, <2>3, FitsIf
<1> QED BY <1>0, <1>1, <1>3, <1>4, <1>5, <1>6, <1>7, <1>8, VisitMoves

LEMMA NoRouteKeeps ==
  ASSUME RelayTunnelAssumption, TunnelInv, NEW v \in Visitors, NoRoute(v)
  PROVE  TunnelInv'
<1>0. VisitFacts(v)
  BY VisitKnown
<1> USE DEF VisitFacts
<1>1. /\ vis[v].pc = "read" /\ vis[v].req < setup.reqs
      /\ UNCHANGED <<setup, list, sess, str, turn>> /\ calm' = calm
  BY DEF NoRoute, tunnel, After
<1>2. PICK pc \in {"read", "range"} :
        vis' = [vis EXCEPT ![v] = Reply([vis[v] EXCEPT !.req = vis[v].req + 1, !.pc = pc])]
  BY Zenon DEF NoRoute, After
<1>3. PICK x : /\ vis' = [vis EXCEPT ![v] = x] /\ x \in Visits
               /\ x.pc = pc
               /\ x.network = vis[v].network
               /\ x.tries = vis[v].tries
               /\ x.picked = vis[v].picked
               /\ x.cc = vis[v].cc
               /\ x.entry = vis[v].entry
               /\ x.req = vis[v].req + 1
               /\ x.left = vis[v].left
               /\ x.got \in {vis[v].got, Append(vis[v].got, 0)}
               /\ x.broken = vis[v].broken
  <2> DEFINE y == [vis[v] EXCEPT !.req = vis[v].req + 1, !.pc = pc]
  <2>1. vis' = [vis EXCEPT ![v] = Reply(y)]
    BY <1>2
  <2>2. /\ vis[v] \in Visits
        /\ pc \in {"start", "get", "open", "failed", "pipe", "read", "write", "body", "ws", "range", "done"}
        /\ (vis[v].req + 1) \in Nat
    BY <1>2, <1>0, <1>1 DEF VisitAt, Http, Retry
  <2>3. y \in Visits
    BY <2>2 DEF Visits
  <2>4. /\ y.pc = pc
        /\ y.network = vis[v].network
        /\ y.tries = vis[v].tries
        /\ y.picked = vis[v].picked
        /\ y.cc = vis[v].cc
        /\ y.entry = vis[v].entry
        /\ y.req = vis[v].req + 1
        /\ y.left = vis[v].left
        /\ y.got = vis[v].got
        /\ y.broken = vis[v].broken
    BY <2>2 DEF Visits
  <2> HIDE DEF y
  <2>5. PICK r : /\ r = Reply(y) /\ r \in Visits
                 /\ r.got = IF y.left THEN y.got ELSE Append(y.got, 0)
                 /\ r.pc = y.pc
                 /\ r.network = y.network
                 /\ r.tries = y.tries
                 /\ r.picked = y.picked
                 /\ r.cc = y.cc
                 /\ r.entry = y.entry
                 /\ r.req = y.req
                 /\ r.left = y.left
                 /\ r.broken = y.broken
    BY <2>3, ReplyFields
  <2>6. r.got \in {vis[v].got, Append(vis[v].got, 0)}
    BY <2>4, <2>5
  <2>7. vis' = [vis EXCEPT ![v] = r]
    BY <2>1, <2>5
  <2>8. /\ r \in Visits /\ r.pc = pc
        /\ r.network = vis[v].network
        /\ r.tries = vis[v].tries
        /\ r.picked = vis[v].picked
        /\ r.cc = vis[v].cc
        /\ r.entry = vis[v].entry
        /\ r.req = vis[v].req + 1
        /\ r.left = vis[v].left
        /\ r.broken = vis[v].broken
    BY <2>4, <2>5
  <2> QED BY <2>6, <2>7, <2>8
<1>4. vis'[v] = x /\ \A w \in Visitors : w # v => vis'[w] = vis[w]
  BY <1>0, <1>3
<1>5. TunnelShape'
  BY <1>0, <1>1, <1>3 DEF TunnelShape
<1>6. VisitAt(v)'
  <2>1. vis'[v].req <= setup.reqs
    BY <1>0, <1>1, <1>3, <1>4
  <2>2. VisitAt(v)
    BY <1>0
  <2> HIDE DEF VisitFacts
  <2> QED BY <1>2, <1>1, <1>3, <1>4, <2>1, <2>2 DEF VisitAt, Http
<1>7. SeenAt(v)'
  BY <1>0, <1>1, <1>3, <1>4, SeenSame DEF SeenAt
<1>8. Fits(v)
  <2>1. vis'[v].broken = vis[v].broken /\ vis'[v].req = vis[v].req + 1
    BY <1>3, <1>4
  <2>2. vis'[v].got \in {vis[v].got, Append(vis[v].got, 0)}
    BY <1>3, <1>4
  <2>3. ~InHand(v)'
    BY <1>2, <1>0, <1>1, <1>3, <1>4 DEF InHand, Http, VisitAt
  <2> QED BY <1>0, <2>1, <2>2, <2>3, FitsIf
<1> QED BY <1>0, <1>1, <1>3, <1>4, <1>5, <1>6, <1>7, <1>8, VisitMoves

LEMMA UnavailableKeeps ==
  ASSUME RelayTunnelAssumption, TunnelInv, NEW v \in Visitors, Unavailable(v)
  PROVE  TunnelInv'
<1>0. VisitFacts(v)
  BY VisitKnown
<1> USE DEF VisitFacts
<1>1. /\ vis[v].pc = "failed" /\ Http(v)
      /\ UNCHANGED <<setup, list, sess, str, turn>> /\ calm' = [calm EXCEPT ![v] = FALSE]
  BY DEF Unavailable, tunnel, After, Http
<1>2. PICK pc \in {"read", "range"} :
        vis' = [vis EXCEPT ![v] = Reply([vis[v] EXCEPT !.pc = pc, !.cc = 0, !.tries = 0])]
  BY Zenon DEF Unavailable, After, Http
<1>3. PICK x : /\ vis' = [vis EXCEPT ![v] = x] /\ x \in Visits
               /\ x.pc = pc
               /\ x.network = vis[v].network
               /\ x.tries = 0
               /\ x.picked = vis[v].picked
               /\ x.cc = 0
               /\ x.entry = vis[v].entry
               /\ x.req = vis[v].req
               /\ x.left = vis[v].left
               /\ x.got \in {vis[v].got, Append(vis[v].got, 0)}
               /\ x.broken = vis[v].broken
  <2> DEFINE y == [vis[v] EXCEPT !.pc = pc, !.cc = 0, !.tries = 0]
  <2>1. vis' = [vis EXCEPT ![v] = Reply(y)]
    BY <1>2
  <2>2. /\ vis[v] \in Visits
        /\ pc \in {"start", "get", "open", "failed", "pipe", "read", "write", "body", "ws", "range", "done"}
        /\ 0 \in 0..MaxStreams
        /\ 0 \in 0..Retry
    BY <1>2, <1>0, <1>1 DEF VisitAt, Http, Retry
  <2>3. y \in Visits
    BY <2>2 DEF Visits
  <2>4. /\ y.pc = pc
        /\ y.network = vis[v].network
        /\ y.tries = 0
        /\ y.picked = vis[v].picked
        /\ y.cc = 0
        /\ y.entry = vis[v].entry
        /\ y.req = vis[v].req
        /\ y.left = vis[v].left
        /\ y.got = vis[v].got
        /\ y.broken = vis[v].broken
    BY <2>2 DEF Visits
  <2> HIDE DEF y
  <2>5. PICK r : /\ r = Reply(y) /\ r \in Visits
                 /\ r.got = IF y.left THEN y.got ELSE Append(y.got, 0)
                 /\ r.pc = y.pc
                 /\ r.network = y.network
                 /\ r.tries = y.tries
                 /\ r.picked = y.picked
                 /\ r.cc = y.cc
                 /\ r.entry = y.entry
                 /\ r.req = y.req
                 /\ r.left = y.left
                 /\ r.broken = y.broken
    BY <2>3, ReplyFields
  <2>6. r.got \in {vis[v].got, Append(vis[v].got, 0)}
    BY <2>4, <2>5
  <2>7. vis' = [vis EXCEPT ![v] = r]
    BY <2>1, <2>5
  <2>8. /\ r \in Visits /\ r.pc = pc
        /\ r.network = vis[v].network
        /\ r.tries = 0
        /\ r.picked = vis[v].picked
        /\ r.cc = 0
        /\ r.entry = vis[v].entry
        /\ r.req = vis[v].req
        /\ r.left = vis[v].left
        /\ r.broken = vis[v].broken
    BY <2>4, <2>5
  <2> QED BY <2>6, <2>7, <2>8
<1>4. vis'[v] = x /\ \A w \in Visitors : w # v => vis'[w] = vis[w]
  BY <1>0, <1>3
<1>5. TunnelShape'
  BY <1>0, <1>1, <1>3 DEF TunnelShape
<1>6. VisitAt(v)'
  BY <1>2, <1>0, <1>1, <1>3, <1>4 DEF VisitAt, Http
<1>7. SeenAt(v)'
  BY <1>0, <1>1, <1>3, <1>4, SeenSame DEF SeenAt
<1>8. Fits(v)
  <2>1. vis'[v].broken = vis[v].broken /\ vis'[v].req = vis[v].req
    BY <1>3, <1>4
  <2>2. vis'[v].got \in {vis[v].got, Append(vis[v].got, 0)}
    BY <1>3, <1>4
  <2>3. ~InHand(v)' /\ InHand(v)
    BY <1>2, <1>0, <1>1, <1>3, <1>4 DEF InHand, Http, VisitAt
  <2> QED BY <1>0, <2>1, <2>2, <2>3, FitsIf
<1> QED BY <1>0, <1>1, <1>3, <1>4, <1>5, <1>6, <1>7, <1>8, VisitMoves

LEMMA WriteFailsKeeps ==
  ASSUME RelayTunnelAssumption, TunnelInv, NEW v \in Visitors, WriteFails(v)
  PROVE  TunnelInv'
<1>0. VisitFacts(v)
  BY VisitKnown
<1> USE DEF VisitFacts
<1>1. /\ vis[v].pc = "write"
      /\ UNCHANGED <<setup, list, sess, str, turn>> /\ calm' = calm
  BY DEF WriteFails, tunnel, After
<1>2. PICK pc \in {"read", "range"} : vis' = [vis EXCEPT ![v] = Reply([vis[v] EXCEPT !.pc = pc, !.cc = 0])]
  BY Zenon DEF WriteFails, After
<1>3. PICK x : /\ vis' = [vis EXCEPT ![v] = x] /\ x \in Visits
               /\ x.pc = pc
               /\ x.network = vis[v].network
               /\ x.tries = vis[v].tries
               /\ x.picked = vis[v].picked
               /\ x.cc = 0
               /\ x.entry = vis[v].entry
               /\ x.req = vis[v].req
               /\ x.left = vis[v].left
               /\ x.got \in {vis[v].got, Append(vis[v].got, 0)}
               /\ x.broken = vis[v].broken
  <2> DEFINE y == [vis[v] EXCEPT !.pc = pc, !.cc = 0]
  <2>1. vis' = [vis EXCEPT ![v] = Reply(y)]
    BY <1>2
  <2>2. /\ vis[v] \in Visits
        /\ pc \in {"start", "get", "open", "failed", "pipe", "read", "write", "body", "ws", "range", "done"}
        /\ 0 \in 0..MaxStreams
    BY <1>2, <1>0, <1>1 DEF VisitAt, Http, Retry
  <2>3. y \in Visits
    BY <2>2 DEF Visits
  <2>4. /\ y.pc = pc
        /\ y.network = vis[v].network
        /\ y.tries = vis[v].tries
        /\ y.picked = vis[v].picked
        /\ y.cc = 0
        /\ y.entry = vis[v].entry
        /\ y.req = vis[v].req
        /\ y.left = vis[v].left
        /\ y.got = vis[v].got
        /\ y.broken = vis[v].broken
    BY <2>2 DEF Visits
  <2> HIDE DEF y
  <2>5. PICK r : /\ r = Reply(y) /\ r \in Visits
                 /\ r.got = IF y.left THEN y.got ELSE Append(y.got, 0)
                 /\ r.pc = y.pc
                 /\ r.network = y.network
                 /\ r.tries = y.tries
                 /\ r.picked = y.picked
                 /\ r.cc = y.cc
                 /\ r.entry = y.entry
                 /\ r.req = y.req
                 /\ r.left = y.left
                 /\ r.broken = y.broken
    BY <2>3, ReplyFields
  <2>6. r.got \in {vis[v].got, Append(vis[v].got, 0)}
    BY <2>4, <2>5
  <2>7. vis' = [vis EXCEPT ![v] = r]
    BY <2>1, <2>5
  <2>8. /\ r \in Visits /\ r.pc = pc
        /\ r.network = vis[v].network
        /\ r.tries = vis[v].tries
        /\ r.picked = vis[v].picked
        /\ r.cc = 0
        /\ r.entry = vis[v].entry
        /\ r.req = vis[v].req
        /\ r.left = vis[v].left
        /\ r.broken = vis[v].broken
    BY <2>4, <2>5
  <2> QED BY <2>6, <2>7, <2>8
<1>4. vis'[v] = x /\ \A w \in Visitors : w # v => vis'[w] = vis[w]
  BY <1>0, <1>3
<1>5. TunnelShape'
  BY <1>0, <1>1, <1>3 DEF TunnelShape
<1>6. VisitAt(v)'
  BY <1>2, <1>0, <1>1, <1>3, <1>4 DEF VisitAt, Http
<1>7. SeenAt(v)'
  BY <1>0, <1>1, <1>3, <1>4, SeenSame DEF SeenAt
<1>8. Fits(v)
  <2>1. vis'[v].broken = vis[v].broken /\ vis'[v].req = vis[v].req
    BY <1>3, <1>4
  <2>2. vis'[v].got \in {vis[v].got, Append(vis[v].got, 0)}
    BY <1>3, <1>4
  <2>3. ~InHand(v)' /\ InHand(v)
    BY <1>2, <1>0, <1>1, <1>3, <1>4 DEF InHand, Http, VisitAt
  <2> QED BY <1>0, <2>1, <2>2, <2>3, FitsIf
<1> QED BY <1>0, <1>1, <1>3, <1>4, <1>5, <1>6, <1>7, <1>8, VisitMoves

LEMMA WriteBreaksKeeps ==
  ASSUME RelayTunnelAssumption, TunnelInv, NEW v \in Visitors, WriteBreaks(v)
  PROVE  TunnelInv'
<1>0. VisitFacts(v)
  BY VisitKnown
<1> USE DEF VisitFacts
<1>1. /\ vis[v].pc = "body"
      /\ UNCHANGED <<setup, list, sess, str, turn>> /\ calm' = calm
  BY DEF WriteBreaks, tunnel, After
<1>2. PICK pc \in {"read", "range"} : vis' = [vis EXCEPT ![v] = Reply([vis[v] EXCEPT !.pc = pc, !.cc = 0, !.broken = vis[v].broken + 1])]
  BY Zenon DEF WriteBreaks, After
<1>3. PICK x : /\ vis' = [vis EXCEPT ![v] = x] /\ x \in Visits
               /\ x.pc = pc
               /\ x.network = vis[v].network
               /\ x.tries = vis[v].tries
               /\ x.picked = vis[v].picked
               /\ x.cc = 0
               /\ x.entry = vis[v].entry
               /\ x.req = vis[v].req
               /\ x.left = vis[v].left
               /\ x.got \in {vis[v].got, Append(vis[v].got, 0)}
               /\ x.broken = vis[v].broken + 1
  <2> DEFINE y == [vis[v] EXCEPT !.pc = pc, !.cc = 0, !.broken = vis[v].broken + 1]
  <2>1. vis' = [vis EXCEPT ![v] = Reply(y)]
    BY <1>2
  <2>2. /\ vis[v] \in Visits
        /\ pc \in {"start", "get", "open", "failed", "pipe", "read", "write", "body", "ws", "range", "done"}
        /\ 0 \in 0..MaxStreams /\ vis[v].broken + 1 \in Nat
    BY <1>2, <1>0, <1>1 DEF VisitAt, Http, Retry
  <2>3. y \in Visits
    BY <2>2 DEF Visits
  <2>4. /\ y.pc = pc
        /\ y.network = vis[v].network
        /\ y.tries = vis[v].tries
        /\ y.picked = vis[v].picked
        /\ y.cc = 0
        /\ y.entry = vis[v].entry
        /\ y.req = vis[v].req
        /\ y.left = vis[v].left
        /\ y.got = vis[v].got
        /\ y.broken = vis[v].broken + 1
    BY <2>2 DEF Visits
  <2> HIDE DEF y
  <2>5. PICK r : /\ r = Reply(y) /\ r \in Visits
                 /\ r.got = IF y.left THEN y.got ELSE Append(y.got, 0)
                 /\ r.pc = y.pc
                 /\ r.network = y.network
                 /\ r.tries = y.tries
                 /\ r.picked = y.picked
                 /\ r.cc = y.cc
                 /\ r.entry = y.entry
                 /\ r.req = y.req
                 /\ r.left = y.left
                 /\ r.broken = y.broken
    BY <2>3, ReplyFields
  <2>6. r.got \in {vis[v].got, Append(vis[v].got, 0)}
    BY <2>4, <2>5
  <2>7. vis' = [vis EXCEPT ![v] = r]
    BY <2>1, <2>5
  <2>8. /\ r \in Visits /\ r.pc = pc
        /\ r.network = vis[v].network
        /\ r.tries = vis[v].tries
        /\ r.picked = vis[v].picked
        /\ r.cc = 0
        /\ r.entry = vis[v].entry
        /\ r.req = vis[v].req
        /\ r.left = vis[v].left
        /\ r.broken = vis[v].broken + 1
    BY <2>4, <2>5
  <2> QED BY <2>6, <2>7, <2>8
<1>4. vis'[v] = x /\ \A w \in Visitors : w # v => vis'[w] = vis[w]
  BY <1>0, <1>3
<1>5. TunnelShape'
  BY <1>0, <1>1, <1>3 DEF TunnelShape
<1>6. VisitAt(v)'
  BY <1>2, <1>0, <1>1, <1>3, <1>4 DEF VisitAt, Http
<1>7. SeenAt(v)'
  BY <1>0, <1>1, <1>3, <1>4, SeenSame DEF SeenAt
<1>8. Fits(v)
  <2> DEFINE m == Len(vis'[v].got)
             n == Len(vis[v].got)
             q == vis[v].req
             b == vis[v].broken
  <2>1. vis'[v].broken = b + 1 /\ vis'[v].req = q /\ q \in Nat /\ b \in Nat /\ n \in Nat
    BY <1>0, <1>3, <1>4
  <2>2. vis'[v].got \in {vis[v].got, Append(vis[v].got, 0)}
    BY <1>3, <1>4
  <2>3. ~InHand(v)' /\ ~InHand(v)
    BY <1>2, <1>1, <1>3, <1>4 DEF InHand
  <2>4. m \in {n, n + 1}
    BY <1>0, <2>2
  <2> HIDE DEF m, n, q, b
  <2>5. m + 0 + q + b <= n + 0 + q + (b + 1) /\ q >= q
    BY <2>1, <2>4
  <2> QED BY <2>1, <2>2, <2>3, <2>5 DEF Fits, Grows, m, n, q, b
<1> QED BY <1>0, <1>1, <1>3, <1>4, <1>5, <1>6, <1>7, <1>8, VisitMoves

LEMMA SendDoneKeeps ==
  ASSUME RelayTunnelAssumption, TunnelInv, NEW v \in Visitors, SendDone(v)
  PROVE  TunnelInv'
<1>0. VisitFacts(v)
  BY VisitKnown
<1> USE DEF VisitFacts
<1>1. /\ vis[v].pc = "body"
      /\ UNCHANGED <<setup, list, sess, str, turn>> /\ calm' = calm
  BY DEF SendDone, tunnel
<1>2. PICK pc \in {"read", "ws"} :
        vis' = [vis EXCEPT ![v] = [vis[v] EXCEPT !.pc = pc, !.cc = IF pc = "read" THEN 0 ELSE vis[v].cc]]
  BY Zenon DEF SendDone
<1> DEFINE cc == IF pc = "read" THEN 0 ELSE vis[v].cc
<1>9. cc \in 0..MaxStreams /\ (cc = 0 \/ cc = vis[v].cc) /\ (pc = "ws" => cc = vis[v].cc)
  BY <1>0, <1>2
<1>10. vis' = [vis EXCEPT ![v] = [vis[v] EXCEPT !.pc = pc, !.cc = cc]]
  BY <1>2
<1> HIDE DEF cc
<1>3. PICK x : /\ vis' = [vis EXCEPT ![v] = x] /\ x \in Visits
               /\ x.pc = pc /\ x.cc = cc
               /\ x.network = vis[v].network
               /\ x.tries = vis[v].tries
               /\ x.picked = vis[v].picked
               /\ x.entry = vis[v].entry
               /\ x.req = vis[v].req
               /\ x.left = vis[v].left
               /\ x.got = vis[v].got
               /\ x.broken = vis[v].broken
  <2> DEFINE y == [vis[v] EXCEPT !.pc = pc, !.cc = cc]
  <2>1. vis' = [vis EXCEPT ![v] = y]
    BY <1>10
  <2>2. /\ vis[v] \in Visits
        /\ pc \in {"start", "get", "open", "failed", "pipe", "read", "write", "body", "ws", "range", "done"}
    BY <1>0, <1>2
  <2>3. y \in Visits
    BY <1>9, <2>2 DEF Visits
  <2>4. /\ y.pc = pc /\ y.cc = cc
        /\ y.network = vis[v].network
        /\ y.tries = vis[v].tries
        /\ y.picked = vis[v].picked
        /\ y.entry = vis[v].entry
        /\ y.req = vis[v].req
        /\ y.left = vis[v].left
        /\ y.got = vis[v].got
        /\ y.broken = vis[v].broken
    BY <2>2 DEF Visits
  <2> HIDE DEF y
  <2> QED BY <2>1, <2>3, <2>4
<1>4. vis'[v] = x /\ \A w \in Visitors : w # v => vis'[w] = vis[w]
  BY <1>0, <1>3
<1>5. TunnelShape'
  BY <1>0, <1>1, <1>3 DEF TunnelShape
<1>6. VisitAt(v)'
  BY <1>2, <1>9, <1>0, <1>1, <1>3, <1>4 DEF VisitAt, Http
<1>7. SeenAt(v)'
  BY <1>2, <1>0, <1>1, <1>3, <1>4, SeenSame DEF SeenAt
<1>8. Fits(v)
  <2>1. vis'[v].broken = vis[v].broken /\ vis'[v].req = vis[v].req
    BY <1>3, <1>4
  <2>2. vis'[v].got = vis[v].got
    BY <1>3, <1>4
  <2>3. InHand(v)' => InHand(v)
    BY <1>2, <1>3, <1>4 DEF InHand
  <2> QED BY <1>0, <2>1, <2>2, <2>3, FitsIf
<1> QED BY <1>0, <1>1, <1>3, <1>4, <1>5, <1>6, <1>7, <1>8, VisitMoves

LEMMA OpenFailsKeeps ==
  ASSUME RelayTunnelAssumption, TunnelInv, NEW v \in Visitors, OpenFails(v)
  PROVE  TunnelInv'
<1>0. VisitFacts(v)
  BY VisitKnown
<1> USE DEF VisitFacts
<1>1. /\ vis[v].pc = "open"
      /\ UNCHANGED <<setup, list, sess, str, turn>> /\ calm' = calm
  BY DEF OpenFails, tunnel
<1>3. PICK x : /\ vis' = [vis EXCEPT ![v] = x] /\ x \in Visits
               /\ x.pc = "get"
               /\ x.network = vis[v].network
               /\ x.tries = vis[v].tries + 1
               /\ x.picked = "none"
               /\ x.cc = vis[v].cc
               /\ x.entry = vis[v].entry
               /\ x.req = vis[v].req
               /\ x.left = vis[v].left
               /\ x.got = vis[v].got
               /\ x.broken = vis[v].broken
  <2> DEFINE y == [vis[v] EXCEPT !.pc = "get", !.tries = @ + 1, !.picked = "none"]
  <2>1. vis' = [vis EXCEPT ![v] = y]
    BY DEF OpenFails
  <2>2. /\ vis[v] \in Visits
        /\ "get" \in {"start", "get", "open", "failed", "pipe", "read", "write", "body", "ws", "range", "done"}
        /\ (vis[v].tries + 1) \in 0..Retry
        /\ "none" \in Connectors \cup {"none"}
    BY <1>0, <1>1 DEF VisitAt, Http, Retry
  <2>3. y \in Visits
    BY <2>2 DEF Visits
  <2>4. /\ y.pc = "get"
        /\ y.network = vis[v].network
        /\ y.tries = vis[v].tries + 1
        /\ y.picked = "none"
        /\ y.cc = vis[v].cc
        /\ y.entry = vis[v].entry
        /\ y.req = vis[v].req
        /\ y.left = vis[v].left
        /\ y.got = vis[v].got
        /\ y.broken = vis[v].broken
    BY <2>2 DEF Visits
  <2> HIDE DEF y
  <2> QED BY <2>1, <2>3, <2>4
<1>4. vis'[v] = x /\ \A w \in Visitors : w # v => vis'[w] = vis[w]
  BY <1>0, <1>3
<1>5. TunnelShape'
  BY <1>0, <1>1, <1>3 DEF TunnelShape
<1>6. VisitAt(v)'
  BY <1>0, <1>1, <1>3, <1>4 DEF VisitAt, Http
<1>7. SeenAt(v)'
  BY OpenFailsSeen
<1>8. Fits(v)
  <2>1. vis'[v].broken = vis[v].broken /\ vis'[v].req = vis[v].req
    BY <1>3, <1>4
  <2>2. vis'[v].got = vis[v].got
    BY <1>3, <1>4
  <2>3. InHand(v)' => InHand(v)
    BY <1>0, <1>1, <1>3, <1>4 DEF InHand, Http, VisitAt
  <2> QED BY <1>0, <2>1, <2>2, <2>3, FitsIf
<1> QED BY <1>0, <1>1, <1>3, <1>4, <1>5, <1>6, <1>7, <1>8, VisitMoves

LEMMA PickKeeps ==
  ASSUME RelayTunnelAssumption, TunnelInv, NEW v \in Visitors, Pick(v)
  PROVE  TunnelInv'
<1>0. VisitFacts(v)
  BY VisitKnown
<1> USE DEF VisitFacts
<1>1. vis[v].pc = "get" /\ UNCHANGED <<setup, list, sess, str>>
  BY DEF Pick, PickBelow
<1>2. turn \in 0..5 /\ list \in Seq(Connectors) /\ IsInjective(list)
  BY <1>0 DEF TunnelShape, Period
<1>3. /\ turn' \in 0..5 /\ calm' \in [Visitors -> BOOLEAN]
      /\ \A w \in Visitors : w # v => ~calm'[w] \/ (calm'[w] = calm[w] /\ turn' = turn)
      /\ \E x : /\ vis' = [vis EXCEPT ![v] = x] /\ x \in Visits
                /\ \/ x.pc = "failed"
                   \/ x.pc = "open" /\ x.picked \in Connectors /\ x.tries < 3
                /\ x.cc = vis[v].cc /\ x.entry = vis[v].entry /\ x.req = vis[v].req
                /\ x.got = vis[v].got /\ x.broken = vis[v].broken
  <2>0. PICK m : m = vis[v].network
    OBVIOUS
  <2> DEFINE cs == Of(m)
             n == Len(cs)
  <2>1. cs \in Seq(Connectors) /\ n \in 0..3
    BY <1>2, OfList
  <2>2. CASE cs = <<>> \/ vis[v].tries = 3
    <3> DEFINE x == [vis[v] EXCEPT !.pc = "failed"]
    <3>1. vis' = [vis EXCEPT ![v] = x] /\ turn' = turn /\ calm' = calm
      BY <2>0, <2>2 DEF Pick, PickBelow, Retry
    <3>2. /\ x \in Visits /\ x.pc = "failed"
          /\ x.cc = vis[v].cc /\ x.entry = vis[v].entry /\ x.req = vis[v].req
          /\ x.got = vis[v].got /\ x.broken = vis[v].broken
      BY <1>0 DEF Visits
    <3> HIDE DEF x
    <3> QED BY <1>0, <1>2, <3>1, <3>2
  <2>3. CASE ~(cs = <<>> \/ vis[v].tries = 3)
    <3> DEFINE c == cs[(turn % n) + 1]
               x == [vis[v] EXCEPT !.pc = "open", !.picked = c]
    <3>1. /\ vis' = [vis EXCEPT ![v] = x] /\ turn' = (turn + 1) % 6
          /\ calm' = [w \in Visitors |-> w = v /\ (vis[v].tries = 0 \/ calm[v])]
      BY <2>0, <2>3 DEF Pick, PickBelow, Retry, Period
    <3>2. n \in 1..3 /\ turn \in 0..11
      BY <1>2, <2>1, <2>3
    <3>3. (turn % n) + 1 \in 1..n /\ (turn + 1) % 6 \in 0..5
      BY <1>2, <3>2, TurnsMod
    <3>4. c \in Connectors
      BY <2>1, <3>3
    <3>5. vis[v].tries < 3
      BY <1>0, <2>3
    <3> HIDE DEF c
    <3>6. /\ x \in Visits /\ x.pc = "open" /\ x.picked \in Connectors /\ x.tries = vis[v].tries
          /\ x.cc = vis[v].cc /\ x.entry = vis[v].entry /\ x.req = vis[v].req
          /\ x.got = vis[v].got /\ x.broken = vis[v].broken
      BY <1>0, <3>4 DEF Visits
    <3> HIDE DEF x
    <3>7. calm' \in [Visitors -> BOOLEAN] /\ \A w \in Visitors : w # v => ~calm'[w]
      BY <1>0, <3>1
    <3> QED BY <3>1, <3>3, <3>5, <3>6, <3>7
  <2> QED BY <2>2, <2>3
<1>4. PICK x : /\ vis' = [vis EXCEPT ![v] = x] /\ x \in Visits
               /\ \/ x.pc = "failed"
                  \/ x.pc = "open" /\ x.picked \in Connectors /\ x.tries < 3
               /\ x.cc = vis[v].cc /\ x.entry = vis[v].entry /\ x.req = vis[v].req
               /\ x.got = vis[v].got /\ x.broken = vis[v].broken
  BY <1>3
<1>5. vis'[v] = x /\ \A w \in Visitors : w # v => vis'[w] = vis[w]
  BY <1>0, <1>4
<1>6. TunnelShape'
  BY <1>0, <1>1, <1>3, <1>4 DEF TunnelShape, Period
<1>7. VisitAt(v)'
  BY <1>0, <1>1, <1>4, <1>5 DEF VisitAt, Http, Retry
<1>8. SeenAt(v)'
  BY PickSeen
<1>9. Fits(v)
  <2>1. InHand(v)' => InHand(v)
    BY <1>1, <1>4, <1>5 DEF InHand, Http
  <2>2. vis'[v].got = vis[v].got /\ vis'[v].req = vis[v].req /\ vis'[v].broken = vis[v].broken
    BY <1>4, <1>5
  <2> QED BY <1>0, <2>1, <2>2, FitsIf
<1> QED BY <1>0, <1>1, <1>3, <1>4, <1>5, <1>6, <1>7, <1>8, <1>9, VisitMoves

(* An action that changes the stream s of v. *)
LEMMA StreamMoves ==
  ASSUME TunnelInv, TunnelShape', NEW v \in Visitors, NEW s \in Streams,
         setup' = setup, list' = list, sess' = sess,
         \A w \in Visitors : w # v =>
           vis'[w] = vis[w] /\ (~calm'[w] \/ (calm'[w] = calm[w] /\ turn' = turn)),
         \A r \in Streams : r # s => str'[r] = str[r],
         str'[s].vis = v, str'[s].pc # "none", str[s].pc = "none" \/ str[s].vis = v,
         VisitAt(v)', GotAt(v)', SeenAt(v)', StreamAt(s)', PendAt(s)',
         \A r \in Streams : r # s /\ str[r].vis = v => StreamAt(r)' /\ PendAt(r)'
  PROVE  TunnelInv'
<1>1. \A r \in Streams : str[r].pc # "none" => str'[r].vis = str[r].vis /\ str'[r].pc # "none"
  OBVIOUS
<1>2. /\ ListBound'
      /\ \A w \in Visitors : w # v => VisitAt(w)' /\ GotAt(w)' /\ SeenAt(w)'
      /\ \A r \in Streams : str'[r] = str[r] /\ str[r].vis # v => StreamAt(r)' /\ PendAt(r)'
  BY <1>1, OthersKept
<1> QED BY <1>2 DEF TunnelInv

(* A stream that is not copied owes nothing. *)
LEMMA NotCopied ==
  ASSUME NEW s \in Streams, StreamAt(s), str'[s] = str[s], str[s].pc \notin {"copy", "err", "delete"}
  PROVE  StreamAt(s)' /\ PendAt(s)'
  BY DEF StreamAt, PendAt

(* What is known of a stream before it changes. *)
StreamFacts(s) ==
  /\ str \in [Streams -> StreamRecs] /\ str[s] \in StreamRecs
  /\ str[s].pend \in Seq(Nat) /\ Len(str[s].pend) \in Nat
  /\ StreamAt(s) /\ PendAt(s) /\ TunnelShape

LEMMA StreamKnown ==
  ASSUME TunnelInv, NEW s \in Streams
  PROVE  StreamFacts(s)
<1>1. TunnelShape /\ StreamAt(s) /\ PendAt(s)
  BY DEF TunnelInv
<1>2. str \in [Streams -> StreamRecs] /\ str[s] \in StreamRecs
  BY <1>1 DEF TunnelShape
<1>3. str[s].pend \in Seq(Nat)
  BY <1>2 DEF StreamRecs
<1> QED BY <1>1, <1>2, <1>3 DEF StreamFacts

LEMMA OneCopied ==
  ASSUME TunnelInv, NEW s \in Streams, str[s].pc \in {"copy", "err", "delete"},
         NEW r \in Streams, r # s, str[r].vis = str[s].vis, str'[r] = str[r]
  PROVE  StreamAt(r)' /\ PendAt(r)'
<1>1. StreamAt(s) /\ StreamAt(r)
  BY DEF TunnelInv
<1>2. str[r].pc \notin {"copy", "err", "delete"}
  BY <1>1 DEF StreamAt
<1> QED BY <1>1, <1>2, NotCopied

(* A change of s alone: its visitor and the other streams are as before. *)
LEMMA StreamAlone ==
  ASSUME TunnelInv, TunnelShape', NEW v \in Visitors, NEW s \in Streams,
         str[s].vis = v, str[s].pc # "none", str'[s].vis = v, str'[s].pc # "none",
         UNCHANGED <<setup, list, turn, sess, vis, calm>>,
         \A r \in Streams : r # s => str'[r] = str[r],
         StreamAt(s)', PendAt(s)'
  PROVE  TunnelInv'
<1>1. TunnelShape /\ VisitAt(v) /\ GotAt(v) /\ SeenAt(v)
  BY DEF TunnelInv
<1>2. VisitAt(v)'
  BY <1>1, VisitKept
<1>3. GotAt(v)' /\ SeenAt(v)'
  BY <1>1, GotKept, SeenKept
<1>4. \A r \in Streams : r # s => StreamAt(r)' /\ PendAt(r)'
  BY StreamKept DEF TunnelInv
<1> QED BY <1>2, <1>3, <1>4, StreamMoves

LEMMA FarCloseKeeps ==
  ASSUME RelayTunnelAssumption, TunnelInv, NEW s \in Streams, FarClose(s)
  PROVE  TunnelInv'
<1>0. StreamFacts(s)
  BY StreamKnown
<1> USE DEF StreamFacts
<1>1. str[s].far /\ UNCHANGED <<setup, list, turn, sess, vis, calm>>
  BY DEF FarClose, tunnel
<1>2. str[s].pc # "none" /\ str[s].vis \in Visitors /\ str[s].sess \in Connectors
  BY <1>0, <1>1 DEF StreamAt
<1>3. PICK v \in Visitors : v = str[s].vis
  BY <1>2
<1>4. PICK y : /\ str' = [str EXCEPT ![s] = y] /\ y \in StreamRecs
               /\ y.pc = str[s].pc /\ y.pend = <<>> /\ y.vis = v /\ y.sess = str[s].sess
  <2> DEFINE y == [str[s] EXCEPT !.far = FALSE, !.pend = <<>>]
  <2>1. str' = [str EXCEPT ![s] = y]
    BY DEF FarClose
  <2>2. /\ y \in StreamRecs /\ y.pc = str[s].pc /\ y.pend = <<>> /\ y.vis = v
        /\ y.sess = str[s].sess
    <3>1. str[s] \in StreamRecs /\ <<>> \in Seq(Nat) /\ v = str[s].vis
      BY <1>0, <1>3
    <3> QED BY <3>1 DEF StreamRecs
  <2> HIDE DEF y
  <2> QED BY <2>1, <2>2
<1>5. str'[s] = y /\ \A r \in Streams : r # s => str'[r] = str[r]
  BY <1>0, <1>4
<1>6. TunnelShape'
  BY <1>0, <1>1, <1>4 DEF TunnelShape
<1>7. StreamAt(s)'
  BY <1>0, <1>1, <1>2, <1>3, <1>4, <1>5 DEF StreamAt, Http
<1>8. PendAt(s)'
  <2>1. GotAt(v)
    BY DEF TunnelInv
  <2>2. GotAt(v)'
    BY <1>1, <2>1, GotKept
  <2>3. str'[s].vis = v /\ str'[s].pend = <<>> /\ str'[s].pc = str[s].pc /\ vis' = vis
    BY <1>1, <1>4, <1>5
  <2>4. VisitFacts(v)
    BY VisitKnown
  <2>5. InHand(v)' <=> InHand(v)
    BY <1>1 DEF InHand, Http
  <2> DEFINE d == IF InHand(v) THEN 1 ELSE 0
             d1 == IF InHand(v)' THEN 1 ELSE 0
             n == Len(vis[v].got)
  <2>6. d1 = d /\ d \in Nat /\ n \in Nat
    BY <2>4, <2>5 DEF VisitFacts
  <2>7. ASSUME str[s].pc = "copy" PROVE n + 0 + d1 <= vis[v].req + vis[v].broken
    <3>1. n + d <= vis[v].req + vis[v].broken
      BY <2>1 DEF GotAt
    <3> HIDE DEF d, d1, n
    <3> QED BY <2>6, <3>1
  <2>8. ASSUME str[s].pc = "err" PROVE n + 1 + d1 <= vis[v].req + vis[v].broken
    <3>1. n + 1 + d <= vis[v].req + vis[v].broken
      BY <1>0, <1>3, <2>8 DEF PendAt
    <3> HIDE DEF d, d1, n
    <3> QED BY <2>6, <3>1
  <2>9. Len(str'[s].pend) = 0 /\ \A k \in 1..Len(str'[s].pend) : FALSE
    BY <2>3
  <2> DEFINE p1 == Len(str'[s].pend)
  <2>10. ASSUME str[s].pc = "copy" PROVE n + p1 + d1 <= vis[v].req + vis[v].broken
    BY <2>7, <2>9, <2>10
  <2>11. \A k \in 1..p1 : FALSE
    BY <2>9
  <2>12. /\ str'[s].vis = v /\ str'[s].pc = str[s].pc /\ vis'[v] = vis[v]
    BY <2>3
  <2> HIDE DEF p1
  <2> QED BY <2>8, <2>10, <2>11, <2>12 DEF PendAt, p1
<1> QED BY <1>1, <1>2, <1>3, <1>4, <1>5, <1>6, <1>7, <1>8, StreamAlone

LEMMA CopyEndsKeeps ==
  ASSUME RelayTunnelAssumption, TunnelInv, NEW s \in Streams, CopyEnds(s)
  PROVE  TunnelInv'
<1>0. StreamFacts(s)
  BY StreamKnown
<1> USE DEF StreamFacts
<1>1. /\ str[s].pc = "copy" /\ UNCHANGED <<setup, list, turn, sess, vis, calm>>
      /\ str' = [str EXCEPT ![s].pc = "delete"]
  BY DEF CopyEnds, tunnel
<1>2. PICK v \in Visitors : v = str[s].vis
  BY <1>0, <1>1 DEF StreamAt
<1>3. /\ str' \in [Streams -> StreamRecs] /\ str'[s].pc = "delete"
      /\ str'[s].vis = v /\ str'[s].sess = str[s].sess
      /\ \A r \in Streams : r # s => str'[r] = str[r]
  BY <1>0, <1>1, <1>2 DEF StreamRecs
<1>4. TunnelShape'
  BY <1>0, <1>1, <1>3 DEF TunnelShape
<1>5. StreamAt(s)' /\ PendAt(s)'
  BY <1>0, <1>1, <1>2, <1>3 DEF StreamAt, Http, PendAt
<1> QED BY <1>1, <1>2, <1>3, <1>4, <1>5, StreamAlone

LEMMA EndedFields ==
  ASSUME NEW x \in StreamRecs
  PROVE  /\ Ended(x) \in StreamRecs /\ Ended(x).pc = "done" /\ ~Ended(x).far
         /\ Ended(x).vis = x.vis /\ Ended(x).sess = x.sess
<1>1. <<>> \in Seq(Nat)
  OBVIOUS
<1>2. x.vis \in Visitors \cup {"none"} /\ x.sess \in Connectors \cup {"none"}
  BY DEF StreamRecs
<1>3. PICK y : y = NoStream /\ y \in StreamRecs /\ y.far = FALSE
  <2> DEFINE e == <<>>
             y == [vis |-> "none", sess |-> "none", far |-> FALSE, near |-> FALSE,
                   pc |-> "none", pend |-> e]
  <2>1. NoStream = y
    BY DEF NoStream
  <2>2. e \in Seq(Nat)
    BY <1>1
  <2> HIDE DEF e
  <2>3. y \in StreamRecs /\ y.far = FALSE
    BY <2>2 DEF StreamRecs
  <2> HIDE DEF y
  <2> QED BY <2>1, <2>3
<1>4. Ended(x) = [y EXCEPT !.vis = x.vis, !.sess = x.sess, !.pc = "done"]
  BY <1>3 DEF Ended
<1> QED BY <1>2, <1>3, <1>4 DEF StreamRecs

LEMMA CloseStreamKeeps ==
  ASSUME RelayTunnelAssumption, TunnelInv, NEW s \in Streams, CloseStream(s)
  PROVE  TunnelInv'
<1>0. StreamFacts(s)
  BY StreamKnown
<1> USE DEF StreamFacts
<1>1. /\ str[s].pc = "close" /\ UNCHANGED <<setup, list, turn, sess, vis, calm>>
      /\ str' = [str EXCEPT ![s] = Ended(str[s])]
  BY DEF CloseStream, tunnel
<1>2. PICK v \in Visitors : v = str[s].vis
  BY <1>0, <1>1 DEF StreamAt
<1>3. /\ str' \in [Streams -> StreamRecs] /\ str'[s].pc = "done" /\ ~str'[s].far
      /\ str'[s].vis = v /\ str'[s].sess = str[s].sess
      /\ \A r \in Streams : r # s => str'[r] = str[r]
  BY <1>0, <1>1, <1>2, EndedFields
<1>4. TunnelShape'
  BY <1>0, <1>1, <1>3 DEF TunnelShape
<1>5. StreamAt(s)' /\ PendAt(s)'
  BY <1>0, <1>1, <1>2, <1>3 DEF StreamAt, Http, PendAt
<1> QED BY <1>1, <1>2, <1>3, <1>4, <1>5, StreamAlone

LEMMA GotSame ==
  ASSUME NEW v \in Visitors, GotAt(v), InHand(v)' <=> InHand(v), vis'[v].got = vis[v].got,
         vis'[v].req = vis[v].req, vis'[v].broken = vis[v].broken
  PROVE  GotAt(v)'
  BY DEF GotAt

LEMMA VisitSame ==
  ASSUME NEW v \in Visitors, VisitFacts(v), setup' = setup,
         vis'[v].pc = vis[v].pc, vis'[v].picked = vis[v].picked, vis'[v].tries = vis[v].tries,
         vis'[v].cc = vis[v].cc, vis'[v].req = vis[v].req,
         \/ vis'[v].entry = vis[v].entry /\ (vis'[v].got = vis[v].got \/ Http(v))
         \/ vis'[v].entry = 0 /\ vis'[v].got = vis[v].got,
         \A s \in Streams : str[s].pc # "none" => str'[s].vis = str[s].vis /\ str'[s].pc # "none"
  PROVE  VisitAt(v)'
<1>1. VisitAt(v) /\ vis[v].cc \in 0..MaxStreams /\ vis[v].entry \in 0..MaxStreams /\ MaxStreams \in Nat
  BY DEF VisitFacts
<1>2. PICK c \in 0..MaxStreams : c = vis[v].cc
  BY <1>1
<1>3. PICK e \in 0..MaxStreams : e = vis[v].entry
  BY <1>1
<1>4. c # 0 => str'[c].vis = v /\ str'[c].pc # "none"
  <2>1. c # 0 => c \in Streams /\ str[c].vis = v /\ str[c].pc # "none"
    BY <1>1, <1>2 DEF VisitAt, Streams
  <2> QED BY <2>1
<1>5. e # 0 => str'[e].vis = v /\ str'[e].pc # "none"
  <2>1. e # 0 => e \in Streams /\ str[e].vis = v /\ str[e].pc # "none"
    BY <1>1, <1>3 DEF VisitAt, Streams
  <2> QED BY <2>1
<1>6. Http(v)' <=> Http(v)
  BY DEF Http
<1> QED BY <1>1, <1>2, <1>3, <1>4, <1>5, <1>6 DEF VisitAt

LEMMA DeleteKeeps ==
  ASSUME RelayTunnelAssumption, TunnelInv, NEW s \in Streams, Delete(s)
  PROVE  TunnelInv'
<1>0. StreamFacts(s)
  BY StreamKnown
<1>1. /\ str[s].pc = "delete" /\ UNCHANGED <<setup, list, turn, sess, calm>>
      /\ str' = [str EXCEPT ![s].pc = "close"] /\ vis' = [vis EXCEPT ![str[s].vis].entry = 0]
  BY DEF Delete, tunnel
<1>2. PICK v \in Visitors : v = str[s].vis
  BY <1>0, <1>1 DEF StreamAt, StreamFacts
<1>3. VisitFacts(v)
  BY VisitKnown
<1>4. /\ str' \in [Streams -> StreamRecs] /\ str'[s].pc = "close"
      /\ str'[s].vis = v /\ str'[s].sess = str[s].sess
      /\ \A r \in Streams : r # s => str'[r] = str[r]
  BY <1>0, <1>1, <1>2 DEF StreamRecs, StreamFacts
<1>5. PICK x : /\ vis' = [vis EXCEPT ![v] = x] /\ x \in Visits /\ x.entry = 0
               /\ x.pc = vis[v].pc /\ x.network = vis[v].network /\ x.tries = vis[v].tries
               /\ x.picked = vis[v].picked /\ x.cc = vis[v].cc /\ x.req = vis[v].req
               /\ x.left = vis[v].left /\ x.got = vis[v].got /\ x.broken = vis[v].broken
  <2> DEFINE y == [vis[v] EXCEPT !.entry = 0]
  <2>1. vis' = [vis EXCEPT ![v] = y]
    BY <1>1, <1>2
  <2>2. vis[v] \in Visits /\ 0 \in 0..MaxStreams
    BY <1>3 DEF VisitFacts
  <2>3. /\ y \in Visits /\ y.entry = 0
        /\ y.pc = vis[v].pc /\ y.network = vis[v].network /\ y.tries = vis[v].tries
        /\ y.picked = vis[v].picked /\ y.cc = vis[v].cc /\ y.req = vis[v].req
        /\ y.left = vis[v].left /\ y.got = vis[v].got /\ y.broken = vis[v].broken
    BY <2>2 DEF Visits
  <2> HIDE DEF y
  <2> QED BY <2>1, <2>3
<1>6. vis'[v] = x /\ \A w \in Visitors : w # v => vis'[w] = vis[w]
  BY <1>3, <1>5 DEF VisitFacts
<1>7. TunnelShape'
  BY <1>1, <1>3, <1>4, <1>5 DEF TunnelShape, VisitFacts
<1>8. VisitAt(v)'
  <2>1. \A r \in Streams : str[r].pc # "none" => str'[r].vis = str[r].vis /\ str'[r].pc # "none"
    BY <1>1, <1>2, <1>4
  <2> QED BY <1>1, <1>3, <1>5, <1>6, <2>1, VisitSame
<1>9. SeenAt(v)'
  BY <1>1, <1>3, <1>5, <1>6, SeenSame DEF VisitFacts
<1>10. GotAt(v)'
  <2>1. InHand(v)' <=> InHand(v)
    BY <1>1, <1>5, <1>6 DEF InHand, Http
  <2>2. GotAt(v)
    BY DEF TunnelInv
  <2> QED BY <1>5, <1>6, <2>1, <2>2, GotSame
<1>11. StreamAt(s)' /\ PendAt(s)'
  BY <1>0, <1>1, <1>2, <1>4 DEF StreamAt, Http, PendAt, StreamFacts
<1>12. \A r \in Streams : r # s /\ str[r].vis = v => StreamAt(r)' /\ PendAt(r)'
  BY <1>1, <1>2, <1>4, OneCopied
<1> QED BY <1>1, <1>2, <1>4, <1>6, <1>7, <1>8, <1>9, <1>10, <1>11, <1>12, StreamMoves

LEMMA CopyFailsKeeps ==
  ASSUME RelayTunnelAssumption, TunnelInv, NEW s \in Streams, CopyFails(s)
  PROVE  TunnelInv'
<1>0. StreamFacts(s)
  BY StreamKnown
<1>1. /\ str[s].pc = "copy" /\ UNCHANGED <<setup, list, turn, sess, calm>>
      /\ str' = [str EXCEPT ![s].pc = "err"] /\ vis' = [vis EXCEPT ![str[s].vis].broken = @ + 1]
  BY DEF CopyFails, tunnel
<1>2. PICK v \in Visitors : v = str[s].vis
  BY <1>0, <1>1 DEF StreamAt, StreamFacts
<1>3. VisitFacts(v)
  BY VisitKnown
<1>4. /\ str' \in [Streams -> StreamRecs] /\ str'[s].pc = "err"
      /\ str'[s].vis = v /\ str'[s].sess = str[s].sess
      /\ \A r \in Streams : r # s => str'[r] = str[r]
  BY <1>0, <1>1, <1>2 DEF StreamRecs, StreamFacts
<1>5. PICK x : /\ vis' = [vis EXCEPT ![v] = x] /\ x \in Visits /\ x.entry = vis[v].entry
               /\ x.pc = vis[v].pc /\ x.network = vis[v].network /\ x.tries = vis[v].tries
               /\ x.picked = vis[v].picked /\ x.cc = vis[v].cc /\ x.req = vis[v].req
               /\ x.left = vis[v].left /\ x.got = vis[v].got /\ x.broken = vis[v].broken + 1
  <2> DEFINE y == [vis[v] EXCEPT !.broken = vis[v].broken + 1]
  <2>1. vis' = [vis EXCEPT ![v] = y]
    BY <1>1, <1>2
  <2>2. vis[v] \in Visits /\ vis[v].broken + 1 \in Nat
    BY <1>3 DEF VisitFacts
  <2>3. /\ y \in Visits /\ y.entry = vis[v].entry
        /\ y.pc = vis[v].pc /\ y.network = vis[v].network /\ y.tries = vis[v].tries
        /\ y.picked = vis[v].picked /\ y.cc = vis[v].cc /\ y.req = vis[v].req
        /\ y.left = vis[v].left /\ y.got = vis[v].got /\ y.broken = vis[v].broken + 1
    BY <2>2 DEF Visits
  <2> HIDE DEF y
  <2> QED BY <2>1, <2>3
<1>6. vis'[v] = x /\ \A w \in Visitors : w # v => vis'[w] = vis[w]
  BY <1>3, <1>5 DEF VisitFacts
<1>7. TunnelShape'
  BY <1>1, <1>3, <1>4, <1>5 DEF TunnelShape, VisitFacts
<1>8. VisitAt(v)'
  <2>1. \A r \in Streams : str[r].pc # "none" => str'[r].vis = str[r].vis /\ str'[r].pc # "none"
    BY <1>1, <1>2, <1>4
  <2> QED BY <1>1, <1>3, <1>5, <1>6, <2>1, VisitSame
<1>9. SeenAt(v)'
  BY <1>1, <1>3, <1>5, <1>6, SeenSame DEF VisitFacts
<1> DEFINE n == Len(vis[v].got)
           p == Len(str[s].pend)
           d == IF InHand(v) THEN 1 ELSE 0
           d1 == IF InHand(v)' THEN 1 ELSE 0
           r == vis[v].req
           b == vis[v].broken
<1>13. InHand(v)' <=> InHand(v)
  BY <1>1, <1>5, <1>6 DEF InHand, Http
<1>14. n \in Nat /\ p \in Nat /\ d \in Nat /\ d1 = d /\ r \in Nat /\ b \in Nat
  BY <1>0, <1>3, <1>13 DEF VisitFacts, StreamFacts
<1>15. n + p + d <= r + b
  BY <1>0, <1>1, <1>2 DEF PendAt, StreamFacts
<1>16. n + 1 + d1 <= r + (b + 1) /\ n + d1 <= r + (b + 1)
  <2> HIDE DEF n, p, d, d1, r, b
  <2> QED BY <1>14, <1>15
<1>10. GotAt(v)'
  <2>1. GotAt(v) /\ TunnelShape
    BY DEF TunnelInv
  <2>2. Grows(v)
    BY <1>5, <1>6, <1>13, <1>14 DEF Grows
  <2> QED BY <1>5, <1>6, <1>7, <1>16, <2>1, <2>2, GotGrows
<1>11. StreamAt(s)' /\ PendAt(s)'
  <2>1. StreamAt(s)'
    BY <1>0, <1>1, <1>2, <1>4, <1>5, <1>6 DEF StreamAt, Http, StreamFacts
  <2>2. PendAt(s)'
    BY <1>4, <1>5, <1>6, <1>16 DEF PendAt
  <2> QED BY <2>1, <2>2
<1>12. \A q \in Streams : q # s /\ str[q].vis = v => StreamAt(q)' /\ PendAt(q)'
  BY <1>1, <1>2, <1>4, OneCopied
<1> QED BY <1>1, <1>2, <1>4, <1>6, <1>7, <1>8, <1>9, <1>10, <1>11, <1>12, StreamMoves

LEMMA CopyReplyKeeps ==
  ASSUME RelayTunnelAssumption, TunnelInv, NEW s \in Streams, CopyReply(s)
  PROVE  TunnelInv'
<1>0. StreamFacts(s)
  BY StreamKnown
<1>1. /\ str[s].pc = "err" /\ UNCHANGED <<setup, list, turn, sess, calm>>
      /\ str' = [str EXCEPT ![s].pc = "delete"]
      /\ vis' = [vis EXCEPT ![str[s].vis] = Reply(vis[str[s].vis])]
  BY DEF CopyReply, tunnel
<1>2. PICK v \in Visitors : v = str[s].vis
  BY <1>0, <1>1 DEF StreamAt, StreamFacts
<1>3. VisitFacts(v)
  BY VisitKnown
<1>4. /\ str' \in [Streams -> StreamRecs] /\ str'[s].pc = "delete"
      /\ str'[s].vis = v /\ str'[s].sess = str[s].sess
      /\ \A r \in Streams : r # s => str'[r] = str[r]
  BY <1>0, <1>1, <1>2 DEF StreamRecs, StreamFacts
<1>5. PICK x : /\ vis' = [vis EXCEPT ![v] = x] /\ x \in Visits /\ x.entry = vis[v].entry
               /\ x.pc = vis[v].pc /\ x.network = vis[v].network /\ x.tries = vis[v].tries
               /\ x.picked = vis[v].picked /\ x.cc = vis[v].cc /\ x.req = vis[v].req
               /\ x.left = vis[v].left /\ x.broken = vis[v].broken
               /\ x.got \in {vis[v].got, Append(vis[v].got, 0)}
  <2>1. PICK y : y = Reply(vis[v])
    OBVIOUS
  <2>2. vis[v] \in Visits
    BY <1>3 DEF VisitFacts
  <2>3. /\ y \in Visits /\ y.entry = vis[v].entry
        /\ y.pc = vis[v].pc /\ y.network = vis[v].network /\ y.tries = vis[v].tries
        /\ y.picked = vis[v].picked /\ y.cc = vis[v].cc /\ y.req = vis[v].req
        /\ y.left = vis[v].left /\ y.broken = vis[v].broken
        /\ y.got = IF vis[v].left THEN vis[v].got ELSE Append(vis[v].got, 0)
    BY <2>1, <2>2, ReplyFields
  <2>4. vis' = [vis EXCEPT ![v] = y]
    BY <1>1, <1>2, <2>1
  <2>5. y.got \in {vis[v].got, Append(vis[v].got, 0)}
    BY <2>3
  <2> QED BY <2>3, <2>4, <2>5
<1>6. vis'[v] = x /\ \A w \in Visitors : w # v => vis'[w] = vis[w]
  BY <1>3, <1>5 DEF VisitFacts
<1>7. TunnelShape'
  BY <1>1, <1>3, <1>4, <1>5 DEF TunnelShape, VisitFacts
<1>20. Http(v) /\ vis[v].entry = s
  BY <1>0, <1>1, <1>2 DEF StreamAt, StreamFacts
<1>8. VisitAt(v)'
  <2>1. \A r \in Streams : str[r].pc # "none" => str'[r].vis = str[r].vis /\ str'[r].pc # "none"
    BY <1>1, <1>2, <1>4
  <2> QED BY <1>1, <1>3, <1>5, <1>6, <1>20, <2>1, VisitSame
<1>9. SeenAt(v)'
  BY <1>1, <1>3, <1>5, <1>6, SeenSame DEF VisitFacts
<1>10. GotAt(v)'
  <2> DEFINE n == Len(vis[v].got)
             m == Len(vis'[v].got)
             d == IF InHand(v) THEN 1 ELSE 0
             d1 == IF InHand(v)' THEN 1 ELSE 0
             r == vis[v].req
             b == vis[v].broken
  <2>1. InHand(v)' <=> InHand(v)
    BY <1>1, <1>5, <1>6 DEF InHand, Http
  <2>2. n \in Nat /\ m \in {n, n + 1} /\ d \in Nat /\ d1 = d /\ r \in Nat /\ b \in Nat
    BY <1>3, <1>5, <1>6, <2>1 DEF VisitFacts
  <2>3. n + 1 + d <= r + b
    BY <1>0, <1>1, <1>2 DEF PendAt, StreamFacts
  <2>4. m + d1 <= r + b
    <3> HIDE DEF n, m, d, d1, r, b
    <3> QED BY <2>2, <2>3
  <2>5. Grows(v)
    BY <1>5, <1>6, <2>1, <2>2 DEF Grows
  <2>6. GotAt(v) /\ TunnelShape
    BY DEF TunnelInv
  <2> QED BY <1>5, <1>6, <1>7, <2>4, <2>5, <2>6, GotGrows
<1>11. StreamAt(s)' /\ PendAt(s)'
  BY <1>0, <1>1, <1>2, <1>4, <1>5, <1>6, <1>20 DEF StreamAt, Http, PendAt, StreamFacts
<1>12. \A q \in Streams : q # s /\ str[q].vis = v => StreamAt(q)' /\ PendAt(q)'
  BY <1>1, <1>2, <1>4, OneCopied
<1> QED BY <1>1, <1>2, <1>4, <1>6, <1>7, <1>8, <1>9, <1>10, <1>11, <1>12, StreamMoves

LEMMA AnswerKeeps ==
  ASSUME RelayTunnelAssumption, TunnelInv, NEW s \in Streams, Answer(s)
  PROVE  TunnelInv'
<1>0. StreamFacts(s)
  BY StreamKnown
<1>1. /\ str[s].pc = "copy" /\ str[s].pend # <<>> /\ UNCHANGED <<setup, list, turn, sess, calm>>
  BY DEF Answer, tunnel
<1>2. PICK v \in Visitors : v = str[s].vis
  BY <1>0, <1>1 DEF StreamAt, StreamFacts
<1>3. VisitFacts(v)
  BY VisitKnown
<1> DEFINE pend == str[s].pend
           got == vis[v].got
           h == Head(pend)
           t == Tail(pend)
           more == Append(got, h)
<1>20. /\ str' = [str EXCEPT ![s].pend = t, ![s].pc = IF vis[v].left THEN "err" ELSE str[s].pc]
       /\ vis' = IF vis[v].left THEN vis ELSE [vis EXCEPT ![v].got = more]
  BY <1>2 DEF Answer
<1>21. /\ pend \in Seq(Nat) /\ Len(pend) \in Nat /\ got \in Seq(Nat)
  BY <1>0, <1>3 DEF StreamFacts, VisitFacts
<1>22. /\ h \in Nat /\ h = pend[1] /\ t \in Seq(Nat) /\ Len(pend) >= 1 /\ Len(t) = Len(pend) - 1
       /\ \A i \in 1..Len(t) : t[i] = pend[i + 1]
  BY <1>1, <1>21, HeadTailProperties
<1>23. /\ more \in Seq(Nat) /\ Len(more) = Len(got) + 1 /\ more[Len(got) + 1] = h
       /\ \A i \in 1..Len(got) : more[i] = got[i]
  BY <1>21, <1>22, AppendProperties
<1> HIDE DEF h, t, more
<1>4. /\ str' \in [Streams -> StreamRecs] /\ str'[s].pc = IF vis[v].left THEN "err" ELSE "copy"
      /\ str'[s].vis = v /\ str'[s].sess = str[s].sess /\ str'[s].pend = t
      /\ \A r \in Streams : r # s => str'[r] = str[r]
  <2> DEFINE y == [str[s] EXCEPT !.pend = t, !.pc = IF vis[v].left THEN "err" ELSE str[s].pc]
  <2>1. str' = [str EXCEPT ![s] = y]
    BY <1>20
  <2>2. str[s] \in StreamRecs /\ t \in Seq(Nat)
    BY <1>0, <1>22 DEF StreamFacts
  <2>3. /\ y \in StreamRecs /\ y.pc = IF vis[v].left THEN "err" ELSE "copy"
        /\ y.vis = v /\ y.sess = str[s].sess /\ y.pend = t
    BY <1>1, <1>2, <2>2 DEF StreamRecs
  <2> HIDE DEF y
  <2> QED BY <1>0, <2>1, <2>3 DEF StreamFacts
<1>5. PICK x : /\ vis' = [vis EXCEPT ![v] = x] /\ x \in Visits /\ x.entry = vis[v].entry
               /\ x.pc = vis[v].pc /\ x.network = vis[v].network /\ x.tries = vis[v].tries
               /\ x.picked = vis[v].picked /\ x.cc = vis[v].cc /\ x.req = vis[v].req
               /\ x.left = vis[v].left /\ x.broken = vis[v].broken
               /\ x.got = IF vis[v].left THEN got ELSE more
  <2>1. vis[v] \in Visits /\ vis \in [Visitors -> Visits]
    BY <1>3 DEF VisitFacts
  <2>2. CASE vis[v].left
    <3>1. vis' = [vis EXCEPT ![v] = vis[v]]
      BY <1>20, <2>1, <2>2
    <3> QED BY <2>1, <2>2, <3>1
  <2>3. CASE ~vis[v].left
    <3> DEFINE y == [vis[v] EXCEPT !.got = more]
    <3>1. vis' = [vis EXCEPT ![v] = y]
      BY <1>20, <2>3
    <3>2. /\ y \in Visits /\ y.entry = vis[v].entry
          /\ y.pc = vis[v].pc /\ y.network = vis[v].network /\ y.tries = vis[v].tries
          /\ y.picked = vis[v].picked /\ y.cc = vis[v].cc /\ y.req = vis[v].req
          /\ y.left = vis[v].left /\ y.broken = vis[v].broken /\ y.got = more
      BY <1>23, <2>1 DEF Visits
    <3> HIDE DEF y
    <3> QED BY <2>3, <3>1, <3>2
  <2> QED BY <2>2, <2>3
<1>6. vis'[v] = x /\ \A w \in Visitors : w # v => vis'[w] = vis[w]
  BY <1>3, <1>5 DEF VisitFacts
<1>7. TunnelShape'
  BY <1>1, <1>3, <1>4, <1>5 DEF TunnelShape, VisitFacts
<1>24. Http(v) /\ vis[v].entry = s
  BY <1>0, <1>1, <1>2 DEF StreamAt, StreamFacts
<1>8. VisitAt(v)'
  <2>1. \A r \in Streams : str[r].pc # "none" => str'[r].vis = str[r].vis /\ str'[r].pc # "none"
    BY <1>1, <1>2, <1>4
  <2> QED BY <1>1, <1>3, <1>5, <1>6, <1>24, <2>1, VisitSame
<1>9. SeenAt(v)'
  BY <1>1, <1>3, <1>5, <1>6, SeenSame DEF VisitFacts
<1> DEFINE n == Len(got)
           p == Len(pend)
           m == Len(vis'[v].got)
           p1 == Len(t)
           d == IF InHand(v) THEN 1 ELSE 0
           d1 == IF InHand(v)' THEN 1 ELSE 0
           r == vis[v].req
           b == vis[v].broken
<1>25. InHand(v)' <=> InHand(v)
  BY <1>1, <1>5, <1>6 DEF InHand, Http
<1>26. /\ n \in Nat /\ p \in Nat /\ d \in Nat /\ d1 = d /\ r \in Nat /\ b \in Nat
       /\ p >= 1 /\ p1 = p - 1
  BY <1>0, <1>3, <1>21, <1>22, <1>25 DEF VisitFacts, StreamFacts
<1>27. /\ n + p + d <= r + b
       /\ \A k \in 1..p : pend[k] \in 1..r /\ (InHand(v) => pend[k] < r)
       /\ \A j, k \in 1..p : j < k => pend[j] < pend[k]
       /\ \A i \in 1..n, k \in 1..p : got[i] < pend[k]
  BY <1>0, <1>1, <1>2 DEF PendAt, StreamFacts
<1>28. m = IF vis[v].left THEN n ELSE n + 1
  BY <1>5, <1>6, <1>23
<1>29. m + p1 + d1 <= r + b /\ (vis[v].left => m + 1 + d1 <= r + b) /\ m + d1 <= r + b
  <2>1. m \in {n, n + 1} /\ (vis[v].left => m = n)
    BY <1>28
  <2> HIDE DEF n, p, m, p1, d, d1, r, b
  <2> QED BY <1>26, <1>27, <2>1
<1>30. \A i \in 1..m : (i \in 1..n /\ vis'[v].got[i] = got[i]) \/ (i = n + 1 /\ vis'[v].got[i] = h)
  <2> HIDE DEF n, got
  <2>1. CASE vis[v].left
    BY <1>5, <1>6, <1>28, <2>1 DEF n, got
  <2>2. CASE ~vis[v].left
    <3>1. vis'[v].got = more /\ m = n + 1
      BY <1>5, <1>6, <1>28, <2>2
    <3>2. more[n + 1] = h /\ \A i \in 1..n : more[i] = got[i]
      BY <1>23 DEF n
    <3> HIDE DEF m
    <3> QED BY <1>26, <3>1, <3>2
  <2> QED BY <2>1, <2>2
<1>10. GotAt(v)'
  <2>1. GotAt(v)
    BY DEF TunnelInv
  <2>2. /\ \A i \in 1..n : got[i] <= r /\ (InHand(v) /\ got[i] > 0 => got[i] < r) /\ got[i] \in Nat
        /\ \A i, j \in 1..n : i < j /\ got[i] > 0 /\ got[j] > 0 => got[i] < got[j]
    BY <1>21, <2>1 DEF GotAt
  <2>3. vis'[v].req = r /\ vis'[v].broken = b
    BY <1>5, <1>6
  <2>4. h \in 1..r /\ (InHand(v) => h < r) /\ \A i \in 1..n : got[i] < h
    <3>1. h = pend[1]
      BY <1>22
    <3> HIDE DEF n, p, r, pend, got
    <3>2. 1 \in 1..p
      BY <1>26
    <3> QED BY <1>27, <3>1, <3>2
  <2> DEFINE g == vis'[v].got
  <2>5. \A i \in 1..m : g[i] <= r /\ (InHand(v)' /\ g[i] > 0 => g[i] < r)
    <3> HIDE DEF n, m, r, g, got
    <3> SUFFICES ASSUME NEW i \in 1..m PROVE g[i] <= r /\ (InHand(v)' /\ g[i] > 0 => g[i] < r)
      OBVIOUS
    <3>1. CASE i \in 1..n /\ g[i] = got[i]
      BY <1>25, <2>2, <3>1
    <3>2. CASE g[i] = h
      BY <1>25, <1>26, <2>4, <3>2
    <3> QED BY <1>30, <3>1, <3>2 DEF g
  <2>6. \A i, j \in 1..m : i < j /\ g[i] > 0 /\ g[j] > 0 => g[i] < g[j]
    <3> HIDE DEF n, m, r, g, got
    <3> SUFFICES ASSUME NEW i \in 1..m, NEW j \in 1..m, i < j, g[i] > 0, g[j] > 0 PROVE g[i] < g[j]
      OBVIOUS
    <3>1. /\ (i \in 1..n /\ g[i] = got[i]) \/ (i = n + 1 /\ g[i] = h)
          /\ (j \in 1..n /\ g[j] = got[j]) \/ (j = n + 1 /\ g[j] = h)
      BY <1>30 DEF g
    <3>2. m \in {n, n + 1}
      BY <1>28
    <3>3. i \in 1..n /\ g[i] = got[i]
      BY <1>26, <3>1, <3>2
    <3> QED BY <2>2, <2>4, <3>1, <3>3
  <2>7. InHand(v)' => r >= 1
    BY <1>25, <2>1 DEF GotAt
  <2> QED BY <1>29, <2>3, <2>5, <2>6, <2>7 DEF GotAt
<1>11. StreamAt(s)' /\ PendAt(s)'
  <2>1. StreamAt(s)'
    BY <1>0, <1>1, <1>2, <1>4, <1>5, <1>6, <1>24 DEF StreamAt, Http, StreamFacts
  <2>2. ASSUME str'[s].pc = "copy"
        PROVE  /\ \A k \in 1..p1 : t[k] \in 1..r /\ (InHand(v)' => t[k] < r)
               /\ \A j, k \in 1..p1 : j < k => t[j] < t[k]
               /\ \A i \in 1..m, k \in 1..p1 : vis'[v].got[i] < t[k]
    <3>1. \A k \in 1..p1 : k + 1 \in 1..p /\ t[k] = pend[k + 1]
      <4>1. \A k \in 1..p1 : t[k] = pend[k + 1]
        BY <1>22
      <4> HIDE DEF p, p1, pend
      <4>2. \A k \in 1..p1 : k + 1 \in 1..p
        BY <1>26
      <4> QED BY <4>1, <4>2
    <3> HIDE DEF n, m, r, got, p, p1, pend
    <3>2. \A k \in 1..p1 : t[k] \in 1..r /\ (InHand(v)' => t[k] < r)
      BY <1>25, <1>27, <3>1
    <3>3. \A j, k \in 1..p1 : j < k => t[j] < t[k]
      BY <1>26, <1>27, <3>1
    <3>4. ASSUME NEW i \in 1..m, NEW k \in 1..p1 PROVE vis'[v].got[i] < t[k]
      <4>1. h < t[k]
        BY <1>22, <1>26, <1>27, <3>1 DEF pend
      <4> QED BY <1>27, <1>30, <3>1, <4>1
    <3> QED BY <3>2, <3>3, <3>4
  <2>3. str'[s].pc = "err" => m + 1 + d1 <= r + b
    BY <1>4, <1>29
  <2>4. str'[s].vis = v /\ str'[s].pend = t /\ vis'[v].req = r /\ vis'[v].broken = b
    BY <1>4, <1>5, <1>6
  <2>5. PendAt(s)'
    BY <1>29, <2>2, <2>3, <2>4 DEF PendAt
  <2> QED BY <2>1, <2>5
<1>12. \A q \in Streams : q # s /\ str[q].vis = v => StreamAt(q)' /\ PendAt(q)'
  BY <1>1, <1>2, <1>4, OneCopied
<1> QED BY <1>1, <1>2, <1>4, <1>6, <1>7, <1>8, <1>9, <1>10, <1>11, <1>12, StreamMoves

LEMMA GoneFields ==
  ASSUME NEW x \in Visits
  PROVE  /\ Gone(x) \in Visits /\ Gone(x).pc = "done" /\ Gone(x).network = "tcp"
         /\ Gone(x).tries = 0 /\ Gone(x).picked = "none" /\ Gone(x).cc = 0 /\ Gone(x).left = TRUE
         /\ Gone(x).entry = x.entry /\ Gone(x).req = x.req /\ Gone(x).got = x.got
         /\ Gone(x).broken = x.broken
<1>1. /\ x.entry \in 0..MaxStreams /\ x.req \in Nat /\ x.got \in Seq(Nat) /\ x.broken \in Nat
  BY DEF Visits
<1> DEFINE e == <<>>
           y == [pc |-> "start", network |-> "tcp", tries |-> 0, picked |-> "none",
                 cc |-> 0, entry |-> 0, req |-> 0, left |-> FALSE, got |-> e, broken |-> 0]
<1>2. NoVisit = y
  BY DEF NoVisit
<1> HIDE DEF e
<1> DEFINE z == [y EXCEPT !.pc = "done", !.left = TRUE, !.req = x.req, !.got = x.got,
                          !.entry = x.entry, !.broken = x.broken]
<1>3. Gone(x) = z
  BY <1>2 DEF Gone
<1>4. /\ z.pc = "done" /\ z.network = "tcp" /\ z.tries = 0 /\ z.picked = "none" /\ z.cc = 0
      /\ z.left = TRUE /\ z.entry = x.entry /\ z.req = x.req /\ z.got = x.got
      /\ z.broken = x.broken
  OBVIOUS
<1>5. z \in Visits
  <2>1. 0 \in 0..Retry /\ 0 \in 0..MaxStreams
    BY <1>1, RelayTunnelAssumption DEF Retry
  <2> QED BY <1>1, <2>1 DEF Visits
<1> HIDE DEF z
<1> QED BY <1>3, <1>4, <1>5

LEMMA CloseAllKeeps ==
  ASSUME RelayTunnelAssumption, TunnelInv, NEW v \in Visitors, CloseAll(v)
  PROVE  TunnelInv'
<1>3. VisitFacts(v)
  BY VisitKnown
<1>1. vis[v].pc = "range" /\ UNCHANGED <<setup, list, turn, sess, calm>>
  BY DEF CloseAll, tunnel
<1>20. Http(v)
  BY <1>1, <1>3 DEF VisitAt, VisitFacts
<1>5. PICK x : /\ vis' = [vis EXCEPT ![v] = x] /\ x \in Visits /\ x.entry = vis[v].entry
               /\ x.pc = "done" /\ x.network = "tcp" /\ x.tries = 0
               /\ x.picked = "none" /\ x.cc = 0 /\ x.req = vis[v].req
               /\ x.left = TRUE /\ x.broken = vis[v].broken /\ x.got = vis[v].got
  <2>1. PICK y : y = Gone(vis[v])
    OBVIOUS
  <2>2. vis[v] \in Visits
    BY <1>3 DEF VisitFacts
  <2>3. vis' = [vis EXCEPT ![v] = y]
    BY <2>1 DEF CloseAll
  <2> QED BY <2>1, <2>2, <2>3, GoneFields
<1>6. vis'[v] = x /\ \A w \in Visitors : w # v => vis'[w] = vis[w]
  BY <1>3, <1>5 DEF VisitFacts
<1>9. SeenAt(v)'
  <2>1. ~calm[v]
    BY <1>1, <1>3 DEF SeenAt, VisitFacts
  <2> QED BY <1>1, <2>1 DEF SeenAt
<1>10. Fits(v)
  <2>1. ~InHand(v)' /\ ~InHand(v)
    BY <1>1, <1>5, <1>6 DEF InHand
  <2> QED BY <1>3, <1>5, <1>6, <2>1, FitsIf
<1>21. CASE vis[v].entry = 0
  <2>1. str' = str
    BY <1>21 DEF CloseAll
  <2>2. TunnelShape'
    BY <1>1, <1>3, <1>5, <2>1 DEF TunnelShape, VisitFacts
  <2>3. VisitAt(v)'
    BY <1>1, <1>3, <1>5, <1>6, <1>20, <1>21 DEF VisitAt, VisitFacts, Http
  <2> QED BY <1>1, <1>5, <1>6, <1>9, <1>10, <2>1, <2>2, <2>3, VisitMoves
<1>22. CASE vis[v].entry # 0
  <2>1. PICK s \in Streams : s = vis[v].entry
    BY <1>3, <1>22 DEF VisitFacts, Streams
  <2>2. StreamFacts(s) /\ str[s].vis = v /\ str[s].pc # "none"
    BY <1>3, <1>22, <2>1, StreamKnown DEF VisitFacts, VisitAt
  <2>3. str' = [str EXCEPT ![s].near = FALSE]
    BY <1>22, <2>1 DEF CloseAll, Closed
  <2>4. /\ str' \in [Streams -> StreamRecs] /\ str'[s].pc = str[s].pc /\ str'[s].pend = str[s].pend
        /\ str'[s].vis = v /\ str'[s].sess = str[s].sess /\ str'[s].far = str[s].far
        /\ \A r \in Streams : r # s => str'[r] = str[r]
    BY <2>2, <2>3 DEF StreamRecs, StreamFacts
  <2>5. TunnelShape'
    BY <1>1, <1>3, <1>5, <2>4 DEF TunnelShape, VisitFacts
  <2>6. VisitAt(v)'
    BY <1>1, <1>3, <1>5, <1>6, <1>20, <2>1, <2>2, <2>4 DEF VisitAt, VisitFacts, Http
  <2>7. GotAt(v)'
    BY <1>3, <1>10, <2>5, GotFits DEF TunnelInv
  <2>8. ASSUME NEW r \in Streams, str[r].vis = v PROVE StreamAt(r)' /\ PendAt(r)'
    <3>1. str'[r].vis = v /\ str'[r].pc = str[r].pc /\ str'[r].pend = str[r].pend
      BY <2>2, <2>4, <2>8
    <3>2. str'[r].sess = str[r].sess /\ str'[r].far = str[r].far
      BY <2>4
    <3>3. StreamAt(r) /\ PendAt(r) /\ TunnelShape
      BY DEF TunnelInv
    <3>4. PendAt(r)'
      BY <1>10, <2>5, <2>8, <3>1, <3>3, PendFits
    <3>5. StreamAt(r)'
      BY <1>1, <1>5, <1>6, <2>8, <3>1, <3>2, <3>3 DEF StreamAt, Http
    <3> QED BY <3>4, <3>5
  <2> QED BY <1>1, <1>6, <1>9, <2>2, <2>4, <2>5, <2>6, <2>7, <2>8, StreamMoves
<1> QED BY <1>21, <1>22

LEMMA PipeEndsKeeps ==
  ASSUME RelayTunnelAssumption, TunnelInv, NEW v \in Visitors, PipeEnds(v)
  PROVE  TunnelInv'
<1>3. VisitFacts(v)
  BY VisitKnown
<1>1. vis[v].pc = "pipe" /\ UNCHANGED <<setup, list, turn, sess, calm>>
  BY DEF PipeEnds, tunnel
<1>20. ~Http(v)
  BY <1>1, <1>3 DEF VisitAt, VisitFacts
<1>2. PICK s \in Streams : s = vis[v].cc
  BY <1>1, <1>3 DEF VisitFacts, VisitAt, Streams
<1>4. StreamFacts(s) /\ str[s].vis = v /\ str[s].pc # "none"
  BY <1>1, <1>2, <1>3, StreamKnown DEF VisitFacts, VisitAt, Streams
<1>5. PICK x : /\ vis' = [vis EXCEPT ![v] = x] /\ x \in Visits /\ x.entry = vis[v].entry
               /\ x.pc = "done" /\ x.network = "tcp" /\ x.tries = 0
               /\ x.picked = "none" /\ x.cc = 0 /\ x.req = vis[v].req
               /\ x.left = TRUE /\ x.broken = vis[v].broken /\ x.got = vis[v].got
  <2>1. PICK y : y = Gone(vis[v])
    OBVIOUS
  <2>2. vis[v] \in Visits
    BY <1>3 DEF VisitFacts
  <2>3. vis' = [vis EXCEPT ![v] = y]
    BY <2>1 DEF PipeEnds
  <2> QED BY <2>1, <2>2, <2>3, GoneFields
<1>6. vis'[v] = x /\ \A w \in Visitors : w # v => vis'[w] = vis[w]
  BY <1>3, <1>5 DEF VisitFacts
<1>7. /\ str' \in [Streams -> StreamRecs] /\ str'[s].pc = "done" /\ ~str'[s].far
      /\ str'[s].vis = v /\ str'[s].sess = str[s].sess
      /\ \A r \in Streams : r # s => str'[r] = str[r]
  <2>1. PICK y : y = Ended(str[s])
    OBVIOUS
  <2>2. str' = [str EXCEPT ![s] = y]
    BY <1>2, <2>1 DEF PipeEnds
  <2> QED BY <1>4, <2>1, <2>2, EndedFields DEF StreamFacts
<1>8. TunnelShape'
  BY <1>1, <1>3, <1>5, <1>7 DEF TunnelShape, VisitFacts
<1>9. SeenAt(v)'
  <2>1. ~calm[v]
    BY <1>1, <1>3 DEF SeenAt, VisitFacts
  <2> QED BY <1>1, <2>1 DEF SeenAt
<1>10. GotAt(v)'
  <2>1. ~InHand(v)' /\ ~InHand(v)
    BY <1>1, <1>5, <1>6 DEF InHand
  <2>2. Fits(v)
    BY <1>3, <1>5, <1>6, <2>1, FitsIf
  <2> QED BY <1>3, <1>8, <2>2, GotFits DEF TunnelInv
<1>11. VisitAt(v)'
  BY <1>1, <1>3, <1>5, <1>6, <1>20 DEF VisitAt, VisitFacts, Http
<1>12. StreamAt(s)' /\ PendAt(s)'
  BY <1>4, <1>7 DEF StreamAt, PendAt, StreamFacts
<1>13. ASSUME NEW r \in Streams, r # s, str[r].vis = v PROVE StreamAt(r)' /\ PendAt(r)'
  <2>1. StreamAt(r)
    BY DEF TunnelInv
  <2>2. str[r].pc \notin {"copy", "err", "delete"}
    BY <1>13, <1>20, <2>1 DEF StreamAt
  <2> QED BY <1>7, <1>13, <2>1, <2>2, NotCopied
<1> QED BY <1>1, <1>4, <1>6, <1>7, <1>8, <1>9, <1>10, <1>11, <1>12, <1>13, StreamMoves

LEMMA SendOnKeeps ==
  ASSUME RelayTunnelAssumption, TunnelInv, NEW v \in Visitors, SendOn(v)
  PROVE  TunnelInv'
<1>3. VisitFacts(v)
  BY VisitKnown
<1>1. vis[v].pc = "write" /\ UNCHANGED <<setup, list, turn, sess, calm>>
  BY DEF SendOn, tunnel
<1>20. Http(v)
  BY <1>1, <1>3 DEF VisitAt, VisitFacts
<1>2. PICK s \in Streams : s = vis[v].cc
  BY <1>1, <1>3 DEF VisitFacts, VisitAt, Streams
<1>4. StreamFacts(s) /\ str[s].vis = v /\ str[s].pc # "none"
  BY <1>1, <1>2, <1>3, StreamKnown DEF VisitFacts, VisitAt, Streams
<1>5. PICK x : /\ vis' = [vis EXCEPT ![v] = x] /\ x \in Visits /\ x.entry = vis[v].entry
               /\ x.pc = "body" /\ x.cc = vis[v].cc
               /\ x.network = vis[v].network /\ x.tries = vis[v].tries
               /\ x.picked = vis[v].picked /\ x.req = vis[v].req
               /\ x.left = vis[v].left /\ x.broken = vis[v].broken /\ x.got = vis[v].got
  <2> DEFINE y == [vis[v] EXCEPT !.pc = "body"]
  <2>2. vis' = [vis EXCEPT ![v] = y]
    BY DEF SendOn
  <2>3. vis[v] \in Visits /\ vis[v].cc \in 0..MaxStreams /\ 0 \in 0..MaxStreams
    BY <1>3 DEF VisitFacts
  <2>4. /\ y \in Visits /\ y.entry = vis[v].entry
        /\ y.pc = "body" /\ y.cc = vis[v].cc
        /\ y.network = vis[v].network /\ y.tries = vis[v].tries
        /\ y.picked = vis[v].picked /\ y.req = vis[v].req
        /\ y.left = vis[v].left /\ y.broken = vis[v].broken /\ y.got = vis[v].got
    BY <2>3 DEF Visits
  <2> HIDE DEF y
  <2> QED BY <2>2, <2>4
<1>6. vis'[v] = x /\ \A w \in Visitors : w # v => vis'[w] = vis[w]
  BY <1>3, <1>5 DEF VisitFacts
<1> DEFINE pend == str[s].pend
           got == vis[v].got
           r == vis[v].req
           b == vis[v].broken
           n == Len(got)
           p == Len(pend)
           more == Append(pend, r)
<1>7. /\ more \in Seq(Nat) /\ Len(more) = p + 1 /\ more[p + 1] = r
      /\ \A k \in 1..p : more[k] = pend[k]
  <2>1. pend \in Seq(Nat) /\ r \in Nat
    BY <1>3, <1>4 DEF VisitFacts, StreamFacts
  <2> QED BY <2>1, AppendProperties
<1> HIDE DEF more
<1>8. /\ str' \in [Streams -> StreamRecs] /\ str'[s].pc = str[s].pc /\ str'[s].vis = v
      /\ str'[s].sess = str[s].sess /\ str'[s].far = str[s].far
      /\ str'[s].pend = pend \/ str'[s].pend = more
      /\ \A q \in Streams : q # s => str'[q] = str[q]
  <2>1. str' = str \/ str' = [str EXCEPT ![s].pend = more]
    BY <1>2 DEF SendOn, more
  <2>2. CASE str' = str
    BY <1>4, <2>2 DEF StreamFacts
  <2>3. CASE str' = [str EXCEPT ![s].pend = more]
    BY <1>4, <1>7, <2>3 DEF StreamFacts, StreamRecs
  <2> QED BY <2>1, <2>2, <2>3
<1>9. TunnelShape'
  BY <1>1, <1>3, <1>5, <1>8 DEF TunnelShape, VisitFacts
<1>10. InHand(v) /\ ~InHand(v)'
  BY <1>1, <1>5, <1>6, <1>20 DEF InHand, Http
<1>11. Fits(v)
  BY <1>3, <1>5, <1>6, <1>10, FitsIf
<1>12. SeenAt(v)'
  <2>1. ~calm[v]
    BY <1>1, <1>3 DEF SeenAt, VisitFacts
  <2> QED BY <1>1, <2>1 DEF SeenAt
<1>13. GotAt(v)'
  BY <1>3, <1>9, <1>11, GotFits DEF TunnelInv
<1>14. VisitAt(v)'
  <2>1. PICK e \in 0..MaxStreams : e = vis[v].entry
    BY <1>3 DEF VisitFacts
  <2>2. e # 0 => str'[e].vis = v /\ str'[e].pc # "none"
    <3>1. e # 0 => e \in Streams /\ str[e].vis = v /\ str[e].pc # "none"
      BY <1>3, <2>1 DEF VisitAt, Streams, VisitFacts
    <3> QED BY <1>4, <1>8, <3>1
  <2>3. str'[s].vis = v /\ str'[s].pc # "none"
    BY <1>4, <1>8
  <2> QED BY <1>1, <1>2, <1>3, <1>5, <1>6, <1>20, <2>1, <2>2, <2>3 DEF VisitAt, VisitFacts, Http, Streams
<1>15. ASSUME NEW q \in Streams, str[q].vis = v, str'[q].pend = str[q].pend
       PROVE  StreamAt(q)' /\ PendAt(q)'
  <2>1. str'[q].vis = v /\ str'[q].pc = str[q].pc /\ str'[q].sess = str[q].sess /\ str'[q].far = str[q].far
    BY <1>4, <1>8, <1>15
  <2>2. StreamAt(q) /\ PendAt(q) /\ TunnelShape
    BY DEF TunnelInv
  <2>3. PendAt(q)'
    BY <1>9, <1>11, <1>15, <2>1, <2>2, PendFits
  <2>4. StreamAt(q)'
    BY <1>1, <1>5, <1>6, <1>15, <2>1, <2>2 DEF StreamAt, Http
  <2> QED BY <2>3, <2>4
<1>16. StreamAt(s)' /\ PendAt(s)'
  <2>1. CASE str'[s].pend = pend
    BY <1>4, <1>15, <2>1
  <2>2. CASE str'[s].pend = more
    <3>1. StreamAt(s)'
      BY <1>1, <1>4, <1>5, <1>6, <1>8 DEF StreamAt, Http, StreamFacts
    <3>2. n \in Nat /\ p \in Nat /\ r \in Nat /\ b \in Nat
      BY <1>3, <1>4 DEF StreamFacts, VisitFacts
    <3>3. vis'[v].got = got /\ vis'[v].req = r /\ vis'[v].broken = b
      BY <1>5, <1>6
    <3>4. ASSUME str[s].pc = "copy"
          PROVE  /\ \A k \in 1..Len(more) : more[k] \in 1..r
                 /\ \A j, k \in 1..Len(more) : j < k => more[j] < more[k]
                 /\ \A i \in 1..n, k \in 1..Len(more) : got[i] < more[k]
                 /\ n + Len(more) + 0 <= r + b
      <4>1. /\ \A k \in 1..p : pend[k] \in 1..r /\ pend[k] < r
            /\ \A j, k \in 1..p : j < k => pend[j] < pend[k]
            /\ \A i \in 1..n, k \in 1..p : got[i] < pend[k]
            /\ n + p + 1 <= r + b
        BY <1>4, <1>10, <3>4 DEF PendAt, StreamFacts
      <4>2. r >= 1 /\ \A i \in 1..n : got[i] < r
        <5>1. GotAt(v)
          BY DEF TunnelInv
        <5>2. \A i \in 1..n : got[i] \in Nat /\ (got[i] > 0 => got[i] < r)
          <6>1. got \in Seq(Nat)
            BY <1>3 DEF VisitFacts
          <6>2. \A i \in 1..n : got[i] > 0 => got[i] < r
            BY <1>10, <5>1 DEF GotAt
          <6> HIDE DEF got
          <6> QED BY <6>1, <6>2
        <5>3. r >= 1
          BY <1>10, <5>1 DEF GotAt
        <5> QED BY <3>2, <5>2, <5>3
      <4> HIDE DEF n, p, r, b, got, pend
      <4>3. \A k \in 1..Len(more) : (k \in 1..p /\ more[k] = pend[k]) \/ (k = p + 1 /\ more[k] = r)
        BY <1>7, <3>2
      <4>4. \A k \in 1..Len(more) : more[k] \in 1..r
        BY <3>2, <4>1, <4>2, <4>3
      <4>5. ASSUME NEW j \in 1..Len(more), NEW k \in 1..Len(more), j < k PROVE more[j] < more[k]
        <5>1. j \in 1..p /\ more[j] = pend[j]
          BY <1>7, <3>2, <4>3, <4>5
        <5> QED BY <4>1, <4>3, <4>5, <5>1
      <4>6. \A i \in 1..n, k \in 1..Len(more) : got[i] < more[k]
        BY <4>1, <4>2, <4>3
      <4>7. n + Len(more) + 0 <= r + b
        BY <1>7, <3>2, <4>1
      <4> QED BY <4>4, <4>5, <4>6, <4>7
    <3>5. str[s].pc = "err" => n + 1 + 0 <= r + b
      <4>1. str[s].pc = "err" => n + 1 + 1 <= r + b
        BY <1>4, <1>10 DEF PendAt, StreamFacts
      <4> HIDE DEF n, r, b
      <4> QED BY <3>2, <4>1
    <3>6. PendAt(s)'
      BY <1>8, <1>10, <2>2, <3>3, <3>4, <3>5 DEF PendAt
    <3> QED BY <3>1, <3>6
  <2> QED BY <1>8, <2>1, <2>2
<1>17. \A q \in Streams : q # s /\ str[q].vis = v => StreamAt(q)' /\ PendAt(q)'
  BY <1>8, <1>15
<1> QED BY <1>1, <1>4, <1>6, <1>8, <1>9, <1>12, <1>13, <1>14, <1>16, <1>17, StreamMoves

LEMMA OpenKeeps ==
  ASSUME RelayTunnelAssumption, TunnelInv, NEW v \in Visitors, Open(v)
  PROVE  TunnelInv'
<1>3. VisitFacts(v)
  BY VisitKnown
<1>1. vis[v].pc = "open" /\ UNCHANGED <<setup, list, turn, sess>> /\ calm' = [calm EXCEPT ![v] = FALSE]
  BY DEF Open, tunnel
<1>2. PICK s \in Streams :
        /\ str[s].pc = "none"
        /\ str' = [str EXCEPT ![s] =
             [vis |-> v, sess |-> vis[v].picked, far |-> TRUE, near |-> TRUE,
              pc |-> IF Http(v) THEN "copy" ELSE "pipe", pend |-> <<>>]]
        /\ vis' = [vis EXCEPT ![v] = [vis[v] EXCEPT !.pc = IF Http(v) THEN "write" ELSE "pipe",
                       !.picked = "none", !.tries = 0, !.cc = s,
                       !.entry = IF Http(v) THEN s ELSE 0]]
  BY DEF Open, Http
<1>4. StreamFacts(s)
  BY StreamKnown
<1>5. PICK x : /\ vis' = [vis EXCEPT ![v] = x] /\ x \in Visits /\ x.entry = IF Http(v) THEN s ELSE 0
               /\ x.pc = IF Http(v) THEN "write" ELSE "pipe"
               /\ x.network = vis[v].network /\ x.tries = 0 /\ x.cc = s
               /\ x.picked = "none" /\ x.req = vis[v].req
               /\ x.left = vis[v].left /\ x.broken = vis[v].broken /\ x.got = vis[v].got
  <2> DEFINE y == [vis[v] EXCEPT !.pc = IF Http(v) THEN "write" ELSE "pipe",
                       !.picked = "none", !.tries = 0, !.cc = s,
                       !.entry = IF Http(v) THEN s ELSE 0]
  <2>1. vis' = [vis EXCEPT ![v] = y]
    BY <1>2
  <2>2. vis[v] \in Visits /\ s \in 0..MaxStreams /\ 0 \in 0..MaxStreams /\ 0 \in 0..Retry
    BY <1>3 DEF VisitFacts, Streams, Retry
  <2>3. /\ y \in Visits /\ y.entry = IF Http(v) THEN s ELSE 0
        /\ y.pc = IF Http(v) THEN "write" ELSE "pipe"
        /\ y.network = vis[v].network /\ y.tries = 0 /\ y.cc = s
        /\ y.picked = "none" /\ y.req = vis[v].req
        /\ y.left = vis[v].left /\ y.broken = vis[v].broken /\ y.got = vis[v].got
    BY <2>2 DEF Visits
  <2> HIDE DEF y
  <2> QED BY <2>1, <2>3
<1>6. vis'[v] = x /\ \A w \in Visitors : w # v => vis'[w] = vis[w]
  BY <1>3, <1>5 DEF VisitFacts
<1>7. /\ str' \in [Streams -> StreamRecs] /\ str'[s].pc = (IF Http(v) THEN "copy" ELSE "pipe")
      /\ str'[s].vis = v /\ str'[s].sess \in Connectors /\ str'[s].pend = <<>>
      /\ \A q \in Streams : q # s => str'[q] = str[q]
  <2>1. vis[v].picked \in Connectors
    BY <1>1, <1>3 DEF VisitAt, VisitFacts
  <2> DEFINE e == <<>>
             y == [vis |-> v, sess |-> vis[v].picked, far |-> TRUE, near |-> TRUE,
                   pc |-> IF Http(v) THEN "copy" ELSE "pipe", pend |-> e]
  <2>2. e \in Seq(Nat) /\ str' = [str EXCEPT ![s] = y]
    BY <1>2
  <2> HIDE DEF e
  <2>3. /\ y \in StreamRecs /\ y.pc = (IF Http(v) THEN "copy" ELSE "pipe")
        /\ y.vis = v /\ y.sess \in Connectors /\ y.pend = e
    BY <2>1, <2>2 DEF StreamRecs
  <2> HIDE DEF y
  <2> QED BY <1>4, <2>2, <2>3 DEF StreamFacts, e
<1>8. TunnelShape'
  BY <1>1, <1>3, <1>5, <1>7 DEF TunnelShape, VisitFacts
<1>9. InHand(v)' <=> InHand(v)
  BY <1>1, <1>5, <1>6 DEF InHand, Http
<1>10. ~calm'[v] /\ \A w \in Visitors : w # v => calm'[w] = calm[w]
  BY <1>1, <1>3 DEF VisitFacts
<1>11. SeenAt(v)'
  BY <1>10 DEF SeenAt
<1>12. GotAt(v) /\ GotAt(v)'
  BY <1>5, <1>6, <1>9, GotSame DEF TunnelInv
<1>13. VisitAt(v)'
  <2>1. s # 0
    BY <1>3 DEF Streams, VisitFacts
  <2>2. Http(v)' <=> Http(v)
    BY <1>1 DEF Http
  <2> QED BY <1>1, <1>3, <1>5, <1>6, <1>7, <2>1, <2>2 DEF VisitAt, VisitFacts
<1>14. StreamAt(s)' /\ PendAt(s)'
  <2>1. Http(v)' <=> Http(v)
    BY <1>1 DEF Http
  <2>2. StreamAt(s)'
    BY <1>5, <1>6, <1>7, <2>1 DEF StreamAt
  <2> DEFINE p == Len(str'[s].pend)
             n == Len(vis'[v].got)
             d == IF InHand(v)' THEN 1 ELSE 0
             r == vis'[v].req
             b == vis'[v].broken
  <2>3. p = 0 /\ n \in Nat /\ d \in Nat /\ r \in Nat /\ b \in Nat
    BY <1>3, <1>5, <1>6, <1>7 DEF VisitFacts
  <2>4. n + d <= r + b
    BY <1>12 DEF GotAt
  <2>5. n + p + d <= r + b /\ \A k \in 1..p : FALSE
    <3> HIDE DEF p, n, d, r, b
    <3> QED BY <2>3, <2>4
  <2>6. PendAt(s)'
    BY <1>7, <2>5 DEF PendAt
  <2> QED BY <2>2, <2>6
<1>15. ASSUME NEW q \in Streams, q # s, str[q].vis = v PROVE StreamAt(q)' /\ PendAt(q)'
  <2>1. StreamAt(q)
    BY DEF TunnelInv
  <2>2. vis[v].entry = 0
    BY <1>1, <1>3 DEF VisitAt, VisitFacts
  <2>3. str[q].pc \notin {"copy", "err", "delete"}
    BY <1>3, <1>15, <2>1, <2>2 DEF StreamAt, Streams, VisitFacts
  <2> QED BY <1>7, <1>15, <2>1, <2>3, NotCopied
<1>16. str'[s].pc # "none"
  BY <1>7
<1> QED BY <1>1, <1>2, <1>6, <1>7, <1>8, <1>10, <1>11, <1>12, <1>13, <1>14, <1>15, <1>16, StreamMoves

(* What peers do, and Clean, concerns look-ups alone. *)
LEMMA PeerMoves ==
  ASSUME TunnelInv, TunnelShape', ListBound', UNCHANGED <<setup, vis, str>>, Interfere
  PROVE  TunnelInv'
<1>1. TunnelShape
  BY DEF TunnelInv
<1>2. \A v \in Visitors : VisitAt(v)' /\ GotAt(v)'
  BY <1>1, VisitKept, GotKept DEF TunnelInv
<1>3. \A v \in Visitors : SeenAt(v)'
  BY DEF SeenAt, Interfere
<1>4. \A s \in Streams : StreamAt(s)' /\ PendAt(s)'
  BY StreamKept DEF TunnelInv
<1> QED BY <1>2, <1>3, <1>4 DEF TunnelInv

LEMMA PeerKeeps ==
  ASSUME TunnelInv, Peer
  PROVE  TunnelInv'
<1>1. /\ list \in Seq(Connectors) /\ IsInjective(list) /\ sess \in [Connectors -> SessState]
      /\ \A i \in 1..Len(list) : sess[list[i]] # "none"
  BY DEF TunnelInv, TunnelShape, ListBound
<1>2. calm' \in [Visitors -> BOOLEAN] /\ Interfere /\ UNCHANGED <<setup, turn, vis, str>>
  BY DEF Peer, Bind, Break, Notice, AcceptFails, Interfere, tunnel
<1>3. PICK c \in Connectors : Bind(c) \/ Break(c) \/ Notice(c) \/ AcceptFails(c)
  BY DEF Peer
<1>4. ASSUME Bind(c)
      PROVE  /\ list' \in Seq(Connectors) /\ IsInjective(list') /\ sess' \in [Connectors -> SessState]
             /\ \A i \in 1..Len(list') : sess'[list'[i]] # "none"
  <2>1. /\ sess[c] = "none" /\ sess' = [sess EXCEPT ![c] = "up"] /\ list' = Append(list, c)
    BY <1>4 DEF Bind, AddConnector
  <2> DEFINE n == Len(list)
  <2>2. n \in Nat /\ \A i \in 1..n : list[i] \in Connectors /\ list[i] # c
    BY <1>1, <2>1
  <2>3. /\ list' \in Seq(Connectors) /\ Len(list') = n + 1 /\ list'[n + 1] = c
        /\ \A i \in 1..n : list'[i] = list[i]
    BY <1>1, <2>1, AppendProperties
  <2>4. /\ sess' \in [Connectors -> SessState] /\ sess'[c] # "none"
        /\ \A d \in Connectors : d # c => sess'[d] = sess[d]
    BY <1>1, <2>1 DEF SessState
  <2>5. DOMAIN list = 1..n /\ DOMAIN list' = 1..(n + 1)
    BY <1>1, <2>3
  <2>6. \A i, j \in 1..n : list[i] = list[j] => i = j
    BY <1>1, <2>5 DEF IsInjective
  <2> HIDE DEF n
  <2>7. \A i \in 1..(n + 1) : i \in 1..n \/ i = n + 1
    BY <2>2
  <2>8. \A i, j \in 1..(n + 1) : list'[i] = list'[j] => i = j
    BY <2>2, <2>3, <2>6, <2>7
  <2>9. \A i \in 1..(n + 1) : sess'[list'[i]] # "none"
    BY <1>1, <2>2, <2>3, <2>4, <2>7 DEF n
  <2> QED BY <2>3, <2>4, <2>5, <2>8, <2>9 DEF IsInjective
<1>5. ASSUME Break(c) \/ Notice(c) \/ AcceptFails(c)
      PROVE  /\ list' = list /\ sess' \in [Connectors -> SessState]
             /\ \A i \in 1..Len(list) : sess'[list[i]] # "none"
  <2>1. list' = list
    BY <1>5 DEF Break, Notice, AcceptFails, tunnel
  <2>2. PICK x \in {"gone", "failed", "closed"} : sess' = [sess EXCEPT ![c] = x]
    BY <1>5 DEF Break, Notice, AcceptFails
  <2>3. sess' \in [Connectors -> SessState] /\ \A d \in Connectors : sess[d] # "none" => sess'[d] # "none"
    BY <1>1, <2>2 DEF SessState
  <2>4. \A i \in 1..Len(list) : list[i] \in Connectors
    BY <1>1
  <2> QED BY <1>1, <2>1, <2>3, <2>4
<1>6. /\ list' \in Seq(Connectors) /\ IsInjective(list') /\ sess' \in [Connectors -> SessState]
      /\ \A i \in 1..Len(list') : sess'[list'[i]] # "none"
  BY <1>1, <1>3, <1>4, <1>5
<1>7. TunnelShape' /\ ListBound'
  BY <1>2, <1>6 DEF TunnelInv, TunnelShape, ListBound
<1> QED BY <1>2, <1>7, PeerMoves

LEMMA CleanKeeps ==
  ASSUME TunnelInv, Clean
  PROVE  TunnelInv'
<1>1. /\ list \in Seq(Connectors) /\ IsInjective(list)
      /\ \A i \in 1..Len(list) : sess[list[i]] # "none"
  BY DEF TunnelInv, TunnelShape, ListBound
<1>2. /\ calm' \in [Visitors -> BOOLEAN] /\ Interfere
      /\ UNCHANGED <<setup, turn, sess, vis, str>> /\ list' = Unclosed
  BY DEF Clean, Interfere
<1>3. PICK S : list' = Keep(list, S)
  BY <1>2 DEF Unclosed
<1>4. /\ list' \in Seq(Connectors)
      /\ \A k \in 1..Len(list') : \E j \in 1..Len(list) : list[j] = list'[k]
  BY <1>1, <1>3, KeepElements
<1>5. PICK g \in [1..Len(list') -> 1..Len(list)] :
        /\ \A k \in 1..Len(list') : list'[k] = list[g[k]]
        /\ \A j, k \in 1..Len(list') : j < k => g[j] < g[k]
  <2> DEFINE l == Keep(list, S)
  <2>1. list \in Seq(Connectors)
    BY <1>1
  <2>2. PICK g \in [1..Len(l) -> 1..Len(list)] :
          /\ \A k \in 1..Len(l) : l[k] = list[g[k]] /\ list[g[k]] \in S
          /\ \A j, k \in 1..Len(l) : j < k => g[j] < g[k]
          /\ \A j \in 1..Len(list) : list[j] \in S => \E k \in 1..Len(l) : g[k] = j
    BY <2>1, KeepOrder, SMTT(60)
  <2>3. list' = l
    BY <1>3
  <2> HIDE DEF l
  <2> QED BY <2>2, <2>3
<1> DEFINE n == Len(list)
           m == Len(list')
<1>6. n \in Nat /\ m \in Nat /\ DOMAIN list = 1..n /\ DOMAIN list' = 1..m
  BY <1>1, <1>4
<1>7. \A i, j \in 1..n : list[i] = list[j] => i = j
  BY <1>1, <1>6 DEF IsInjective
<1>8. \A i, j \in 1..m : list'[i] = list'[j] => i = j
  <2> SUFFICES ASSUME NEW i \in 1..m, NEW j \in 1..m, list'[i] = list'[j] PROVE i = j
    OBVIOUS
  <2>1. g[i] \in 1..n /\ g[j] \in 1..n /\ list[g[i]] = list[g[j]]
    BY <1>5
  <2>2. g[i] = g[j]
    BY <1>7, <2>1
  <2>3. (i < j => g[i] < g[j]) /\ (j < i => g[j] < g[i])
    BY <1>5
  <2> HIDE DEF n, m
  <2> QED BY <1>6, <2>1, <2>2, <2>3
<1>9. TunnelShape'
  BY <1>2, <1>4, <1>6, <1>8 DEF TunnelInv, TunnelShape, IsInjective
<1>10. ListBound'
  BY <1>1, <1>2, <1>4 DEF ListBound
<1> QED BY <1>2, <1>9, <1>10, PeerMoves

LEMMA TunnelStart ==
  ASSUME RelayTunnelAssumption, TunnelInit
  PROVE  TunnelInv
<1>1. /\ setup \in Setups /\ list = <<>> /\ turn = 0
      /\ sess = [c \in Connectors |-> "none"] /\ vis = [v \in Visitors |-> NoVisit]
      /\ str = [s \in Streams |-> NoStream] /\ calm = [v \in Visitors |-> FALSE]
  BY DEF TunnelInit
<1>2. PICK x : /\ x = NoVisit /\ x \in Visits /\ x.pc = "start" /\ x.entry = 0 /\ x.cc = 0 /\ x.req = 0
               /\ x.got = <<>> /\ x.broken = 0
  <2> DEFINE e == <<>>
             y == [pc |-> "start", network |-> "tcp", tries |-> 0, picked |-> "none",
                   cc |-> 0, entry |-> 0, req |-> 0, left |-> FALSE, got |-> e, broken |-> 0]
  <2>1. NoVisit = y
    BY DEF NoVisit
  <2>2. e \in Seq(Nat) /\ 0 \in 0..MaxStreams /\ 0 \in 0..Retry
    BY DEF RelayTunnelAssumption, Retry
  <2> HIDE DEF e
  <2>3. /\ y \in Visits /\ y.pc = "start" /\ y.entry = 0 /\ y.cc = 0 /\ y.req = 0
        /\ y.got = e /\ y.broken = 0
    BY <2>2 DEF Visits
  <2> HIDE DEF y
  <2> QED BY <2>1, <2>3 DEF e
<1>3. PICK z : z = NoStream /\ z \in StreamRecs /\ z.far = FALSE /\ z.pc = "none"
  <2> DEFINE e == <<>>
             y == [vis |-> "none", sess |-> "none", far |-> FALSE, near |-> FALSE,
                   pc |-> "none", pend |-> e]
  <2>1. NoStream = y
    BY DEF NoStream
  <2>2. e \in Seq(Nat)
    OBVIOUS
  <2> HIDE DEF e
  <2>3. y \in StreamRecs /\ y.far = FALSE /\ y.pc = "none"
    BY <2>2 DEF StreamRecs
  <2> HIDE DEF y
  <2> QED BY <2>1, <2>3
<1>4. /\ vis \in [Visitors -> Visits] /\ (\A v \in Visitors : vis[v] = x)
      /\ str \in [Streams -> StreamRecs] /\ (\A s \in Streams : str[s] = z)
      /\ calm \in [Visitors -> BOOLEAN] /\ (\A v \in Visitors : ~calm[v])
  BY <1>1, <1>2, <1>3
<1>5. TunnelShape
  <2>1. list \in Seq(Connectors) /\ IsInjective(list)
    BY <1>1 DEF IsInjective
  <2> QED BY <1>1, <1>4, <2>1 DEF TunnelShape, SessState, Period
<1>6. ListBound
  BY <1>1 DEF ListBound
<1>7. setup.reqs \in Nat
  BY <1>5, SetupRecord
<1>8. ASSUME NEW v \in Visitors PROVE VisitAt(v) /\ GotAt(v) /\ SeenAt(v)
  <2>1. VisitAt(v)
    BY <1>2, <1>4, <1>7 DEF VisitAt
  <2>2. GotAt(v)
    <3>1. ~InHand(v) /\ Len(vis[v].got) = 0 /\ vis[v].req = 0 /\ vis[v].broken = 0
      BY <1>2, <1>4 DEF InHand
    <3> DEFINE n == Len(vis[v].got)
    <3>2. n = 0 /\ \A i \in 1..n : FALSE
      BY <3>1
    <3> HIDE DEF n
    <3> QED BY <3>1, <3>2 DEF GotAt, n
  <2>3. SeenAt(v)
    BY <1>4 DEF SeenAt
  <2> QED BY <2>1, <2>2, <2>3
<1>9. ASSUME NEW s \in Streams PROVE StreamAt(s) /\ PendAt(s)
  BY <1>3, <1>4 DEF StreamAt, PendAt
<1> QED BY <1>5, <1>6, <1>8, <1>9 DEF TunnelInv

LEMMA TunnelKept ==
  ASSUME TunnelInv, UNCHANGED tunnelVars
  PROVE  TunnelInv'
<1>1. TunnelShape' /\ ListBound'
  BY DEF TunnelInv, tunnelVars, TunnelShape, ListBound
<1>2. \A v \in Visitors : VisitAt(v)' /\ GotAt(v)' /\ SeenAt(v)'
  BY VisitKept, GotKept, SeenKept DEF TunnelInv, tunnelVars
<1>3. \A s \in Streams : StreamAt(s)' /\ PendAt(s)'
  BY StreamKept DEF TunnelInv, tunnelVars
<1> QED BY <1>1, <1>2, <1>3 DEF TunnelInv

LEMMA TunnelStep ==
  ASSUME RelayTunnelAssumption, TunnelInv, TunnelNext
  PROVE  TunnelInv'
<1>1. CASE Peer
  BY <1>1, PeerKeeps
<1>2. CASE Clean
  BY <1>2, CleanKeeps
<1>3. ASSUME NEW v \in Visitors, Visit(v) PROVE TunnelInv'
  <2>1. CASE Leave(v) \/ Start(v) \/ Refuse(v)
    BY <2>1, LeaveKeeps, StartKeeps, RefuseKeeps
  <2>2. CASE Pick(v) \/ OpenFails(v) \/ Open(v) \/ PipeEnds(v)
    BY <2>2, PickKeeps, OpenFailsKeeps, OpenKeeps, PipeEndsKeeps
  <2>3. CASE NextRequest(v) \/ NoRoute(v) \/ Unavailable(v)
    BY <2>3, NextRequestKeeps, NoRouteKeeps, UnavailableKeeps
  <2>4. CASE SendOn(v) \/ SendDone(v) \/ WriteFails(v) \/ WriteBreaks(v)
    BY <2>4, SendOnKeeps, SendDoneKeeps, WriteFailsKeeps, WriteBreaksKeeps
  <2>5. CASE LoopEnds(v) \/ CloseAll(v)
    BY <2>5, LoopEndsKeeps, CloseAllKeeps
  <2> QED BY <1>3, <2>1, <2>2, <2>3, <2>4, <2>5 DEF Visit
<1>4. ASSUME NEW s \in Streams, Copy(s) \/ FarClose(s) PROVE TunnelInv'
  BY <1>4, AnswerKeeps, CopyEndsKeeps, CopyFailsKeeps, CopyReplyKeeps, DeleteKeeps,
     CloseStreamKeeps, FarCloseKeeps DEF Copy
<1> QED BY <1>1, <1>2, <1>3, <1>4 DEF TunnelNext

LEMMA TunnelInvMeans ==
  ASSUME RelayTunnelAssumption, TunnelInv
  PROVE  LiveIsFound /\ AnswersInOrder
<1>1. TunnelTypeOK
  <2>1. ASSUME NEW s \in Streams, str[s].pc # "none" PROVE str[s].vis \in Visitors
    BY <2>1 DEF TunnelInv, StreamAt
  <2>2. ASSUME NEW v \in Visitors
        PROVE  /\ vis[v].cc \in 0..MaxStreams /\ vis[v].entry \in 0..MaxStreams
               /\ vis[v].req <= setup.reqs /\ vis[v].tries <= Retry
    <3>1. VisitFacts(v)
      BY VisitKnown
    <3> QED BY <3>1 DEF VisitFacts, VisitAt, Retry
  <2> QED BY <2>1, <2>2 DEF TunnelTypeOK, TunnelInv, TunnelShape
<1>2. LiveIsFound
  <2>1. ASSUME NEW v \in Visitors, vis[v].pc = "failed", calm[v], NEW c \in Connectors,
               Contains(Of(vis[v].network), c)
        PROVE  ~Opens(c)
    <3>1. SeenAt(v)
      BY DEF TunnelInv
    <3> QED BY <2>1, <3>1 DEF SeenAt, Contains
  <2> QED BY <1>1, <2>1 DEF LiveIsFound
<1>3. AnswersInOrder
  <2>1. CopiedIsPooled
    BY DEF CopiedIsPooled, TunnelInv, StreamAt
  <2>2. ASSUME NEW v \in Visitors
        PROVE  /\ \A i, j \in 1..Len(vis[v].got) :
                    i < j /\ vis[v].got[i] > 0 /\ vis[v].got[j] > 0 => vis[v].got[i] < vis[v].got[j]
               /\ Len(vis[v].got) <= vis[v].req + vis[v].broken
    <3>1. GotAt(v)
      BY DEF TunnelInv
    <3>2. VisitFacts(v)
      BY VisitKnown
    <3>3. Len(vis[v].got) <= vis[v].req + vis[v].broken
      <4> DEFINE n == Len(vis[v].got)
                 d == IF InHand(v) THEN 1 ELSE 0
                 r == vis[v].req
                 b == vis[v].broken
      <4>1. n \in Nat /\ d \in Nat /\ r \in Nat /\ b \in Nat /\ n + d <= r + b
        BY <3>1, <3>2 DEF GotAt, VisitFacts
      <4> HIDE DEF n, d, r, b
      <4>2. n <= r + b
        BY <4>1
      <4> QED BY <4>2 DEF n, r, b
    <3> QED BY <3>1, <3>3 DEF GotAt
  <2> QED BY <2>1, <2>2 DEF AnswersInOrder
<1> QED BY <1>2, <1>3

----------------------------------------------------------------------------
(***************************************************************************)
(* ForwardHTTP.                                                            *)
(***************************************************************************)

LoopRecs ==
  [pc : {"read", "check", "dial", "write", "body", "ws", "range", "close", "done", "crashed"},
   asked : Seq(Nodes), cc : Nat, got : Seq(Nat), left : BOOLEAN]

OutRecs ==
  [at : Nodes, far : {"open", "closed", "failed"}, near : BOOLEAN,
   pc : {"copy", "err", "remove", "close", "done"}, pend : Seq(Nat)]

ForwardShape ==
  /\ forward \in Forwards /\ loop \in LoopRecs /\ outs \in Seq(OutRecs)
  /\ pool \subseteq Outs /\ broken \in Nat

(* The request that the loop is about to pass on. *)
Hand == loop.pc \in {"check", "dial", "write"}

LoopAt ==
  /\ Requested <= forward.reqs
  /\ Len(outs) + (IF loop.pc \in {"check", "dial"} THEN 1 ELSE 0) <= Requested
  /\ loop.pc \in {"write", "body", "ws"} => loop.cc \in Outs
  /\ loop.pc = "write" => outs[loop.cc].at = Asked
  /\ loop.pc = "dial" /\ forward.hop => \A k \in pool : outs[k].at # Asked

PoolAt ==
  /\ \A k \in Outs : outs[k].pc \in {"copy", "err", "remove"} => k \in pool
  /\ forward.hop => \A j, k \in pool : outs[j].at = outs[k].at => j = k

Pending(k) == IF outs[k].pc = "copy" THEN {outs[k].pend[i] : i \in 1..Len(outs[k].pend)} ELSE {}

OpenReqs == {q \in 1..Requested : (Hand /\ q = Requested) \/ \E k \in Outs : q \in Pending(k)}

ErrOuts == {k \in Outs : outs[k].pc = "err"}

GotBy ==
  LET got == loop.got
  IN  /\ \A i \in 1..Len(got) : got[i] \in 0..Requested /\ (Hand => got[i] # Requested)
      /\ \A i, j \in 1..Len(got) : i < j /\ got[i] > 0 /\ got[j] > 0 =>
           /\ got[i] # got[j]
           /\ forward.hop /\ loop.asked[got[i]] = loop.asked[got[j]] => got[i] < got[j]

PendBy ==
  LET got == loop.got
  IN  \A k \in Outs :
        /\ \A q \in Pending(k) :
             /\ q \in 1..Requested /\ (Hand => q # Requested) /\ loop.asked[q] = outs[k].at
             /\ \A i \in 1..Len(got) : got[i] # q
             /\ \A i \in 1..Len(got) :
                  forward.hop /\ got[i] > 0 /\ loop.asked[got[i]] = outs[k].at => got[i] < q
             /\ \A j \in Outs : q \in Pending(j) => j = k
        /\ outs[k].pc = "copy" =>
             \A i, j \in 1..Len(outs[k].pend) : i < j => outs[k].pend[i] < outs[k].pend[j]

CountAt == Len(loop.got) + Cardinality(OpenReqs) + Cardinality(ErrOuts) <= Requested + broken

WaitAt ==
  forward.waits =>
    /\ Len(loop.got) + 1 >= Requested
    /\ broken = 0 => /\ \A k \in Outs : \A q \in Pending(k) : q = Requested
                     /\ \A i \in 1..Len(loop.got) : loop.got[i] \in {0, i}

ForwardInv == ForwardShape /\ LoopAt /\ PoolAt /\ GotBy /\ PendBy /\ CountAt /\ WaitAt

LEMMA ForwardFacts ==
  ASSUME ForwardAssumption, ForwardShape
  PROVE  /\ Len(outs) \in Nat /\ Outs = 1..Len(outs)
         /\ \A k \in Outs : /\ outs[k] \in OutRecs /\ outs[k].pend \in Seq(Nat)
                            /\ \A q \in Pending(k) : q \in Nat
         /\ loop.got \in Seq(Nat) /\ Len(loop.got) \in Nat
         /\ loop.asked \in Seq(Nodes) /\ Requested \in Nat /\ Asked = loop.asked[Requested]
         /\ (Requested >= 1 => Asked \in Nodes)
         /\ forward.reqs \in Nat /\ forward.reqs <= MaxRequests /\ broken \in Nat
         /\ loop.left \in BOOLEAN /\ forward.hop \in BOOLEAN /\ forward.waits \in BOOLEAN
<1>1. outs \in Seq(OutRecs) /\ loop \in LoopRecs /\ forward \in Forwards /\ broken \in Nat
  BY DEF ForwardShape
<1>2. Len(outs) \in Nat /\ Outs = 1..Len(outs) /\ \A k \in Outs : outs[k] \in OutRecs
  BY <1>1 DEF Outs
<1>3. \A k \in Outs : outs[k].pend \in Seq(Nat)
  BY <1>2 DEF OutRecs
<1>4. \A k \in Outs : \A q \in Pending(k) : q \in Nat
  BY <1>3 DEF Pending
<1>5. /\ loop.got \in Seq(Nat) /\ loop.asked \in Seq(Nodes) /\ loop.left \in BOOLEAN
  BY <1>1 DEF LoopRecs
<1>6. Len(loop.got) \in Nat /\ Requested \in Nat /\ Asked = loop.asked[Requested]
  BY <1>5 DEF Requested, Asked, Last
<1>7. Requested >= 1 => Asked \in Nodes
  BY <1>5, <1>6 DEF Requested
<1>8. /\ forward.reqs \in Nat /\ forward.reqs <= MaxRequests /\ forward.hop \in BOOLEAN
      /\ forward.waits \in BOOLEAN
  BY <1>1 DEF ForwardAssumption
<1> QED BY <1>1, <1>2, <1>3, <1>4, <1>5, <1>6, <1>7, <1>8

LEMMA CountFinite ==
  ASSUME ForwardAssumption, ForwardShape
  PROVE  /\ IsFiniteSet(OpenReqs) /\ Cardinality(OpenReqs) \in Nat
         /\ IsFiniteSet(ErrOuts) /\ Cardinality(ErrOuts) \in Nat
<1>1. Len(outs) \in Nat /\ Outs = 1..Len(outs) /\ Requested \in Nat
  BY ForwardFacts
<1>2. IsFiniteSet(1..Len(outs)) /\ IsFiniteSet(1..Requested)
  BY <1>1, FS_Interval
<1>3. OpenReqs \in SUBSET (1..Requested) /\ ErrOuts \in SUBSET (1..Len(outs))
  BY <1>1 DEF OpenReqs, ErrOuts
<1>4. IsFiniteSet(OpenReqs) /\ IsFiniteSet(ErrOuts)
  BY <1>2, <1>3, FS_Subset
<1> QED BY <1>4, FS_CardinalityType

LEMMA HandAsked ==
  ASSUME ForwardAssumption, ForwardShape, LoopAt, Hand
  PROVE  Requested >= 1
<1>1. Len(outs) \in Nat /\ Outs = 1..Len(outs) /\ Requested \in Nat
  BY ForwardFacts
<1>2. CASE loop.pc \in {"check", "dial"}
  BY <1>1, <1>2 DEF LoopAt
<1>3. CASE loop.pc = "write"
  BY <1>1, <1>3 DEF LoopAt
<1> QED BY <1>2, <1>3 DEF Hand

(* Less is pending than before, and there is one answer more at most, of the
   handler's own. *)
Shrunk ==
  /\ forward' = forward /\ loop'.asked = loop.asked
  /\ loop'.got \in {loop.got, Append(loop.got, 0)}
  /\ Hand' => Hand
  /\ \A k \in Outs' : \/ outs'[k].pc # "copy" \/ outs'[k].pend = <<>>
                      \/ /\ k \in Outs /\ outs[k].pc = "copy" /\ outs'[k].at = outs[k].at
                         /\ outs'[k].pend = outs[k].pend
  /\ broken' >= broken

LEMMA ShrunkPending ==
  ASSUME Shrunk, NEW k \in Outs', NEW q \in Pending(k)'
  PROVE  /\ k \in Outs /\ q \in Pending(k) /\ outs'[k].at = outs[k].at
         /\ outs'[k].pend = outs[k].pend /\ outs[k].pc = "copy"
<1>1. outs'[k].pc = "copy" /\ q \in {outs'[k].pend[i] : i \in 1..Len(outs'[k].pend)}
  BY DEF Pending
<1>2. outs'[k].pend # <<>>
  BY <1>1
<1>3. /\ k \in Outs /\ outs[k].pc = "copy" /\ outs'[k].at = outs[k].at
      /\ outs'[k].pend = outs[k].pend
  BY <1>1, <1>2 DEF Shrunk
<1> QED BY <1>1, <1>3 DEF Pending

LEMMA ShrunkKeeps ==
  ASSUME ForwardAssumption, ForwardShape, ForwardShape', LoopAt, GotBy, PendBy, WaitAt, Shrunk
  PROVE  GotBy' /\ PendBy' /\ WaitAt' /\ OpenReqs' \subseteq OpenReqs /\ Requested' = Requested
<1> DEFINE g == loop.got
           h == loop'.got
           n == Len(g)
           m == Len(h)
           r == Requested
           asked == loop.asked
<1>1. g \in Seq(Nat) /\ n \in Nat /\ r \in Nat /\ broken \in Nat /\ broken' \in Nat
  BY ForwardFacts DEF ForwardShape
<1>2. /\ m \in {n, n + 1}
      /\ \A i \in 1..m : (i \in 1..n /\ h[i] = g[i]) \/ h[i] = 0
  BY <1>1, MoreGot DEF Shrunk
<1>3. Requested' = r /\ loop'.asked = asked /\ forward' = forward /\ (Hand' => Hand) /\ broken' >= broken
  BY DEF Shrunk, Requested
<1>4. /\ \A i \in 1..n : g[i] \in 0..r /\ (Hand => g[i] # r)
      /\ \A i, j \in 1..n : i < j /\ g[i] > 0 /\ g[j] > 0 =>
           /\ g[i] # g[j]
           /\ forward.hop /\ asked[g[i]] = asked[g[j]] => g[i] < g[j]
  BY DEF GotBy
<1>5. Hand => r >= 1
  BY HandAsked
<1>6. \A k \in Outs' : \A q \in Pending(k)' :
        /\ k \in Outs /\ q \in Pending(k) /\ outs'[k].at = outs[k].at
  BY ShrunkPending
<1>7. \A k \in Outs : \A q \in Pending(k) :
        /\ q \in 1..r /\ (Hand => q # r) /\ asked[q] = outs[k].at
        /\ \A i \in 1..n : g[i] # q
        /\ \A i \in 1..n : forward.hop /\ g[i] > 0 /\ asked[g[i]] = outs[k].at => g[i] < q
        /\ \A j \in Outs : q \in Pending(j) => j = k
  BY DEF PendBy
<1>8. /\ \A i \in 1..m : h[i] \in 0..r /\ (Hand' => h[i] # r)
      /\ \A i, j \in 1..m : i < j /\ h[i] > 0 /\ h[j] > 0 =>
           /\ h[i] # h[j]
           /\ forward.hop /\ asked[h[i]] = asked[h[j]] => h[i] < h[j]
  <2> HIDE DEF g, h, n, m, r, asked
  <2>1. ASSUME NEW i \in 1..m
        PROVE  h[i] \in 0..r /\ (Hand' => h[i] # r)
    BY <2>1, <1>1, <1>2, <1>3, <1>4, <1>5
  <2>2. ASSUME NEW i \in 1..m, NEW j \in 1..m, i < j, h[i] > 0, h[j] > 0
        PROVE  /\ h[i] # h[j]
               /\ forward.hop /\ asked[h[i]] = asked[h[j]] => h[i] < h[j]
    <3>1. i \in 1..n /\ h[i] = g[i] /\ j \in 1..n /\ h[j] = g[j]
      BY <2>2, <1>2
    <3>2. g[i] > 0 /\ g[j] > 0
      BY <2>2, <3>1
    <3> QED BY <2>2, <3>1, <3>2, <1>4
  <2> QED BY <2>1, <2>2
<1>9. GotBy'
  BY <1>8, <1>3 DEF GotBy
<1>10. \A k \in Outs' : \A q \in Pending(k)' :
        /\ q \in 1..r /\ (Hand' => q # r) /\ asked[q] = outs'[k].at
        /\ \A i \in 1..m : h[i] # q
        /\ \A i \in 1..m : forward.hop /\ h[i] > 0 /\ asked[h[i]] = outs'[k].at => h[i] < q
        /\ \A j \in Outs' : q \in Pending(j)' => j = k
  <2> SUFFICES ASSUME NEW k \in Outs', NEW q \in Pending(k)'
               PROVE  /\ q \in 1..r /\ (Hand' => q # r) /\ asked[q] = outs'[k].at
                      /\ \A i \in 1..m : h[i] # q
                      /\ \A i \in 1..m : forward.hop /\ h[i] > 0 /\ asked[h[i]] = outs'[k].at => h[i] < q
                      /\ \A j \in Outs' : q \in Pending(j)' => j = k
    OBVIOUS
  <2>1. k \in Outs /\ q \in Pending(k) /\ outs'[k].at = outs[k].at
    BY <1>6
  <2>2. /\ q \in 1..r /\ (Hand => q # r) /\ asked[q] = outs[k].at
        /\ \A i \in 1..n : g[i] # q
        /\ \A i \in 1..n : forward.hop /\ g[i] > 0 /\ asked[g[i]] = outs[k].at => g[i] < q
        /\ \A j \in Outs : q \in Pending(j) => j = k
    BY <2>1, <1>7
  <2>3. \A j \in Outs' : q \in Pending(j)' => j = k
    BY <2>2, <1>6
  <2>4. q \in 1..r /\ (Hand' => q # r) /\ asked[q] = outs'[k].at
    BY <2>1, <2>2, <1>3
  <2> HIDE DEF g, h, n, m, r, asked
  <2>5. ASSUME NEW i \in 1..m
        PROVE  h[i] # q /\ (forward.hop /\ h[i] > 0 /\ asked[h[i]] = outs'[k].at => h[i] < q)
    <3>1. CASE h[i] = 0
      BY <3>1, <2>2, <1>1
    <3>2. CASE i \in 1..n /\ h[i] = g[i]
      BY <3>2, <2>1, <2>2
    <3> QED BY <2>5, <3>1, <3>2, <1>2
  <2> QED BY <2>3, <2>4, <2>5
<1>11. \A k \in Outs' : outs'[k].pc = "copy" =>
          \A i, j \in 1..Len(outs'[k].pend) : i < j => outs'[k].pend[i] < outs'[k].pend[j]
  <2> SUFFICES ASSUME NEW k \in Outs', outs'[k].pc = "copy",
                      NEW i \in 1..Len(outs'[k].pend), NEW j \in 1..Len(outs'[k].pend), i < j
               PROVE  outs'[k].pend[i] < outs'[k].pend[j]
    OBVIOUS
  <2>1. outs'[k].pend[i] \in Pending(k)'
    BY DEF Pending
  <2>2. k \in Outs /\ outs'[k].pend = outs[k].pend /\ outs[k].pc = "copy"
    BY <2>1, ShrunkPending
  <2> QED BY <2>2 DEF PendBy
<1>12. PendBy'
  BY <1>10, <1>11, <1>3 DEF PendBy
<1>13. OpenReqs' \subseteq OpenReqs
  BY <1>3, <1>6 DEF OpenReqs
<1>14. WaitAt'
  <2>1. ASSUME forward.waits
        PROVE  /\ m + 1 >= r
               /\ broken' = 0 => /\ \A k \in Outs' : \A q \in Pending(k)' : q = r
                                 /\ \A i \in 1..m : h[i] \in {0, i}
    <3>1. /\ n + 1 >= r
          /\ broken = 0 => /\ \A k \in Outs : \A q \in Pending(k) : q = r
                           /\ \A i \in 1..n : g[i] \in {0, i}
      BY <2>1 DEF WaitAt
    <3> HIDE DEF g, h, n, m, r, asked
    <3>2. m + 1 >= r
      BY <3>1, <1>1, <1>2
    <3>3. broken' = 0 => broken = 0
      BY <1>1, <1>3
    <3>4. broken' = 0 => \A k \in Outs' : \A q \in Pending(k)' : q = r
      BY <3>1, <3>3, <1>6
    <3>5. broken' = 0 => \A i \in 1..m : h[i] \in {0, i}
      BY <3>1, <3>3, <1>2
    <3> QED BY <3>2, <3>4, <3>5
  <2> QED BY <2>1, <1>3 DEF WaitAt
<1> QED BY <1>3, <1>9, <1>12, <1>13, <1>14

(* The count, when no answer is added. *)
LEMMA CountShrinks ==
  ASSUME ForwardAssumption, ForwardShape, ForwardShape', CountAt,
         OpenReqs' \subseteq OpenReqs, ErrOuts' \subseteq ErrOuts, Requested' = Requested,
         loop'.got = loop.got, broken' = broken
  PROVE  CountAt'
<1>1. /\ IsFiniteSet(OpenReqs) /\ Cardinality(OpenReqs) \in Nat
      /\ IsFiniteSet(ErrOuts) /\ Cardinality(ErrOuts) \in Nat
  BY CountFinite
<1>2. Cardinality(OpenReqs') \in Nat /\ Cardinality(OpenReqs') <= Cardinality(OpenReqs)
  BY <1>1, FS_Subset, FS_CardinalityType
<1>3. Cardinality(ErrOuts') \in Nat /\ Cardinality(ErrOuts') <= Cardinality(ErrOuts)
  BY <1>1, FS_Subset, FS_CardinalityType
<1>4. Len(loop.got) \in Nat /\ Requested \in Nat /\ broken \in Nat
  BY ForwardFacts
<1>5. Len(loop.got) + Cardinality(OpenReqs) + Cardinality(ErrOuts) <= Requested + broken
  BY DEF CountAt
<1>6. Len(loop.got) + Cardinality(OpenReqs') + Cardinality(ErrOuts') <= Requested + broken
  BY <1>1, <1>2, <1>3, <1>4, <1>5
<1> QED BY <1>6 DEF CountAt

(* A connection, some of its fields. *)
LEMMA OutFields ==
  ASSUME NEW o \in OutRecs
  PROVE  /\ o.at \in Nodes /\ o.far \in {"open", "closed", "failed"} /\ o.near \in BOOLEAN
         /\ o.pc \in {"copy", "err", "remove", "close", "done"} /\ o.pend \in Seq(Nat)
BY DEF OutRecs

LEMMA LoopFields ==
  ASSUME ForwardShape
  PROVE  /\ loop.pc \in {"read", "check", "dial", "write", "body", "ws", "range", "close", "done", "crashed"}
         /\ loop.asked \in Seq(Nodes) /\ loop.cc \in Nat /\ loop.got \in Seq(Nat)
         /\ loop.left \in BOOLEAN /\ loop \in LoopRecs
BY DEF ForwardShape, LoopRecs

LEMMA ToldFields ==
  ASSUME ForwardShape, NEW pc \in {"read", "range"}
  PROVE  LET x == Told([loop EXCEPT !.pc = pc, !.cc = 0])
         IN  /\ x \in LoopRecs /\ x.pc = pc /\ x.asked = loop.asked /\ x.cc = 0
             /\ x.left = loop.left
             /\ x.got = IF loop.left THEN loop.got ELSE Append(loop.got, 0)
<1> DEFINE y == [loop EXCEPT !.pc = pc, !.cc = 0]
<1>1. y \in LoopRecs
  BY DEF ForwardShape, LoopRecs
<1>2. /\ y.pc = pc /\ y.asked = loop.asked /\ y.cc = 0 /\ y.left = loop.left /\ y.got = loop.got
  BY DEF ForwardShape, LoopRecs
<1> HIDE DEF y
<1>3. CASE loop.left
  <2>1. y.left
    BY <1>2, <1>3
  <2>2. Told(y) = y
    BY <2>1 DEF Told
  <2> QED BY <1>1, <1>2, <1>3, <2>2 DEF y
<1>4. CASE ~loop.left
  <2> DEFINE z == [y EXCEPT !.got = Append(@, 0)]
  <2>0. y.got \in Seq(Nat)
    BY <1>1 DEF LoopRecs
  <2>1. Append(y.got, 0) \in Seq(Nat)
    BY <2>0, AppendProperties
  <2> DEFINE e == Append(y.got, 0)
  <2>2. z = [y EXCEPT !.got = e]
    OBVIOUS
  <2>3. e \in Seq(Nat)
    BY <2>1
  <2> HIDE DEF e
  <2>4. z \in LoopRecs
    BY <1>1, <2>2, <2>3 DEF LoopRecs
  <2>5. z.pc = y.pc /\ z.asked = y.asked /\ z.cc = y.cc /\ z.left = y.left /\ z.got = e
    BY <1>1, <2>2 DEF LoopRecs
  <2>6. ~y.left
    BY <1>2, <1>4
  <2>7. Told(y) = z
    BY <2>6 DEF Told
  <2>8. e = Append(loop.got, 0)
    BY <1>2 DEF e
  <2>9. /\ Told(y) \in LoopRecs /\ Told(y).pc = pc /\ Told(y).asked = loop.asked /\ Told(y).cc = 0
        /\ Told(y).left = loop.left /\ Told(y).got = Append(loop.got, 0)
    BY <1>2, <2>4, <2>5, <2>7, <2>8
  <2> QED BY <1>4, <2>9 DEF y
<1> QED BY <1>3, <1>4

(* The handler's own answer to the request in hand. *)
LEMMA TellKeeps ==
  ASSUME ForwardAssumption, ForwardInv, loop.pc \in {"check", "dial", "write"}, TellAndGoOn,
         UNCHANGED <<forward, outs, pool, broken>>
  PROVE  ForwardInv'
<1>1. /\ ForwardShape /\ LoopAt /\ PoolAt /\ GotBy /\ PendBy /\ CountAt /\ WaitAt
  BY DEF ForwardInv
<1>2. PICK pc \in {"read", "range"} : loop' = Told([loop EXCEPT !.pc = pc, !.cc = 0])
  BY DEF TellAndGoOn
<1>3. /\ loop' \in LoopRecs /\ loop'.pc = pc /\ loop'.asked = loop.asked /\ loop'.cc = 0
      /\ loop'.got = IF loop.left THEN loop.got ELSE Append(loop.got, 0)
  BY <1>1, <1>2, ToldFields
<1>4. ForwardShape'
  BY <1>1, <1>3 DEF ForwardShape, Outs
<1>5. Hand /\ ~Hand'
  BY <1>3 DEF Hand
<1>6. Requested' = Requested /\ Requested \in Nat /\ Len(outs) \in Nat
  BY <1>1, <1>3, ForwardFacts DEF Requested
<1>7. LoopAt'
  BY <1>1, <1>3, <1>6 DEF LoopAt
<1>8. PoolAt'
  BY <1>1 DEF PoolAt, Outs
<1>9. Shrunk
  <2>1. \A k \in Outs' : \/ outs'[k].pc # "copy" \/ outs'[k].pend = <<>>
                         \/ /\ k \in Outs /\ outs[k].pc = "copy" /\ outs'[k].at = outs[k].at
                            /\ outs'[k].pend = outs[k].pend
    BY DEF Outs
  <2>2. broken' >= broken
    BY <1>1, ForwardFacts
  <2> QED BY <1>3, <1>5, <2>1, <2>2 DEF Shrunk
<1>10. GotBy' /\ PendBy' /\ WaitAt' /\ OpenReqs' \subseteq OpenReqs
  BY <1>1, <1>4, <1>9, ShrunkKeeps
<1>11. CountAt'
  <2> DEFINE r == Requested
  <2>1. r >= 1 /\ r \in OpenReqs
    BY <1>1, <1>5, <1>6, HandAsked DEF OpenReqs
  <2>2. r \notin OpenReqs'
    <3>1. \A k \in Outs' : r \notin Pending(k)'
      BY <1>1, <1>5, <1>9, ShrunkPending DEF PendBy
    <3> QED BY <1>5, <3>1 DEF OpenReqs
  <2>3. /\ IsFiniteSet(OpenReqs) /\ Cardinality(OpenReqs) \in Nat
        /\ IsFiniteSet(ErrOuts) /\ Cardinality(ErrOuts) \in Nat
    BY <1>1, CountFinite
  <2>4. /\ IsFiniteSet(OpenReqs \ {r})
        /\ Cardinality(OpenReqs \ {r}) = Cardinality(OpenReqs) - 1
    BY <2>1, <2>3, FS_RemoveElement
  <2>5. OpenReqs' \subseteq OpenReqs \ {r}
    BY <1>10, <2>2
  <2>6. Cardinality(OpenReqs') \in Nat /\ Cardinality(OpenReqs') <= Cardinality(OpenReqs) - 1
    BY <2>4, <2>5, FS_Subset, FS_CardinalityType
  <2>7. ErrOuts' = ErrOuts
    BY DEF ErrOuts, Outs
  <2>8. Len(loop.got) \in Nat /\ broken \in Nat /\ loop.got \in Seq(Nat)
    BY <1>1, ForwardFacts
  <2>9. Len(loop'.got) \in {Len(loop.got), Len(loop.got) + 1}
    <3>1. loop'.got \in {loop.got, Append(loop.got, 0)}
      BY <1>3
    <3> QED BY <2>8, <3>1, MoreGot
  <2>10. Len(loop.got) + Cardinality(OpenReqs) + Cardinality(ErrOuts) <= Requested + broken
    BY <1>1 DEF CountAt
  <2>11. Len(loop'.got) + Cardinality(OpenReqs') + Cardinality(ErrOuts) <= Requested + broken
    BY <1>6, <2>3, <2>6, <2>8, <2>9, <2>10
  <2> QED BY <1>6, <2>7, <2>11 DEF CountAt
<1> QED BY <1>4, <1>7, <1>8, <1>10, <1>11 DEF ForwardInv

(* A step of the loop alone, without an answer; it may close the near ends. *)
LEMMA LoopMoves ==
  ASSUME ForwardAssumption, ForwardInv, ForwardShape', LoopAt', PoolAt', Shrunk,
         loop'.got = loop.got, broken' = broken, ErrOuts' \subseteq ErrOuts
  PROVE  ForwardInv'
<1>1. /\ ForwardShape /\ LoopAt /\ PoolAt /\ GotBy /\ PendBy /\ CountAt /\ WaitAt
  BY DEF ForwardInv
<1>2. /\ GotBy' /\ PendBy' /\ WaitAt' /\ OpenReqs' \subseteq OpenReqs
      /\ Requested' = Requested
  BY <1>1, ShrunkKeeps
<1>3. CountAt'
  BY <1>1, <1>2, CountShrinks
<1> QED BY <1>1, <1>2, <1>3 DEF ForwardInv

(* Where the outs stay as they are. *)
LEMMA LoopSteps ==
  ASSUME ForwardAssumption, ForwardInv, loop' \in LoopRecs, LoopAt',
         UNCHANGED <<forward, outs, pool, broken>>,
         loop'.asked = loop.asked, loop'.got = loop.got, Hand' => Hand
  PROVE  ForwardInv'
<1>1. ForwardShape /\ PoolAt /\ broken \in Nat
  BY DEF ForwardInv, ForwardShape
<1>2. ForwardShape' /\ PoolAt'
  BY <1>1 DEF ForwardShape, PoolAt, Outs
<1>3. Shrunk
  <2>1. \A k \in Outs' : \/ outs'[k].pc # "copy" \/ outs'[k].pend = <<>>
                         \/ /\ k \in Outs /\ outs[k].pc = "copy" /\ outs'[k].at = outs[k].at
                            /\ outs'[k].pend = outs[k].pend
    BY DEF Outs
  <2>2. broken' >= broken
    BY <1>1
  <2> QED BY <2>1, <2>2 DEF Shrunk
<1>4. ErrOuts' = ErrOuts
  BY DEF ErrOuts, Outs
<1> QED BY <1>2, <1>3, <1>4, LoopMoves

LEMMA PassKeeps ==
  ASSUME ForwardAssumption, ForwardInv, NotAllowed \/ DialFails \/ WriteRequestFails
  PROVE  ForwardInv'
BY TellKeeps DEF NotAllowed, DialFails, WriteRequestFails

(* All of the request is sent. *)
LEMMA WriteDoneKeeps ==
  ASSUME ForwardAssumption, ForwardInv, WriteDone
  PROVE  ForwardInv'
<1>1. ForwardShape /\ LoopAt /\ loop \in LoopRecs /\ loop.pc = "body"
  BY LoopFields DEF ForwardInv, WriteDone
<1>2. Len(outs) \in Nat /\ Requested \in Nat
  BY <1>1, ForwardFacts
<1>3. UNCHANGED <<forward, outs, pool, broken>>
  BY DEF WriteDone
<1>4. /\ loop' \in LoopRecs /\ loop'.asked = loop.asked /\ loop'.got = loop.got
      /\ loop'.pc = "read" \/ (loop'.pc = "ws" /\ loop'.cc = loop.cc)
  <2>1. CASE loop' = [loop EXCEPT !.pc = "read", !.cc = 0]
    BY <1>1, <2>1 DEF LoopRecs
  <2>2. CASE loop' = [loop EXCEPT !.pc = "ws"]
    BY <1>1, <2>2 DEF LoopRecs
  <2> QED BY <2>1, <2>2 DEF WriteDone
<1>5. Requested' = Requested
  BY <1>4 DEF Requested
<1>6. LoopAt'
  BY <1>1, <1>2, <1>3, <1>4, <1>5 DEF LoopAt, Outs
<1>7. Hand' => Hand
  BY <1>4 DEF Hand
<1> QED BY <1>3, <1>4, <1>6, <1>7, LoopSteps

(* The handler's own answer to a request that broke off, which the node may answer too. *)
LEMMA BreaksOffKeeps ==
  ASSUME ForwardAssumption, ForwardInv, WriteBreaksOff
  PROVE  ForwardInv'
<1>1. /\ ForwardShape /\ LoopAt /\ PoolAt /\ GotBy /\ PendBy /\ CountAt /\ WaitAt
  BY DEF ForwardInv
<1>0. /\ loop.pc = "body" /\ TellAndGoOn /\ UNCHANGED <<forward, outs, pool>>
      /\ broken' = broken + 1 /\ broken \in Nat
  BY <1>1 DEF WriteBreaksOff, ForwardShape
<1>2. PICK pc \in {"read", "range"} : loop' = Told([loop EXCEPT !.pc = pc, !.cc = 0])
  BY <1>0 DEF TellAndGoOn
<1>3. /\ loop' \in LoopRecs /\ loop'.pc = pc /\ loop'.asked = loop.asked /\ loop'.cc = 0
      /\ loop'.got = IF loop.left THEN loop.got ELSE Append(loop.got, 0)
  BY <1>1, <1>2, ToldFields
<1>4. ForwardShape'
  BY <1>0, <1>1, <1>3 DEF ForwardShape, Outs
<1>5. ~Hand'
  BY <1>3 DEF Hand
<1>6. Requested' = Requested /\ Requested \in Nat /\ Len(outs) \in Nat
  BY <1>1, <1>3, ForwardFacts DEF Requested
<1>7. LoopAt'
  BY <1>0, <1>1, <1>3, <1>6 DEF LoopAt
<1>8. PoolAt'
  BY <1>0, <1>1 DEF PoolAt, Outs
<1>9. Shrunk
  <2>1. \A k \in Outs' : \/ outs'[k].pc # "copy" \/ outs'[k].pend = <<>>
                         \/ /\ k \in Outs /\ outs[k].pc = "copy" /\ outs'[k].at = outs[k].at
                            /\ outs'[k].pend = outs[k].pend
    BY <1>0 DEF Outs
  <2>2. broken' >= broken
    BY <1>0
  <2> QED BY <1>0, <1>3, <1>5, <2>1, <2>2 DEF Shrunk
<1>10. GotBy' /\ PendBy' /\ WaitAt' /\ OpenReqs' \subseteq OpenReqs
  BY <1>1, <1>4, <1>9, ShrunkKeeps
<1>11. CountAt'
  <2>3. /\ IsFiniteSet(OpenReqs) /\ Cardinality(OpenReqs) \in Nat
        /\ IsFiniteSet(ErrOuts) /\ Cardinality(ErrOuts) \in Nat
    BY <1>1, CountFinite
  <2>6. Cardinality(OpenReqs') \in Nat /\ Cardinality(OpenReqs') <= Cardinality(OpenReqs)
    BY <1>10, <2>3, FS_Subset, FS_CardinalityType
  <2>7. ErrOuts' = ErrOuts
    BY <1>0 DEF ErrOuts, Outs
  <2>8. Len(loop.got) \in Nat /\ loop.got \in Seq(Nat)
    BY <1>1, ForwardFacts
  <2>9. Len(loop'.got) \in {Len(loop.got), Len(loop.got) + 1}
    <3>1. loop'.got \in {loop.got, Append(loop.got, 0)}
      BY <1>3
    <3> QED BY <2>8, <3>1, MoreGot
  <2>10. Len(loop.got) + Cardinality(OpenReqs) + Cardinality(ErrOuts) <= Requested + broken
    BY <1>1 DEF CountAt
  <2>11. Len(loop'.got) + Cardinality(OpenReqs') + Cardinality(ErrOuts) <= Requested + (broken + 1)
    BY <1>0, <1>6, <2>3, <2>6, <2>8, <2>9, <2>10
  <2> QED BY <1>0, <1>6, <2>7, <2>11 DEF CountAt
<1> QED BY <1>4, <1>7, <1>8, <1>10, <1>11 DEF ForwardInv

LEMMA FromPoolKeeps ==
  ASSUME ForwardAssumption, ForwardInv, FromPool
  PROVE  ForwardInv'
<1>1. ForwardShape /\ LoopAt /\ PoolAt /\ loop.pc = "check"
  BY DEF ForwardInv, FromPool
<1>2. /\ loop \in LoopRecs /\ Len(outs) \in Nat /\ Requested \in Nat /\ Outs = 1..Len(outs)
      /\ pool \subseteq Outs
  BY <1>1, ForwardFacts, LoopFields DEF ForwardShape
<1>3. UNCHANGED <<forward, outs, pool, broken>>
  BY DEF FromPool
<1>4. Len(outs) + 1 <= Requested /\ Requested <= forward.reqs
  BY <1>1 DEF LoopAt
<1> DEFINE found == {k \in pool : forward.hop /\ outs[k].at = Asked}
<1>5. CASE found = {}
  <2>1. loop' = [loop EXCEPT !.pc = "dial"]
    BY <1>5 DEF FromPool
  <2>2. /\ loop' \in LoopRecs /\ loop'.pc = "dial" /\ loop'.asked = loop.asked
        /\ loop'.got = loop.got
    BY <1>2, <2>1 DEF LoopRecs
  <2>3. Requested' = Requested /\ Asked' = Asked
    BY <2>2 DEF Requested, Asked
  <2>4. LoopAt'
    BY <1>3, <1>4, <1>5, <2>2, <2>3 DEF LoopAt
  <2>5. Hand' => Hand
    BY <1>1 DEF Hand
  <2> QED BY <1>3, <2>2, <2>4, <2>5, LoopSteps
<1>6. CASE found # {}
  <2>1. PICK k \in found : loop' = [loop EXCEPT !.pc = "write", !.cc = k]
    BY <1>6 DEF FromPool
  <2>2. k \in Outs /\ k \in Nat /\ outs[k].at = Asked
    BY <1>2
  <2>3. /\ loop' \in LoopRecs /\ loop'.pc = "write" /\ loop'.asked = loop.asked
        /\ loop'.got = loop.got /\ loop'.cc = k
    BY <1>2, <2>1, <2>2 DEF LoopRecs
  <2>4. Requested' = Requested /\ Asked' = Asked
    BY <2>3 DEF Requested, Asked
  <2>5. LoopAt'
    BY <1>2, <1>3, <1>4, <2>2, <2>3, <2>4 DEF LoopAt, Outs
  <2>6. Hand' => Hand
    BY <1>1 DEF Hand
  <2> QED BY <1>3, <2>3, <2>5, <2>6, LoopSteps
<1> QED BY <1>5, <1>6

(* The steps by which the loop ends. *)
LEMMA EndKeeps ==
  ASSUME ForwardAssumption, ForwardInv, ForwardEnds \/ CloseVisitor \/ VisitorLeaves
  PROVE  ForwardInv'
<1>1. ForwardShape /\ LoopAt /\ loop \in LoopRecs
  BY LoopFields DEF ForwardInv
<1>2. Len(outs) \in Nat /\ Requested \in Nat
  BY <1>1, ForwardFacts
<1>3. UNCHANGED <<forward, outs, pool, broken>>
  BY DEF ForwardEnds, CloseVisitor, VisitorLeaves
<1>4. /\ loop' \in LoopRecs /\ loop'.asked = loop.asked /\ loop'.got = loop.got
      /\ loop'.pc \in {"range", "done"} \/ (loop'.pc = loop.pc /\ loop'.cc = loop.cc)
  <2>1. CASE ForwardEnds
    <3>1. loop' = [loop EXCEPT !.pc = "range", !.cc = 0]
      BY <2>1 DEF ForwardEnds
    <3> QED BY <1>1, <3>1 DEF LoopRecs
  <2>2. CASE CloseVisitor
    <3>1. loop' = [loop EXCEPT !.pc = "done", !.left = TRUE]
      BY <2>2 DEF CloseVisitor
    <3> QED BY <1>1, <3>1 DEF LoopRecs
  <2>3. CASE VisitorLeaves
    <3>1. loop' = [loop EXCEPT !.left = TRUE]
      BY <2>3 DEF VisitorLeaves
    <3> QED BY <1>1, <3>1 DEF LoopRecs
  <2> QED BY <2>1, <2>2, <2>3
<1>5. Requested' = Requested /\ Asked' = Asked
  BY <1>4 DEF Requested, Asked
<1>6. LoopAt'
  BY <1>1, <1>2, <1>3, <1>4, <1>5 DEF LoopAt, Outs
<1>7. Hand' => Hand
  BY <1>4 DEF Hand
<1> QED BY <1>3, <1>4, <1>6, <1>7, LoopSteps

(* One connection changes. *)
LEMMA OutSet ==
  ASSUME ForwardAssumption, ForwardShape, NEW k \in Outs, NEW o \in OutRecs,
         outs' = [outs EXCEPT ![k] = o]
  PROVE  /\ outs' \in Seq(OutRecs) /\ Len(outs') = Len(outs) /\ Outs' = Outs /\ outs'[k] = o
         /\ \A j \in Outs : j # k => outs'[j] = outs[j]
<1>1. Len(outs) \in Nat /\ Outs = 1..Len(outs) /\ outs \in Seq(OutRecs)
  BY ForwardFacts DEF ForwardShape
<1>2. outs' \in Seq(OutRecs) /\ Len(outs') = Len(outs)
  BY <1>1
<1>3. Outs' = Outs
  BY <1>1, <1>2 DEF Outs
<1> QED BY <1>1, <1>2, <1>3

LEMMA OutMoves ==
  ASSUME ForwardAssumption, ForwardInv, NEW k \in Outs, NEW o \in OutRecs,
         outs' = [outs EXCEPT ![k] = o], o.at = outs[k].at,
         loop' \in LoopRecs, loop'.pc = loop.pc, loop'.cc = loop.cc, loop'.asked = loop.asked,
         forward' = forward, pool' \subseteq pool, broken' \in Nat
  PROVE  /\ ForwardShape' /\ LoopAt' /\ Outs' = Outs /\ (Hand' <=> Hand) /\ outs'[k] = o
         /\ Requested' = Requested
         /\ \A j \in Outs : outs'[j].at = outs[j].at /\ (j # k => outs'[j] = outs[j])
<1>1. ForwardShape /\ LoopAt
  BY DEF ForwardInv
<1>2. /\ outs' \in Seq(OutRecs) /\ Len(outs') = Len(outs) /\ Outs' = Outs /\ outs'[k] = o
      /\ \A j \in Outs : j # k => outs'[j] = outs[j]
  BY <1>1, OutSet
<1>3. \A j \in Outs : outs'[j].at = outs[j].at
  BY <1>2
<1>4. ForwardShape'
  BY <1>1, <1>2 DEF ForwardShape
<1>5. Requested' = Requested /\ Asked' = Asked /\ (Hand' <=> Hand)
  BY DEF Requested, Asked, Hand
<1>6. LoopAt'
  <2>1. loop'.pc \in {"write", "body", "ws"} => loop'.cc \in Outs'
    BY <1>1, <1>2 DEF LoopAt
  <2>2. loop'.pc = "write" => outs'[loop'.cc].at = Asked'
    BY <1>1, <1>3, <1>5 DEF LoopAt
  <2>3. loop'.pc = "dial" /\ forward'.hop => \A j \in pool' : outs'[j].at # Asked'
    BY <1>1, <1>3, <1>5 DEF LoopAt, ForwardShape
  <2> QED BY <1>1, <1>2, <1>5, <2>1, <2>2, <2>3 DEF LoopAt
<1> QED BY <1>2, <1>3, <1>4, <1>5, <1>6

(* It stays where it is in the pool. *)
LEMMA OutStays ==
  ASSUME ForwardAssumption, ForwardInv, ForwardShape', NEW k \in Outs,
         forward' = forward, pool' = pool, Outs' = Outs,
         \A j \in Outs : outs'[j].at = outs[j].at /\ (j # k => outs'[j] = outs[j]),
         outs'[k].pc \in {"copy", "err", "remove"} => outs[k].pc \in {"copy", "err", "remove"}
  PROVE  PoolAt'
<1>1. PoolAt /\ pool \subseteq Outs
  BY DEF ForwardInv, ForwardShape
<1>2. \A j \in Outs' : outs'[j].pc \in {"copy", "err", "remove"} => j \in pool'
  BY <1>1 DEF PoolAt
<1>3. forward'.hop => \A i, j \in pool' : outs'[i].at = outs'[j].at => i = j
  BY <1>1 DEF PoolAt
<1> QED BY <1>2, <1>3 DEF PoolAt

(* It copies no more, or what waits at it is lost. *)
LEMMA OutDrops ==
  ASSUME ForwardAssumption, ForwardInv, NEW k \in Outs, NEW o \in OutRecs,
         outs' = [outs EXCEPT ![k] = o], o.at = outs[k].at,
         \/ o.pc # "copy" \/ o.pend = <<>>
         \/ outs[k].pc = "copy" /\ o.pend = outs[k].pend,
         loop' \in LoopRecs, loop'.pc = loop.pc, loop'.cc = loop.cc, loop'.asked = loop.asked,
         loop'.got \in {loop.got, Append(loop.got, 0)},
         forward' = forward, pool' \subseteq pool, broken' \in Nat, broken' >= broken, PoolAt', CountAt'
  PROVE  ForwardInv'
<1>1. /\ ForwardShape' /\ LoopAt' /\ Outs' = Outs /\ (Hand' <=> Hand) /\ outs'[k] = o
      /\ Requested' = Requested
      /\ \A j \in Outs : outs'[j].at = outs[j].at /\ (j # k => outs'[j] = outs[j])
  BY OutMoves
<1>2. Shrunk
  <2>1. ASSUME NEW j \in Outs'
        PROVE  \/ outs'[j].pc # "copy" \/ outs'[j].pend = <<>>
               \/ /\ j \in Outs /\ outs[j].pc = "copy" /\ outs'[j].at = outs[j].at
                  /\ outs'[j].pend = outs[j].pend
    <3>1. CASE j = k
      BY <1>1, <3>1
    <3>2. CASE j # k
      BY <1>1, <2>1, <3>2
    <3> QED BY <3>1, <3>2
  <2> QED BY <1>1, <2>1 DEF Shrunk
<1>3. /\ ForwardShape /\ LoopAt /\ PoolAt /\ GotBy /\ PendBy /\ CountAt /\ WaitAt
  BY DEF ForwardInv
<1>4. GotBy' /\ PendBy' /\ WaitAt'
  BY <1>1, <1>2, <1>3, ShrunkKeeps
<1> QED BY <1>1, <1>4 DEF ForwardInv

(* And the loop takes no part in it. *)
LEMMA OutAlone ==
  ASSUME ForwardAssumption, ForwardInv, NEW k \in Outs, NEW o \in OutRecs,
         outs' = [outs EXCEPT ![k] = o], o.at = outs[k].at,
         \/ o.pc # "copy" \/ o.pend = <<>>
         \/ outs[k].pc = "copy" /\ o.pend = outs[k].pend,
         o.pc = "err" => outs[k].pc = "err",
         UNCHANGED <<forward, loop, broken>>, pool' \subseteq pool, PoolAt'
  PROVE  ForwardInv'
<1>1. /\ ForwardShape /\ LoopAt /\ PoolAt /\ GotBy /\ PendBy /\ CountAt /\ WaitAt
  BY DEF ForwardInv
<1>2. loop' \in LoopRecs /\ broken' \in Nat /\ broken' >= broken
  BY <1>1 DEF ForwardShape
<1>3. /\ ForwardShape' /\ LoopAt' /\ Outs' = Outs /\ (Hand' <=> Hand) /\ outs'[k] = o
      /\ Requested' = Requested
      /\ \A j \in Outs : outs'[j].at = outs[j].at /\ (j # k => outs'[j] = outs[j])
  BY <1>2, OutMoves
<1>4. Shrunk
  <2>1. ASSUME NEW j \in Outs'
        PROVE  \/ outs'[j].pc # "copy" \/ outs'[j].pend = <<>>
               \/ /\ j \in Outs /\ outs[j].pc = "copy" /\ outs'[j].at = outs[j].at
                  /\ outs'[j].pend = outs[j].pend
    <3>1. CASE j = k
      BY <1>3, <3>1
    <3>2. CASE j # k
      BY <1>3, <2>1, <3>2
    <3> QED BY <3>1, <3>2
  <2> QED BY <1>2, <1>3, <2>1 DEF Shrunk
<1>5. ErrOuts' \subseteq ErrOuts
  BY <1>3 DEF ErrOuts
<1> QED BY <1>3, <1>4, <1>5, LoopMoves

LEMMA OutEnds ==
  ASSUME ForwardAssumption, ForwardInv, NEW k \in Outs, NodeEnds(k) \/ CopyDone(k) \/ CloseNode(k)
  PROVE  ForwardInv'
<1>1. ForwardShape /\ PoolAt /\ outs[k] \in OutRecs /\ UNCHANGED <<forward, loop, pool, broken>>
  BY ForwardFacts DEF ForwardInv, NodeEnds, CopyDone, CloseNode
<1>2. PICK o \in OutRecs :
        /\ outs' = [outs EXCEPT ![k] = o] /\ o.at = outs[k].at
        /\ \/ o.pc # "copy" \/ o.pend = <<>>
           \/ outs[k].pc = "copy" /\ o.pend = outs[k].pend
        /\ (o.pc = "err" => outs[k].pc = "err")
        /\ (o.pc \in {"copy", "err", "remove"} => outs[k].pc \in {"copy", "err", "remove"})
  <2> DEFINE e == <<>>
  <2>0. e \in Seq(Nat)
    OBVIOUS
  <2>1. CASE NodeEnds(k)
    <3>1. PICK far \in {"closed", "failed"} : outs' = [outs EXCEPT ![k].far = far, ![k].pend = e]
      BY <2>1 DEF NodeEnds
    <3> HIDE DEF e
    <3> DEFINE o == [outs[k] EXCEPT !.far = far, !.pend = e]
    <3>2. outs' = [outs EXCEPT ![k] = o]
      BY <1>1, <3>1 DEF ForwardShape
    <3>3. o \in OutRecs /\ o.at = outs[k].at /\ o.pend = e /\ o.pc = outs[k].pc
      BY <1>1, <2>0 DEF OutRecs
    <3> HIDE DEF o
    <3> QED BY <3>2, <3>3 DEF e
  <2>2. CASE CopyDone(k)
    <3>1. outs' = [outs EXCEPT ![k].pc = "remove"] /\ outs[k].pc = "copy"
      BY <2>2 DEF CopyDone
    <3> DEFINE o == [outs[k] EXCEPT !.pc = "remove"]
    <3>2. outs' = [outs EXCEPT ![k] = o]
      BY <1>1, <3>1 DEF ForwardShape
    <3>3. o \in OutRecs /\ o.at = outs[k].at /\ o.pc = "remove"
      BY <1>1 DEF OutRecs
    <3> HIDE DEF o
    <3> QED BY <3>1, <3>2, <3>3
  <2>3. CASE CloseNode(k)
    <3> DEFINE q == NewOut(outs[k].at)
               o == [q EXCEPT !.near = FALSE, !.pc = "done"]
    <3>1. outs' = [outs EXCEPT ![k] = o]
      BY <2>3 DEF CloseNode
    <3>2. q = [at |-> outs[k].at, far |-> "open", near |-> TRUE, pc |-> "copy", pend |-> e]
      BY DEF NewOut
    <3> HIDE DEF e, q
    <3>3. q \in OutRecs /\ q.at = outs[k].at
      BY <1>1, <2>0, <3>2 DEF OutRecs
    <3>4. o \in OutRecs /\ o.at = outs[k].at /\ o.pc = "done"
      BY <3>3 DEF OutRecs
    <3> HIDE DEF o
    <3> QED BY <3>1, <3>4
  <2> QED BY <2>1, <2>2, <2>3
<1>3. PoolAt'
  <2>1. loop' \in LoopRecs /\ broken' \in Nat
    BY <1>1 DEF ForwardShape
  <2>2. /\ ForwardShape' /\ Outs' = Outs /\ outs'[k] = o
        /\ \A j \in Outs : outs'[j].at = outs[j].at /\ (j # k => outs'[j] = outs[j])
    BY <1>1, <1>2, <2>1, OutMoves
  <2> QED BY <1>1, <1>2, <2>2, OutStays
<1> QED BY <1>1, <1>2, <1>3, OutAlone

LEMMA RemoveKeeps ==
  ASSUME ForwardAssumption, ForwardInv, NEW k \in Outs, RemoveKey(k)
  PROVE  ForwardInv'
<1>1. ForwardShape /\ PoolAt /\ outs[k] \in OutRecs /\ UNCHANGED <<forward, loop, broken>>
  BY ForwardFacts DEF ForwardInv, RemoveKey
<1> DEFINE o == [outs[k] EXCEPT !.pc = "close"]
<1>2. /\ outs' = [outs EXCEPT ![k] = o] /\ o \in OutRecs /\ o.at = outs[k].at /\ o.pc = "close"
  BY <1>1 DEF RemoveKey, ForwardShape, OutRecs
<1> HIDE DEF o
<1>3. outs[k].pc = "remove" /\ pool' = {j \in pool : ~SameKey(j, k)} /\ pool' \subseteq pool
  BY DEF RemoveKey
<1>4. loop' \in LoopRecs /\ broken' \in Nat
  BY <1>1 DEF ForwardShape
<1>5. /\ Outs' = Outs /\ outs'[k] = o
      /\ \A j \in Outs : outs'[j].at = outs[j].at /\ (j # k => outs'[j] = outs[j])
  BY <1>1, <1>2, <1>3, <1>4, OutMoves
<1>6. PoolAt'
  <2>1. k \in pool /\ pool \subseteq Outs
    BY <1>1, <1>3 DEF PoolAt, ForwardShape
  <2>2. ASSUME NEW j \in Outs', outs'[j].pc \in {"copy", "err", "remove"}
        PROVE  j \in pool'
    <3>1. j # k
      BY <1>2, <1>5, <2>2
    <3>2. j \in pool
      BY <1>1, <1>5, <2>2, <3>1 DEF PoolAt
    <3>3. ~SameKey(j, k)
      BY <1>1, <2>1, <3>1, <3>2 DEF PoolAt, SameKey
    <3> QED BY <1>3, <3>2, <3>3
  <2>3. forward'.hop => \A i, j \in pool' : outs'[i].at = outs'[j].at => i = j
    BY <1>1, <1>3, <1>5, <2>1 DEF PoolAt
  <2> QED BY <2>2, <2>3 DEF PoolAt
<1> QED BY <1>1, <1>2, <1>3, <1>6, OutAlone

LEMMA BreakKeeps ==
  ASSUME ForwardAssumption, ForwardInv, NEW k \in Outs, CopyBreaks(k)
  PROVE  ForwardInv'
<1>1. /\ ForwardShape /\ LoopAt /\ PoolAt /\ GotBy /\ PendBy /\ CountAt /\ WaitAt
  BY DEF ForwardInv
<1>2. /\ outs[k] \in OutRecs /\ UNCHANGED <<forward, loop, pool>> /\ outs[k].pc = "copy"
      /\ broken' = broken + 1 /\ broken \in Nat
  BY <1>1, ForwardFacts DEF CopyBreaks
<1> DEFINE o == [outs[k] EXCEPT !.pc = "err"]
<1>3. outs' = [outs EXCEPT ![k] = o] /\ o \in OutRecs /\ o.at = outs[k].at /\ o.pc = "err"
  BY <1>1, <1>2 DEF CopyBreaks, ForwardShape, OutRecs
<1> HIDE DEF o
<1>4. loop' \in LoopRecs /\ broken' \in Nat /\ broken' >= broken
  BY <1>1, <1>2 DEF ForwardShape
<1>5. /\ ForwardShape' /\ LoopAt' /\ Outs' = Outs /\ (Hand' <=> Hand) /\ outs'[k] = o
      /\ Requested' = Requested
      /\ \A j \in Outs : outs'[j].at = outs[j].at /\ (j # k => outs'[j] = outs[j])
  BY <1>2, <1>3, <1>4, OutMoves
<1>6. PoolAt'
  BY <1>2, <1>5, OutStays
<1>7. Shrunk
  <2>1. ASSUME NEW j \in Outs'
        PROVE  \/ outs'[j].pc # "copy" \/ outs'[j].pend = <<>>
               \/ /\ j \in Outs /\ outs[j].pc = "copy" /\ outs'[j].at = outs[j].at
                  /\ outs'[j].pend = outs[j].pend
    <3>1. CASE j = k
      BY <1>3, <1>5, <3>1
    <3>2. CASE j # k
      BY <1>5, <2>1, <3>2
    <3> QED BY <3>1, <3>2
  <2> QED BY <1>2, <1>4, <1>5, <2>1 DEF Shrunk
<1>8. /\ GotBy' /\ PendBy' /\ WaitAt' /\ OpenReqs' \subseteq OpenReqs
  BY <1>1, <1>5, <1>7, ShrunkKeeps
<1>9. CountAt'
  <2>1. /\ IsFiniteSet(OpenReqs) /\ Cardinality(OpenReqs) \in Nat
        /\ IsFiniteSet(ErrOuts) /\ Cardinality(ErrOuts) \in Nat
    BY <1>1, CountFinite
  <2>2. Cardinality(OpenReqs') \in Nat /\ Cardinality(OpenReqs') <= Cardinality(OpenReqs)
    BY <1>8, <2>1, FS_Subset, FS_CardinalityType
  <2>3. k \notin ErrOuts /\ ErrOuts' = ErrOuts \cup {k}
    BY <1>2, <1>3, <1>5 DEF ErrOuts
  <2>4. Cardinality(ErrOuts') = Cardinality(ErrOuts) + 1
    BY <2>1, <2>3, FS_AddElement
  <2>5. Len(loop.got) \in Nat /\ Requested \in Nat /\ Len(loop'.got) = Len(loop.got)
    BY <1>1, <1>2, ForwardFacts
  <2>6. Len(loop.got) + Cardinality(OpenReqs) + Cardinality(ErrOuts) <= Requested + broken
    BY <1>1 DEF CountAt
  <2>7. Len(loop.got) + Cardinality(OpenReqs') + (Cardinality(ErrOuts) + 1) <= Requested + (broken + 1)
    BY <1>2, <2>1, <2>2, <2>5, <2>6
  <2> QED BY <1>2, <1>5, <2>4, <2>5, <2>7 DEF CountAt
<1> QED BY <1>5, <1>6, <1>8, <1>9 DEF ForwardInv

LEMMA ErrorKeeps ==
  ASSUME ForwardAssumption, ForwardInv, NEW k \in Outs, TellError(k)
  PROVE  ForwardInv'
<1>1. /\ ForwardShape /\ LoopAt /\ PoolAt /\ GotBy /\ PendBy /\ CountAt /\ WaitAt
  BY DEF ForwardInv
<1>2. /\ outs[k] \in OutRecs /\ UNCHANGED <<forward, pool, broken>> /\ outs[k].pc = "err"
      /\ broken \in Nat
  BY <1>1, ForwardFacts DEF TellError
<1> DEFINE o == [outs[k] EXCEPT !.pc = "remove"]
<1>3. outs' = [outs EXCEPT ![k] = o] /\ o \in OutRecs /\ o.at = outs[k].at /\ o.pc = "remove"
  BY <1>1, <1>2 DEF TellError, ForwardShape, OutRecs
<1> HIDE DEF o
<1>4. /\ loop' \in LoopRecs /\ loop'.pc = loop.pc /\ loop'.asked = loop.asked
      /\ loop'.cc = loop.cc /\ loop'.got \in {loop.got, Append(loop.got, 0)}
  <2>0. loop' = Told(loop)
    BY DEF TellError
  <2>1. CASE loop.left
    BY <1>1, <2>0, <2>1 DEF Told, ForwardShape
  <2>2. CASE ~loop.left
    <3> DEFINE e == Append(loop.got, 0)
    <3>1. e \in Seq(Nat)
      BY <1>1, LoopFields, AppendProperties
    <3>2. loop' = [loop EXCEPT !.got = e]
      BY <2>0, <2>2 DEF Told
    <3>3. loop \in LoopRecs
      BY <1>1, LoopFields
    <3>4. e = Append(loop.got, 0)
      OBVIOUS
    <3> HIDE DEF e
    <3>5. /\ loop' \in LoopRecs /\ loop'.pc = loop.pc /\ loop'.asked = loop.asked
          /\ loop'.cc = loop.cc /\ loop'.got = e
      BY <3>1, <3>2, <3>3 DEF LoopRecs
    <3> QED BY <3>4, <3>5
  <2> QED BY <2>1, <2>2
<1>5. broken' \in Nat /\ broken' >= broken
  BY <1>2
<1>6. /\ ForwardShape' /\ LoopAt' /\ Outs' = Outs /\ (Hand' <=> Hand) /\ outs'[k] = o
      /\ Requested' = Requested
      /\ \A j \in Outs : outs'[j].at = outs[j].at /\ (j # k => outs'[j] = outs[j])
  BY <1>2, <1>3, <1>4, <1>5, OutMoves
<1>7. PoolAt'
  BY <1>2, <1>6, OutStays
<1>8. Shrunk
  <2>1. ASSUME NEW j \in Outs'
        PROVE  \/ outs'[j].pc # "copy" \/ outs'[j].pend = <<>>
               \/ /\ j \in Outs /\ outs[j].pc = "copy" /\ outs'[j].at = outs[j].at
                  /\ outs'[j].pend = outs[j].pend
    <3>1. CASE j = k
      BY <1>3, <1>6, <3>1
    <3>2. CASE j # k
      BY <1>6, <2>1, <3>2
    <3> QED BY <3>1, <3>2
  <2> QED BY <1>2, <1>4, <1>5, <1>6, <2>1 DEF Shrunk
<1>9. /\ GotBy' /\ PendBy' /\ WaitAt' /\ OpenReqs' \subseteq OpenReqs
  BY <1>1, <1>6, <1>8, ShrunkKeeps
<1>10. CountAt'
  <2>1. /\ IsFiniteSet(OpenReqs) /\ Cardinality(OpenReqs) \in Nat
        /\ IsFiniteSet(ErrOuts) /\ Cardinality(ErrOuts) \in Nat
    BY <1>1, CountFinite
  <2>2. Cardinality(OpenReqs') \in Nat /\ Cardinality(OpenReqs') <= Cardinality(OpenReqs)
    BY <1>9, <2>1, FS_Subset, FS_CardinalityType
  <2>3. k \in ErrOuts /\ ErrOuts' = ErrOuts \ {k}
    BY <1>2, <1>3, <1>6 DEF ErrOuts
  <2>4. Cardinality(ErrOuts') = Cardinality(ErrOuts) - 1
    BY <2>1, <2>3, FS_RemoveElement
  <2>5. Len(loop.got) \in Nat /\ Requested \in Nat /\ loop.got \in Seq(Nat)
    BY <1>1, ForwardFacts
  <2>6. Len(loop'.got) \in {Len(loop.got), Len(loop.got) + 1}
    BY <1>4, <2>5, MoreGot
  <2>7. Len(loop.got) + Cardinality(OpenReqs) + Cardinality(ErrOuts) <= Requested + broken
    BY <1>1 DEF CountAt
  <2>8. Len(loop'.got) + Cardinality(OpenReqs') + (Cardinality(ErrOuts) - 1) <= Requested + broken
    BY <1>2, <2>1, <2>2, <2>5, <2>6, <2>7
  <2> QED BY <1>2, <1>6, <2>4, <2>8 DEF CountAt
<1> QED BY <1>6, <1>7, <1>9, <1>10 DEF ForwardInv

(* An answer of a node: what is first of what waits at it. *)
LEMMA HeadPending ==
  ASSUME ForwardAssumption, ForwardShape, NEW k \in Outs, outs[k].pc = "copy", outs[k].pend # <<>>
  PROVE  /\ Head(outs[k].pend) \in Pending(k)
         /\ Tail(outs[k].pend) \in Seq(Nat)
         /\ Len(Tail(outs[k].pend)) = Len(outs[k].pend) - 1
         /\ Len(outs[k].pend) \in Nat /\ Len(outs[k].pend) >= 1
         /\ \A i \in 1..Len(Tail(outs[k].pend)) :
              i + 1 \in 1..Len(outs[k].pend) /\ Tail(outs[k].pend)[i] = outs[k].pend[i + 1]
         /\ Head(outs[k].pend) = outs[k].pend[1]
<1> DEFINE p == outs[k].pend
           n == Len(p)
<1>1. p \in Seq(Nat) /\ p # <<>>
  BY ForwardFacts
<1> HIDE DEF p
<1>2. /\ Head(p) \in Nat /\ Tail(p) \in Seq(Nat) /\ n \in Nat /\ n >= 1
      /\ Len(Tail(p)) = n - 1 /\ Head(p) = p[1]
  BY <1>1, HeadTailProperties, EmptySeq
<1>3. \A i \in 1..(n - 1) : Tail(p)[i] = p[i + 1]
  BY <1>1, <1>2
<1>4. \A i \in 1..(n - 1) : i + 1 \in 1..n
  BY <1>2
<1>5. 1 \in 1..n
  BY <1>2
<1>6. Head(p) \in Pending(k)
  BY <1>2, <1>5 DEF Pending, p
<1> QED BY <1>2, <1>3, <1>4, <1>6 DEF p

LEMMA HeadCounts ==
  ASSUME ForwardAssumption, ForwardInv, NEW k \in Outs, NEW h \in Pending(k),
         ForwardShape', Requested' = Requested, h \notin OpenReqs', OpenReqs' \subseteq OpenReqs
  PROVE  /\ Cardinality(OpenReqs') \in Nat /\ Cardinality(OpenReqs) \in Nat
         /\ Cardinality(ErrOuts) \in Nat /\ IsFiniteSet(ErrOuts)
         /\ Cardinality(OpenReqs') <= Cardinality(OpenReqs) - 1
<1>1. /\ ForwardShape /\ PendBy
  BY DEF ForwardInv
<1>2. /\ IsFiniteSet(OpenReqs) /\ Cardinality(OpenReqs) \in Nat
      /\ IsFiniteSet(ErrOuts) /\ Cardinality(ErrOuts) \in Nat
  BY <1>1, CountFinite
<1>3. h \in OpenReqs
  BY <1>1 DEF OpenReqs, PendBy
<1>4. /\ IsFiniteSet(OpenReqs \ {h})
      /\ Cardinality(OpenReqs \ {h}) = Cardinality(OpenReqs) - 1
  BY <1>2, <1>3, FS_RemoveElement
<1>5. OpenReqs' \subseteq OpenReqs \ {h}
  OBVIOUS
<1>6. Cardinality(OpenReqs') \in Nat /\ Cardinality(OpenReqs') <= Cardinality(OpenReqs) - 1
  BY <1>4, <1>5, FS_Subset, FS_CardinalityType
<1> QED BY <1>2, <1>6

(* For a visitor that has left, the answer is lost and the copying fails. *)
LEMMA AnswerLost ==
  ASSUME ForwardAssumption, ForwardInv, NEW k \in Outs, CopyAnswer(k), loop.left
  PROVE  ForwardInv'
<1>1. /\ ForwardShape /\ LoopAt /\ PoolAt /\ GotBy /\ PendBy /\ CountAt /\ WaitAt
  BY DEF ForwardInv
<1> DEFINE p == outs[k].pend
           h == Head(p)
           e == Tail(p)
           o == [outs[k] EXCEPT !.pend = e, !.pc = "err"]
<1>2. /\ outs[k] \in OutRecs /\ UNCHANGED <<forward, loop, pool, broken>> /\ outs[k].pc = "copy"
      /\ broken \in Nat /\ p # <<>>
  BY <1>1, ForwardFacts DEF CopyAnswer
<1>3. h \in Pending(k) /\ e \in Seq(Nat)
  BY <1>1, <1>2, HeadPending
<1>4. outs' = [outs EXCEPT ![k] = o]
  BY <1>1, <1>2 DEF CopyAnswer, ForwardShape
<1> HIDE DEF e
<1>5. o \in OutRecs /\ o.at = outs[k].at /\ o.pc = "err"
  BY <1>2, <1>3 DEF OutRecs
<1> HIDE DEF o, h, p
<1>6. loop' \in LoopRecs /\ broken' \in Nat /\ broken' >= broken
  BY <1>1, <1>2 DEF ForwardShape
<1>7. /\ ForwardShape' /\ LoopAt' /\ Outs' = Outs /\ (Hand' <=> Hand) /\ outs'[k] = o
      /\ Requested' = Requested
      /\ \A j \in Outs : outs'[j].at = outs[j].at /\ (j # k => outs'[j] = outs[j])
  BY <1>2, <1>4, <1>5, <1>6, OutMoves
<1>8. PoolAt'
  BY <1>2, <1>7, OutStays
<1>9. Shrunk
  <2>1. ASSUME NEW j \in Outs'
        PROVE  \/ outs'[j].pc # "copy" \/ outs'[j].pend = <<>>
               \/ /\ j \in Outs /\ outs[j].pc = "copy" /\ outs'[j].at = outs[j].at
                  /\ outs'[j].pend = outs[j].pend
    <3>1. CASE j = k
      BY <1>5, <1>7, <3>1
    <3>2. CASE j # k
      BY <1>7, <2>1, <3>2
    <3> QED BY <3>1, <3>2
  <2> QED BY <1>2, <1>6, <1>7, <2>1 DEF Shrunk
<1>10. /\ GotBy' /\ PendBy' /\ WaitAt' /\ OpenReqs' \subseteq OpenReqs
  BY <1>1, <1>7, <1>9, ShrunkKeeps
<1>11. h \notin OpenReqs'
  <2>1. ~(Hand' /\ h = Requested')
    BY <1>1, <1>3, <1>7 DEF PendBy
  <2>2. ASSUME NEW j \in Outs', h \in Pending(j)'
        PROVE  FALSE
    <3>1. j \in Outs /\ h \in Pending(j) /\ outs'[j].pc = "copy"
      BY <1>9, <2>2, ShrunkPending DEF Pending
    <3>2. j = k
      BY <1>1, <1>3, <3>1 DEF PendBy
    <3> QED BY <1>5, <1>7, <3>1, <3>2
  <2> QED BY <2>1, <2>2 DEF OpenReqs
<1>12. CountAt'
  <2>1. /\ Cardinality(OpenReqs') \in Nat /\ Cardinality(OpenReqs) \in Nat
        /\ Cardinality(ErrOuts) \in Nat /\ IsFiniteSet(ErrOuts)
        /\ Cardinality(OpenReqs') <= Cardinality(OpenReqs) - 1
    BY <1>3, <1>7, <1>10, <1>11, HeadCounts
  <2>2. k \notin ErrOuts /\ ErrOuts' = ErrOuts \cup {k}
    BY <1>2, <1>5, <1>7 DEF ErrOuts
  <2>3. Cardinality(ErrOuts') = Cardinality(ErrOuts) + 1
    BY <2>1, <2>2, FS_AddElement
  <2>4. Len(loop.got) \in Nat /\ Requested \in Nat /\ Len(loop'.got) = Len(loop.got)
    BY <1>1, <1>2, ForwardFacts
  <2>5. Len(loop.got) + Cardinality(OpenReqs) + Cardinality(ErrOuts) <= Requested + broken
    BY <1>1 DEF CountAt
  <2>6. Len(loop.got) + Cardinality(OpenReqs') + (Cardinality(ErrOuts) + 1) <= Requested + broken
    BY <1>2, <2>1, <2>4, <2>5
  <2> QED BY <1>2, <1>7, <2>3, <2>4, <2>6 DEF CountAt
<1> QED BY <1>7, <1>8, <1>10, <1>12 DEF ForwardInv

(* Else it is the next that the visitor gets. *)
LEMMA ForwardAnswers ==
  ASSUME ForwardAssumption, ForwardInv, NEW k \in Outs, CopyAnswer(k), ~loop.left
  PROVE  ForwardInv'
<1>1. /\ ForwardShape /\ LoopAt /\ PoolAt /\ GotBy /\ PendBy /\ CountAt /\ WaitAt
  BY DEF ForwardInv
<1> DEFINE p == outs[k].pend
           h == Head(p)
           e == Tail(p)
           o == [outs[k] EXCEPT !.pend = e]
           g == loop.got
           n == Len(g)
           r == Requested
           asked == loop.asked
           got == Append(g, h)
<1>2. /\ outs[k] \in OutRecs /\ UNCHANGED <<forward, pool, broken>> /\ outs[k].pc = "copy"
      /\ broken \in Nat /\ p # <<>> /\ g \in Seq(Nat) /\ n \in Nat /\ r \in Nat
  BY <1>1, ForwardFacts DEF CopyAnswer
<1>3. /\ h \in Pending(k) /\ e \in Seq(Nat) /\ Len(p) \in Nat /\ Len(p) >= 1 /\ Len(e) = Len(p) - 1
      /\ \A i \in 1..Len(e) : i + 1 \in 1..Len(p) /\ e[i] = p[i + 1]
      /\ h = p[1]
  BY <1>1, <1>2, HeadPending
<1>4. /\ h \in 1..r /\ (Hand => h # r) /\ asked[h] = outs[k].at
      /\ \A i \in 1..n : g[i] # h
      /\ \A i \in 1..n : forward.hop /\ g[i] > 0 /\ asked[g[i]] = outs[k].at => g[i] < h
      /\ \A j \in Outs : h \in Pending(j) => j = k
  BY <1>1, <1>3 DEF PendBy
<1>5. outs' = [outs EXCEPT ![k] = o]
  <2>1. outs' = [outs EXCEPT ![k].pend = Tail(@), ![k].pc = @]
    BY DEF CopyAnswer
  <2>2. outs' = [outs EXCEPT ![k] = [outs[k] EXCEPT !.pend = e, !.pc = @]]
    BY <1>1, <2>1 DEF ForwardShape
  <2>3. [outs[k] EXCEPT !.pend = e, !.pc = @] = o
    <3> HIDE DEF e
    <3> QED BY <1>2, <1>3 DEF OutRecs
  <2> QED BY <2>2, <2>3
<1>6. loop' = [loop EXCEPT !.got = got]
  BY DEF CopyAnswer
<1> HIDE DEF e
<1>7. o \in OutRecs /\ o.at = outs[k].at /\ o.pc = "copy" /\ o.pend = e
  BY <1>2, <1>3 DEF OutRecs
<1> HIDE DEF o, p
<1>8. got \in Seq(Nat) /\ Len(got) = n + 1 /\ got[n + 1] = h /\ \A i \in 1..n : got[i] = g[i]
  BY <1>2, <1>4, AppendProperties
<1>9. loop \in LoopRecs
  BY <1>1 DEF ForwardShape
<1> HIDE DEF got
<1>10. /\ loop' \in LoopRecs /\ loop'.pc = loop.pc /\ loop'.asked = asked /\ loop'.cc = loop.cc
       /\ loop'.got = got
  BY <1>6, <1>8, <1>9 DEF LoopRecs
<1>11. broken' \in Nat /\ broken' = broken /\ forward' = forward
  BY <1>2
<1>12. /\ ForwardShape' /\ LoopAt' /\ Outs' = Outs /\ (Hand' <=> Hand) /\ outs'[k] = o
       /\ Requested' = r
       /\ \A j \in Outs : outs'[j].at = outs[j].at /\ (j # k => outs'[j] = outs[j])
  BY <1>2, <1>5, <1>7, <1>10, <1>11, OutMoves
<1>13. PoolAt'
  BY <1>2, <1>12, OutStays
<1>14. \A j \in Outs : \A q \in Pending(j)' : q \in Pending(j) /\ (j = k => q > h)
  <2> SUFFICES ASSUME NEW j \in Outs, NEW q \in Pending(j)'
               PROVE  q \in Pending(j) /\ (j = k => q > h)
    OBVIOUS
  <2>1. CASE j # k
    BY <1>12, <2>1 DEF Pending
  <2>2. CASE j = k
    <3>1. q \in {e[i] : i \in 1..Len(e)}
      BY <1>7, <1>12, <2>2 DEF Pending
    <3>2. PICK i \in 1..Len(e) : q = e[i]
      BY <3>1
    <3>3. i + 1 \in 1..Len(p) /\ q = p[i + 1] /\ 1 \in 1..Len(p) /\ 1 < i + 1
      BY <1>3, <3>2
    <3>4. \A i1, j1 \in 1..Len(p) : i1 < j1 => p[i1] < p[j1]
      BY <1>1, <1>2 DEF PendBy, p
    <3>5. q \in Pending(k)
      BY <1>2, <3>3 DEF Pending, p
    <3>6. p[1] < p[i + 1]
      BY <3>3, <3>4
    <3>7. q \in Nat /\ h \in Nat
      BY <1>1, <1>4, <3>5, ForwardFacts
    <3> QED BY <1>3, <2>2, <3>3, <3>5, <3>6, <3>7
  <2> QED BY <2>1, <2>2
<1>15. /\ \A i \in 1..n : g[i] \in 0..r /\ (Hand => g[i] # r)
       /\ \A i, j \in 1..n : i < j /\ g[i] > 0 /\ g[j] > 0 =>
            /\ g[i] # g[j]
            /\ forward.hop /\ asked[g[i]] = asked[g[j]] => g[i] < g[j]
  BY <1>1 DEF GotBy
<1>16. \A i \in 1..(n + 1) : (i \in 1..n /\ got[i] = g[i]) \/ (i = n + 1 /\ got[i] = h)
  <2> HIDE DEF n, g, h
  <2> QED BY <1>2, <1>8
<1>17. GotBy'
  <2> HIDE DEF n, g, h, r, asked
  <2>1. \A i \in 1..(n + 1) : got[i] \in 0..r /\ (Hand => got[i] # r)
    BY <1>2, <1>4, <1>15, <1>16
  <2>2. ASSUME NEW i \in 1..(n + 1), NEW j \in 1..(n + 1), i < j, got[i] > 0, got[j] > 0
        PROVE  /\ got[i] # got[j]
               /\ forward.hop /\ asked[got[i]] = asked[got[j]] => got[i] < got[j]
    <3>1. i \in 1..n /\ got[i] = g[i]
      BY <1>2, <1>16, <2>2
    <3>2. CASE j \in 1..n /\ got[j] = g[j]
      BY <1>15, <2>2, <3>1, <3>2
    <3>3. CASE j = n + 1 /\ got[j] = h
      <4>1. g[i] # h
        BY <1>4, <3>1
      <4>2. g[i] > 0
        BY <2>2, <3>1
      <4>3. forward.hop /\ asked[g[i]] = asked[h] => g[i] < h
        BY <1>4, <3>1, <4>2
      <4> QED BY <3>1, <3>3, <4>1, <4>3
    <3> QED BY <1>16, <3>2, <3>3
  <2> QED BY <1>8, <1>10, <1>11, <1>12, <2>1, <2>2 DEF GotBy
<1>18. PendBy'
  <2>1. \A j \in Outs : \A q \in Pending(j)' :
          /\ q \in 1..r /\ (Hand' => q # r) /\ asked[q] = outs'[j].at
          /\ \A i \in 1..(n + 1) : got[i] # q
          /\ \A i \in 1..(n + 1) : forward.hop /\ got[i] > 0 /\ asked[got[i]] = outs'[j].at => got[i] < q
          /\ \A j2 \in Outs : q \in Pending(j2)' => j2 = j
    <3> SUFFICES ASSUME NEW j \in Outs, NEW q \in Pending(j)'
                 PROVE  /\ q \in 1..r /\ (Hand' => q # r) /\ asked[q] = outs'[j].at
                        /\ \A i \in 1..(n + 1) : got[i] # q
                        /\ \A i \in 1..(n + 1) :
                             forward.hop /\ got[i] > 0 /\ asked[got[i]] = outs'[j].at => got[i] < q
                        /\ \A j2 \in Outs : q \in Pending(j2)' => j2 = j
      OBVIOUS
    <3>1. q \in Pending(j) /\ (j = k => q > h)
      BY <1>14
    <3>2. /\ q \in 1..r /\ (Hand => q # r) /\ asked[q] = outs[j].at
          /\ \A i \in 1..n : g[i] # q
          /\ \A i \in 1..n : forward.hop /\ g[i] > 0 /\ asked[g[i]] = outs[j].at => g[i] < q
          /\ \A j2 \in Outs : q \in Pending(j2) => j2 = j
      BY <1>1, <3>1 DEF PendBy
    <3>3. \A j2 \in Outs : q \in Pending(j2)' => j2 = j
      BY <1>14, <3>2
    <3>4. outs'[j].at = outs[j].at
      BY <1>12
    <3>5. q # h
      BY <1>4, <3>1
    <3>6. forward.hop /\ asked[h] = outs[j].at => h < q
      <4>1. ASSUME forward.hop, outs[k].at = outs[j].at
            PROVE  j = k
        <5>1. outs[j].pc = "copy"
          BY <3>1 DEF Pending
        <5>2. j \in pool /\ k \in pool
          BY <1>1, <1>2, <5>1 DEF PoolAt
        <5> QED BY <1>1, <4>1, <5>2 DEF PoolAt
      <4> QED BY <1>4, <3>1, <3>2, <4>1
    <3> HIDE DEF n, g, h, r, asked
    <3>7. ASSUME NEW i \in 1..(n + 1)
          PROVE  got[i] # q /\ (forward.hop /\ got[i] > 0 /\ asked[got[i]] = outs[j].at => got[i] < q)
      BY <1>16, <3>2, <3>5, <3>6, <3>7
    <3> QED BY <1>12, <3>2, <3>3, <3>4, <3>7
  <2>2. \A j \in Outs : outs'[j].pc = "copy" =>
          \A i1, i2 \in 1..Len(outs'[j].pend) : i1 < i2 => outs'[j].pend[i1] < outs'[j].pend[i2]
    <3> SUFFICES ASSUME NEW j \in Outs, outs'[j].pc = "copy",
                        NEW i1 \in 1..Len(outs'[j].pend), NEW i2 \in 1..Len(outs'[j].pend), i1 < i2
                 PROVE  outs'[j].pend[i1] < outs'[j].pend[i2]
      OBVIOUS
    <3>1. CASE j # k
      BY <1>1, <1>12, <3>1 DEF PendBy
    <3>2. CASE j = k
      <4>1. \A x, y \in 1..Len(p) : x < y => p[x] < p[y]
        BY <1>1, <1>2 DEF PendBy, p
      <4>2. outs'[j].pend = e
        BY <1>7, <1>12, <3>2
      <4>3. i1 \in 1..Len(e) /\ i2 \in 1..Len(e) /\ i1 + 1 < i2 + 1
        BY <1>3, <4>2
      <4>4. e[i1] = p[i1 + 1] /\ e[i2] = p[i2 + 1] /\ i1 + 1 \in 1..Len(p) /\ i2 + 1 \in 1..Len(p)
        BY <1>3, <4>3
      <4> QED BY <4>1, <4>2, <4>3, <4>4
    <3> QED BY <3>1, <3>2
  <2> QED BY <1>8, <1>10, <1>11, <1>12, <2>1, <2>2 DEF PendBy
<1>19. OpenReqs' \subseteq OpenReqs
  BY <1>12, <1>14 DEF OpenReqs
<1>20. h \notin OpenReqs'
  <2>1. ASSUME NEW j \in Outs, h \in Pending(j)'
        PROVE  FALSE
    <3>1. h \in Pending(j) /\ (j = k => h > h)
      BY <1>14, <2>1
    <3> QED BY <1>2, <1>4, <3>1
  <2> QED BY <1>4, <1>12, <2>1 DEF OpenReqs
<1>21. /\ Cardinality(OpenReqs') \in Nat /\ Cardinality(OpenReqs) \in Nat
       /\ Cardinality(ErrOuts) \in Nat /\ IsFiniteSet(ErrOuts)
       /\ Cardinality(OpenReqs') <= Cardinality(OpenReqs) - 1
  BY <1>3, <1>12, <1>19, <1>20, HeadCounts
<1>22. n + Cardinality(OpenReqs) + Cardinality(ErrOuts) <= r + broken
  BY <1>1 DEF CountAt
<1>23. CountAt'
  <2>1. ErrOuts' = ErrOuts
    BY <1>2, <1>7, <1>12 DEF ErrOuts
  <2> HIDE DEF n, r
  <2>2. (n + 1) + Cardinality(OpenReqs') + Cardinality(ErrOuts) <= r + broken
    BY <1>2, <1>21, <1>22
  <2> QED BY <1>8, <1>10, <1>11, <1>12, <2>1, <2>2 DEF CountAt
<1>24. WaitAt'
  <2>1. ASSUME forward.waits
        PROVE  /\ (n + 1) + 1 >= r
               /\ broken = 0 => /\ \A j \in Outs : \A q \in Pending(j)' : q = r
                                /\ \A i \in 1..(n + 1) : got[i] \in {0, i}
    <3>1. /\ n + 1 >= r
          /\ broken = 0 => /\ \A j \in Outs : \A q \in Pending(j) : q = r
                           /\ \A i \in 1..n : g[i] \in {0, i}
      BY <1>1, <2>1 DEF WaitAt
    <3>2. broken = 0 => \A j \in Outs : \A q \in Pending(j)' : q = r
      BY <1>14, <3>1
    <3>3. broken = 0 => h = r
      BY <1>3, <3>1
    <3> HIDE DEF n, g, h, r
    <3>4. (n + 1) + 1 >= r
      BY <1>2, <3>1
    <3>5. broken = 0 => n + 1 <= r
      BY <1>2, <1>21, <1>22
    <3>6. broken = 0 => h = n + 1
      BY <1>2, <3>1, <3>3, <3>5
    <3>7. broken = 0 => \A i \in 1..(n + 1) : got[i] \in {0, i}
      BY <1>16, <3>1, <3>6
    <3> QED BY <3>2, <3>4, <3>7
  <2> QED BY <1>8, <1>10, <1>11, <1>12, <2>1 DEF WaitAt
<1> QED BY <1>12, <1>13, <1>17, <1>18, <1>23, <1>24 DEF ForwardInv

(* The next request: one that waits is only sent when nothing is open. *)
LEMMA ForwardReads ==
  ASSUME ForwardAssumption, ForwardInv, ReadRequest
  PROVE  ForwardInv'
<1>1. /\ ForwardShape /\ LoopAt /\ PoolAt /\ GotBy /\ PendBy /\ CountAt /\ WaitAt
  BY DEF ForwardInv
<1> DEFINE g == loop.got
           n == Len(g)
           r == Requested
           asked == loop.asked
<1>2. /\ g \in Seq(Nat) /\ n \in Nat /\ r \in Nat /\ broken \in Nat /\ asked \in Seq(Nodes)
      /\ Len(outs) \in Nat /\ forward.reqs \in Nat /\ Outs = 1..Len(outs)
  BY <1>1, ForwardFacts
<1>3. /\ UNCHANGED <<forward, outs, pool, broken>> /\ loop.pc = "read" /\ r < forward.reqs
      /\ (forward.waits => n >= r)
  BY DEF ReadRequest
<1>4. PICK at \in Nodes : loop' = [loop EXCEPT !.pc = "check", !.asked = Append(@, at)]
  <2>1. forward.nodes \subseteq Nodes
    BY <1>1 DEF ForwardShape, ForwardAssumption
  <2> QED BY <2>1 DEF ReadRequest
<1> DEFINE e == Append(asked, at)
<1>5. /\ e \in Seq(Nodes) /\ Len(e) = r + 1 /\ \A i \in 1..r : e[i] = asked[i]
  BY <1>2, AppendProperties DEF Requested
<1>6. loop' = [loop EXCEPT !.pc = "check", !.asked = e]
  BY <1>4
<1>7. loop \in LoopRecs
  BY <1>1 DEF ForwardShape
<1> HIDE DEF e
<1>8. /\ loop' \in LoopRecs /\ loop'.pc = "check" /\ loop'.asked = e /\ loop'.got = g
  BY <1>5, <1>6, <1>7 DEF LoopRecs
<1>9. Requested' = r + 1
  BY <1>5, <1>8 DEF Requested
<1>10. ForwardShape' /\ Outs' = Outs
  BY <1>1, <1>3, <1>8 DEF ForwardShape, Outs
<1>11. ~Hand /\ Hand'
  BY <1>3, <1>8 DEF Hand
<1>12. LoopAt'
  <2>1. Len(outs) <= r
    BY <1>1, <1>2, <1>3 DEF LoopAt
  <2>2. r + 1 <= forward.reqs /\ Len(outs) + 1 <= r + 1
    BY <1>2, <1>3, <2>1
  <2> QED BY <1>3, <1>8, <1>9, <2>2 DEF LoopAt
<1>13. PoolAt'
  BY <1>1, <1>3, <1>10 DEF PoolAt
<1>14. \A j \in Outs : Pending(j)' = Pending(j)
  BY <1>3 DEF Pending
<1>15. GotBy'
  <2>1. /\ \A i \in 1..n : g[i] \in 0..r /\ (Hand => g[i] # r)
        /\ \A i, j \in 1..n : i < j /\ g[i] > 0 /\ g[j] > 0 =>
             /\ g[i] # g[j]
             /\ forward.hop /\ asked[g[i]] = asked[g[j]] => g[i] < g[j]
    BY <1>1 DEF GotBy
  <2> HIDE DEF g, n, r, asked
  <2>2. \A i \in 1..n : g[i] \in 0..(r + 1) /\ g[i] # r + 1
    BY <1>2, <2>1
  <2>3. \A i \in 1..n : g[i] > 0 => e[g[i]] = asked[g[i]]
    BY <1>2, <1>5, <2>1
  <2>4. \A i, j \in 1..n : i < j /\ g[i] > 0 /\ g[j] > 0 =>
             /\ g[i] # g[j]
             /\ forward.hop /\ e[g[i]] = e[g[j]] => g[i] < g[j]
    BY <2>1, <2>3
  <2> QED BY <1>3, <1>8, <1>9, <2>2, <2>4 DEF GotBy, n
<1>16. PendBy'
  <2>1. \A k \in Outs : \A q \in Pending(k) :
             /\ q \in 1..r /\ asked[q] = outs[k].at
             /\ \A i \in 1..n : g[i] # q
             /\ \A i \in 1..n : forward.hop /\ g[i] > 0 /\ asked[g[i]] = outs[k].at => g[i] < q
             /\ \A j \in Outs : q \in Pending(j) => j = k
    BY <1>1 DEF PendBy
  <2>2. \A i \in 1..n : g[i] > 0 => e[g[i]] = asked[g[i]]
    <3>1. \A i \in 1..n : g[i] \in 0..r
      BY <1>1 DEF GotBy
    <3> HIDE DEF g, n, r, asked
    <3> QED BY <1>2, <1>5, <3>1
  <2>3. \A k \in Outs : \A q \in Pending(k) :
             /\ q \in 1..(r + 1) /\ q # r + 1 /\ e[q] = outs[k].at
             /\ \A i \in 1..n : g[i] # q
             /\ \A i \in 1..n : forward.hop /\ g[i] > 0 /\ e[g[i]] = outs[k].at => g[i] < q
             /\ \A j \in Outs : q \in Pending(j) => j = k
    <3> HIDE DEF g, n, r, asked
    <3> QED BY <1>2, <1>5, <2>1, <2>2
  <2>4. \A k \in Outs : outs[k].pc = "copy" =>
          \A i, j \in 1..Len(outs[k].pend) : i < j => outs[k].pend[i] < outs[k].pend[j]
    BY <1>1 DEF PendBy
  <2> QED BY <1>3, <1>8, <1>9, <1>10, <1>14, <2>3, <2>4 DEF PendBy
<1>17. /\ IsFiniteSet(OpenReqs) /\ Cardinality(OpenReqs) \in Nat
       /\ IsFiniteSet(ErrOuts) /\ Cardinality(ErrOuts) \in Nat
       /\ IsFiniteSet(OpenReqs') /\ Cardinality(OpenReqs') \in Nat
  <2>1. 1 \in Int /\ r + 1 \in Int
    BY <1>2
  <2>2. IsFiniteSet(1..(r + 1))
    BY <2>1, FS_Interval
  <2>3. OpenReqs' \subseteq 1..(r + 1)
    BY <1>9 DEF OpenReqs
  <2>4. IsFiniteSet(OpenReqs')
    BY <2>2, <2>3, FS_Subset
  <2> QED BY <1>1, <2>4, CountFinite, FS_CardinalityType
<1>18. n + Cardinality(OpenReqs) + Cardinality(ErrOuts) <= r + broken
  BY <1>1 DEF CountAt
<1>19. CountAt'
  <2>1. OpenReqs' \subseteq OpenReqs \cup {r + 1}
    <3>1. ASSUME NEW q \in OpenReqs', q # r + 1
          PROVE  q \in OpenReqs
      <4>1. PICK k \in Outs : q \in Pending(k)
        BY <1>9, <1>10, <1>14, <3>1 DEF OpenReqs
      <4> QED BY <1>1, <4>1 DEF OpenReqs, PendBy
    <3> QED BY <3>1
  <2>2. r + 1 \notin OpenReqs
    BY <1>2 DEF OpenReqs
  <2>3. /\ IsFiniteSet(OpenReqs \cup {r + 1})
        /\ Cardinality(OpenReqs \cup {r + 1}) = Cardinality(OpenReqs) + 1
    BY <1>17, <2>2, FS_AddElement
  <2>4. Cardinality(OpenReqs') <= Cardinality(OpenReqs) + 1
    BY <2>1, <2>3, FS_Subset
  <2>5. ErrOuts' = ErrOuts
    BY <1>3, <1>10 DEF ErrOuts
  <2> HIDE DEF n, r
  <2>6. n + Cardinality(OpenReqs') + Cardinality(ErrOuts) <= (r + 1) + broken
    BY <1>2, <1>17, <1>18, <2>4
  <2> QED BY <1>3, <1>8, <1>9, <2>5, <2>6 DEF CountAt, n
<1>20. WaitAt'
  <2>1. ASSUME forward.waits
        PROVE  /\ n + 1 >= r + 1
               /\ broken = 0 => /\ \A j \in Outs : \A q \in Pending(j) : q = r + 1
                                /\ \A i \in 1..n : g[i] \in {0, i}
    <3>1. n >= r
      BY <1>3, <2>1
    <3>2. broken = 0 => \A i \in 1..n : g[i] \in {0, i}
      BY <1>1, <2>1 DEF WaitAt
    <3>3. broken = 0 => Cardinality(OpenReqs) = 0
      <4> HIDE DEF n, r
      <4> QED BY <1>2, <1>17, <1>18, <3>1
    <3>4. broken = 0 => OpenReqs = {}
      BY <1>17, <3>3, FS_EmptySet
    <3>5. \A j \in Outs : \A q \in Pending(j) : q \in OpenReqs
      BY <1>1 DEF OpenReqs, PendBy
    <3> HIDE DEF n, r
    <3> QED BY <1>2, <3>1, <3>2, <3>4, <3>5
  <2> QED BY <1>3, <1>8, <1>9, <1>10, <1>14, <2>1 DEF WaitAt
<1> QED BY <1>10, <1>12, <1>13, <1>15, <1>16, <1>19, <1>20 DEF ForwardInv

LEMMA CrashKeeps ==
  ASSUME ForwardAssumption, ForwardInv, Crash
  PROVE  ForwardInv'
<1>1. /\ ForwardShape /\ LoopAt /\ PoolAt
  BY DEF ForwardInv
<1>2. UNCHANGED <<forward, pool, broken>> /\ broken \in Nat /\ loop \in LoopRecs
  BY <1>1, LoopFields DEF Crash, ForwardShape
<1>3. /\ Len(outs) \in Nat /\ Outs = 1..Len(outs) /\ \A k \in Outs : outs[k] \in OutRecs
  BY <1>1, ForwardFacts
<1>4. loop' = [loop EXCEPT !.pc = "crashed", !.left = TRUE]
  BY DEF Crash
<1>5. /\ loop' \in LoopRecs /\ loop'.pc = "crashed" /\ loop'.asked = loop.asked
      /\ loop'.got = loop.got
  BY <1>2, <1>4 DEF LoopRecs
<1> DEFINE o(k) == [outs[k] EXCEPT !.near = FALSE, !.pc = "done"]
<1>6. \A k \in Outs : o(k) \in OutRecs /\ o(k).at = outs[k].at /\ o(k).pc = "done"
  BY <1>3 DEF OutRecs
<1>7. outs' = [k \in 1..Len(outs) |-> o(k)]
  BY <1>3 DEF Crash
<1> HIDE DEF o
<1>8. /\ outs' \in Seq(OutRecs) /\ Len(outs') = Len(outs) /\ \A k \in Outs : outs'[k] = o(k)
  BY <1>3, <1>6, <1>7
<1>9. Outs' = Outs
  BY <1>3, <1>8 DEF Outs
<1>10. ForwardShape'
  BY <1>1, <1>2, <1>5, <1>8, <1>9 DEF ForwardShape
<1>11. Requested' = Requested /\ Requested \in Nat
  BY <1>1, <1>5, ForwardFacts DEF Requested
<1>12. LoopAt'
  BY <1>1, <1>2, <1>3, <1>5, <1>8, <1>11 DEF LoopAt
<1>13. PoolAt'
  <2>1. \A k \in Outs' : outs'[k].pc = "done"
    BY <1>6, <1>8, <1>9
  <2>2. forward'.hop => \A j, k \in pool' : outs'[j].at = outs'[k].at => j = k
    BY <1>1, <1>2, <1>6, <1>8 DEF PoolAt, ForwardShape
  <2> QED BY <2>1, <2>2 DEF PoolAt
<1>14. ~Hand'
  BY <1>5 DEF Hand
<1>15. Shrunk
  BY <1>2, <1>5, <1>6, <1>8, <1>9, <1>14 DEF Shrunk
<1>16. ErrOuts' = {}
  BY <1>6, <1>8, <1>9 DEF ErrOuts
<1>17. ErrOuts' \subseteq ErrOuts
  BY <1>16
<1> QED BY <1>2, <1>5, <1>10, <1>12, <1>13, <1>15, <1>17, LoopMoves

LEMMA ClosePoolKeeps ==
  ASSUME ForwardAssumption, ForwardInv, ClosePool
  PROVE  ForwardInv'
<1>1. /\ ForwardShape /\ LoopAt /\ PoolAt
  BY DEF ForwardInv
<1>2. UNCHANGED <<forward, pool, broken>> /\ broken \in Nat /\ loop \in LoopRecs
  BY <1>1, LoopFields DEF ClosePool, ForwardShape
<1>3. /\ Len(outs) \in Nat /\ Outs = 1..Len(outs) /\ \A k \in Outs : outs[k] \in OutRecs
  BY <1>1, ForwardFacts
<1>4. loop' = [loop EXCEPT !.pc = "close"]
  BY DEF ClosePool
<1>5. /\ loop' \in LoopRecs /\ loop'.pc = "close" /\ loop'.asked = loop.asked
      /\ loop'.got = loop.got
  BY <1>2, <1>4 DEF LoopRecs
<1> DEFINE o(k) == IF k \in pool THEN [outs[k] EXCEPT !.near = FALSE] ELSE outs[k]
<1>6. \A k \in Outs : /\ o(k) \in OutRecs /\ o(k).at = outs[k].at /\ o(k).pc = outs[k].pc
                      /\ o(k).pend = outs[k].pend
  BY <1>3 DEF OutRecs
<1>7. outs' = [k \in 1..Len(outs) |-> o(k)]
  BY <1>3 DEF ClosePool
<1> HIDE DEF o
<1>8. /\ outs' \in Seq(OutRecs) /\ Len(outs') = Len(outs) /\ \A k \in Outs : outs'[k] = o(k)
  BY <1>3, <1>6, <1>7
<1>9. Outs' = Outs
  BY <1>3, <1>8 DEF Outs
<1>10. ForwardShape'
  BY <1>1, <1>2, <1>5, <1>8, <1>9 DEF ForwardShape
<1>11. Requested' = Requested /\ Requested \in Nat
  BY <1>1, <1>5, ForwardFacts DEF Requested
<1>12. LoopAt'
  <2>1. Len(outs) <= Requested
    BY <1>1, <1>3, <1>11 DEF LoopAt
  <2> QED BY <1>1, <1>2, <1>3, <1>5, <1>8, <1>11, <2>1 DEF LoopAt
<1>13. PoolAt'
  BY <1>1, <1>2, <1>6, <1>8, <1>9 DEF PoolAt, ForwardShape
<1>14. ~Hand'
  BY <1>5 DEF Hand
<1>15. Shrunk
  BY <1>2, <1>5, <1>6, <1>8, <1>9, <1>14 DEF Shrunk
<1>16. ErrOuts' \subseteq ErrOuts
  BY <1>6, <1>8, <1>9 DEF ErrOuts
<1> QED BY <1>2, <1>5, <1>10, <1>12, <1>13, <1>15, <1>16, LoopMoves

(* A new connection takes the place of what was stored for its node. *)
LEMMA DialKeeps ==
  ASSUME ForwardAssumption, ForwardInv, DialNode
  PROVE  ForwardInv'
<1>1. /\ ForwardShape /\ LoopAt /\ PoolAt
  BY DEF ForwardInv
<1> DEFINE k == Len(outs) + 1
           o == NewOut(Asked)
<1>2. UNCHANGED <<forward, broken>> /\ broken \in Nat /\ loop \in LoopRecs /\ loop.pc = "dial"
  BY <1>1, LoopFields DEF DialNode, ForwardShape
<1>3. /\ Len(outs) \in Nat /\ Outs = 1..Len(outs) /\ \A j \in Outs : outs[j] \in OutRecs
      /\ outs \in Seq(OutRecs) /\ Requested \in Nat
  BY <1>1, ForwardFacts DEF ForwardShape
<1>4. Len(outs) + 1 <= Requested /\ Asked \in Nodes
  BY <1>1, <1>2, <1>3, ForwardFacts DEF LoopAt
<1>5. /\ outs' = Append(outs, o) /\ loop' = [loop EXCEPT !.pc = "write", !.cc = k]
      /\ pool' = {j \in pool : ~forward.hop \/ outs[j].at # Asked} \cup {k}
  BY DEF DialNode
<1>6. /\ o \in OutRecs /\ o.at = Asked /\ o.pc = "copy" /\ o.pend = <<>>
  <2> DEFINE e == <<>>
             p == [at |-> Asked, far |-> "open", near |-> TRUE, pc |-> "copy", pend |-> e]
  <2>1. o = p
    BY DEF NewOut
  <2>2. e \in Seq(Nat) /\ e = <<>>
    OBVIOUS
  <2> HIDE DEF e, o
  <2>3. p \in OutRecs /\ p.at = Asked /\ p.pc = "copy" /\ p.pend = e
    BY <1>4, <2>2 DEF OutRecs
  <2> HIDE DEF p
  <2> QED BY <2>1, <2>2, <2>3
<1> HIDE DEF o
<1>7. /\ outs' \in Seq(OutRecs) /\ Len(outs') = k /\ outs'[k] = o
      /\ \A j \in 1..Len(outs) : outs'[j] = outs[j]
  BY <1>3, <1>5, <1>6, AppendProperties
<1>8. k \in Nat /\ Outs' = Outs \cup {k} /\ k \notin Outs
  BY <1>3, <1>7 DEF Outs
<1> HIDE DEF k
<1>9. /\ loop' \in LoopRecs /\ loop'.pc = "write" /\ loop'.asked = loop.asked /\ loop'.cc = k
      /\ loop'.got = loop.got
  BY <1>2, <1>5, <1>8 DEF LoopRecs
<1>10. Requested' = Requested /\ Asked' = Asked
  BY <1>9 DEF Requested, Asked
<1>11. pool \subseteq Outs /\ pool' \subseteq Outs'
  BY <1>1, <1>5, <1>8 DEF ForwardShape
<1>12. ForwardShape'
  BY <1>1, <1>2, <1>7, <1>9, <1>11 DEF ForwardShape
<1>13. LoopAt'
  <2>1. Len(outs') <= Requested
    BY <1>4, <1>7 DEF k
  <2> QED BY <1>1, <1>2, <1>6, <1>7, <1>8, <1>9, <1>10, <2>1, <1>3, <1>4 DEF LoopAt, k
<1>14. PoolAt'
  <2>1. ASSUME NEW j \in Outs', outs'[j].pc \in {"copy", "err", "remove"}
        PROVE  j \in pool'
    <3>1. CASE j = k
      BY <1>5, <3>1
    <3>2. CASE j \in Outs
      <4>1. j \in pool
        BY <1>1, <1>3, <1>7, <2>1, <3>2 DEF PoolAt
      <4>2. ~forward.hop \/ outs[j].at # Asked
        BY <1>1, <1>2, <4>1 DEF LoopAt
      <4> QED BY <1>5, <4>1, <4>2
    <3> QED BY <1>8, <2>1, <3>1, <3>2
  <2>2. ASSUME forward.hop, NEW i \in pool', NEW j \in pool', outs'[i].at = outs'[j].at
        PROVE  i = j
    <3>1. \A x \in pool' : x = k \/ (x \in pool /\ outs[x].at # Asked /\ outs'[x] = outs[x])
      BY <1>3, <1>5, <1>7, <1>11, <2>2
    <3>2. outs'[k].at = Asked
      BY <1>6, <1>7
    <3> QED BY <1>1, <2>2, <3>1, <3>2 DEF PoolAt
  <2> QED BY <1>2, <2>1, <2>2 DEF PoolAt
<1>15. Hand
  BY <1>2 DEF Hand
<1>16. Shrunk
  <2>1. ASSUME NEW j \in Outs'
        PROVE  \/ outs'[j].pc # "copy" \/ outs'[j].pend = <<>>
               \/ /\ j \in Outs /\ outs[j].pc = "copy" /\ outs'[j].at = outs[j].at
                  /\ outs'[j].pend = outs[j].pend
    <3>1. CASE j = k
      BY <1>6, <1>7, <3>1
    <3>2. CASE j \in Outs
      BY <1>3, <1>7, <3>2
    <3> QED BY <1>8, <2>1, <3>1, <3>2
  <2> QED BY <1>2, <1>9, <1>15, <2>1 DEF Shrunk
<1>17. ErrOuts' \subseteq ErrOuts
  BY <1>3, <1>6, <1>7, <1>8 DEF ErrOuts
<1> QED BY <1>2, <1>9, <1>12, <1>13, <1>14, <1>16, <1>17, LoopMoves

(* The request in hand waits at the node's end. *)
LEMMA ForwardWrites ==
  ASSUME ForwardAssumption, ForwardInv, WriteRequest
  PROVE  ForwardInv'
<1>1. /\ ForwardShape /\ LoopAt /\ PoolAt /\ GotBy /\ PendBy /\ CountAt /\ WaitAt
  BY DEF ForwardInv
<1> DEFINE g == loop.got
           n == Len(g)
           r == Requested
           asked == loop.asked
<1>2. /\ UNCHANGED <<forward, pool, broken>> /\ loop.pc = "write" /\ loop \in LoopRecs
      /\ broken \in Nat
  BY <1>1, LoopFields DEF WriteRequest, ForwardShape
<1>3. PICK k : k = loop.cc
  OBVIOUS
<1>4. k \in Outs /\ outs[k].at = Asked
  BY <1>1, <1>2, <1>3 DEF LoopAt
<1>5. outs' = IF AtEnd(k) THEN outs ELSE [outs EXCEPT ![k].pend = Append(@, r)]
  BY <1>3 DEF WriteRequest
<1>6. /\ g \in Seq(Nat) /\ n \in Nat /\ r \in Nat /\ Len(outs) \in Nat /\ Outs = 1..Len(outs)
      /\ outs \in Seq(OutRecs) /\ \A j \in Outs : outs[j] \in OutRecs /\ outs[j].pend \in Seq(Nat)
      /\ Asked = asked[r]
  BY <1>1, ForwardFacts DEF ForwardShape
<1>7. /\ loop' \in LoopRecs /\ loop'.asked = asked /\ loop'.got = g
      /\ loop'.pc = "body" /\ loop'.cc = loop.cc
  <2>1. loop' = [loop EXCEPT !.pc = "body"]
    BY DEF WriteRequest
  <2> QED BY <1>2, <2>1 DEF LoopRecs
<1>8. Hand /\ ~Hand' /\ r >= 1
  BY <1>1, <1>2, <1>7, HandAsked DEF Hand
<1>9. Requested' = r /\ Asked' = Asked
  BY <1>7 DEF Requested, Asked
<1>10. Len(outs) <= r /\ r <= forward.reqs
  BY <1>1, <1>2, <1>6 DEF LoopAt
<1>11. CASE AtEnd(k)
  <2>1. outs' = outs
    BY <1>5, <1>11
  <2>2. LoopAt'
    BY <1>2, <1>3, <1>4, <1>7, <1>9, <1>10, <1>6, <2>1 DEF LoopAt, Outs
  <2> QED BY <1>2, <1>7, <1>8, <2>1, <2>2, LoopSteps
<1>12. CASE ~AtEnd(k)
  <2> DEFINE p == outs[k].pend
             e == Append(p, r)
             o == [outs[k] EXCEPT !.pend = e]
  <2>1. outs' = [outs EXCEPT ![k] = o]
    BY <1>5, <1>6, <1>12
  <2>2. p \in Seq(Nat) /\ Len(p) \in Nat
    BY <1>4, <1>6
  <2>3. e \in Seq(Nat) /\ Len(e) = Len(p) + 1 /\ e[Len(p) + 1] = r /\ \A i \in 1..Len(p) : e[i] = p[i]
    BY <1>6, <2>2, AppendProperties
  <2> HIDE DEF e
  <2>4. o \in OutRecs /\ o.at = outs[k].at /\ o.pc = outs[k].pc /\ o.pend = e
    BY <1>4, <1>6, <2>3 DEF OutRecs
  <2> HIDE DEF o
  <2>5. /\ outs' \in Seq(OutRecs) /\ Len(outs') = Len(outs) /\ Outs' = Outs /\ outs'[k] = o
        /\ \A j \in Outs : j # k => outs'[j] = outs[j]
    BY <1>1, <1>4, <2>1, <2>4, OutSet
  <2>6. \A j \in Outs : outs'[j].at = outs[j].at /\ outs'[j].pc = outs[j].pc
    BY <2>4, <2>5
  <2>7. ForwardShape'
    BY <1>1, <1>2, <1>7, <2>5 DEF ForwardShape
  <2>8. LoopAt'
    BY <1>2, <1>3, <1>4, <1>6, <1>7, <1>9, <1>10, <2>5, <2>6 DEF LoopAt
  <2>9. PoolAt'
    BY <1>1, <1>2, <2>5, <2>6 DEF PoolAt, ForwardShape
  <2> DEFINE d == Len(p)
  <2>10. \A i \in 1..(d + 1) : (i \in 1..d /\ e[i] = p[i]) \/ (i = d + 1 /\ e[i] = r)
    <3> HIDE DEF p
    <3> QED BY <2>2, <2>3
  <2>11. \A j \in Outs : \A q \in Pending(j)' : q \in Pending(j) \/ (j = k /\ q = r /\ outs[k].pc = "copy")
    <3> SUFFICES ASSUME NEW j \in Outs, NEW q \in Pending(j)'
                 PROVE  q \in Pending(j) \/ (j = k /\ q = r /\ outs[k].pc = "copy")
      OBVIOUS
    <3>1. CASE j # k
      BY <2>5, <3>1 DEF Pending
    <3>2. CASE j = k
      <4>1. outs[k].pc = "copy" /\ q \in {e[i] : i \in 1..Len(e)}
        BY <2>4, <2>5, <3>2 DEF Pending
      <4>2. PICK i \in 1..(d + 1) : q = e[i]
        BY <2>3, <4>1
      <4>3. CASE i \in 1..d /\ e[i] = p[i]
        BY <3>2, <4>1, <4>2, <4>3 DEF Pending
      <4>4. CASE i = d + 1 /\ e[i] = r
        BY <3>2, <4>1, <4>2, <4>4
      <4> QED BY <2>10, <4>3, <4>4
    <3> QED BY <3>1, <3>2
  <2>12. /\ \A i \in 1..n : g[i] \in 0..r /\ g[i] # r
         /\ \A i, j \in 1..n : i < j /\ g[i] > 0 /\ g[j] > 0 =>
              /\ g[i] # g[j]
              /\ forward.hop /\ asked[g[i]] = asked[g[j]] => g[i] < g[j]
    BY <1>1, <1>8 DEF GotBy
  <2>13. GotBy'
    BY <1>2, <1>7, <1>8, <1>9, <2>12 DEF GotBy
  <2>14. \A j \in Outs : \A q \in Pending(j) :
           /\ q \in 1..r /\ q # r /\ asked[q] = outs[j].at
           /\ \A i \in 1..n : g[i] # q
           /\ \A i \in 1..n : forward.hop /\ g[i] > 0 /\ asked[g[i]] = outs[j].at => g[i] < q
           /\ \A j2 \in Outs : q \in Pending(j2) => j2 = j
    BY <1>1, <1>8 DEF PendBy
  <2>15. \A j \in Outs : \A q \in Pending(j)' :
           /\ q \in 1..r /\ asked[q] = outs'[j].at
           /\ \A i \in 1..n : g[i] # q
           /\ \A i \in 1..n : forward.hop /\ g[i] > 0 /\ asked[g[i]] = outs'[j].at => g[i] < q
           /\ \A j2 \in Outs : q \in Pending(j2)' => j2 = j
    <3> SUFFICES ASSUME NEW j \in Outs, NEW q \in Pending(j)'
                 PROVE  /\ q \in 1..r /\ asked[q] = outs'[j].at
                        /\ \A i \in 1..n : g[i] # q
                        /\ \A i \in 1..n :
                             forward.hop /\ g[i] > 0 /\ asked[g[i]] = outs'[j].at => g[i] < q
                        /\ \A j2 \in Outs : q \in Pending(j2)' => j2 = j
      OBVIOUS
    <3>1. CASE q \in Pending(j)
      <4>1. /\ q \in 1..r /\ q # r /\ asked[q] = outs[j].at
            /\ \A i \in 1..n : g[i] # q
            /\ \A i \in 1..n : forward.hop /\ g[i] > 0 /\ asked[g[i]] = outs[j].at => g[i] < q
            /\ \A j2 \in Outs : q \in Pending(j2) => j2 = j
        BY <2>14, <3>1
      <4>2. \A j2 \in Outs : q \in Pending(j2)' => j2 = j
        BY <2>11, <4>1
      <4>3. outs'[j].at = outs[j].at
        BY <2>6
      <4> QED BY <4>1, <4>2, <4>3
    <3>2. CASE j = k /\ q = r
      <4>1. \A j2 \in Outs : r \notin Pending(j2)
        BY <2>14
      <4>2. \A j2 \in Outs : q \in Pending(j2)' => j2 = j
        BY <2>11, <3>2, <4>1
      <4>3. asked[r] = outs'[k].at /\ r \in 1..r
        BY <1>4, <1>6, <1>8, <2>6
      <4>4. \A i \in 1..n : g[i] # r /\ g[i] < r
        <5> HIDE DEF g, n, r
        <5> QED BY <1>6, <2>12
      <4> QED BY <3>2, <4>2, <4>3, <4>4
    <3> QED BY <2>11, <3>1, <3>2
  <2>16. \A j \in Outs : outs'[j].pc = "copy" =>
           \A i1, i2 \in 1..Len(outs'[j].pend) : i1 < i2 => outs'[j].pend[i1] < outs'[j].pend[i2]
    <3> SUFFICES ASSUME NEW j \in Outs, outs'[j].pc = "copy",
                        NEW i1 \in 1..Len(outs'[j].pend), NEW i2 \in 1..Len(outs'[j].pend), i1 < i2
                 PROVE  outs'[j].pend[i1] < outs'[j].pend[i2]
      OBVIOUS
    <3>1. CASE j # k
      BY <1>1, <2>5, <3>1 DEF PendBy
    <3>2. CASE j = k
      <4>1. outs[k].pc = "copy" /\ outs'[j].pend = e
        BY <2>4, <2>5, <3>2
      <4>2. \A x, y \in 1..d : x < y => p[x] < p[y]
        BY <1>1, <1>4, <4>1 DEF PendBy
      <4>3. \A x \in 1..d : p[x] \in Pending(k)
        BY <4>1 DEF Pending
      <4>4. \A x \in 1..d : p[x] \in 1..r /\ p[x] # r
        BY <1>4, <2>14, <4>3
      <4>5. i1 \in 1..(d + 1) /\ i2 \in 1..(d + 1)
        BY <2>3, <4>1
      <4>6. d \in Nat
        BY <2>2
      <4> HIDE DEF p, d, r
      <4>7. i1 \in 1..d /\ e[i1] = p[i1]
        BY <2>10, <4>5, <4>6
      <4>8. CASE i2 \in 1..d /\ e[i2] = p[i2]
        BY <4>1, <4>2, <4>7, <4>8
      <4>9. CASE i2 = d + 1 /\ e[i2] = r
        BY <1>6, <4>1, <4>4, <4>7, <4>9
      <4> QED BY <2>10, <4>5, <4>8, <4>9
    <3> QED BY <3>1, <3>2
  <2>17. PendBy'
    BY <1>2, <1>7, <1>8, <1>9, <2>5, <2>15, <2>16 DEF PendBy
  <2>18. OpenReqs' \subseteq OpenReqs
    BY <1>8, <1>9, <2>5, <2>11 DEF OpenReqs
  <2>19. ErrOuts' \subseteq ErrOuts
    BY <2>5, <2>6 DEF ErrOuts
  <2>20. CountAt'
    BY <1>1, <1>2, <1>7, <1>9, <2>7, <2>18, <2>19, CountShrinks
  <2>21. WaitAt'
    <3>1. ASSUME forward.waits
          PROVE  /\ n + 1 >= r
                 /\ broken = 0 => /\ \A j \in Outs : \A q \in Pending(j)' : q = r
                                  /\ \A i \in 1..n : g[i] \in {0, i}
      BY <1>1, <2>11, <3>1 DEF WaitAt
    <3> QED BY <1>2, <1>7, <1>9, <2>5, <3>1 DEF WaitAt
  <2> QED BY <2>7, <2>8, <2>9, <2>13, <2>17, <2>20, <2>21 DEF ForwardInv
<1> QED BY <1>11, <1>12

LEMMA ForwardStart ==
  ASSUME ForwardAssumption, ForwardInit
  PROVE  ForwardInv
<1> DEFINE e == <<>>
           x == [pc |-> "read", asked |-> e, cc |-> 0, got |-> e, left |-> FALSE]
<1>1. forward \in Forwards /\ loop = x /\ outs = e /\ pool = {} /\ broken = 0
  BY DEF ForwardInit
<1>2. e \in Seq(Nodes) /\ e \in Seq(Nat) /\ e \in Seq(OutRecs) /\ Len(e) = 0 /\ DOMAIN e = {}
  OBVIOUS
<1> HIDE DEF e
<1>3. /\ loop \in LoopRecs /\ loop.pc = "read" /\ loop.asked = e /\ loop.got = e
  BY <1>1, <1>2 DEF LoopRecs
<1>4. Outs = {} /\ Requested = 0 /\ Len(loop.got) = 0 /\ Len(outs) = 0
  BY <1>1, <1>2, <1>3 DEF Outs, Requested
<1>5. ForwardShape
  BY <1>1, <1>2, <1>3 DEF ForwardShape
<1>6. forward.reqs \in Nat
  BY <1>5, ForwardFacts
<1>7. LoopAt
  BY <1>1, <1>3, <1>4, <1>6 DEF LoopAt
<1>8. PoolAt /\ PendBy /\ GotBy
  BY <1>1, <1>3, <1>4 DEF PoolAt, PendBy, GotBy
<1>9. OpenReqs = {} /\ ErrOuts = {}
  BY <1>4 DEF OpenReqs, ErrOuts
<1>10. CountAt
  BY <1>1, <1>4, <1>9, FS_EmptySet DEF CountAt
<1>11. WaitAt
  BY <1>4 DEF WaitAt
<1> QED BY <1>5, <1>7, <1>8, <1>10, <1>11 DEF ForwardInv

LEMMA ForwardStep ==
  ASSUME ForwardAssumption, ForwardInv, ForwardNext
  PROVE  ForwardInv'
<1>1. CASE Looping
  BY <1>1, ForwardReads, PassKeeps, CrashKeeps, FromPoolKeeps, DialKeeps, ForwardWrites,
     WriteDoneKeeps, BreaksOffKeeps, EndKeeps, ClosePoolKeeps DEF Looping
<1>2. CASE VisitorLeaves
  BY <1>2, EndKeeps
<1>3. ASSUME NEW k \in Outs, Copying(k) \/ NodeEnds(k)
      PROVE  ForwardInv'
  BY <1>3, AnswerLost, ForwardAnswers, OutEnds, BreakKeeps, ErrorKeeps, RemoveKeeps DEF Copying
<1> QED BY <1>1, <1>2, <1>3 DEF ForwardNext

LEMMA ForwardKept ==
  ASSUME ForwardAssumption, ForwardInv, UNCHANGED forwardVars
  PROVE  ForwardInv'
<1>1. /\ forward' = forward /\ loop' = loop /\ outs' = outs /\ pool' = pool /\ broken' = broken
  BY DEF forwardVars
<1>2. loop' \in LoopRecs /\ LoopAt' /\ (Hand' => Hand)
  BY <1>1 DEF ForwardInv, ForwardShape, LoopAt, Hand, Outs, Requested, Asked
<1> QED BY <1>1, <1>2, LoopSteps

LEMMA ForwardInvMeans ==
  ASSUME ForwardAssumption, ForwardInv
  PROVE  ForwardedInOrder
<1>1. /\ ForwardShape /\ LoopAt /\ PoolAt /\ GotBy /\ PendBy /\ CountAt /\ WaitAt
  BY DEF ForwardInv
<1>2. /\ Len(outs) \in Nat /\ Outs = 1..Len(outs) /\ Requested \in Nat /\ Len(loop.got) \in Nat
      /\ broken \in Nat /\ \A k \in Outs : outs[k] \in OutRecs
  BY <1>1, ForwardFacts
<1>3. ForwardTypeOK
  <2>1. Len(outs) <= Requested
    BY <1>1, <1>2 DEF LoopAt
  <2>2. \A k \in Outs : outs[k].at \in Nodes
    BY <1>2, OutFields
  <2> QED BY <1>1, <2>1, <2>2 DEF ForwardTypeOK, ForwardShape, LoopAt
<1>4. Len(loop.got) <= Requested + broken
  <2>1. /\ Cardinality(OpenReqs) \in Nat /\ Cardinality(ErrOuts) \in Nat
    BY <1>1, CountFinite
  <2>2. Len(loop.got) + Cardinality(OpenReqs) + Cardinality(ErrOuts) <= Requested + broken
    BY <1>1 DEF CountAt
  <2> QED BY <1>2, <2>1, <2>2
<1>5. \A k \in Outs : outs[k].pc \in {"copy", "err", "remove"} => k \in pool
  BY <1>1 DEF PoolAt
<1>6. \A i, j \in 1..Len(loop.got) : i < j /\ loop.got[i] > 0 /\ loop.got[j] > 0 =>
       /\ loop.got[i] # loop.got[j]
       /\ forward.hop /\ loop.asked[loop.got[i]] = loop.asked[loop.got[j]] =>
            loop.got[i] < loop.got[j]
  BY <1>1 DEF GotBy
<1>7. forward.waits /\ broken = 0 => \A i \in 1..Len(loop.got) : loop.got[i] \in {0, i}
  BY <1>1 DEF WaitAt
<1> QED BY <1>3, <1>4, <1>5, <1>6, <1>7 DEF ForwardedInOrder

----------------------------------------------------------------------------
(* The two together, one of them in each behaviour. *)

LEMMA HttpInvariant == HttpSpec => [](TunnelInv /\ ForwardInv)
<1>1. HttpInit => TunnelInv /\ ForwardInv
  BY TunnelStart, ForwardStart, RelayTunnelAssumption, ForwardAssumption DEF HttpInit
<1>2. TunnelInv /\ ForwardInv /\ [HttpNext]_<<tunnelVars, forwardVars, tunnels>>
        => TunnelInv' /\ ForwardInv'
  <2>1. ASSUME TunnelInv, ForwardInv, HttpNext
        PROVE  TunnelInv' /\ ForwardInv'
    <3>1. CASE TunnelNext /\ UNCHANGED forwardVars
      BY <2>1, <3>1, TunnelStep, ForwardKept, RelayTunnelAssumption, ForwardAssumption
    <3>2. CASE ForwardNext /\ UNCHANGED tunnelVars
      BY <2>1, <3>2, TunnelKept, ForwardStep, RelayTunnelAssumption, ForwardAssumption
    <3> QED BY <2>1, <3>1, <3>2 DEF HttpNext
  <2>2. ASSUME TunnelInv, ForwardInv, UNCHANGED <<tunnelVars, forwardVars, tunnels>>
        PROVE  TunnelInv' /\ ForwardInv'
    BY <2>2, TunnelKept, ForwardKept, RelayTunnelAssumption, ForwardAssumption
  <2> QED BY <2>1, <2>2
<1> QED BY <1>1, <1>2, PTL DEF HttpSpec

(***************************************************************************)
(* getTunnelConn gives up only when no connector of the tunnel opens a     *)
(* stream, unless another visitor or the tunnel's ends took a step since   *)
(* the attempts began (LiveIsFound): in three attempts the turn comes to   *)
(* each of up to three connectors, whatever the number it starts from.     *)
(***************************************************************************)
THEOREM TunnelLiveIsFound == HttpSpec => []LiveIsFound
<1>1. TunnelInv => LiveIsFound
  BY TunnelInvMeans, RelayTunnelAssumption
<1> QED BY <1>1, HttpInvariant, PTL

(***************************************************************************)
(* What a visitor is sent fits its requests: of each stream and each node  *)
(* the answers come once and in the order of the requests, and there are   *)
(* no more than requests and failures (handleHTTP of the tunnels and of    *)
(* the forward handlers).                                                  *)
(***************************************************************************)
THEOREM TunnelAnswersFit == HttpSpec => []AnswersFitRequests
<1>1. TunnelInv /\ ForwardInv => AnswersFitRequests
  BY TunnelInvMeans, ForwardInvMeans, RelayTunnelAssumption, ForwardAssumption
     DEF AnswersFitRequests
<1> QED BY <1>1, HttpInvariant, PTL
=============================================================================
